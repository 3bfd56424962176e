-------------------------- MODULE ConversationProofs --------------------------
(***************************************************************************)
(* Theorems of ChatConversation, for any number of turns, sessions and     *)
(* incidents, and of SessionMemory, for any number of messages.            *)
(***************************************************************************)
EXTENDS ChatConversation, SessionMemory, SequenceTheorems, FiniteSetTheorems, TLAPS

Saved == [turn : Turns, role : Roles]
Entries == [turn : Turns, role : Roles, text : SUBSET Turns, ids : Turns \union {None}]

TurnRecords ==
    [at : Places, mode : Modes, route : Routes, session : Sessions \union {None},
     seen : SUBSET Turns, excused : SUBSET Turns, context : (SUBSET Saved) \union {None}]

ChatTypeOK ==
    /\ messages \in Seq(Entries)
    /\ sessionId \in Sessions /\ stream \in Turns \union {None} /\ index \in Nat
    /\ load = None \/ load \in [session : Sessions, list : Seq(Entries)]
    /\ turn \in [Turns -> TurnRecords]
    /\ wire \in [Turns -> Seq(Events)]
    /\ history \in [Sessions -> Seq(Saved)]
    /\ {inference, judged, received, replaced, lost} \subseteq SUBSET Turns
    /\ hijacked \in BOOLEAN

(* Whether the inference of the turn is recorded is settled.               *)
SettledAs(record) ==
    record.at = "ended" \/ (record.mode = "plain" /\ record.at \in {"question", "reply"})
Settled(t) == SettledAs(turn[t])

Both(t) == {Message(t, role) : role \in Roles}
Kept(t) == Both(t) \subseteq ToSet(history[SessionOf(t)])

(* The answer is on its way to the tab or there; once its route has ended,  *)
(* it is saved with its question.                                          *)
Delivered(t) == Settled(t) /\ (At(t, "ended") /\ t \notin lost => Kept(t))

ContextOK(record) ==
    record.context # None =>
        \A w \in (record.seen \ record.excused) \ lost : Both(w) \subseteq record.context

TurnOK(t) ==
    /\ At(t, "new") => turn[t] = Unsent
    /\ ~At(t, "new") => SessionOf(t) \in Sessions
    /\ At(t, "respond") => turn[t].mode = "plain"
    /\ At(t, "finish") => turn[t].mode = "stream"
    /\ At(t, "reply") /\ t \notin lost => Message(t, "question") \in ToSet(history[SessionOf(t)])
    /\ At(t, "finish") /\ t \notin lost => Kept(t)
    /\ \A w \in turn[t].seen : w \in received /\ SessionOf(w) = SessionOf(t)
    /\ ContextOK(turn[t])

SavedOK(s) ==
    \A i \in DOMAIN history[s] :
        LET m == history[s][i] IN
        /\ SessionOf(m.turn) = s
        /\ turn[m.turn].at \in {"reply", "finish", "ended"}
        /\ m.role = "answer" => turn[m.turn].at \in {"finish", "ended"}

WireOK(t) ==
    \A k \in DOMAIN wire[t] :
        /\ wire[t][k] \in {"done", "response", "degraded"} => Settled(t)
        /\ wire[t][k] \in {"done", "response"} => Delivered(t)

EntryOK(entry) == entry.ids # None => Settled(entry.ids)

(* A history on its way to the tab is of one session and without ids.       *)
LoadOK ==
    load # None =>
        \A i \in DOMAIN load.list :
            /\ load.list[i].ids = None
            /\ load.list[i].text = {load.list[i].turn}
            /\ SessionOf(load.list[i].turn) = load.session

WholeIn(t, saved, place) ==
    LET SavedAs(role) == {i \in DOMAIN saved : saved[i] = Message(t, role)} IN
    /\ \A i \in SavedAs("answer") : \E j \in SavedAs("question") : j < i
    /\ SavedAs("question") # {} /\ SavedAs("answer") = {} => place = "reply"

Whole(t) ==
    t \notin lost /\ SessionOf(t) # None => WholeIn(t, history[SessionOf(t)], turn[t].at)

(* The tab waits for a turn of the session it shows, or of a replaced one.  *)
Waits ==
    stream # None => /\ SessionOf(stream) \in Sessions
                     /\ stream \in replaced \/ SessionOf(stream) = sessionId

ChatInv ==
    /\ ChatTypeOK
    /\ \A t \in Turns : TurnOK(t) /\ WireOK(t) /\ Whole(t)
    /\ \A s \in Sessions : SavedOK(s)
    /\ \A t \in received : Delivered(t)
    /\ \A t \in judged : Settled(t) /\ t \notin inference
    /\ \A i \in DOMAIN messages : EntryOK(messages[i])
    /\ LoadOK
    /\ Waits
    /\ SessionIsShown

(* The places of a route from its first save on.                           *)
Past == {"question", "reply", "finish", "ended"}

(* What Redis has of a session: questions whose save has begun, once each.  *)
RedisOK(s) ==
    /\ IsInjective(inRedis[s])
    /\ \A i \in DOMAIN inRedis[s] :
         LET m == inRedis[s][i] IN
         /\ m.role = "question" /\ SessionOf(m.turn) = s
         /\ turn[m.turn].at \in Past
         /\ At(m.turn, "question") => m.turn \in begun

(* The two stores.  The first save moves a process to SQLite, so nothing is *)
(* there before the first process has moved, and a question that was saved *)
(* was saved in a process that has.                                        *)
StoresInv ==
    /\ inRedis \in [Sessions -> Seq(Saved)]
    /\ memory \in Stores /\ begun \subseteq Turns
    /\ \A t \in begun : At(t, "question")
    /\ \A t \in Turns : turn[t].at \in {"reply", "finish"} => memory = "sqlite"
    /\ memory = "redis" => \A s \in Sessions : history[s] = <<>>
    /\ \A s \in Sessions : RedisOK(s) /\ IsInjective(history[s])

ConversationInv == ChatInv /\ StoresInv

-----------------------------------------------------------------------------
LEMMA ChatBegins == Init => ChatInv
<1> SUFFICES ASSUME Init PROVE ChatInv OBVIOUS
<1> USE DEF Init
<1>1. Unsent \in TurnRecords BY DEF Unsent, TurnRecords, Places, Modes, Routes
<1>2. ChatTypeOK
  <2>1. messages \in Seq(Entries) BY EmptySeq
  <2>2. wire \in [Turns -> Seq(Events)] BY EmptySeq
  <2>3. history \in [Sessions -> Seq(Saved)] BY EmptySeq
  <2>4. sessionId \in Sessions BY ConversationAssumption DEF ConversationAssumption
  <2>5. hijacked \in BOOLEAN OBVIOUS
  <2> QED BY <1>1, <2>1, <2>2, <2>3, <2>4, <2>5 DEF ChatTypeOK
<1>3. \A t \in Turns : turn[t] = Unsent /\ wire[t] = <<>> OBVIOUS
<1>4. \A t \in Turns : TurnOK(t) /\ WireOK(t) /\ Whole(t)
  <2>1. Unsent.at = "new" /\ Unsent.seen = {} /\ Unsent.context = None /\ Unsent.session = None
        BY DEF Unsent
  <2> QED BY <1>3, <2>1 DEF TurnOK, WireOK, Whole, ContextOK, At, SessionOf
<1>5. \A s \in Sessions : SavedOK(s) BY DEF SavedOK
<1> QED BY <1>2, <1>4, <1>5 DEF ChatInv, LoadOK, SessionIsShown, Waits

-----------------------------------------------------------------------------
LEMMA NoneIsApart == None \notin Turns /\ None \notin Sessions
BY ConversationAssumption DEF ConversationAssumption, Turns

(* The lists the tab knows are typed.                                      *)
LEMMA ListsAreTyped ==
    ASSUME ChatTypeOK
    PROVE  /\ \A i \in DOMAIN messages :
                /\ messages[i] \in Entries
                /\ messages[i].turn \in Turns /\ messages[i].text \subseteq Turns
                /\ messages[i].ids \in Turns \union {None}
           /\ load # None => \A i \in DOMAIN load.list : load.list[i].turn \in Turns
<1>1. \A i \in DOMAIN messages : messages[i] \in Entries BY DEF ChatTypeOK
<1>2. load # None => \A i \in DOMAIN load.list : load.list[i] \in Entries
  <2> SUFFICES ASSUME load # None, NEW i \in DOMAIN load.list PROVE load.list[i] \in Entries
      OBVIOUS
  <2>1. load.list \in Seq(Entries) BY DEF ChatTypeOK
  <2> QED BY <2>1
<1> QED BY <1>1, <1>2 DEF Entries

(* What is appended to a list leaves the rest of it in place.              *)
LEMMA ListGrows ==
    ASSUME NEW S, NEW list \in Seq(S), NEW more \in Seq(S)
    PROVE  LET both == list \o more IN
           /\ both \in Seq(S) /\ DOMAIN list \subseteq DOMAIN both
           /\ \A i \in DOMAIN list : both[i] = list[i]
           /\ \A i \in DOMAIN both \ DOMAIN list : both[i] \in ToSet(more)
           /\ ToSet(list) \subseteq ToSet(both) /\ ToSet(more) \subseteq ToSet(both)
           /\ ToSet(both) \subseteq ToSet(list) \union ToSet(more)
<1> DEFINE both == list \o more
<1>1. /\ both \in Seq(S) /\ Len(list) \in Nat /\ Len(more) \in Nat
      /\ DOMAIN both = 1..(Len(list) + Len(more))
      /\ DOMAIN list = 1..Len(list) /\ DOMAIN more = 1..Len(more)
      /\ \A i \in 1..Len(list) : both[i] = list[i]
      /\ \A i \in 1..(Len(list) + Len(more)) : i > Len(list) => both[i] = more[i - Len(list)]
    OBVIOUS
<1> HIDE DEF both
<1>2. \A i \in DOMAIN both \ DOMAIN list :
          i - Len(list) \in DOMAIN more /\ both[i] = more[i - Len(list)]
    BY <1>1
<1>3. \A i \in DOMAIN more :
          Len(list) + i \in DOMAIN both /\ both[Len(list) + i] = more[i]
  <2> SUFFICES ASSUME NEW i \in DOMAIN more
               PROVE  Len(list) + i \in DOMAIN both /\ both[Len(list) + i] = more[i]
      OBVIOUS
  <2>1. i \in 1..Len(more) /\ Len(list) + i \in 1..(Len(list) + Len(more)) /\ Len(list) + i > Len(list)
        /\ (Len(list) + i) - Len(list) = i
        BY <1>1
  <2> QED BY <1>1, <2>1
<1>4. ToSet(more) \subseteq ToSet(both) BY <1>3 DEF ToSet
<1>5. ToSet(list) \subseteq ToSet(both)
  <2>1. \A i \in DOMAIN list : i \in DOMAIN both /\ both[i] = list[i] BY <1>1
  <2> QED BY <2>1 DEF ToSet
<1>6. \A i \in DOMAIN both \ DOMAIN list : both[i] \in ToSet(more) BY <1>2 DEF ToSet
<1>7. ToSet(both) \subseteq ToSet(list) \union ToSet(more)
  <2> SUFFICES ASSUME NEW i \in DOMAIN both PROVE both[i] \in ToSet(list) \union ToSet(more)
      BY DEF ToSet
  <2>1. CASE i \in DOMAIN list BY <1>1, <2>1 DEF ToSet
  <2>2. CASE i \notin DOMAIN list BY <1>6, <2>2
  <2> QED BY <2>1, <2>2
<1>8. DOMAIN list \subseteq DOMAIN both BY <1>1
<1> QED BY <1>1, <1>4, <1>5, <1>6, <1>7, <1>8 DEF both

(* A route saves a message in the history of its session.                  *)
LEMMA HistoryGrows ==
    ASSUME ChatTypeOK, NEW t \in Turns, SessionOf(t) \in Sessions, NEW role \in Roles, Insert(t, role)
    PROVE  /\ history' \in [Sessions -> Seq(Saved)]
           /\ \A s \in Sessions : ToSet(history[s]) \subseteq ToSet(history'[s])
           /\ \A s \in Sessions \ {SessionOf(t)} : history'[s] = history[s]
           /\ LET saved == history[SessionOf(t)]
                  more == history'[SessionOf(t)]
                  n == Len(saved) + 1
              IN /\ DOMAIN more = DOMAIN saved \union {n}
                 /\ n \notin DOMAIN saved /\ \A i \in DOMAIN saved : i < n
                 /\ \A i \in DOMAIN saved : more[i] = saved[i]
                 /\ more[n] = Message(t, role)
                 /\ Message(t, role) \in ToSet(more)
<1> DEFINE saved == history[SessionOf(t)]
           more == Append(saved, Message(t, role))
           n == Len(saved) + 1
<1>1. /\ history' = [history EXCEPT ![SessionOf(t)] = more]
      /\ history \in [Sessions -> Seq(Saved)] /\ Message(t, role) \in Saved
    BY DEF Insert, ChatTypeOK, Message, Saved
<1>2. saved \in Seq(Saved) BY <1>1
<1> HIDE DEF saved
<1>3. /\ more \in Seq(Saved) /\ DOMAIN more = DOMAIN saved \union {n}
      /\ n \notin DOMAIN saved /\ \A i \in DOMAIN saved : i < n
      /\ \A i \in DOMAIN saved : more[i] = saved[i]
      /\ more[n] = Message(t, role)
    BY <1>1, <1>2
<1> HIDE DEF more, n
<1>4. ToSet(saved) \subseteq ToSet(more) /\ Message(t, role) \in ToSet(more)
    BY <1>3 DEF ToSet
<1>5. /\ history' \in [Sessions -> Seq(Saved)] /\ history'[SessionOf(t)] = more
      /\ \A s \in Sessions \ {SessionOf(t)} : history'[s] = history[s]
    BY <1>1, <1>3
<1> QED BY <1>3, <1>4, <1>5 DEF saved, n

-----------------------------------------------------------------------------
(* One step of the route of turn t: its record becomes next, it may send    *)
(* events, save a message or capture its inference, and it may be lost.    *)
Sends(sent, events) == \E k \in DOMAIN sent : sent[k] \in events

Quiet(t, next, sent) ==
    /\ history' = history
    /\ next.at \in {"reply", "finish"} => t \in lost'
    /\ turn[t].at \in {"reply", "finish"} => next.at \in {"finish", "ended"}
    /\ At(t, "reply") => t \in lost'
    /\ next.at = "ended" /\ t \notin lost' /\ (Settled(t) \/ Sends(sent, {"done", "response"}))
           => Kept(t)

Saves(t, next, sent) ==
    /\ ~Sends(sent, {"done", "response"})
    /\ \/ At(t, "question") /\ next.at = "reply" /\ Insert(t, "question")
       \/ At(t, "reply") /\ next.at \in {"finish", "ended"} /\ Insert(t, "answer")

RouteStep(t, next, sent) ==
    /\ Running(t) /\ next \in TurnRecords /\ sent \in Seq(Events)
    /\ turn' = [turn EXCEPT ![t] = next]
    /\ next.mode = turn[t].mode /\ next.session = turn[t].session /\ next.at # "new"
    /\ next.at = "respond" => next.mode = "plain"
    /\ next.at = "finish" => next.mode = "stream"
    /\ next.seen \subseteq turn[t].seen /\ ContextOK(next)
    /\ wire' \in {wire, [wire EXCEPT ![t] = @ \o sent]}
    /\ Sends(sent, {"done", "response", "degraded"}) => SettledAs(next)
    /\ lost' \in {lost, lost \union {t}}
    /\ inference' \in {inference, inference \union {t}}
    /\ Settled(t) => SettledAs(next) /\ inference' = inference
    /\ Quiet(t, next, sent) \/ Saves(t, next, sent)
    /\ UNCHANGED <<tab, load, judged, received, replaced, hijacked>>

LEMMA RouteMoves ==
    ASSUME ChatInv, NEW t \in Turns, NEW next, NEW sent, RouteStep(t, next, sent)
    PROVE  /\ turn' \in [Turns -> TurnRecords] /\ turn'[t] = next
           /\ \A u \in Turns \ {t} : turn'[u] = turn[u]
           /\ \A u \in Turns : turn'[u].session = turn[u].session /\ turn'[u].mode = turn[u].mode
           /\ \A u \in Turns : Settled(u) => Settled(u)'
           /\ ~At(t, "new") /\ SessionOf(t) \in Sessions
           /\ lost \subseteq lost' /\ lost' \subseteq lost \union {t} /\ lost' \in SUBSET Turns
           /\ inference' \in SUBSET Turns /\ inference' \subseteq inference \union {t}
           /\ history' \in [Sessions -> Seq(Saved)]
           /\ \A s \in Sessions : ToSet(history[s]) \subseteq ToSet(history'[s])
<1>1. turn \in [Turns -> TurnRecords] /\ next \in TurnRecords
      /\ turn' = [turn EXCEPT ![t] = next] BY DEF ChatInv, ChatTypeOK, RouteStep
<1>2. turn' \in [Turns -> TurnRecords] /\ turn'[t] = next
      /\ \A u \in Turns \ {t} : turn'[u] = turn[u] BY <1>1
<1>3. \A u \in Turns : turn'[u].session = turn[u].session /\ turn'[u].mode = turn[u].mode
    BY <1>2 DEF RouteStep
<1>4. \A u \in Turns : Settled(u) => Settled(u)' BY <1>2 DEF RouteStep, Settled
<1>5. ~At(t, "new") /\ SessionOf(t) \in Sessions
    BY DEF RouteStep, Running, At, ChatInv, TurnOK
<1>6. lost \subseteq lost' /\ lost' \subseteq lost \union {t} /\ lost' \in SUBSET Turns
      /\ inference' \in SUBSET Turns /\ inference' \subseteq inference \union {t}
    BY DEF RouteStep, ChatInv, ChatTypeOK
<1>7. history' \in [Sessions -> Seq(Saved)]
      /\ \A s \in Sessions : ToSet(history[s]) \subseteq ToSet(history'[s])
  <2>1. CASE Quiet(t, next, sent) BY <2>1 DEF Quiet, ChatInv, ChatTypeOK
  <2>2. CASE Saves(t, next, sent)
    <3>1. "question" \in Roles /\ "answer" \in Roles /\ ChatTypeOK BY DEF Roles, ChatInv
    <3> QED BY <2>2, <3>1, <1>5, HistoryGrows DEF Saves
  <2> QED BY <2>1, <2>2 DEF RouteStep
<1> QED BY <1>2, <1>3, <1>4, <1>5, <1>6, <1>7

(* The messages of the other turns are saved as they were.                 *)
LEMMA SaveKeepsWhole ==
    ASSUME ChatTypeOK, NEW t \in Turns, SessionOf(t) \in Sessions, NEW role \in Roles, Insert(t, role),
           NEW u \in Turns \ {t}, NEW s \in Sessions, NEW place, WholeIn(u, history[s], place)
    PROVE  WholeIn(u, history'[s], place)
<1> DEFINE old == history[s]
           more == history'[s]
<1>1. \A r \in Roles : {i \in DOMAIN more : more[i] = Message(u, r)} =
                       {i \in DOMAIN old : old[i] = Message(u, r)}
  <2>1. CASE s # SessionOf(t) BY <2>1, HistoryGrows
  <2>2. CASE s = SessionOf(t)
    <3> DEFINE n == Len(old) + 1
    <3>1. DOMAIN more = DOMAIN old \union {n} /\ n \notin DOMAIN old
          /\ (\A i \in DOMAIN old : more[i] = old[i]) /\ more[n] = Message(t, role)
        BY <2>2, HistoryGrows
    <3>2. \A r \in Roles : Message(u, r) # Message(t, role) BY DEF Message
    <3> HIDE DEF n, more, old
    <3> QED BY <3>1, <3>2
  <2> QED BY <2>1, <2>2
<1>2. "question" \in Roles /\ "answer" \in Roles BY DEF Roles
<1>3. WholeIn(u, old, place) OBVIOUS
<1>4. WholeIn(u, more, place)
  <2> HIDE DEF more, old
  <2> QED BY <1>1, <1>2, <1>3 DEF WholeIn
<1> QED BY <1>4

(* The step keeps the invariant.                                           *)
LEMMA RouteKeeps ==
    ASSUME ChatInv, NEW t \in Turns, NEW next, NEW sent, RouteStep(t, next, sent)
    PROVE  ChatInv'
<1>1. /\ turn' \in [Turns -> TurnRecords] /\ turn'[t] = next
      /\ \A u \in Turns \ {t} : turn'[u] = turn[u]
      /\ \A u \in Turns : turn'[u].session = turn[u].session /\ turn'[u].mode = turn[u].mode
      /\ \A u \in Turns : Settled(u) => Settled(u)'
      /\ ~At(t, "new") /\ SessionOf(t) \in Sessions
      /\ lost \subseteq lost' /\ lost' \subseteq lost \union {t} /\ lost' \in SUBSET Turns
      /\ inference' \in SUBSET Turns /\ inference' \subseteq inference \union {t}
      /\ history' \in [Sessions -> Seq(Saved)]
      /\ \A s \in Sessions : ToSet(history[s]) \subseteq ToSet(history'[s])
    BY RouteMoves
<1>2. ChatTypeOK /\ t \in Turns BY DEF ChatInv
<1>3. Quiet(t, next, sent) \/ Saves(t, next, sent) BY DEF RouteStep
<1>4. \A u \in Turns : SessionOf(u)' = SessionOf(u) BY <1>1 DEF SessionOf
<1>5. \A u \in Turns : ~At(u, "new") => SessionOf(u) \in Sessions BY DEF ChatInv, TurnOK
<1>6. \A u \in Turns : SessionOf(u) \in Sessions /\ Kept(u) => Kept(u)'
    BY <1>1, <1>4 DEF Kept
<1>role. "question" \in Roles /\ "answer" \in Roles BY DEF Roles
<1>7. ChatTypeOK'
  <2>1. wire' \in [Turns -> Seq(Events)]
    <3>1. wire \in [Turns -> Seq(Events)] /\ sent \in Seq(Events)
          /\ wire' \in {wire, [wire EXCEPT ![t] = wire[t] \o sent]}
        BY <1>2 DEF ChatTypeOK, RouteStep
    <3>2. wire[t] \o sent \in Seq(Events) BY <3>1
    <3> QED BY <3>1, <3>2
  <2>2. UNCHANGED <<messages, sessionId, stream, index, load, judged, received, replaced, hijacked>>
      BY DEF RouteStep, tab
  <2> QED BY <1>1, <1>2, <2>1, <2>2 DEF ChatTypeOK
<1>8. \A u \in Turns \ {t} : TurnOK(u)'
  <2> SUFFICES ASSUME NEW u \in Turns \ {t} PROVE TurnOK(u)' OBVIOUS
  <2>1. TurnOK(u) /\ turn'[u] = turn[u] /\ received' = received
      BY <1>1 DEF ChatInv, RouteStep
  <2>2. ContextOK(turn[u])'
    <3>1. turn[u].seen \subseteq Turns BY <1>2 DEF ChatTypeOK, TurnRecords
    <3> QED BY <2>1, <1>1, <3>1 DEF ContextOK, TurnOK, Both, Message
  <2>3. u \notin lost' => u \notin lost BY <1>1
  <2>4. ~At(u, "new") => SessionOf(u) \in Sessions BY <1>5
  <2>5. \A w \in turn[u].seen : w \in received /\ SessionOf(w)' = SessionOf(u)'
      BY <2>1, <1>2, <1>4 DEF TurnOK, ChatTypeOK
  <2>6. At(u, "reply") /\ u \notin lost'
            => Message(u, "question") \in ToSet(history'[SessionOf(u)])
      BY <2>1, <2>3, <2>4, <1>1 DEF TurnOK, At
  <2>7. At(u, "finish") /\ u \notin lost' => Kept(u)'
      BY <2>1, <2>3, <2>4, <1>6 DEF TurnOK, At
  <2> QED BY <2>1, <2>2, <2>4, <2>5, <2>6, <2>7, <1>4 DEF TurnOK, At, SessionOf
<1>9. TurnOK(t)'
  <2>1. TurnOK(t) BY DEF ChatInv
  <2>2. ContextOK(turn[t])'
    <3>1. next.seen \subseteq Turns BY DEF RouteStep, TurnRecords
    <3> QED BY <1>1, <3>1 DEF ContextOK, RouteStep
  <2>3. \A w \in next.seen : w \in received' /\ SessionOf(w)' = SessionOf(t)'
      BY <2>1, <1>2, <1>4 DEF TurnOK, RouteStep, ChatTypeOK
  <2>4. next.at \in {"reply", "finish"} /\ t \notin lost' => Saves(t, next, sent)
      BY <1>3 DEF Quiet
  <2>5. next.at = "reply" /\ t \notin lost' => Message(t, "question") \in ToSet(history'[SessionOf(t)])
      BY <2>4, <1>1, <1>2, <1>role, HistoryGrows DEF Saves
  <2>6. next.at = "finish" /\ t \notin lost' => Kept(t)'
    <3> SUFFICES ASSUME next.at = "finish", t \notin lost' PROVE Kept(t)' OBVIOUS
    <3>1. At(t, "reply") /\ Insert(t, "answer") BY <2>4 DEF Saves
    <3>2. Message(t, "question") \in ToSet(history[SessionOf(t)]) BY <3>1, <2>1, <1>1 DEF TurnOK
    <3>3. Message(t, "answer") \in ToSet(history'[SessionOf(t)])
        BY <3>1, <1>1, <1>2, <1>role, HistoryGrows
    <3> QED BY <3>2, <3>3, <1>1, <1>4 DEF Kept, Both, Roles
  <2> QED BY <2>2, <2>3, <2>5, <2>6, <1>1, <1>4 DEF TurnOK, At, RouteStep, SessionOf
<1>10. \A s \in Sessions : SavedOK(s)'
  <2> SUFFICES ASSUME NEW s \in Sessions, NEW i \in DOMAIN history'[s]
               PROVE  LET m == history'[s][i] IN
                      /\ turn'[m.turn].session = s
                      /\ turn'[m.turn].at \in {"reply", "finish", "ended"}
                      /\ m.role = "answer" => turn'[m.turn].at \in {"finish", "ended"}
      BY DEF SavedOK, SessionOf
  <2>1. CASE i \in DOMAIN history[s] /\ history'[s][i] = history[s][i]
    <3> DEFINE m == history[s][i]
    <3>1. m \in Saved BY <1>2, <2>1 DEF ChatTypeOK
    <3>2. /\ turn[m.turn].session = s
          /\ turn[m.turn].at \in {"reply", "finish", "ended"}
          /\ m.role = "answer" => turn[m.turn].at \in {"finish", "ended"}
        BY <2>1 DEF ChatInv, SavedOK, SessionOf
    <3>3. turn[t].at \in {"reply", "finish"} => next.at \in {"finish", "ended"}
        BY <1>3 DEF Quiet, Saves, At
    <3>4. turn[t].at # "ended" BY DEF RouteStep, Running
    <3> HIDE DEF m
    <3>5. m.turn \in Turns BY <3>1 DEF Saved
    <3>6. /\ turn'[m.turn].session = s
          /\ turn'[m.turn].at \in {"reply", "finish", "ended"}
          /\ m.role = "answer" => turn'[m.turn].at \in {"finish", "ended"}
      <4>1. CASE m.turn = t BY <4>1, <3>2, <3>3, <3>4, <1>1
      <4>2. CASE m.turn # t BY <4>2, <3>2, <3>5, <1>1
      <4> QED BY <4>1, <4>2
    <3> QED BY <3>6, <2>1 DEF m
  <2>2. CASE ~(i \in DOMAIN history[s] /\ history'[s][i] = history[s][i])
    <3>1. Saves(t, next, sent) BY <2>2, <1>3 DEF Quiet
    <3>2. PICK role \in Roles : /\ Insert(t, role)
                                /\ \/ role = "question" /\ next.at = "reply"
                                   \/ role = "answer" /\ next.at \in {"finish", "ended"}
        BY <3>1, <1>role DEF Saves
    <3>3. s = SessionOf(t) /\ history'[s][i] = Message(t, role)
        BY <2>2, <3>2, <1>1, <1>2, HistoryGrows
    <3>4. Message(t, role).turn = t /\ Message(t, role).role = role BY DEF Message
    <3> QED BY <3>2, <3>3, <3>4, <1>1 DEF SessionOf
  <2> QED BY <2>1, <2>2
<1>11. \A u \in Turns : Whole(u)'
  <2> SUFFICES ASSUME NEW u \in Turns, u \notin lost', SessionOf(u)' # None
               PROVE  WholeIn(u, history'[SessionOf(u)], turn'[u].at)
      BY <1>4 DEF Whole
  <2>1. SessionOf(u) \in Sessions
      BY <1>2, <1>4 DEF ChatTypeOK, TurnRecords, SessionOf
  <2>2. WholeIn(u, history[SessionOf(u)], turn[u].at)
      BY <2>1, <1>1, NoneIsApart DEF ChatInv, Whole
  <2>3. CASE u # t
    <3>1. turn'[u] = turn[u] BY <2>3, <1>1
    <3>2. CASE Quiet(t, next, sent) BY <3>1, <3>2, <2>2 DEF Quiet
    <3>3. CASE Saves(t, next, sent)
      <4>1. PICK role \in Roles : Insert(t, role) BY <3>3, <1>role DEF Saves
      <4> QED BY <4>1, <3>1, <2>1, <2>2, <2>3, <1>1, <1>2, SaveKeepsWhole
    <3> QED BY <3>2, <3>3, <1>3
  <2>4. CASE u = t
    <3> DEFINE old == history[SessionOf(t)]
               more == history'[SessionOf(t)]
               As(saved, role) == {i \in DOMAIN saved : saved[i] = Message(t, role)}
    <3>1. /\ \A i \in As(old, "answer") : \E j \in As(old, "question") : j < i
          /\ As(old, "question") # {} /\ As(old, "answer") = {} => At(t, "reply")
        BY <2>2, <2>4 DEF WholeIn, At
    <3>2. CASE Quiet(t, next, sent)
      <4>1. ~At(t, "reply") /\ more = old BY <2>4, <3>2 DEF Quiet
      <4> QED BY <4>1, <3>1, <2>4 DEF WholeIn
    <3>3. CASE At(t, "question") /\ next.at = "reply" /\ Insert(t, "question")
      <4>1. \A i \in DOMAIN old : old[i].turn # t
          BY <3>3, <1>1 DEF ChatInv, SavedOK, At
      <4>2. \A role \in Roles : Message(t, role).turn = t BY DEF Message
      <4>3. DOMAIN more = DOMAIN old \union {Len(old) + 1}
            /\ (\A i \in DOMAIN old : more[i] = old[i])
            /\ more[Len(old) + 1] = Message(t, "question")
          BY <3>3, <1>1, <1>2, <1>role, HistoryGrows
      <4>4. Message(t, "question") # Message(t, "answer") BY DEF Message
      <4>5. As(more, "answer") = {} BY <4>1, <4>2, <4>3, <4>4, <1>role
      <4> QED BY <4>5, <3>3, <2>4, <1>1 DEF WholeIn
    <3>4. CASE At(t, "reply") /\ next.at \in {"finish", "ended"} /\ Insert(t, "answer")
      <4> DEFINE n == Len(old) + 1
      <4>1. DOMAIN more = DOMAIN old \union {n} /\ (\A i \in DOMAIN old : i < n)
            /\ (\A i \in DOMAIN old : more[i] = old[i])
            /\ more[n] = Message(t, "answer")
          BY <3>4, <1>1, <1>2, <1>role, HistoryGrows
      <4>2. Message(t, "question") \in ToSet(old)
          BY <3>4, <2>4, <1>1 DEF ChatInv, TurnOK
      <4> HIDE DEF n, more, old
      <4>3. PICK j \in DOMAIN old : old[j] = Message(t, "question") BY <4>2 DEF ToSet
      <4>4. j \in As(more, "question") /\ j < n BY <4>1, <4>3
      <4>5. \A i \in As(old, "answer") : \E k \in As(more, "question") : k < i BY <3>1, <4>1
      <4>6. \A i \in As(more, "answer") : i = n \/ i \in As(old, "answer") BY <4>1
      <4>7. n \in As(more, "answer") BY <4>1
      <4>8. WholeIn(t, more, next.at) BY <4>4, <4>5, <4>6, <4>7 DEF WholeIn
      <4> QED BY <4>8, <2>4, <1>1 DEF more
    <3> QED BY <3>2, <3>3, <3>4, <1>3 DEF Saves
  <2> QED BY <2>3, <2>4
<1>12. \A u \in Turns : Delivered(u) => Delivered(u)'
  <2> SUFFICES ASSUME NEW u \in Turns, Delivered(u) PROVE Delivered(u)' OBVIOUS
  <2>1. Settled(u)' BY <1>1 DEF Delivered
  <2>2. CASE u # t
    <3>1. turn'[u] = turn[u] BY <2>2, <1>1
    <3>2. At(u, "ended") => SessionOf(u) \in Sessions BY <1>5 DEF At
    <3> QED BY <2>1, <3>1, <3>2, <1>1, <1>6 DEF Delivered, At
  <2>3. CASE u = t
    <3> SUFFICES ASSUME next.at = "ended", t \notin lost' PROVE Kept(t)'
        BY <2>1, <2>3, <1>1 DEF Delivered, At
    <3>1. CASE Quiet(t, next, sent)
      <4>1. Kept(t) BY <2>3, <3>1 DEF Quiet, Delivered
      <4> QED BY <4>1, <1>1, <1>6
    <3>2. CASE Saves(t, next, sent)
      <4>1. At(t, "reply") /\ Insert(t, "answer") BY <3>2 DEF Saves
      <4>2. Message(t, "question") \in ToSet(history[SessionOf(t)])
          BY <4>1, <1>1 DEF ChatInv, TurnOK
      <4>3. Message(t, "answer") \in ToSet(history'[SessionOf(t)])
          BY <4>1, <1>1, <1>2, <1>role, HistoryGrows
      <4> QED BY <4>2, <4>3, <1>1, <1>4 DEF Kept, Both, Roles
    <3> QED BY <3>1, <3>2, <1>3
  <2> QED BY <2>2, <2>3
<1>13. \A u \in Turns : WireOK(u)'
  <2> SUFFICES ASSUME NEW u \in Turns, NEW k \in DOMAIN wire'[u]
               PROVE  /\ wire'[u][k] \in {"done", "response", "degraded"} => Settled(u)'
                      /\ wire'[u][k] \in {"done", "response"} => Delivered(u)'
      BY DEF WireOK
  <2>1. CASE k \in DOMAIN wire[u] /\ wire'[u][k] = wire[u][k]
      BY <2>1, <1>1, <1>12 DEF ChatInv, WireOK
  <2>2. CASE ~(k \in DOMAIN wire[u] /\ wire'[u][k] = wire[u][k])
    <3>1. u = t /\ wire'[t] = wire[t] \o sent
        BY <2>2, <1>2 DEF RouteStep, ChatTypeOK
    <3>2. wire[t] \in Seq(Events) /\ sent \in Seq(Events) BY <1>2 DEF ChatTypeOK, RouteStep
    <3>3. wire'[u][k] \in ToSet(sent) BY <2>2, <3>1, <3>2, ListGrows
    <3>4. PICK j \in DOMAIN sent : wire'[u][k] = sent[j] BY <3>3 DEF ToSet
    <3>5. wire'[u][k] \in {"done", "response", "degraded"} => Settled(u)'
        BY <3>1, <3>4, <1>1 DEF RouteStep, Sends, Settled
    <3>6. ASSUME wire'[u][k] \in {"done", "response"} PROVE Delivered(u)'
      <4>1. Sends(sent, {"done", "response"}) BY <3>4, <3>6 DEF Sends
      <4>2. Quiet(t, next, sent) BY <4>1, <1>3 DEF Saves
      <4>3. next.at = "ended" /\ t \notin lost' => Kept(t) BY <4>1, <4>2 DEF Quiet
      <4> QED BY <4>3, <3>1, <3>5, <3>6, <1>1, <1>6 DEF Delivered, At
    <3> QED BY <3>5, <3>6
  <2> QED BY <2>1, <2>2
<1>14. \A u \in received' : Delivered(u)'
    BY <1>2, <1>12 DEF ChatInv, RouteStep, ChatTypeOK
<1>15. \A u \in judged' : Settled(u)' /\ u \notin inference'
  <2> SUFFICES ASSUME NEW u \in judged PROVE Settled(u)' /\ u \notin inference'
      BY DEF RouteStep
  <2>1. u \in Turns /\ Settled(u) /\ u \notin inference BY <1>2 DEF ChatInv, ChatTypeOK
  <2>2. Settled(t) => inference' = inference BY DEF RouteStep
  <2> QED BY <2>1, <2>2, <1>1
<1>16. \A i \in DOMAIN messages' :
           messages'[i].ids # None => SettledAs(turn'[messages'[i].ids])
  <2> SUFFICES ASSUME NEW i \in DOMAIN messages, messages[i].ids # None
               PROVE  SettledAs(turn'[messages[i].ids])
      BY DEF RouteStep, tab
  <2>2. messages[i].ids \in Turns BY <1>2, ListsAreTyped
  <2>3. Settled(messages[i].ids) BY DEF ChatInv, EntryOK
  <2> QED BY <2>2, <2>3, <1>1 DEF Settled
<1>17. LoadOK'
  <2>1. load' = load /\ LoadOK BY DEF ChatInv, RouteStep
  <2>2. load # None => \A i \in DOMAIN load.list : load.list[i].turn \in Turns
      BY <1>2, ListsAreTyped
  <2> QED BY <2>1, <2>2, <1>4 DEF LoadOK
<1>18. Waits'
    BY <1>2, <1>4 DEF ChatInv, RouteStep, tab, ChatTypeOK, Waits
<1>19. SessionIsShown'
  <2>1. UNCHANGED <<messages, sessionId, hijacked, replaced>> /\ SessionIsShown
      BY DEF ChatInv, RouteStep, tab
  <2>2. \A i \in DOMAIN messages : messages[i].text \union {messages[i].turn} \subseteq Turns
      BY <1>2, ListsAreTyped
  <2> QED BY <2>1, <2>2, <1>4 DEF SessionIsShown
<1>20. \A u \in Turns : TurnOK(u)' BY <1>8, <1>9
<1>21. (\A i \in DOMAIN messages : EntryOK(messages[i]))' BY <1>16 DEF EntryOK, Settled
<1> QED BY <1>7, <1>10, <1>11, <1>13, <1>14, <1>15, <1>17, <1>18, <1>19, <1>20, <1>21
    DEF ChatInv

-----------------------------------------------------------------------------
(* The records the routes write.                                           *)
Alike(next, now) ==
    /\ next \in TurnRecords
    /\ next.mode = now.mode /\ next.session = now.session /\ next.seen = now.seen
    /\ next.excused = now.excused /\ next.context = now.context

LEMMA Moved ==
    ASSUME NEW r \in TurnRecords, NEW place \in Places, NEW route \in Routes
    PROVE  /\ Alike([r EXCEPT !.at = place], r) /\ [r EXCEPT !.at = place].at = place
           /\ [r EXCEPT !.at = place].route = r.route
           /\ Alike([r EXCEPT !.at = place, !.route = route], r)
           /\ [r EXCEPT !.at = place, !.route = route].at = place
BY DEF TurnRecords, Alike

LEMMA Closed ==
    ASSUME NEW t \in Turns, turn[t] \in TurnRecords
    PROVE  /\ Ended(t) \in TurnRecords /\ Ended(t).at = "ended"
           /\ Ended(t).mode = turn[t].mode /\ Ended(t).session = turn[t].session
           /\ Ended(t).seen = {} /\ Ended(t).context = None
<1>1. /\ Unsent \in TurnRecords /\ Unsent.seen = {} /\ Unsent.context = None
      BY DEF Unsent, TurnRecords, Places, Modes, Routes
<1>2. turn[t].mode \in Modes /\ turn[t].session \in Sessions \union {None} /\ "ended" \in Places
      BY DEF TurnRecords, Places
<1> HIDE DEF Unsent
<1> QED BY <1>1, <1>2 DEF Ended, TurnRecords

LEMMA AnswerRecord ==
    ASSUME NEW t \in Turns, turn[t] \in TurnRecords, NEW place \in Places
    PROVE  LET next == [Ended(t) EXCEPT !.at = place, !.route = turn[t].route] IN
           /\ next \in TurnRecords /\ next.at = place
           /\ next.mode = turn[t].mode /\ next.session = turn[t].session
           /\ next.seen = {} /\ next.context = None
<1> DEFINE now == Ended(t)
           route == turn[t].route
<1>1. route \in Routes BY DEF TurnRecords
<1>2. /\ now \in TurnRecords /\ now.mode = turn[t].mode /\ now.session = turn[t].session
      /\ now.seen = {} /\ now.context = None
    BY Closed
<1> HIDE DEF now, route
<1>3. Alike([now EXCEPT !.at = place, !.route = route], now)
      /\ [now EXCEPT !.at = place, !.route = route].at = place
    BY <1>1, <1>2 DEF TurnRecords, Alike
<1> QED BY <1>2, <1>3 DEF Alike, now, route

(* What the routes send: at most one event.                                *)
LEMMA Sent ==
    /\ <<>> \in Seq(Events) /\ \A f : ~Sends(<<>>, f)
    /\ \A e \in Events : <<e>> \in Seq(Events)
    /\ \A e \in Events : \A f : Sends(<<e>>, f) <=> e \in f
<1>1. <<>> \in Seq(Events) /\ \A e \in Events : <<e>> \in Seq(Events) OBVIOUS
<1>2. \A f : ~Sends(<<>>, f) BY DEF Sends
<1>3. \A e \in Events : \A f : Sends(<<e>>, f) <=> e \in f
  <2> SUFFICES ASSUME NEW e \in Events, NEW f PROVE Sends(<<e>>, f) <=> e \in f OBVIOUS
  <2>1. DOMAIN <<e>> = {1} /\ <<e>>[1] = e OBVIOUS
  <2> QED BY <2>1 DEF Sends
<1> QED BY <1>1, <1>2, <1>3

LEMMA RouteBegins ==
    ASSUME ChatInv, NEW t \in Turns
    PROVE  /\ turn \in [Turns -> TurnRecords] /\ turn[t] \in TurnRecords
           /\ TurnOK(t) /\ ContextOK(turn[t])
BY DEF ChatInv, ChatTypeOK, TurnOK

(* A step that neither saves nor settles anything.                         *)
Early == {"sent", "read", "answer", "reread", "reanswer"}

LEMMA EarlyStep ==
    ASSUME ChatInv, NEW t \in Turns, turn[t].at \in Early,
           NEW next, next \in TurnRecords,
           next.at \in Early \union {"respond", "question", "ended"},
           next.at = "respond" => turn[t].mode = "plain",
           next.mode = turn[t].mode, next.session = turn[t].session,
           next.seen \subseteq turn[t].seen, ContextOK(next),
           turn' = [turn EXCEPT ![t] = next],
           NEW sent, sent \in Seq(Events), ~Sends(sent, {"done", "response"}),
           Sends(sent, {"degraded"}) => next.at = "ended",
           wire' \in {wire, [wire EXCEPT ![t] = @ \o sent]},
           inference' \in {inference, inference \union {t}},
           UNCHANGED <<tab, load, history, judged, received, replaced, hijacked, lost>>
    PROVE  ChatInv'
<1>1. ~Settled(t) BY DEF Early, Settled, SettledAs
<1>2. ~Sends(sent, {"done", "response", "degraded"}) \/ SettledAs(next)
    BY DEF Sends, SettledAs
<1>3. Running(t) /\ turn[t].at \notin {"reply", "finish"} BY DEF Early, Running
<1>4. next.at \notin {"new", "reply", "finish"} BY DEF Early
<1>5. Quiet(t, next, sent) BY <1>1, <1>3, <1>4 DEF Quiet, At
<1>6. RouteStep(t, next, sent) BY <1>1, <1>2, <1>3, <1>4, <1>5 DEF RouteStep
<1> QED BY <1>6, RouteKeeps

LEMMA OpenKeeps ==
    ASSUME ChatInv, NEW t \in Turns, Open(t)
    PROVE  ChatInv'
<1> DEFINE sent == IF turn[t].mode = "stream" THEN <<"session">> ELSE <<>>
           now == turn[t]
<1>1. sent \in Seq(Events) /\ ~Sends(sent, {"done", "response"}) /\ ~Sends(sent, {"degraded"})
  <2>1. "session" \in Events BY DEF Events
  <2> QED BY <2>1, Sent
<1>2. wire' \in {wire, [wire EXCEPT ![t] = wire[t] \o sent]} BY DEF Open, Emit
<1> HIDE DEF sent
<1>3. {"answer", "read"} \subseteq Places /\ {"answer", "read"} \subseteq Early
      /\ "chat" \in Routes BY DEF Places, Early, Routes
<1>4. PICK next : /\ turn' = [turn EXCEPT ![t] = next]
                  /\ next.at \in {"answer", "read"} /\ Alike(next, now)
  <2>1. CASE GoTo(t, "answer")
    <3>1. turn' = [turn EXCEPT ![t] = [now EXCEPT !.at = "answer"]] BY <2>1 DEF GoTo
    <3> QED BY <3>1, <1>3, Moved, RouteBegins
  <2>2. ASSUME NEW route \in Routes, turn' = [turn EXCEPT ![t].at = "read", ![t].route = route]
        PROVE  \E next : /\ turn' = [turn EXCEPT ![t] = next]
                         /\ next.at \in {"answer", "read"} /\ Alike(next, now)
    <3>1. turn' = [turn EXCEPT ![t] = [now EXCEPT !.at = "read", !.route = route]]
        BY <2>2, RouteBegins
    <3>2. now \in TurnRecords BY RouteBegins
    <3> HIDE DEF now
    <3>3. Alike([now EXCEPT !.at = "read", !.route = route], now)
          /\ [now EXCEPT !.at = "read", !.route = route].at = "read"
        BY <3>2, <2>2, <1>3 DEF TurnRecords, Alike
    <3> QED BY <3>1, <3>3
  <2> QED BY <2>1, <2>2 DEF Open
<1>5. ContextOK(next)
  <2>1. ContextOK(now) BY RouteBegins
  <2> QED BY <2>1, <1>4 DEF Alike, ContextOK
<1>6. now.at \in Early BY DEF Open, At, Early
<1>7. UNCHANGED <<tab, load, history, judged, received, replaced, hijacked, lost, inference>>
    BY DEF Open, traces
<1> QED BY <1>1, <1>2, <1>3, <1>4, <1>5, <1>6, <1>7, EarlyStep DEF Alike

LEMMA ReadHistoryKeeps ==
    ASSUME ChatInv, StoresInv, NEW t \in Turns, ReadHistory(t)
    PROVE  ChatInv'
<1> DEFINE place == IF turn[t].at = "read" THEN "answer" ELSE "reanswer"
           saved == ToSet(Readable(SessionOf(t)))
           excused(given) == IF given = saved THEN OutOfReach(t) ELSE turn[t].seen
<1>1. turn[t] \in TurnRecords /\ turn \in [Turns -> TurnRecords] /\ TurnOK(t) BY RouteBegins
<1>2. turn[t].at \in {"read", "reread"} BY DEF ReadHistory
<1>3. SessionOf(t) \in Sessions BY <1>1, <1>2 DEF TurnOK, At
<1>4. PICK given \in {saved, {}} :
        turn' = [turn EXCEPT ![t].at = IF turn[t].at = "read" THEN "answer" ELSE "reanswer",
                             ![t].context = given,
                             ![t].excused = IF given = saved THEN OutOfReach(t)
                                                             ELSE turn[t].seen]
    BY <1>1 DEF ReadHistory
<1> DEFINE next == [turn[t] EXCEPT !.at = place, !.context = given, !.excused = excused(given)]
<1>5. given \subseteq Saved
  <2>1. history[SessionOf(t)] \in Seq(Saved) /\ inRedis[SessionOf(t)] \in Seq(Saved)
      BY <1>3 DEF ChatInv, ChatTypeOK, StoresInv
  <2>2. Readable(SessionOf(t)) \in Seq(Saved) BY <2>1 DEF Readable
  <2> QED BY <1>4, <2>2 DEF ToSet
<1>6. turn[t].seen \subseteq Turns BY <1>1 DEF TurnRecords
<1>7. excused(given) \subseteq Turns /\ place \in Places BY <1>6 DEF Places, OutOfReach
<1>8. turn' = [turn EXCEPT ![t] = next] BY <1>1, <1>4
<1>9. /\ next \in TurnRecords /\ next.at = place /\ next.context = given
      /\ next.excused = excused(given)
      /\ next.seen = turn[t].seen /\ next.mode = turn[t].mode /\ next.session = turn[t].session
  <2> HIDE DEF place, excused
  <2> QED BY <1>1, <1>5, <1>7 DEF TurnRecords
<1>10. ContextOK(next)
  <2> SUFFICES ASSUME NEW w \in turn[t].seen \ lost, w \notin excused(given)
               PROVE  Both(w) \subseteq given
      BY <1>9 DEF ContextOK
  <2>1. given = saved /\ w \notin OutOfReach(t) OBVIOUS
  <2>2. w \in received /\ SessionOf(w) = SessionOf(t) /\ w \in Turns BY <1>1, <1>6 DEF TurnOK
  <2>3. Delivered(w) BY <2>2 DEF ChatInv
  <2>4. memory # "again" /\ ~(turn[w].mode = "plain" /\ Running(w)) BY <2>1 DEF OutOfReach
  <2>5. At(w, "ended")
    <3>1. turn[w].mode # "plain" \/ turn[w].at \in {"new", "ended"} BY <2>4 DEF Running
    <3> QED BY <2>3, <3>1 DEF Delivered, Settled, SettledAs, At
  <2>6. Both(w) \subseteq ToSet(history[SessionOf(t)])
      BY <2>2, <2>3, <2>5 DEF Delivered, Kept
  <2>7. memory # "redis"
    <3>1. Message(w, "question") \in ToSet(history[SessionOf(t)]) BY <2>6 DEF Both, Roles
    <3>2. history[SessionOf(t)] # <<>> BY <3>1 DEF ToSet
    <3> QED BY <3>2, <1>3 DEF StoresInv
  <2>8. memory = "sqlite" BY <2>4, <2>7 DEF StoresInv, Stores
  <2> QED BY <2>1, <2>6, <2>8 DEF Readable
<1>11. next.at \in Early /\ turn[t].at \in Early BY <1>2, <1>9 DEF Early
<1>12. UNCHANGED <<tab, load, history, judged, received, replaced, hijacked, lost, inference, wire>>
    BY DEF ReadHistory, traces
<1> HIDE DEF next
<1>13. ChatInv'
  <2>1. <<>> \in Seq(Events) /\ ~Sends(<<>>, {"done", "response"}) /\ ~Sends(<<>>, {"degraded"})
      BY Sent
  <2>2. next.at # "respond" BY <1>11 DEF Early
  <2> QED BY <2>1, <2>2, <1>8, <1>9, <1>10, <1>11, <1>12, EarlyStep
<1> QED BY <1>13

LEMMA TakenOverKeeps ==
    ASSUME ChatInv, NEW t \in Turns, TakenOver(t)
    PROVE  ChatInv'
<1> DEFINE now == turn[t]
           next == [now EXCEPT !.at = "reread", !.route = "chat"]
<1>1. now \in TurnRecords /\ turn \in [Turns -> TurnRecords] /\ ContextOK(now) BY RouteBegins
<1>2. now.at = "answer" BY DEF TakenOver, At
<1>3. turn' = [turn EXCEPT ![t] = next] BY <1>1 DEF TakenOver
<1>4. Alike(next, now) /\ next.at = "reread"
  <2>1. "reread" \in Places /\ "chat" \in Routes BY DEF Places, Routes
  <2> HIDE DEF now
  <2> QED BY <1>1, <2>1 DEF TurnRecords, Alike
<1> HIDE DEF next
<1>5. ContextOK(next) BY <1>1, <1>4 DEF Alike, ContextOK
<1>6. next.at \in Early /\ now.at \in Early /\ next.at # "respond" BY <1>2, <1>4 DEF Early
<1>7. UNCHANGED <<tab, load, history, judged, received, replaced, hijacked, lost, inference, wire>>
    BY DEF TakenOver, traces
<1>8. <<>> \in Seq(Events) /\ ~Sends(<<>>, {"done", "response"}) /\ ~Sends(<<>>, {"degraded"})
    BY Sent
<1> QED BY <1>3, <1>4, <1>5, <1>6, <1>7, <1>8, EarlyStep DEF Alike

LEMMA AnswerKeeps ==
    ASSUME ChatInv, NEW t \in Turns, StreamAnswer(t) \/ PlainAnswer(t)
    PROVE  ChatInv'
<1> DEFINE now == turn[t]
           place == IF now.mode = "stream" THEN "question" ELSE "respond"
           next == [Ended(t) EXCEPT !.at = place, !.route = now.route]
           sent == IF now.mode = "stream" THEN <<"token">> ELSE <<>>
<1>1. now \in TurnRecords /\ turn \in [Turns -> TurnRecords] BY RouteBegins
<1>2. now.at \in {"answer", "reanswer"} BY DEF StreamAnswer, PlainAnswer
<1>3. now.mode = "stream" \/ now.mode = "plain" BY DEF StreamAnswer, PlainAnswer
<1>4. turn' = [turn EXCEPT ![t] = next] BY DEF StreamAnswer, PlainAnswer, Answered
<1>5. wire' \in {wire, [wire EXCEPT ![t] = wire[t] \o sent]}
    BY DEF StreamAnswer, PlainAnswer, Emit
<1>6. sent \in Seq(Events) /\ ~Sends(sent, {"done", "response"}) /\ ~Sends(sent, {"degraded"})
  <2>1. "token" \in Events BY DEF Events
  <2> QED BY <2>1, Sent
<1>7. /\ next \in TurnRecords /\ next.at = place /\ next.mode = now.mode
      /\ next.session = now.session /\ next.seen = {} /\ next.context = None
  <2>1. place \in Places BY DEF Places
  <2> HIDE DEF place
  <2> QED BY <1>1, <2>1, AnswerRecord
<1>8. place \in {"respond", "question"} /\ (place = "respond" => now.mode = "plain") BY <1>3
<1> HIDE DEF next, sent, place
<1>9. ContextOK(next) /\ next.seen \subseteq now.seen BY <1>7 DEF ContextOK
<1>10. now.at \in Early BY <1>2 DEF Early
<1>11. UNCHANGED <<tab, load, history, judged, received, replaced, hijacked, lost, inference>>
    BY DEF StreamAnswer, PlainAnswer, traces
<1> QED BY <1>4, <1>5, <1>6, <1>7, <1>8, <1>9, <1>10, <1>11, EarlyStep

LEMMA FailKeeps ==
    ASSUME ChatInv, NEW t \in Turns, Fail(t)
    PROVE  ChatInv'
<1> DEFINE now == turn[t]
           next == Ended(t)
<1>1. now \in TurnRecords /\ turn \in [Turns -> TurnRecords] BY RouteBegins
<1>2. now.at \in Early BY DEF Fail, Early
<1>3. turn' = [turn EXCEPT ![t] = next] BY DEF Fail, End
<1>4. PICK sent \in Seq(Events) :
        /\ ~Sends(sent, {"done", "response"})
        /\ wire' \in {wire, [wire EXCEPT ![t] = wire[t] \o sent]}
  <2>1. {"error", "failed", "degraded"} \subseteq Events BY DEF Events
  <2>2. CASE Emit(t, IF turn[t].mode = "stream" THEN <<"error">> ELSE <<"failed">>)
    <3> DEFINE sent == IF turn[t].mode = "stream" THEN <<"error">> ELSE <<"failed">>
    <3>1. sent \in Seq(Events) /\ ~Sends(sent, {"done", "response"}) BY <2>1, Sent
    <3>2. wire' \in {wire, [wire EXCEPT ![t] = wire[t] \o sent]} BY <2>2 DEF Emit
    <3> QED BY <3>1, <3>2
  <2>3. CASE Emit(t, <<"degraded">>)
    <3>1. <<"degraded">> \in Seq(Events) /\ ~Sends(<<"degraded">>, {"done", "response"}) BY <2>1, Sent
    <3>2. wire' \in {wire, [wire EXCEPT ![t] = wire[t] \o <<"degraded">>]} BY <2>3 DEF Emit
    <3> QED BY <3>1, <3>2
  <2> QED BY <2>2, <2>3 DEF Fail
<1>5. /\ next \in TurnRecords /\ next.at = "ended" /\ next.mode = now.mode
      /\ next.session = now.session /\ next.seen = {} /\ next.context = None
    BY <1>1, Closed
<1> HIDE DEF next
<1>6. ContextOK(next) /\ next.seen \subseteq now.seen BY <1>5 DEF ContextOK
<1>7. UNCHANGED <<tab, load, history, judged, received, replaced, hijacked, lost>>
      /\ inference' \in {inference, inference \union {t}}
    BY DEF Fail, traces
<1> QED BY <1>2, <1>3, <1>4, <1>5, <1>6, <1>7, EarlyStep

LEMMA RespondKeeps ==
    ASSUME ChatInv, NEW t \in Turns, Respond(t)
    PROVE  ChatInv'
<1> DEFINE now == turn[t]
           next == [now EXCEPT !.at = "question"]
           sent == <<"response">>
<1>1. now \in TurnRecords /\ turn \in [Turns -> TurnRecords] /\ TurnOK(t) /\ ContextOK(now)
    BY RouteBegins
<1>2. now.at = "respond" BY DEF Respond, At
<1>3. now.mode = "plain" BY <1>1, <1>2 DEF TurnOK, At
<1>4. turn' = [turn EXCEPT ![t] = next] BY DEF Respond, GoTo
<1>5. wire' \in {wire, [wire EXCEPT ![t] = wire[t] \o sent]} BY DEF Respond, Emit
<1>6. Alike(next, now) /\ next.at = "question"
  <2>1. "question" \in Places /\ "chat" \in Routes BY DEF Places, Routes
  <2> HIDE DEF now
  <2> QED BY <1>1, <2>1, Moved
<1>7. sent \in Seq(Events)
  <2>1. "response" \in Events BY DEF Events
  <2> QED BY <2>1, Sent
<1> HIDE DEF next, sent
<1>8. ContextOK(next) BY <1>1, <1>6 DEF Alike, ContextOK
<1>9. SettledAs(next) BY <1>3, <1>6 DEF SettledAs, Alike
<1>10. Quiet(t, next, sent) BY <1>2, <1>6 DEF Quiet, At, Respond
<1>11. lost' = lost /\ inference' \in {inference, inference \union {t}}
       /\ UNCHANGED <<tab, load, judged, received, replaced, hijacked>>
    BY DEF Respond, Capture, traces
<1>12. ~Settled(t) /\ Running(t) BY <1>2 DEF Settled, SettledAs, Running
<1>13. RouteStep(t, next, sent)
    BY <1>4, <1>5, <1>6, <1>7, <1>8, <1>9, <1>10, <1>11, <1>12 DEF RouteStep, Alike
<1> QED BY <1>13, RouteKeeps

(* A save reaches SQLite, or its turn is lost.                             *)
LEMMA SaveReaches ==
    ASSUME NEW t \in Turns, NEW role \in Roles, Save(t, role)
    PROVE  /\ Insert(t, role) \/ (history' = history /\ t \in lost')
           /\ lost' \in {lost, lost \union {t}}
           /\ memory' = "sqlite" /\ begun' = begun \ {t}
           /\ UNCHANGED <<inRedis, judged, received, replaced, hijacked>>
BY DEF Save

LEMMA SaveQuestionKeeps ==
    ASSUME ChatInv, NEW t \in Turns, SaveQuestion(t)
    PROVE  ChatInv'
<1> DEFINE now == turn[t]
           next == [now EXCEPT !.at = "reply"]
<1>1. now \in TurnRecords /\ turn \in [Turns -> TurnRecords] /\ ContextOK(now) BY RouteBegins
<1>2. now.at = "question" BY DEF SaveQuestion, At
<1>3. turn' = [turn EXCEPT ![t] = next] BY DEF SaveQuestion, GoTo
<1>4. Alike(next, now) /\ next.at = "reply"
  <2>1. "reply" \in Places /\ "chat" \in Routes BY DEF Places, Routes
  <2> HIDE DEF now
  <2> QED BY <1>1, <2>1, Moved
<1> HIDE DEF next
<1>5. ContextOK(next) BY <1>1, <1>4 DEF Alike, ContextOK
<1>6. Settled(t) => SettledAs(next) BY <1>2, <1>4 DEF Settled, SettledAs, Alike
<1>7. /\ Insert(t, "question") \/ (history' = history /\ t \in lost')
      /\ lost' \in {lost, lost \union {t}}
      /\ UNCHANGED <<tab, load, wire, inference, judged, received, replaced, hijacked>>
  <2>1. "question" \in Roles BY DEF Roles
  <2> QED BY <2>1, SaveReaches DEF SaveQuestion
<1>8. <<>> \in Seq(Events) /\ (\A f : ~Sends(<<>>, f)) /\ Running(t) BY <1>2, Sent DEF Running
<1>9. Quiet(t, next, <<>>) \/ Saves(t, next, <<>>)
  <2>1. CASE Insert(t, "question") BY <2>1, <1>2, <1>4, <1>8 DEF Saves, At
  <2>2. CASE history' = history /\ t \in lost' BY <2>2, <1>2, <1>4 DEF Quiet, At
  <2> QED BY <2>1, <2>2, <1>7
<1>10. RouteStep(t, next, <<>>)
    BY <1>3, <1>4, <1>5, <1>6, <1>7, <1>8, <1>9 DEF RouteStep, Alike
<1> QED BY <1>10, RouteKeeps

LEMMA SaveAnswerKeeps ==
    ASSUME ChatInv, NEW t \in Turns, SaveAnswer(t)
    PROVE  ChatInv'
<1> DEFINE now == turn[t]
<1>1. now \in TurnRecords /\ turn \in [Turns -> TurnRecords] /\ ContextOK(now) BY RouteBegins
<1>2. now.at = "reply" BY DEF SaveAnswer, At
<1>3. PICK next \in TurnRecords :
        /\ turn' = [turn EXCEPT ![t] = next]
        /\ next.mode = now.mode /\ next.session = now.session /\ next.seen \subseteq now.seen
        /\ ContextOK(next)
        /\ next.at = IF now.mode = "stream" THEN "finish" ELSE "ended"
  <2>1. CASE now.mode = "stream"
    <3> DEFINE next == [now EXCEPT !.at = "finish"]
    <3>1. turn' = [turn EXCEPT ![t] = next] BY <2>1 DEF SaveAnswer, GoTo
    <3>2. Alike(next, now) /\ next.at = "finish"
      <4>1. "finish" \in Places /\ "chat" \in Routes BY DEF Places, Routes
      <4> HIDE DEF now
      <4> QED BY <1>1, <4>1, Moved
    <3> HIDE DEF next
    <3>3. ContextOK(next) BY <1>1, <3>2 DEF Alike, ContextOK
    <3> QED BY <3>1, <3>2, <3>3, <2>1 DEF Alike
  <2>2. CASE now.mode # "stream"
    <3> DEFINE next == Ended(t)
    <3>1. turn' = [turn EXCEPT ![t] = next] BY <2>2 DEF SaveAnswer, End
    <3>2. /\ next \in TurnRecords /\ next.at = "ended" /\ next.mode = now.mode
          /\ next.session = now.session /\ next.seen = {} /\ next.context = None
        BY <1>1, Closed
    <3> HIDE DEF next
    <3>3. ContextOK(next) BY <3>2 DEF ContextOK
    <3> QED BY <3>1, <3>2, <3>3, <2>2
  <2> QED BY <2>1, <2>2
<1>4. next.at \in {"finish", "ended"} /\ (next.at = "finish" => next.mode = "stream") BY <1>3
<1>5. Settled(t) => SettledAs(next) BY <1>2, <1>3 DEF Settled, SettledAs
<1>6. /\ Insert(t, "answer") \/ (history' = history /\ t \in lost')
      /\ lost' \in {lost, lost \union {t}}
      /\ UNCHANGED <<tab, load, wire, inference, judged, received, replaced, hijacked>>
  <2>1. "answer" \in Roles BY DEF Roles
  <2> QED BY <2>1, SaveReaches DEF SaveAnswer
<1>7. <<>> \in Seq(Events) /\ (\A f : ~Sends(<<>>, f)) /\ Running(t) BY <1>2, Sent DEF Running
<1>8. Quiet(t, next, <<>>) \/ Saves(t, next, <<>>)
  <2>1. CASE Insert(t, "answer") BY <2>1, <1>2, <1>4, <1>7 DEF Saves, At
  <2>2. CASE history' = history /\ t \in lost' BY <2>2, <1>2, <1>4 DEF Quiet, At
  <2> QED BY <2>1, <2>2, <1>6
<1>9. RouteStep(t, next, <<>>)
    BY <1>3, <1>4, <1>5, <1>6, <1>7, <1>8 DEF RouteStep
<1> QED BY <1>9, RouteKeeps

LEMMA FinishKeeps ==
    ASSUME ChatInv, NEW t \in Turns, Finish(t)
    PROVE  ChatInv'
<1> DEFINE next == Ended(t)
           sent == <<"done">>
<1>1. turn[t] \in TurnRecords /\ TurnOK(t) BY RouteBegins
<1>2. turn[t].at = "finish" BY DEF Finish, At
<1>3. turn' = [turn EXCEPT ![t] = next] BY DEF Finish, End
<1>4. /\ next \in TurnRecords /\ next.at = "ended" /\ next.mode = turn[t].mode
      /\ next.session = turn[t].session /\ next.seen = {} /\ next.context = None
    BY <1>1, Closed
<1>5. wire' \in {wire, [wire EXCEPT ![t] = wire[t] \o sent]} BY DEF Finish, Emit
<1>6. sent \in Seq(Events)
  <2>1. "done" \in Events BY DEF Events
  <2> QED BY <2>1, Sent
<1>7. lost' = lost /\ inference' \in {inference, inference \union {t}} /\ history' = history
       /\ UNCHANGED <<tab, load, judged, received, replaced, hijacked>>
    BY DEF Finish, Capture, traces
<1> HIDE DEF next, sent
<1>8. ContextOK(next) /\ SettledAs(next) BY <1>4 DEF ContextOK, SettledAs
<1>9. ~Settled(t) /\ Running(t)
    BY <1>1, <1>2 DEF Settled, SettledAs, Running, TurnOK, At
<1>10. t \notin lost => Kept(t) BY <1>1, <1>2 DEF TurnOK, At
<1>11. Quiet(t, next, sent) BY <1>2, <1>4, <1>7, <1>10 DEF Quiet, At
<1>12. RouteStep(t, next, sent)
    BY <1>3, <1>4, <1>5, <1>6, <1>7, <1>8, <1>9, <1>11 DEF RouteStep
<1> QED BY <1>12, RouteKeeps

LEMMA CancelKeeps ==
    ASSUME ChatInv, NEW t \in Turns, Cancel(t)
    PROVE  ChatInv'
<1> DEFINE next == Ended(t)
<1>1. turn[t] \in TurnRecords /\ TurnOK(t) BY RouteBegins
<1>2. turn[t].mode = "stream" /\ Running(t) BY DEF Cancel
<1>3. turn' = [turn EXCEPT ![t] = next] BY DEF Cancel, End
<1>4. /\ next \in TurnRecords /\ next.at = "ended" /\ next.mode = turn[t].mode
      /\ next.session = turn[t].session /\ next.seen = {} /\ next.context = None
    BY <1>1, Closed
<1> HIDE DEF next
<1>5. ContextOK(next) /\ SettledAs(next) BY <1>4 DEF ContextOK, SettledAs
<1>6. ~Settled(t) BY <1>2 DEF Settled, SettledAs, Running
<1>7. UNCHANGED <<tab, load, wire, history, inference, judged, received, replaced, hijacked>>
      /\ lost' \in {lost, lost \union {t}}
    BY DEF Cancel
<1>8. At(t, "reply") => t \in lost' BY DEF Cancel, At, Unsaved
<1>9. <<>> \in Seq(Events) /\ \A f : ~Sends(<<>>, f) BY Sent
<1>10. Quiet(t, next, <<>>) BY <1>4, <1>6, <1>7, <1>8, <1>9 DEF Quiet
<1>11. RouteStep(t, next, <<>>)
    BY <1>2, <1>3, <1>4, <1>5, <1>6, <1>7, <1>9, <1>10 DEF RouteStep
<1> QED BY <1>11, RouteKeeps

(* A step of the stores alone.                                             *)
LEMMA ChatStays ==
    ASSUME ChatInv,
           UNCHANGED <<messages, sessionId, stream, index, load, turn, wire, history, inference,
                       judged, received, replaced, hijacked, lost>>
    PROVE  ChatInv'
<1>1. ChatTypeOK' /\ SessionIsShown' /\ Waits' /\ LoadOK'
    BY DEF ChatInv, ChatTypeOK, SessionIsShown, SessionOf, Waits, LoadOK
<1>2. \A t \in Turns : TurnOK(t)' /\ WireOK(t)' /\ Whole(t)'
  <2> SUFFICES ASSUME NEW t \in Turns PROVE TurnOK(t)' /\ WireOK(t)' /\ Whole(t)' OBVIOUS
  <2>1. TurnOK(t) /\ WireOK(t) /\ Whole(t) BY DEF ChatInv
  <2>2. TurnOK(t)' BY <2>1 DEF TurnOK, ContextOK, At, SessionOf, Kept
  <2>3. WireOK(t)' BY <2>1 DEF WireOK, Delivered, Settled, Kept, At, SessionOf
  <2>4. Whole(t)' BY <2>1 DEF Whole, SessionOf
  <2> QED BY <2>2, <2>3, <2>4
<1>3. \A s \in Sessions : SavedOK(s)' BY DEF ChatInv, SavedOK, SessionOf
<1>4. \A t \in received' : Delivered(t)'
    BY DEF ChatInv, Delivered, Settled, Kept, At, SessionOf
<1>5. (\A t \in judged' : Settled(t)' /\ t \notin inference')
      /\ (\A i \in DOMAIN messages : EntryOK(messages[i]))'
    BY DEF ChatInv, EntryOK, Settled
<1> QED BY <1>1, <1>2, <1>3, <1>4, <1>5 DEF ChatInv

LEMMA ServeKeeps ==
    ASSUME ChatInv, StoresInv, NEW t \in Turns, Serve(t)
    PROVE  ChatInv'
<1>1. CASE Push(t)
  <2>1. UNCHANGED <<messages, sessionId, stream, index, load, turn, wire, history, inference,
                    judged, received, replaced, hijacked, lost>>
      BY <1>1 DEF Push, tab, traces
  <2> QED BY <2>1, ChatStays
<1> QED BY <1>1, OpenKeeps, ReadHistoryKeeps, TakenOverKeeps, AnswerKeeps, FailKeeps, RespondKeeps,
           SaveQuestionKeeps, SaveAnswerKeeps, FinishKeeps DEF Serve

-----------------------------------------------------------------------------
(* A deletion loses the turns of its session.                              *)
LEMMA DeletionKeeps ==
    ASSUME ChatInv, DeleteSession, memory = "sqlite"
    PROVE  ChatInv'
<1>1. PICK s \in Sessions :
        /\ history' = [history EXCEPT ![s] = <<>>]
        /\ lost' = lost \union {history[s][i].turn : i \in DOMAIN history[s]}
    BY DEF DeleteSession
<1>2. ChatTypeOK BY DEF ChatInv
<1>3. UNCHANGED <<messages, sessionId, stream, index, load, turn, wire, inference, judged,
                  received, replaced, hijacked>>
    BY DEF DeleteSession, tab
<1>4. history[s] \in Seq(Saved) /\ history \in [Sessions -> Seq(Saved)] BY <1>2 DEF ChatTypeOK
<1>5. \A i \in DOMAIN history[s] : history[s][i].turn \in Turns
  <2>1. \A i \in DOMAIN history[s] : history[s][i] \in Saved BY <1>4
  <2> QED BY <2>1 DEF Saved
<1>6. lost \subseteq lost' /\ lost' \in SUBSET Turns BY <1>1, <1>2, <1>5 DEF ChatTypeOK
<1>7. history'[s] = <<>> /\ \A r \in Sessions \ {s} : history'[r] = history[r] BY <1>1, <1>4
<1>8. \A t \in Turns, role \in Roles :
          Message(t, role) \in ToSet(history[s]) => t \in lost'
  <2> SUFFICES ASSUME NEW t \in Turns, NEW role \in Roles, NEW i \in DOMAIN history[s],
                      history[s][i] = Message(t, role)
               PROVE  t \in lost'
      BY DEF ToSet
  <2>1. Message(t, role).turn = t BY DEF Message
  <2> QED BY <1>1, <2>1
<1>9. \A t \in Turns, role \in Roles, r \in Sessions :
          t \notin lost' /\ Message(t, role) \in ToSet(history[r])
              => Message(t, role) \in ToSet(history'[r])
    BY <1>7, <1>8
<1>role. "question" \in Roles /\ "answer" \in Roles BY DEF Roles
<1>10. ChatTypeOK'
  <2>1. history' \in [Sessions -> Seq(Saved)] BY <1>1, <1>4, EmptySeq
  <2> QED BY <1>2, <1>3, <1>6, <2>1 DEF ChatTypeOK
<1>11. \A t \in Turns : SessionOf(t)' = SessionOf(t) /\ At(t, "ended")' = At(t, "ended")
                        /\ Settled(t)' = Settled(t)
    BY <1>3 DEF SessionOf, At, Settled
<1>12. \A t \in Turns : ~At(t, "new") => SessionOf(t) \in Sessions BY DEF ChatInv, TurnOK
<1>13. \A t \in Turns : t \notin lost' /\ ~At(t, "new") /\ Kept(t) => Kept(t)'
  <2> SUFFICES ASSUME NEW t \in Turns, t \notin lost', ~At(t, "new"), Kept(t) PROVE Kept(t)'
      OBVIOUS
  <2>1. SessionOf(t) \in Sessions BY <1>12
  <2> QED BY <2>1, <1>9, <1>11 DEF Kept, Both
<1>14. \A t \in Turns : Delivered(t) => Delivered(t)'
    BY <1>6, <1>11, <1>13 DEF Delivered, At
<1>15. \A t \in Turns : TurnOK(t)'
  <2> SUFFICES ASSUME NEW t \in Turns PROVE TurnOK(t)' OBVIOUS
  <2>1. TurnOK(t) /\ turn' = turn /\ received' = received BY <1>3 DEF ChatInv
  <2>2. ContextOK(turn[t])'
    <3>1. turn[t].seen \subseteq Turns BY <1>2 DEF ChatTypeOK, TurnRecords
    <3> QED BY <2>1, <1>6, <3>1 DEF ContextOK, TurnOK, Both, Message
  <2>3. At(t, "reply") /\ t \notin lost'
            => Message(t, "question") \in ToSet(history'[SessionOf(t)])
      BY <2>1, <1>6, <1>9, <1>12, <1>role DEF TurnOK, At
  <2>4. At(t, "finish") /\ t \notin lost' => Kept(t)'
      BY <2>1, <1>6, <1>13 DEF TurnOK, At
  <2> QED BY <2>1, <2>2, <2>3, <2>4 DEF TurnOK, At, SessionOf
<1>16. \A r \in Sessions : SavedOK(r)'
  <2> SUFFICES ASSUME NEW r \in Sessions PROVE SavedOK(r)' OBVIOUS
  <2>1. CASE r = s BY <2>1, <1>7 DEF SavedOK
  <2>2. CASE r # s
    <3>1. history'[r] = history[r] /\ turn' = turn /\ SavedOK(r) BY <2>2, <1>3, <1>7 DEF ChatInv
    <3> QED BY <3>1 DEF SavedOK, SessionOf
  <2> QED BY <2>1, <2>2
<1>17. \A t \in Turns : Whole(t)'
  <2> SUFFICES ASSUME NEW t \in Turns, t \notin lost', SessionOf(t) # None
               PROVE  WholeIn(t, history'[SessionOf(t)], turn[t].at)
      BY <1>3, <1>11 DEF Whole
  <2>1. SessionOf(t) \in Sessions BY <1>2 DEF ChatTypeOK, TurnRecords, SessionOf
  <2>2. WholeIn(t, history[SessionOf(t)], turn[t].at) BY <1>6 DEF ChatInv, Whole
  <2>3. CASE SessionOf(t) = s BY <2>3, <1>7 DEF WholeIn
  <2> QED BY <2>1, <2>2, <2>3, <1>7
<1>18. \A t \in Turns : WireOK(t)' BY <1>3, <1>11, <1>14 DEF ChatInv, WireOK
<1>19. \A t \in received' : Delivered(t)' BY <1>2, <1>3, <1>14 DEF ChatInv, ChatTypeOK
<1>20. \A t \in judged' : Settled(t)' /\ t \notin inference'
    BY <1>2, <1>3, <1>11 DEF ChatInv, ChatTypeOK
<1>21. (\A i \in DOMAIN messages : EntryOK(messages[i]))' /\ LoadOK' /\ SessionIsShown'
       /\ Waits'
    BY <1>3 DEF ChatInv, EntryOK, LoadOK, SessionIsShown, Settled, SessionOf, Waits
<1> QED BY <1>10, <1>15, <1>16, <1>17, <1>18, <1>19, <1>20, <1>21 DEF ChatInv

LEMMA DeleteSessionKeeps ==
    ASSUME ChatInv, DeleteSession
    PROVE  ChatInv'
<1>1. CASE memory = "sqlite" BY <1>1, DeletionKeeps
<1>2. CASE memory # "sqlite"
  <2>1. UNCHANGED <<messages, sessionId, stream, index, load, turn, wire, history, inference,
                    judged, received, replaced, hijacked, lost>>
      BY <1>2 DEF DeleteSession, tab
  <2> QED BY <2>1, ChatStays
<1> QED BY <1>1, <1>2

(* A restart ends every route that runs.                                   *)
LEMMA RestartKeeps ==
    ASSUME ChatInv, Restart
    PROVE  ChatInv'
<1>1. ChatTypeOK BY DEF ChatInv
<1>2. UNCHANGED <<messages, sessionId, stream, index, load, history, inference, judged,
                  received, replaced, hijacked>>
    BY DEF Restart, tab
<1>3. \A t \in Turns :
          /\ turn[t] \in TurnRecords /\ Ended(t) \in TurnRecords /\ Ended(t).at = "ended"
          /\ Ended(t).mode = turn[t].mode /\ Ended(t).session = turn[t].session
          /\ Ended(t).seen = {} /\ Ended(t).context = None
    BY <1>1, Closed DEF ChatTypeOK
<1>4. turn' = [t \in Turns |-> IF Running(t) THEN Ended(t) ELSE turn[t]] BY DEF Restart
<1>5. \A t \in Turns : turn'[t] = IF Running(t) THEN Ended(t) ELSE turn[t] BY <1>4
<1>6. turn' \in [Turns -> TurnRecords] BY <1>3, <1>4
<1>7. \A t \in Turns : turn'[t].mode = turn[t].mode /\ SessionOf(t)' = SessionOf(t)
    BY <1>3, <1>5 DEF SessionOf
<1>8. \A t \in Turns : turn'[t].at = IF Running(t) THEN "ended" ELSE turn[t].at BY <1>3, <1>5
<1>9. lost' = lost \union {t \in Turns : Unsaved(t)} BY DEF Restart
<1>10. \A t \in Turns : Settled(t) => Settled(t)'
  <2> SUFFICES ASSUME NEW t \in Turns, Settled(t) PROVE Settled(t)' OBVIOUS
  <2>1. CASE Running(t) BY <2>1, <1>8 DEF Settled, SettledAs
  <2>2. CASE ~Running(t) BY <2>2, <1>5 DEF Settled
  <2> QED BY <2>1, <2>2
<1>11. \A t \in Turns : Delivered(t) => Delivered(t)'
  <2> SUFFICES ASSUME NEW t \in Turns, Delivered(t) PROVE Delivered(t)' OBVIOUS
  <2>1. Settled(t) /\ (At(t, "ended") /\ t \notin lost => Kept(t)) BY DEF Delivered
  <2>2. Kept(t)' = Kept(t) BY <1>2, <1>7 DEF Kept
  <2>3. CASE At(t, "ended") BY <2>1, <2>2, <2>3, <1>9, <1>10 DEF Delivered
  <2>4. CASE ~At(t, "ended")
    <3>1. Unsaved(t) BY <2>1, <2>4 DEF Settled, SettledAs, At, Unsaved
    <3> QED BY <3>1, <2>1, <1>9, <1>10 DEF Delivered
  <2> QED BY <2>3, <2>4
<1>12. ChatTypeOK'
  <2>1. wire' \in [Turns -> Seq(Events)]
    <3>1. "broken" \in Events /\ wire \in [Turns -> Seq(Events)] BY <1>1 DEF Events, ChatTypeOK
    <3>2. \A t \in Turns : Append(wire[t], "broken") \in Seq(Events) BY <3>1
    <3> QED BY <3>1, <3>2 DEF Restart
  <2>2. lost' \in SUBSET Turns BY <1>1, <1>9 DEF ChatTypeOK
  <2> QED BY <1>1, <1>2, <1>6, <2>1, <2>2 DEF ChatTypeOK
<1>13. \A t \in Turns : TurnOK(t)'
  <2> SUFFICES ASSUME NEW t \in Turns PROVE TurnOK(t)' OBVIOUS
  <2>1. TurnOK(t) BY DEF ChatInv
  <2>2. CASE Running(t)
    <3>1. turn'[t].at = "ended" /\ turn'[t].seen = {} /\ turn'[t].context = None
        BY <2>2, <1>3, <1>5
    <3>2. SessionOf(t)' \in Sessions BY <2>1, <2>2, <1>7 DEF TurnOK, At, Running
    <3> QED BY <3>1, <3>2 DEF TurnOK, ContextOK, At
  <2>3. CASE ~Running(t)
    <3>1. turn'[t] = turn[t] /\ turn[t].at \in {"new", "ended"} BY <2>3, <1>5 DEF Running
    <3>2. turn[t].seen \subseteq Turns BY <1>3 DEF TurnRecords
    <3>3. ContextOK(turn[t])'
      <4>1. lost \subseteq lost' BY <1>9
      <4> QED BY <2>1, <1>7, <3>1, <3>2, <4>1 DEF ContextOK, TurnOK, Both, Message
    <3>4. \A w \in turn[t].seen : w \in received' /\ SessionOf(w)' = SessionOf(t)'
        BY <2>1, <1>2, <1>7, <3>2 DEF TurnOK
    <3> QED BY <2>1, <3>1, <3>3, <3>4 DEF TurnOK, At, SessionOf
  <2> QED BY <2>2, <2>3
<1>14. \A s \in Sessions : SavedOK(s)'
  <2> SUFFICES ASSUME NEW s \in Sessions, NEW i \in DOMAIN history[s]
               PROVE  LET m == history[s][i] IN
                      /\ turn'[m.turn].session = s
                      /\ turn'[m.turn].at \in {"reply", "finish", "ended"}
                      /\ m.role = "answer" => turn'[m.turn].at \in {"finish", "ended"}
      BY <1>2 DEF SavedOK, SessionOf
  <2> DEFINE m == history[s][i]
  <2>1. m \in Saved BY <1>1 DEF ChatTypeOK
  <2>2. /\ turn[m.turn].session = s
        /\ turn[m.turn].at \in {"reply", "finish", "ended"}
        /\ m.role = "answer" => turn[m.turn].at \in {"finish", "ended"}
      BY DEF ChatInv, SavedOK, SessionOf
  <2> HIDE DEF m
  <2>3. m.turn \in Turns BY <2>1 DEF Saved
  <2>4. /\ turn'[m.turn].session = s
        /\ turn'[m.turn].at \in {"reply", "finish", "ended"}
        /\ m.role = "answer" => turn'[m.turn].at \in {"finish", "ended"}
      BY <2>2, <2>3, <1>7, <1>8 DEF SessionOf
  <2> QED BY <2>4 DEF m
<1>15. \A t \in Turns : Whole(t)'
  <2> SUFFICES ASSUME NEW t \in Turns, t \notin lost', SessionOf(t) # None
               PROVE  WholeIn(t, history[SessionOf(t)], turn'[t].at)
      BY <1>2, <1>7 DEF Whole
  <2>1. WholeIn(t, history[SessionOf(t)], turn[t].at) BY <1>9 DEF ChatInv, Whole
  <2>2. turn[t].at # "reply" BY <1>9 DEF Unsaved
  <2> QED BY <2>1, <2>2 DEF WholeIn
<1>16. \A t \in Turns : WireOK(t)'
  <2> SUFFICES ASSUME NEW t \in Turns, NEW k \in DOMAIN wire'[t]
               PROVE  /\ wire'[t][k] \in {"done", "response", "degraded"} => Settled(t)'
                      /\ wire'[t][k] \in {"done", "response"} => Delivered(t)'
      BY DEF WireOK
  <2>1. CASE k \in DOMAIN wire[t] /\ wire'[t][k] = wire[t][k]
      BY <2>1, <1>10, <1>11 DEF ChatInv, WireOK
  <2>2. CASE ~(k \in DOMAIN wire[t] /\ wire'[t][k] = wire[t][k])
    <3>1. wire'[t] \in {wire[t], Append(wire[t], "broken")} /\ wire[t] \in Seq(Events)
        BY <1>1 DEF Restart, ChatTypeOK
    <3>2. wire'[t][k] = "broken" BY <2>2, <3>1
    <3> QED BY <3>2
  <2> QED BY <2>1, <2>2
<1>17. \A t \in received' : Delivered(t)' BY <1>1, <1>2, <1>11 DEF ChatInv, ChatTypeOK
<1>18. \A t \in judged' : Settled(t)' /\ t \notin inference'
    BY <1>1, <1>2, <1>10 DEF ChatInv, ChatTypeOK
<1>19. (\A i \in DOMAIN messages : EntryOK(messages[i]))'
  <2> SUFFICES ASSUME NEW i \in DOMAIN messages, messages[i].ids # None
               PROVE  SettledAs(turn'[messages[i].ids])
      BY <1>2 DEF EntryOK, Settled
  <2>2. messages[i].ids \in Turns BY <1>1, ListsAreTyped
  <2>3. Settled(messages[i].ids) BY DEF ChatInv, EntryOK
  <2> QED BY <2>2, <2>3, <1>10 DEF Settled
<1>20. LoadOK'
  <2>1. load' = load /\ LoadOK BY <1>2 DEF ChatInv
  <2>2. load # None => \A i \in DOMAIN load.list : load.list[i].turn \in Turns
      BY <1>1, ListsAreTyped
  <2> QED BY <2>1, <2>2, <1>7 DEF LoadOK
<1>21. Waits'
    BY <1>1, <1>2, <1>7 DEF ChatInv, ChatTypeOK, Waits
<1>22. SessionIsShown'
  <2>1. \A i \in DOMAIN messages : messages[i].text \union {messages[i].turn} \subseteq Turns
      BY <1>1, ListsAreTyped
  <2>2. SessionIsShown BY DEF ChatInv
  <2> QED BY <2>1, <2>2, <1>2, <1>7 DEF SessionIsShown
<1> QED BY <1>12, <1>13, <1>14, <1>15, <1>16, <1>17, <1>18, <1>19, <1>20, <1>21, <1>22 DEF ChatInv

-----------------------------------------------------------------------------
(* A step of the tab leaves the routes and what is saved alone.            *)
LEMMA TabKeepsRoutes ==
    ASSUME ChatInv, UNCHANGED <<turn, history, inference, lost>>, received \subseteq received'
    PROVE  /\ \A t \in Turns : TurnOK(t)' /\ Whole(t)'
           /\ \A s \in Sessions : SavedOK(s)'
           /\ \A t \in Turns : Settled(t)' = Settled(t) /\ Delivered(t)' = Delivered(t)
                               /\ SessionOf(t)' = SessionOf(t)
<1>1. \A t \in Turns : Settled(t)' = Settled(t) /\ Delivered(t)' = Delivered(t)
                       /\ SessionOf(t)' = SessionOf(t)
    BY DEF Settled, Delivered, SessionOf, Kept, At
<1>2. \A s \in Sessions : SavedOK(s)' BY DEF ChatInv, SavedOK, SessionOf
<1>3. \A t \in Turns : Whole(t)' BY DEF ChatInv, Whole, SessionOf
<1>4. \A t \in Turns : TurnOK(t)'
  <2> SUFFICES ASSUME NEW t \in Turns PROVE TurnOK(t)' OBVIOUS
  <2>1. TurnOK(t) BY DEF ChatInv
  <2>2. ContextOK(turn[t])' BY <2>1 DEF TurnOK, ContextOK
  <2> QED BY <2>1, <2>2 DEF TurnOK, At, SessionOf, Kept
<1> QED BY <1>1, <1>2, <1>3, <1>4

(* ... and most of them what is sent, recorded and on its way, too.         *)
LEMMA TabKeepsWires ==
    ASSUME ChatInv, UNCHANGED <<turn, history, inference, lost>>
    PROVE  /\ wire' = wire => \A t \in Turns : WireOK(t)'
           /\ received' = received => \A t \in received' : Delivered(t)'
           /\ judged' = judged => \A t \in judged' : Settled(t)' /\ t \notin inference'
           /\ load' = load => LoadOK'
           /\ messages' = messages => (\A i \in DOMAIN messages : EntryOK(messages[i]))'
BY DEF ChatInv, WireOK, Delivered, Settled, Kept, At, SessionOf, LoadOK, EntryOK

LEMMA RateKeeps ==
    ASSUME ChatInv, Rate
    PROVE  ChatInv'
<1>1. PICK i \in DOMAIN messages :
        /\ messages[i].ids # None
        /\ judged' = judged \union {t \in {messages[i].ids} \ inference : Running(t)}
    BY DEF Rate
<1>2. UNCHANGED <<messages, sessionId, stream, index, load, turn, wire, history, inference,
                  received, replaced, hijacked, lost>>
    BY DEF Rate, tab
<1>3. ChatTypeOK BY DEF ChatInv
<1>4. messages[i].ids \in Turns /\ Settled(messages[i].ids)
    BY <1>1, <1>3, ListsAreTyped DEF ChatInv, EntryOK
<1>5. ChatTypeOK' BY <1>1, <1>2, <1>3, <1>4 DEF ChatTypeOK
<1>6. \A t \in judged' : Settled(t)' /\ t \notin inference'
    BY <1>1, <1>2, <1>4 DEF ChatInv, Settled
<1>7. SessionIsShown' /\ Waits'
    BY <1>2 DEF ChatInv, SessionIsShown, SessionOf, Waits
<1> QED BY <1>2, <1>5, <1>6, <1>7, TabKeepsRoutes, TabKeepsWires DEF ChatInv

LEMMA LoadHistoryKeeps ==
    ASSUME ChatInv, StoresInv, LoadHistory
    PROVE  ChatInv'
<1>1. PICK s \in Sessions : load' = [session |-> s, list |-> Listed(s)] BY DEF LoadHistory
<1>2. UNCHANGED <<messages, sessionId, stream, index, turn, wire, history, inference,
                  judged, received, replaced, hijacked, lost>>
    BY DEF LoadHistory, tab, traces
<1>3. ChatTypeOK BY DEF ChatInv
<1> DEFINE saved == Readable(s)
<1>4. saved \in Seq(Saved)
    BY <1>3 DEF ChatTypeOK, StoresInv, Readable
<1>5. \A i \in DOMAIN saved :
          /\ saved[i].turn \in Turns /\ saved[i].role \in Roles
          /\ SessionOf(saved[i].turn) = s
  <2>1. \A i \in DOMAIN saved : saved[i] \in Saved BY <1>4
  <2>2. \A i \in DOMAIN saved : SessionOf(saved[i].turn) = s
      BY DEF ChatInv, SavedOK, StoresInv, RedisOK, Readable
  <2> QED BY <2>1, <2>2 DEF Saved
<1>6. \A i \in DOMAIN saved :
          /\ Listed(s)[i] \in Entries
          /\ Listed(s)[i].turn = saved[i].turn /\ Listed(s)[i].ids = None
          /\ Listed(s)[i].text = {saved[i].turn}
    BY <1>5 DEF Listed, Entry, Entries
<1>7. DOMAIN Listed(s) = DOMAIN saved BY DEF Listed
<1>8. Listed(s) \in Seq(Entries)
  <2> DEFINE n == Len(saved)
             given(i) == Entry(saved[i].turn, saved[i].role, {saved[i].turn}, None)
  <2>1. n \in Nat /\ DOMAIN saved = 1..n BY <1>4
  <2>2. Listed(s) = [i \in DOMAIN saved |-> given(i)] BY DEF Listed
  <2>3. \A i \in DOMAIN saved : given(i) \in Entries BY <1>5 DEF Entry, Entries
  <2> HIDE DEF n, given, saved
  <2>4. Listed(s) = [i \in 1..n |-> given(i)] BY <2>1, <2>2
  <2> QED BY <2>1, <2>3, <2>4
<1> HIDE DEF saved
<1>9. ChatTypeOK'
  <2>1. load' \in [session : Sessions, list : Seq(Entries)] BY <1>1, <1>8
  <2> QED BY <2>1, <1>2, <1>3 DEF ChatTypeOK
<1>10. LoadOK' BY <1>1, <1>2, <1>5, <1>6, <1>7 DEF LoadOK, SessionOf
<1>11. SessionIsShown' /\ Waits'
    BY <1>2 DEF ChatInv, SessionIsShown, SessionOf, Waits
<1> QED BY <1>2, <1>9, <1>10, <1>11, TabKeepsRoutes, TabKeepsWires DEF ChatInv

(* Another list, of one session and without ids.                           *)
LEMMA ReplaceKeeps ==
    ASSUME ChatInv, NEW list \in Seq(Entries), NEW s \in Sessions, Replace(list, s),
           \A i \in DOMAIN list : /\ list[i].ids = None /\ list[i].text = {list[i].turn}
                                  /\ SessionOf(list[i].turn) = s,
           load' \in {load, None},
           UNCHANGED <<stream, index, turn, wire, history, inference, judged, received, lost>>
    PROVE  ChatInv'
<1>1. ChatTypeOK BY DEF ChatInv
<1>2. /\ messages' = list /\ sessionId' = s /\ hijacked' = FALSE
      /\ replaced' = IF stream = None THEN replaced ELSE replaced \union {stream}
    BY DEF Replace
<1>3. ChatTypeOK' BY <1>1, <1>2 DEF ChatTypeOK
<1>4. LoadOK' BY DEF ChatInv, LoadOK, SessionOf
<1>5. (\A i \in DOMAIN messages : EntryOK(messages[i]))' BY <1>2 DEF EntryOK
<1>6. SessionIsShown'
  <2>1. \A i \in DOMAIN list : \A t \in list[i].text \union {list[i].turn} :
            turn'[t].session = sessionId'
      BY <1>2 DEF SessionOf
  <2> QED BY <2>1, <1>2 DEF SessionIsShown, SessionOf
<1>7. Waits' BY <1>2 DEF ChatInv, Waits, SessionOf
<1> QED BY <1>3, <1>4, <1>5, <1>6, <1>7, TabKeepsRoutes, TabKeepsWires DEF ChatInv

LEMMA NewSessionKeeps ==
    ASSUME ChatInv, NewSession
    PROVE  ChatInv'
<1>1. PICK s \in Sessions : Replace(<<>>, s) BY DEF NewSession
<1>2. <<>> \in Seq(Entries) /\ DOMAIN <<>> = {} OBVIOUS
<1>3. UNCHANGED <<stream, index, load, turn, wire, history, inference, judged, received, lost>>
    BY DEF NewSession
<1> QED BY <1>1, <1>2, <1>3, ReplaceKeeps

LEMMA HistoryArrivesKeeps ==
    ASSUME ChatInv, HistoryArrives
    PROVE  ChatInv'
<1>1. load # None /\ load' = None
      /\ UNCHANGED <<stream, index, turn, wire, history, inference, judged, received, lost>>
    BY DEF HistoryArrives
<1>2. ChatTypeOK BY DEF ChatInv
<1>3. CASE Replace(load.list, load.session)
  <2>1. load.list \in Seq(Entries) /\ load.session \in Sessions BY <1>1, <1>2 DEF ChatTypeOK
  <2>2. \A i \in DOMAIN load.list :
            /\ load.list[i].ids = None /\ load.list[i].text = {load.list[i].turn}
            /\ SessionOf(load.list[i].turn) = load.session
      BY <1>1 DEF ChatInv, LoadOK
  <2> QED BY <2>1, <2>2, <1>1, <1>3, ReplaceKeeps
<1>4. CASE UNCHANGED <<messages, sessionId, replaced, hijacked>>
  <2>1. ChatTypeOK' BY <1>1, <1>2, <1>4 DEF ChatTypeOK
  <2>2. LoadOK' BY <1>1 DEF LoadOK
  <2>3. SessionIsShown' /\ Waits'
      BY <1>1, <1>4 DEF ChatInv, SessionIsShown, SessionOf, Waits
  <2> QED BY <1>1, <1>4, <2>1, <2>2, <2>3, TabKeepsRoutes, TabKeepsWires DEF ChatInv
<1> QED BY <1>3, <1>4 DEF HistoryArrives

LEMMA ReloadKeeps ==
    ASSUME ChatInv, Reload
    PROVE  ChatInv'
<1>1. /\ sessionId' \in Sessions /\ messages' = <<>> /\ stream' = None /\ index' = 0
      /\ load' = None /\ hijacked' = FALSE /\ wire' = [t \in Turns |-> <<>>]
      /\ UNCHANGED <<turn, history, inference, judged, received, replaced, lost>>
    BY DEF Reload
<1>2. ChatTypeOK'
  <2>1. <<>> \in Seq(Entries) /\ <<>> \in Seq(Events) OBVIOUS
  <2>2. ChatTypeOK BY DEF ChatInv
  <2> QED BY <1>1, <2>1, <2>2 DEF ChatTypeOK
<1>3. \A t \in Turns : WireOK(t)' BY <1>1 DEF WireOK
<1>4. LoadOK' /\ (\A i \in DOMAIN messages : EntryOK(messages[i]))' /\ SessionIsShown' /\ Waits'
    BY <1>1 DEF LoadOK, SessionIsShown, Waits
<1> QED BY <1>1, <1>2, <1>3, <1>4, TabKeepsRoutes, TabKeepsWires DEF ChatInv

-----------------------------------------------------------------------------
LEMMA TailShifts ==
    ASSUME NEW S, NEW list \in Seq(S), list # <<>>
    PROVE  /\ Tail(list) \in Seq(S) /\ Head(list) = list[1] /\ 1 \in DOMAIN list
           /\ \A k \in DOMAIN Tail(list) : k + 1 \in DOMAIN list /\ Tail(list)[k] = list[k + 1]
OBVIOUS

(* An event changes one message of the list, or none.                      *)
LEMMA SlotIsSet ==
    ASSUME ChatTypeOK, NEW text, NEW ids, SetSlot(text, ids),
           index \in DOMAIN messages => text \subseteq Turns /\ ids \in Turns \union {None}
    PROVE  /\ messages' \in Seq(Entries)
           /\ DOMAIN messages' = DOMAIN messages
           /\ \A i \in DOMAIN messages :
                /\ messages'[i].turn = messages[i].turn
                /\ i # index => messages'[i] = messages[i]
                /\ i = index => messages'[i].text = text /\ messages'[i].ids = ids
<1>1. messages \in Seq(Entries) BY DEF ChatTypeOK
<1>2. CASE index \notin DOMAIN messages BY <1>1, <1>2 DEF SetSlot
<1>3. CASE index \in DOMAIN messages
  <2> DEFINE old == messages[index]
             new == [old EXCEPT !.text = text, !.ids = ids]
  <2>1. messages' = [messages EXCEPT ![index] = new] BY <1>3 DEF SetSlot
  <2>2. old \in Entries BY <1>1, <1>3
  <2>3. new \in Entries /\ new.turn = old.turn /\ new.text = text /\ new.ids = ids
    <3> HIDE DEF old
    <3> QED BY <2>2, <1>3 DEF Entries
  <2> HIDE DEF new, old
  <2>4. messages' \in Seq(Entries) /\ DOMAIN messages' = DOMAIN messages
    <3> DEFINE n == Len(messages)
    <3>1. n \in Nat /\ DOMAIN messages = 1..n /\ messages \in [1..n -> Entries] BY <1>1
    <3> HIDE DEF n
    <3>2. messages' \in [1..n -> Entries] BY <2>1, <2>3, <3>1
    <3> QED BY <3>1, <3>2
  <2>5. \A i \in DOMAIN messages : messages'[i] = IF i = index THEN new ELSE messages[i]
      BY <1>1, <2>1
  <2> QED BY <2>3, <2>4, <2>5 DEF old
<1> QED BY <1>2, <1>3

LEMMA ListIsAppended ==
    ASSUME ChatTypeOK, NEW entry \in Entries, messages' = Append(messages, entry)
    PROVE  /\ messages' \in Seq(Entries)
           /\ \A i \in DOMAIN messages' :
                messages'[i] = entry \/ (i \in DOMAIN messages /\ messages'[i] = messages[i])
BY DEF ChatTypeOK

(* What the tab reads next for the turn it waits for.                      *)
LEMMA EventIsRead ==
    ASSUME ChatInv, Read
    PROVE  LET event == Head(wire[stream]) IN
           /\ stream \in Turns /\ ChatTypeOK
           /\ stream \in replaced \/ SessionOf(stream) = sessionId
           /\ SessionOf(stream) \in Sessions
           /\ event \in {"done", "response", "degraded"} => Settled(stream)
           /\ event \in {"done", "response"} => Delivered(stream)
           /\ wire' \in [Turns -> Seq(Events)] /\ \A t \in Turns : WireOK(t)'
           /\ UNCHANGED <<load, turn, history, inference, judged, replaced, lost>>
<1>1. ChatTypeOK BY DEF ChatInv
<1>2. stream \in Turns /\ wire[stream] # <<>> BY <1>1 DEF Read, ChatTypeOK
<1>3. wire \in [Turns -> Seq(Events)] BY <1>1 DEF ChatTypeOK
<1>4. /\ Tail(wire[stream]) \in Seq(Events) /\ Head(wire[stream]) = wire[stream][1]
      /\ 1 \in DOMAIN wire[stream]
      /\ \A k \in DOMAIN Tail(wire[stream]) :
           k + 1 \in DOMAIN wire[stream] /\ Tail(wire[stream])[k] = wire[stream][k + 1]
    BY <1>2, <1>3, TailShifts
<1>5. wire' = [wire EXCEPT ![stream] = Tail(wire[stream])]
      /\ UNCHANGED <<load, turn, history, inference, judged, replaced, lost>>
    BY DEF Read
<1>6. \A t \in Turns : WireOK(t)'
  <2> SUFFICES ASSUME NEW t \in Turns, NEW k \in DOMAIN wire'[t]
               PROVE  /\ wire'[t][k] \in {"done", "response", "degraded"} => Settled(t)
                      /\ wire'[t][k] \in {"done", "response"} => Delivered(t)
      BY <1>5 DEF WireOK, Settled, Delivered, At, Kept, SessionOf
  <2>1. \E j \in DOMAIN wire[t] : wire'[t][k] = wire[t][j] BY <1>2, <1>3, <1>4, <1>5
  <2> QED BY <2>1 DEF ChatInv, WireOK
<1>7. LET event == Head(wire[stream]) IN
      /\ event \in {"done", "response", "degraded"} => Settled(stream)
      /\ event \in {"done", "response"} => Delivered(stream)
    BY <1>2, <1>4 DEF ChatInv, WireOK
<1>8. SessionOf(stream) \in Sessions /\ (stream \in replaced \/ SessionOf(stream) = sessionId)
    BY <1>2, NoneIsApart DEF ChatInv, Waits
<1>9. wire' \in [Turns -> Seq(Events)] BY <1>3, <1>4, <1>5
<1> QED BY <1>1, <1>2, <1>5, <1>6, <1>7, <1>8, <1>9

(* An event that leaves the list alone and makes its session the tab's.     *)
LEMMA SessionIsAdopted ==
    ASSUME ChatInv, Read, Adopt(stream),
           \A i \in DOMAIN messages' :
               \/ i \in DOMAIN messages /\ messages'[i] = messages[i]
               \/ messages'[i].text \union {messages'[i].turn} = {stream}
    PROVE  /\ sessionId' \in Sessions /\ hijacked' \in BOOLEAN
           /\ SessionIsShown'
           /\ stream' \in {stream, None} => Waits'
<1>1. /\ stream \in Turns /\ ChatTypeOK /\ SessionOf(stream) \in Sessions
      /\ stream \in replaced \/ SessionOf(stream) = sessionId
      /\ turn' = turn /\ replaced' = replaced
    BY EventIsRead
<1>2. sessionId' = SessionOf(stream)
      /\ hijacked' = (hijacked \/ (stream \in replaced /\ sessionId # SessionOf(stream)))
    BY DEF Adopt
<1>3. hijacked \in BOOLEAN BY <1>1 DEF ChatTypeOK
<1>4. hijacked' \in BOOLEAN BY <1>2, <1>3, Zenon
<1>5. SessionIsShown'
  <2> SUFFICES ASSUME ~hijacked', NEW i \in DOMAIN messages',
                      NEW t \in messages'[i].text \union {messages'[i].turn}
               PROVE  t \in replaced \/ turn[t].session = sessionId'
      BY <1>1 DEF SessionIsShown, SessionOf
  <2>1. ~hijacked /\ sessionId' = sessionId BY <1>1, <1>2
  <2>2. CASE i \in DOMAIN messages /\ messages'[i] = messages[i]
      BY <2>1, <2>2 DEF ChatInv, SessionIsShown, SessionOf
  <2>3. CASE messages'[i].text \union {messages'[i].turn} = {stream}
      BY <2>3, <1>2 DEF SessionOf
  <2> QED BY <2>2, <2>3
<1>6. stream' \in {stream, None} => Waits'
    BY <1>1, <1>2 DEF Waits, SessionOf
<1> QED BY <1>1, <1>2, <1>4, <1>5, <1>6

(* An event that shows its text, or none, at the index of the turn.         *)
LEMMA SlotIsShown ==
    ASSUME ChatInv, Read, KeepSession, NEW text, NEW ids, SetSlot(text, ids),
           index \in DOMAIN messages =>
               /\ text \subseteq Shown.text \union {stream}
               /\ ids = Shown.ids \/ (ids = stream /\ Settled(stream))
    PROVE  /\ messages' \in Seq(Entries)
           /\ (\A i \in DOMAIN messages : EntryOK(messages[i]))'
           /\ sessionId' \in Sessions /\ hijacked' \in BOOLEAN
           /\ SessionIsShown'
           /\ stream' \in {stream, None} => Waits'
<1>1. /\ stream \in Turns /\ ChatTypeOK /\ SessionOf(stream) \in Sessions
      /\ stream \in replaced \/ SessionOf(stream) = sessionId
      /\ turn' = turn /\ replaced' = replaced
    BY EventIsRead
<1>2. sessionId' = sessionId /\ hijacked' = hijacked BY DEF KeepSession
<1>3. \A i \in DOMAIN messages : messages[i].text \subseteq Turns /\ messages[i].ids \in Turns \union {None}
    BY <1>1, ListsAreTyped
<1>4. index \in DOMAIN messages => text \subseteq Turns /\ ids \in Turns \union {None}
    BY <1>1, <1>3 DEF Shown
<1>5. /\ messages' \in Seq(Entries) /\ DOMAIN messages' = DOMAIN messages
      /\ \A i \in DOMAIN messages :
           /\ messages'[i].turn = messages[i].turn
           /\ i # index => messages'[i] = messages[i]
           /\ i = index => messages'[i].text = text /\ messages'[i].ids = ids
    BY <1>1, <1>4, SlotIsSet
<1>6. (\A i \in DOMAIN messages : EntryOK(messages[i]))'
  <2> SUFFICES ASSUME NEW i \in DOMAIN messages, messages'[i].ids # None
               PROVE  SettledAs(turn[messages'[i].ids])
      BY <1>1, <1>5 DEF EntryOK, Settled
  <2>1. messages[i].ids # None => Settled(messages[i].ids) BY DEF ChatInv, EntryOK
  <2>2. CASE i # index BY <2>1, <2>2, <1>5 DEF Settled
  <2>3. CASE i = index
    <3>1. messages'[i].ids = messages[i].ids \/ (messages'[i].ids = stream /\ Settled(stream))
        BY <2>3, <1>5 DEF Shown
    <3> QED BY <3>1, <2>1 DEF Settled
  <2> QED BY <2>2, <2>3
<1>7. SessionIsShown'
  <2> SUFFICES ASSUME ~hijacked, NEW i \in DOMAIN messages,
                      NEW t \in messages'[i].text \union {messages'[i].turn}
               PROVE  t \in replaced \/ turn[t].session = sessionId
      BY <1>1, <1>2, <1>5 DEF SessionIsShown, SessionOf
  <2>1. t \in messages[i].text \union {messages[i].turn} \/ t = stream BY <1>5 DEF Shown
  <2> QED BY <2>1, <1>1 DEF ChatInv, SessionIsShown, SessionOf
<1>8. stream' \in {stream, None} => Waits' BY <1>1, <1>2 DEF Waits, SessionOf
<1>9. sessionId' \in Sessions /\ hijacked' \in BOOLEAN BY <1>1, <1>2 DEF ChatTypeOK
<1> QED BY <1>5, <1>6, <1>7, <1>8, <1>9

LEMMA ReadKeeps ==
    ASSUME ChatInv, Read
    PROVE  ChatInv'
<1> DEFINE event == Head(wire[stream])
           TabOK == /\ messages' \in Seq(Entries) /\ (\A i \in DOMAIN messages : EntryOK(messages[i]))'
                    /\ sessionId' \in Sessions /\ hijacked' \in BOOLEAN
                    /\ SessionIsShown' /\ Waits'
                    /\ received \subseteq received' /\ received' \in SUBSET Turns
                    /\ \A t \in received' : Delivered(t)
<1>1. /\ stream \in Turns /\ ChatTypeOK
      /\ event \in {"done", "response", "degraded"} => Settled(stream)
      /\ event \in {"done", "response"} => Delivered(stream)
      /\ wire' \in [Turns -> Seq(Events)] /\ \A t \in Turns : WireOK(t)'
      /\ UNCHANGED <<load, turn, history, inference, judged, replaced, lost>>
    BY EventIsRead
<1>2. \/ ReadSession(stream, event) \/ ReadToken(stream, event) \/ ReadDone(stream, event)
      \/ ReadError(stream, event) \/ ReadResponse(stream, event) \/ ReadFailure(stream, event)
    BY DEF Read
<1> HIDE DEF event
<1>3. stream' \in {stream, None} /\ index' \in {index, 0}
    BY <1>2 DEF ReadSession, ReadToken, ReadDone, ReadError, ReadResponse, ReadFailure, Free, Wait
<1>4. \A t \in received : Delivered(t) BY DEF ChatInv
<1>5. received \in SUBSET Turns BY <1>1 DEF ChatTypeOK
<1>6. ASSUME ReadSession(stream, event) PROVE TabOK
  <2>1. Adopt(stream) /\ UNCHANGED <<messages, received>> BY <1>6 DEF ReadSession
  <2>2. /\ sessionId' \in Sessions /\ hijacked' \in BOOLEAN /\ SessionIsShown' /\ Waits'
      BY <2>1, <1>3, SessionIsAdopted
  <2>3. (\A i \in DOMAIN messages : EntryOK(messages[i]))'
      BY <2>1, <1>1 DEF ChatInv, EntryOK, Settled
  <2>4. messages' \in Seq(Entries) BY <2>1, <1>1 DEF ChatTypeOK
  <2> QED BY <2>1, <2>2, <2>3, <2>4, <1>4, <1>5
<1>7. ASSUME ReadToken(stream, event) PROVE TabOK
  <2>1. SetSlot(Shown.text \union {stream}, Shown.ids) /\ KeepSession /\ received' = received
      BY <1>7 DEF ReadToken
  <2> QED BY <2>1, <1>3, <1>4, <1>5, SlotIsShown
<1>8. ASSUME ReadDone(stream, event) PROVE TabOK
  <2>1. SetSlot({stream}, stream) /\ KeepSession /\ received' = received \union {stream}
        /\ event = "done"
      BY <1>8 DEF ReadDone
  <2> QED BY <2>1, <1>1, <1>3, <1>4, <1>5, SlotIsShown
<1>9. ASSUME ReadError(stream, event) PROVE TabOK
  <2>1. SetSlot({}, Shown.ids) /\ KeepSession /\ received' = received BY <1>9 DEF ReadError
  <2> QED BY <2>1, <1>3, <1>4, <1>5, SlotIsShown
<1>10. ASSUME ReadResponse(stream, event) PROVE TabOK
  <2> DEFINE entry == Entry(stream, "answer", {stream}, stream)
  <2>1. messages' = Append(messages, entry) /\ Adopt(stream) /\ event \in {"response", "degraded"}
        /\ received' = IF event = "response" THEN received \union {stream} ELSE received
      BY <1>10 DEF ReadResponse
  <2>2. entry \in Entries /\ entry.turn = stream /\ entry.text = {stream} /\ entry.ids = stream
      BY <1>1 DEF Entry, Entries, Roles
  <2> HIDE DEF entry
  <2>3. messages' \in Seq(Entries)
        /\ \A i \in DOMAIN messages' :
             messages'[i] = entry \/ (i \in DOMAIN messages /\ messages'[i] = messages[i])
      BY <2>1, <2>2, <1>1, ListIsAppended
  <2>4. /\ sessionId' \in Sessions /\ hijacked' \in BOOLEAN /\ SessionIsShown' /\ Waits'
      BY <2>1, <2>2, <2>3, <1>3, SessionIsAdopted
  <2>5. (\A i \in DOMAIN messages : EntryOK(messages[i]))'
      BY <2>1, <2>2, <2>3, <1>1 DEF ChatInv, EntryOK, Settled
  <2> QED BY <2>1, <2>3, <2>4, <2>5, <1>1, <1>4, <1>5
<1>11. ASSUME ReadFailure(stream, event) PROVE TabOK
  <2>1. KeepSession /\ received' = received BY <1>11 DEF ReadFailure
  <2>2. CASE SetSlot({}, Shown.ids) BY <2>1, <2>2, <1>3, <1>4, <1>5, SlotIsShown
  <2>3. CASE messages' = Append(messages, Entry(stream, "answer", {}, None))
    <3> DEFINE entry == Entry(stream, "answer", {}, None)
    <3>1. entry \in Entries /\ entry.turn = stream /\ entry.text = {} /\ entry.ids = None
        BY <1>1 DEF Entry, Entries, Roles
    <3> HIDE DEF entry
    <3>2. messages' \in Seq(Entries)
          /\ \A i \in DOMAIN messages' :
               messages'[i] = entry \/ (i \in DOMAIN messages /\ messages'[i] = messages[i])
        BY <2>3, <3>1, <1>1, ListIsAppended DEF entry
    <3>3. Waits BY DEF ChatInv
    <3>4. sessionId' = sessionId /\ hijacked' = hijacked BY <2>1 DEF KeepSession
    <3>5. SessionIsShown'
      <4> SUFFICES ASSUME ~hijacked, NEW i \in DOMAIN messages',
                          NEW t \in messages'[i].text \union {messages'[i].turn}
                   PROVE  t \in replaced \/ turn[t].session = sessionId
          BY <3>4, <1>1 DEF SessionIsShown, SessionOf
      <4>1. CASE messages'[i] = entry
          BY <4>1, <3>1, <3>3, <1>1, NoneIsApart DEF Waits, SessionOf
      <4>2. CASE i \in DOMAIN messages /\ messages'[i] = messages[i]
          BY <4>2 DEF ChatInv, SessionIsShown, SessionOf
      <4> QED BY <4>1, <4>2, <3>2
    <3>6. Waits' BY <3>3, <3>4, <1>1, <1>3 DEF Waits, SessionOf
    <3>7. (\A i \in DOMAIN messages : EntryOK(messages[i]))'
        BY <3>1, <3>2, <1>1 DEF ChatInv, EntryOK, Settled
    <3>8. sessionId' \in Sessions /\ hijacked' \in BOOLEAN BY <3>4, <1>1 DEF ChatTypeOK
    <3> QED BY <3>2, <3>5, <3>6, <3>7, <3>8, <2>1, <1>4, <1>5
  <2> QED BY <2>2, <2>3, <1>11 DEF ReadFailure
<1>12. TabOK BY <1>2, <1>6, <1>7, <1>8, <1>9, <1>10, <1>11
<1>13. ChatTypeOK'
  <2>1. stream' \in Turns \union {None} /\ index' \in Nat BY <1>1, <1>3 DEF ChatTypeOK
  <2> QED BY <2>1, <1>1, <1>12 DEF ChatTypeOK
<1>14. \A t \in received' : Delivered(t)' BY <1>1, <1>12, TabKeepsRoutes
<1>15. /\ \A t \in Turns : TurnOK(t)' /\ Whole(t)'
       /\ \A s \in Sessions : SavedOK(s)'
       /\ \A t \in judged' : Settled(t)' /\ t \notin inference'
       /\ LoadOK'
    BY <1>1, <1>12, TabKeepsRoutes, TabKeepsWires
<1> QED BY <1>1, <1>12, <1>13, <1>14, <1>15 DEF ChatInv

LEMMA SendKeeps ==
    ASSUME ChatInv, NEW t \in Turns, Send(t)
    PROVE  ChatInv'
<1> DEFINE seen == {u \in received : SessionOf(u) = sessionId}
           sends(mode) == [Unsent EXCEPT !.at = "sent", !.mode = mode, !.session = sessionId,
                                         !.seen = seen]
           question == Entry(t, "question", {t}, None)
           answer == Entry(t, "answer", {}, None)
<1>1. ChatTypeOK BY DEF ChatInv
<1>2. PICK mode \in Modes :
        /\ turn' = [turn EXCEPT ![t] = sends(mode)]
        /\ messages' = Append(messages, question) \o
                       (IF mode = "stream" THEN <<answer>> ELSE <<>>)
    BY DEF Send
<1> DEFINE next == sends(mode)
<1>3. /\ stream' = t /\ index' = Len(messages) + 2 /\ stream = None /\ At(t, "new")
      /\ UNCHANGED <<sessionId, load, wire, history, inference, judged, received, replaced,
                     hijacked, lost>>
    BY DEF Send, traces
<1>4. /\ next \in TurnRecords /\ next.at = "sent" /\ next.mode = mode /\ next.session = sessionId
      /\ next.seen = seen /\ next.context = None
  <2>1. Unsent \in TurnRecords /\ Unsent.context = None
      BY DEF Unsent, TurnRecords, Places, Modes, Routes
  <2>2. seen \in SUBSET Turns /\ sessionId \in Sessions \union {None} /\ "sent" \in Places
      BY <1>1 DEF ChatTypeOK, Places
  <2> HIDE DEF seen
  <2> QED BY <2>1, <2>2 DEF TurnRecords
<1> HIDE DEF next
<1>5. /\ turn' \in [Turns -> TurnRecords] /\ turn'[t] = next
      /\ \A u \in Turns \ {t} : turn'[u] = turn[u]
    BY <1>1, <1>2, <1>4 DEF ChatTypeOK, next
<1>6. turn[t] = Unsent /\ turn[t].at = "new" /\ SessionOf(t) = None
  <2>1. turn[t] = Unsent BY <1>3 DEF ChatInv, TurnOK
  <2>2. Unsent.at = "new" /\ Unsent.session = None BY DEF Unsent
  <2> QED BY <2>1, <2>2 DEF SessionOf
<1>7. ~Settled(t) BY <1>6 DEF Settled, SettledAs
<1>8. sessionId \in Sessions BY <1>1 DEF ChatTypeOK
<1>9. \A u \in Turns : Settled(u) => u # t /\ Settled(u)' BY <1>5, <1>7 DEF Settled
<1>10. \A u \in Turns : Delivered(u) => u # t /\ Delivered(u)'
    BY <1>3, <1>5, <1>9 DEF Delivered, At, Kept, SessionOf
<1>11. \A u \in received : u # t /\ u \in Turns
  <2>1. \A u \in received : Delivered(u) /\ u \in Turns BY <1>1 DEF ChatInv, ChatTypeOK
  <2> QED BY <2>1, <1>10
<1>12. \A u \in Turns : SessionOf(u) # None => SessionOf(u)' = SessionOf(u)
    BY <1>5, <1>6 DEF SessionOf
<1>13. \A u \in Turns : turn[u].at # "new" => turn'[u] = turn[u] /\ u # t BY <1>5, <1>6
<1>14. /\ messages' \in Seq(Entries)
       /\ \A i \in DOMAIN messages' :
            \/ i \in DOMAIN messages /\ messages'[i] = messages[i]
            \/ messages'[i] = question \/ messages'[i] = answer
  <2>1. question \in Entries /\ answer \in Entries BY DEF Entry, Entries, Roles
  <2>2. messages \in Seq(Entries) BY <1>1 DEF ChatTypeOK
  <2> HIDE DEF question, answer
  <2> DEFINE asked == Append(messages, question)
  <2>3. asked \in Seq(Entries)
        /\ \A i \in DOMAIN asked : \/ i \in DOMAIN messages /\ asked[i] = messages[i]
                                   \/ asked[i] = question
      BY <2>1, <2>2
  <2>4. CASE mode = "stream"
    <3>1. messages' = asked \o <<answer>> BY <2>4, <1>2
    <3>2. <<answer>> \in Seq(Entries) /\ ToSet(<<answer>>) = {answer} BY <2>1 DEF ToSet
    <3> HIDE DEF asked
    <3>3. /\ messages' \in Seq(Entries)
          /\ \A i \in DOMAIN asked : messages'[i] = asked[i]
          /\ \A i \in DOMAIN messages' \ DOMAIN asked : messages'[i] \in {answer}
        BY <2>3, <3>1, <3>2, ListGrows
    <3> QED BY <2>3, <3>3
  <2>5. CASE mode # "stream"
    <3>1. messages' = asked \o <<>> BY <2>5, <1>2
    <3> HIDE DEF asked
    <3>2. messages' = asked BY <2>3, <3>1
    <3> QED BY <2>3, <3>2
  <2> QED BY <2>4, <2>5
<1>15. /\ question.turn = t /\ question.text = {t} /\ question.ids = None
       /\ answer.turn = t /\ answer.text = {} /\ answer.ids = None
    BY DEF Entry
<1> HIDE DEF question, answer, seen
<1>16. ChatTypeOK'
  <2>1. stream' \in Turns \union {None} /\ index' \in Nat
    <3>1. messages \in Seq(Entries) BY <1>1 DEF ChatTypeOK
    <3> QED BY <3>1, <1>3
  <2> QED BY <2>1, <1>1, <1>3, <1>5, <1>14 DEF ChatTypeOK
<1>17. \A u \in Turns : TurnOK(u)'
  <2> SUFFICES ASSUME NEW u \in Turns PROVE TurnOK(u)' OBVIOUS
  <2>1. CASE u = t
    <3>1. \A w \in seen : w \in received /\ SessionOf(w)' = sessionId
        BY <1>8, <1>11, <1>12, NoneIsApart DEF seen
    <3> QED BY <2>1, <3>1, <1>3, <1>4, <1>5, <1>8 DEF TurnOK, ContextOK, At, SessionOf
  <2>2. CASE u # t
    <3>1. TurnOK(u) /\ turn'[u] = turn[u] BY <2>2, <1>5 DEF ChatInv
    <3>2. \A w \in turn[u].seen : w \in received /\ turn'[w] = turn[w]
        BY <3>1, <1>5, <1>11 DEF TurnOK
    <3>3. ContextOK(turn[u])' BY <3>1, <3>2, <1>3 DEF ContextOK, TurnOK, Both, Message
    <3>4. \A w \in turn[u].seen : SessionOf(w)' = SessionOf(u)'
        BY <3>1, <3>2 DEF TurnOK, SessionOf
    <3> QED BY <3>1, <3>2, <3>3, <3>4, <1>3 DEF TurnOK, At, SessionOf, Kept
  <2> QED BY <2>1, <2>2
<1>18. \A s \in Sessions : SavedOK(s)'
  <2> SUFFICES ASSUME NEW s \in Sessions, NEW i \in DOMAIN history[s]
               PROVE  LET m == history[s][i] IN
                      /\ turn'[m.turn].session = s
                      /\ turn'[m.turn].at \in {"reply", "finish", "ended"}
                      /\ m.role = "answer" => turn'[m.turn].at \in {"finish", "ended"}
      BY <1>3 DEF SavedOK, SessionOf
  <2> DEFINE m == history[s][i]
  <2>1. m \in Saved BY <1>1 DEF ChatTypeOK
  <2>2. /\ turn[m.turn].session = s
        /\ turn[m.turn].at \in {"reply", "finish", "ended"}
        /\ m.role = "answer" => turn[m.turn].at \in {"finish", "ended"}
      BY DEF ChatInv, SavedOK, SessionOf
  <2> HIDE DEF m
  <2>3. m.turn \in Turns BY <2>1 DEF Saved
  <2>4. turn'[m.turn] = turn[m.turn] BY <2>2, <2>3, <1>13
  <2> QED BY <2>2, <2>4 DEF m
<1>19. \A s \in Sessions : \A i \in DOMAIN history[s] : history[s][i].turn # t
    BY <1>6 DEF ChatInv, SavedOK
<1>20. \A u \in Turns : Whole(u)'
  <2> SUFFICES ASSUME NEW u \in Turns PROVE Whole(u)' OBVIOUS
  <2>1. CASE u = t
    <3>1. \A role : Message(t, role).turn = t BY DEF Message
    <3>2. \A i \in DOMAIN history[sessionId], role \in Roles :
              history[sessionId][i] # Message(t, role)
        BY <3>1, <1>8, <1>19
    <3>3. WholeIn(t, history[sessionId], turn'[t].at) BY <3>2 DEF WholeIn, Roles
    <3> QED BY <2>1, <3>3, <1>3, <1>4, <1>5 DEF Whole, SessionOf
  <2>2. CASE u # t
    <3>1. Whole(u) /\ turn'[u] = turn[u] BY <2>2, <1>5 DEF ChatInv
    <3> QED BY <3>1, <1>3 DEF Whole, SessionOf
  <2> QED BY <2>1, <2>2
<1>21. \A u \in Turns : WireOK(u)' BY <1>3, <1>9, <1>10 DEF ChatInv, WireOK
<1>22. \A u \in received' : Delivered(u)' BY <1>3, <1>10, <1>11 DEF ChatInv
<1>23. \A u \in judged' : Settled(u)' /\ u \notin inference'
    BY <1>1, <1>3, <1>9 DEF ChatInv, ChatTypeOK
<1>24. \A i \in DOMAIN messages :
           /\ messages[i].turn \in Turns /\ messages[i].text \subseteq Turns
           /\ messages[i].ids \in Turns \union {None}
    BY <1>1, ListsAreTyped
<1>25. (\A i \in DOMAIN messages : EntryOK(messages[i]))'
  <2> SUFFICES ASSUME NEW i \in DOMAIN messages', messages'[i].ids # None
               PROVE  SettledAs(turn'[messages'[i].ids])
      BY DEF EntryOK, Settled
  <2>1. i \in DOMAIN messages /\ messages'[i] = messages[i] BY <1>14, <1>15
  <2>2. Settled(messages[i].ids) /\ messages[i].ids \in Turns
      BY <2>1, <1>24 DEF ChatInv, EntryOK
  <2> QED BY <2>1, <2>2, <1>9 DEF Settled
<1>26. LoadOK'
  <2> SUFFICES ASSUME load # None, NEW i \in DOMAIN load.list
               PROVE  /\ load.list[i].ids = None
                      /\ load.list[i].text = {load.list[i].turn}
                      /\ turn'[load.list[i].turn].session = load.session
      BY <1>3 DEF LoadOK, SessionOf
  <2>1. /\ load.list[i].ids = None /\ load.list[i].text = {load.list[i].turn}
        /\ SessionOf(load.list[i].turn) = load.session
      BY DEF ChatInv, LoadOK
  <2>2. load.list[i].turn \in Turns /\ load.session \in Sessions
      BY <1>1, ListsAreTyped DEF ChatTypeOK
  <2> QED BY <2>1, <2>2, <1>12, NoneIsApart DEF SessionOf
<1>27. Waits' BY <1>3, <1>4, <1>5, <1>8 DEF Waits, SessionOf
<1>28. SessionIsShown'
  <2> SUFFICES ASSUME ~hijacked, NEW i \in DOMAIN messages',
                      NEW u \in messages'[i].text \union {messages'[i].turn}
               PROVE  u \in replaced \/ turn'[u].session = sessionId
      BY <1>3 DEF SessionIsShown, SessionOf
  <2>1. CASE u = t BY <2>1, <1>4, <1>5
  <2>2. CASE u # t
    <3>1. i \in DOMAIN messages /\ messages'[i] = messages[i] BY <2>2, <1>14, <1>15
    <3>2. u \in Turns BY <3>1, <1>24
    <3>3. u \in replaced \/ SessionOf(u) = sessionId BY <3>1 DEF ChatInv, SessionIsShown
    <3> QED BY <2>2, <3>2, <3>3, <1>5 DEF SessionOf
  <2> QED BY <2>1, <2>2
<1> QED BY <1>16, <1>17, <1>18, <1>20, <1>21, <1>22, <1>23, <1>25, <1>26, <1>27, <1>28 DEF ChatInv

-----------------------------------------------------------------------------
(* The two stores.                                                         *)
LEMMA StoresBegin == Init => StoresInv
<1> SUFFICES ASSUME Init PROVE StoresInv OBVIOUS
<1>1. history = [s \in Sessions |-> <<>>] /\ inRedis = history /\ memory = "redis" /\ begun = {}
      /\ turn = [t \in Turns |-> Unsent]
    BY DEF Init
<1>2. \A s \in Sessions : history[s] = <<>> /\ inRedis[s] = <<>> BY <1>1
<1>3. inRedis \in [Sessions -> Seq(Saved)] BY <1>1, EmptySeq
<1>4. \A t \in Turns : turn[t].at = "new"
  <2>1. Unsent.at = "new" BY DEF Unsent
  <2> QED BY <1>1, <2>1
<1>5. \A s \in Sessions : RedisOK(s) /\ IsInjective(history[s])
    BY <1>2 DEF RedisOK, IsInjective
<1> QED BY <1>1, <1>2, <1>3, <1>4, <1>5 DEF StoresInv, Stores

(* Redis keeps its lists, a route does not go back, and a save that is no   *)
(* longer under way is over.                                               *)
LEMMA RedisStays ==
    ASSUME StoresInv, inRedis' = inRedis,
           \A t \in Turns : turn[t].at \in Past =>
               /\ turn'[t].at \in Past /\ turn'[t].session = turn[t].session
               /\ turn'[t].at = "question" =>
                      turn[t].at = "question" /\ (t \in begun => t \in begun')
    PROVE  \A s \in Sessions : RedisOK(s)'
<1> SUFFICES ASSUME NEW s \in Sessions PROVE RedisOK(s)' OBVIOUS
<1>1. RedisOK(s) /\ inRedis[s] \in Seq(Saved) BY DEF StoresInv
<1>2. ASSUME NEW i \in DOMAIN inRedis[s]
      PROVE  /\ inRedis[s][i].role = "question"
             /\ turn'[inRedis[s][i].turn].session = s
             /\ turn'[inRedis[s][i].turn].at \in Past
             /\ turn'[inRedis[s][i].turn].at = "question" => inRedis[s][i].turn \in begun'
  <2> DEFINE m == inRedis[s][i]
  <2>1. m \in Saved BY <1>1
  <2>2. /\ m.role = "question" /\ turn[m.turn].session = s
        /\ turn[m.turn].at \in Past
        /\ turn[m.turn].at = "question" => m.turn \in begun
      BY <1>1 DEF RedisOK, SessionOf, At
  <2> HIDE DEF m
  <2>3. m.turn \in Turns BY <2>1 DEF Saved
  <2>4. /\ turn'[m.turn].at \in Past /\ turn'[m.turn].session = s
        /\ turn'[m.turn].at = "question" => m.turn \in begun'
      BY <2>2, <2>3
  <2> QED BY <2>2, <2>4 DEF m
<1>3. IsInjective(inRedis[s]) BY <1>1 DEF RedisOK
<1> QED BY <1>2, <1>3 DEF RedisOK, SessionOf, At

(* A step that leaves both stores alone.                                   *)
LEMMA StoresStay ==
    ASSUME StoresInv, UNCHANGED <<history, redisSide>>,
           \A t \in Turns :
               /\ turn'[t].at \in {"reply", "finish"} => turn[t].at \in {"reply", "finish"}
               /\ turn[t].at = "question" => turn'[t].at = "question"
               /\ turn[t].at \in Past =>
                    /\ turn'[t].at \in Past /\ turn'[t].session = turn[t].session
                    /\ turn'[t].at = "question" => turn[t].at = "question"
    PROVE  StoresInv'
<1>1. UNCHANGED <<inRedis, memory, begun>> BY DEF redisSide
<1>2. \A s \in Sessions : RedisOK(s)' BY <1>1, RedisStays
<1>3. \A t \in begun' : At(t, "question")' BY <1>1 DEF StoresInv, At
<1>4. \A t \in Turns : turn'[t].at \in {"reply", "finish"} => memory' = "sqlite"
    BY <1>1 DEF StoresInv
<1> QED BY <1>1, <1>2, <1>3, <1>4 DEF StoresInv

(* The routes between their saves.                                         *)
LEMMA OneMoves ==
    ASSUME StoresInv, UNCHANGED <<history, redisSide>>, NEW t \in Turns,
           \A u \in Turns \ {t} : turn'[u] = turn[u],
           \/ turn[t].at \notin Past /\ turn'[t].at \notin {"reply", "finish"}
           \/ turn[t].at = "finish" /\ turn'[t].at = "ended" /\ turn'[t].session = turn[t].session
    PROVE  StoresInv'
<1>1. ASSUME NEW u \in Turns
      PROVE  /\ turn'[u].at \in {"reply", "finish"} => turn[u].at \in {"reply", "finish"}
             /\ turn[u].at = "question" => turn'[u].at = "question"
             /\ turn[u].at \in Past =>
                  /\ turn'[u].at \in Past /\ turn'[u].session = turn[u].session
                  /\ turn'[u].at = "question" => turn[u].at = "question"
  <2>1. CASE u # t BY <2>1
  <2>2. CASE u = t BY <2>2 DEF Past
  <2> QED BY <2>1, <2>2
<1> QED BY <1>1, StoresStay

LEMMA ServeLeavesStores ==
    ASSUME ChatInv, StoresInv, NEW t \in Turns,
           Open(t) \/ ReadHistory(t) \/ TakenOver(t) \/ StreamAnswer(t) \/ PlainAnswer(t)
           \/ Fail(t) \/ Respond(t) \/ Finish(t)
    PROVE  StoresInv'
<1>1. turn \in [Turns -> TurnRecords] /\ turn[t] \in TurnRecords BY RouteBegins
<1>2. UNCHANGED <<history, redisSide>>
    BY DEF Open, ReadHistory, TakenOver, StreamAnswer, PlainAnswer, Fail, Respond, Finish
<1>3. \A u \in Turns \ {t} : turn'[u] = turn[u]
    BY <1>1 DEF Open, ReadHistory, TakenOver, StreamAnswer, PlainAnswer, Fail, Respond, Finish,
                GoTo, Answered, End
<1>4. CASE Open(t)
  <2>1. turn[t].at = "sent" BY <1>4 DEF Open, At
  <2>2. turn'[t].at \in {"answer", "read"} BY <1>1, <1>4 DEF Open, GoTo, TurnRecords
  <2> QED BY <2>1, <2>2, <1>2, <1>3, OneMoves DEF Past
<1>5. CASE ReadHistory(t)
  <2>1. turn[t].at \in {"read", "reread"} BY <1>5 DEF ReadHistory
  <2>2. turn'[t].at \in {"answer", "reanswer"} BY <1>1, <1>5 DEF ReadHistory, TurnRecords
  <2> QED BY <2>1, <2>2, <1>2, <1>3, OneMoves DEF Past
<1>6. CASE TakenOver(t)
  <2>1. turn[t].at = "answer" BY <1>6 DEF TakenOver, At
  <2>2. turn'[t].at = "reread" BY <1>1, <1>6 DEF TakenOver, TurnRecords
  <2> QED BY <2>1, <2>2, <1>2, <1>3, OneMoves DEF Past
<1>7. ASSUME NEW place \in {"question", "respond"}, Answered(t, place),
             turn[t].at \in {"answer", "reanswer"}
      PROVE  StoresInv'
  <2>1. turn'[t] = [Ended(t) EXCEPT !.at = place, !.route = turn[t].route]
      BY <1>1, <1>7 DEF Answered
  <2>2. place \in Places BY DEF Places
  <2>3. [Ended(t) EXCEPT !.at = place, !.route = turn[t].route].at = place
      BY <1>1, <2>2, AnswerRecord
  <2>4. turn'[t].at = place BY <2>1, <2>3
  <2> QED BY <2>4, <1>2, <1>3, <1>7, OneMoves DEF Past
<1>8. CASE StreamAnswer(t) \/ PlainAnswer(t) BY <1>7, <1>8 DEF StreamAnswer, PlainAnswer
<1>9. ASSUME End(t), turn[t].at \notin {"question", "reply", "ended"} PROVE StoresInv'
  <2>1. turn'[t] = Ended(t) BY <1>1, <1>9 DEF End
  <2>2. turn'[t].at = "ended" /\ turn'[t].session = turn[t].session BY <1>1, <2>1, Closed
  <2> QED BY <2>2, <1>2, <1>3, <1>9, OneMoves DEF Past
<1>10. CASE Fail(t) BY <1>9, <1>10 DEF Fail
<1>11. CASE Finish(t) BY <1>9, <1>11 DEF Finish, At
<1>12. CASE Respond(t)
  <2>1. turn[t].at = "respond" BY <1>12 DEF Respond, At
  <2>2. turn'[t].at = "question" BY <1>1, <1>12 DEF Respond, GoTo, TurnRecords
  <2> QED BY <2>1, <2>2, <1>2, <1>3, OneMoves DEF Past
<1> QED BY <1>4, <1>5, <1>6, <1>8, <1>10, <1>11, <1>12

LEMMA NewOneIsLast ==
    ASSUME NEW S, NEW list \in Seq(S), IsInjective(list), NEW e \in S,
           \A i \in DOMAIN list : list[i] # e
    PROVE  IsInjective(Append(list, e))
<1> DEFINE more == Append(list, e)
           n == Len(list) + 1
<1>1. /\ DOMAIN more = DOMAIN list \union {n} /\ more[n] = e
      /\ \A i \in DOMAIN list : more[i] = list[i]
    OBVIOUS
<1> HIDE DEF more, n
<1>2. IsInjective(more) BY <1>1 DEF IsInjective
<1> QED BY <1>2 DEF more

(* What a push adds to Redis is a question, and it is not there yet.        *)
LEMMA PushKeepsStores ==
    ASSUME ChatInv, StoresInv, NEW t \in Turns, Push(t)
    PROVE  StoresInv'
<1>1. /\ Unsaved(t) /\ memory # "sqlite" /\ t \notin begun /\ begun' = begun \union {t}
      /\ inRedis' \in {inRedis, [inRedis EXCEPT ![SessionOf(t)] = Append(@, Saving(t))]}
      /\ UNCHANGED <<turn, history, memory>>
    BY DEF Push
<1>2. At(t, "question")
  <2>1. turn[t].at # "reply" BY <1>1 DEF StoresInv
  <2> QED BY <1>1, <2>1 DEF Unsaved, At
<1>3. SessionOf(t) \in Sessions BY <1>2 DEF ChatInv, TurnOK, At
<1> DEFINE e == Saving(t)
           s == SessionOf(t)
<1>4. e \in Saved /\ e.turn = t /\ e.role = "question"
    BY <1>2 DEF Saving, Message, Saved, Roles
<1>5. inRedis \in [Sessions -> Seq(Saved)] BY DEF StoresInv
<1>6. ASSUME NEW r \in Sessions PROVE RedisOK(r)'
  <2>1. RedisOK(r) /\ inRedis[r] \in Seq(Saved) BY <1>5 DEF StoresInv
  <2>2. CASE inRedis'[r] = inRedis[r] BY <2>1, <2>2, <1>1 DEF RedisOK, SessionOf, At
  <2>3. CASE inRedis'[r] # inRedis[r]
    <3>1. r = s /\ inRedis'[r] = Append(inRedis[r], e) BY <2>3, <1>1, <1>5
    <3> DEFINE list == inRedis[r]
    <3>2. \A i \in DOMAIN list : list[i].turn # t BY <2>1, <1>1, <1>2 DEF RedisOK
    <3> HIDE DEF e
    <3>3. IsInjective(Append(list, e)) BY <2>1, <3>2, <1>4, NewOneIsLast DEF RedisOK
    <3> DEFINE more == Append(list, e)
    <3>4. \A i \in DOMAIN more : more[i] = e \/ (i \in DOMAIN list /\ more[i] = list[i])
        BY <2>1, <1>4
    <3>5. \A i \in DOMAIN list : /\ list[i].role = "question" /\ SessionOf(list[i].turn) = r
                                 /\ turn[list[i].turn].at \in Past
                                 /\ At(list[i].turn, "question") => list[i].turn \in begun
        BY <2>1 DEF RedisOK
    <3> HIDE DEF list, more
    <3>6. \A i \in DOMAIN more : /\ more[i].role = "question" /\ SessionOf(more[i].turn) = r
                                 /\ turn[more[i].turn].at \in Past
                                 /\ At(more[i].turn, "question") => more[i].turn \in begun'
        BY <3>1, <3>4, <3>5, <1>1, <1>2, <1>4 DEF At, Past
    <3>7. inRedis'[r] = more BY <3>1 DEF list, more
    <3>8. IsInjective(more) BY <3>3 DEF more
    <3>9. turn' = turn BY <1>1
    <3> QED BY <3>6, <3>7, <3>8, <3>9 DEF RedisOK, SessionOf, At
  <2> QED BY <2>2, <2>3
<1>7. inRedis' \in [Sessions -> Seq(Saved)]
  <2>1. inRedis[s] \in Seq(Saved) BY <1>3, <1>5
  <2> HIDE DEF e
  <2>2. Append(inRedis[s], e) \in Seq(Saved) BY <2>1, <1>4
  <2> QED BY <2>2, <1>1, <1>3, <1>5 DEF e
<1>8. \A u \in begun' : At(u, "question")' BY <1>1, <1>2 DEF StoresInv, At
<1>9. memory' \in Stores /\ begun' \subseteq Turns
      /\ (\A u \in Turns : turn'[u].at \in {"reply", "finish"} => memory' = "sqlite")
      /\ (memory' = "redis" => \A r \in Sessions : history'[r] = <<>>)
      /\ \A r \in Sessions : IsInjective(history'[r])
    BY <1>1 DEF StoresInv
<1> QED BY <1>6, <1>7, <1>8, <1>9 DEF StoresInv

(* A save leaves the process on SQLite, where each message is once.         *)
LEMMA SaveKeepsStores ==
    ASSUME ChatInv, StoresInv, NEW t \in Turns, SaveQuestion(t) \/ SaveAnswer(t)
    PROVE  StoresInv'
<1>1. turn \in [Turns -> TurnRecords] /\ turn[t] \in TurnRecords /\ ChatTypeOK /\ TurnOK(t)
    BY RouteBegins DEF ChatInv
<1>2. PICK role \in Roles :
        /\ Save(t, role)
        /\ \/ role = "question" /\ turn[t].at = "question"
           \/ role = "answer" /\ turn[t].at = "reply"
  <2>1. "question" \in Roles /\ "answer" \in Roles BY DEF Roles
  <2>2. CASE SaveQuestion(t) BY <2>1, <2>2 DEF SaveQuestion, At
  <2>3. CASE SaveAnswer(t) BY <2>1, <2>3 DEF SaveAnswer, At
  <2> QED BY <2>2, <2>3
<1>3. /\ Insert(t, role) \/ history' = history
      /\ memory' = "sqlite" /\ begun' = begun \ {t} /\ inRedis' = inRedis
    BY <1>2, SaveReaches
<1>4. /\ \A u \in Turns \ {t} : turn'[u] = turn[u]
      /\ turn'[t].at \in {"reply", "finish", "ended"} /\ turn'[t].session = turn[t].session
  <2>1. CASE GoTo(t, "reply") \/ GoTo(t, "finish") BY <2>1, <1>1 DEF GoTo, TurnRecords
  <2>2. CASE End(t)
    <3>1. turn'[t] = Ended(t) /\ \A u \in Turns \ {t} : turn'[u] = turn[u] BY <2>2, <1>1 DEF End
    <3> QED BY <3>1, <1>1, Closed
  <2> QED BY <2>1, <2>2 DEF SaveQuestion, SaveAnswer
<1>5. SessionOf(t) \in Sessions BY <1>1, <1>2 DEF TurnOK, At
<1>6. \A s \in Sessions : RedisOK(s)'
  <2>1. ASSUME NEW u \in Turns, turn[u].at \in Past
        PROVE  /\ turn'[u].at \in Past /\ turn'[u].session = turn[u].session
               /\ turn'[u].at = "question" =>
                      turn[u].at = "question" /\ (u \in begun => u \in begun')
    <3>1. CASE u # t BY <3>1, <2>1, <1>3, <1>4
    <3>2. CASE u = t BY <3>2, <1>4 DEF Past
    <3> QED BY <3>1, <3>2
  <2> QED BY <2>1, <1>3, RedisStays
<1>7. ASSUME NEW s \in Sessions PROVE IsInjective(history'[s])
  <2>1. IsInjective(history[s]) /\ history[s] \in Seq(Saved) BY <1>1 DEF StoresInv, ChatTypeOK
  <2>2. CASE history'[s] = history[s] BY <2>1, <2>2
  <2>3. CASE history'[s] # history[s]
    <3>1. Insert(t, role) BY <2>3, <1>3
    <3>2. history' = [history EXCEPT ![SessionOf(t)] = Append(history[SessionOf(t)], Message(t, role))]
        BY <3>1 DEF Insert
    <3>3. history'[s] = Append(history[s], Message(t, role))
        BY <2>3, <3>2, <1>1, <1>5 DEF ChatTypeOK
    <3>4. Message(t, role) \in Saved /\ Message(t, role).turn = t /\ Message(t, role).role = role
        BY DEF Message, Saved
    <3>5. \A i \in DOMAIN history[s] :
              LET m == history[s][i] IN
              /\ turn[m.turn].at \in {"reply", "finish", "ended"}
              /\ m.role = "answer" => turn[m.turn].at \in {"finish", "ended"}
        BY DEF ChatInv, SavedOK
    <3>6. \A i \in DOMAIN history[s] : history[s][i] # Message(t, role)
        BY <3>4, <3>5, <1>2
    <3> QED BY <2>1, <3>3, <3>4, <3>6, NewOneIsLast
  <2> QED BY <2>2, <2>3
<1>8. \A u \in begun' : At(u, "question")' BY <1>3, <1>4 DEF StoresInv, At
<1>9. inRedis' \in [Sessions -> Seq(Saved)] /\ memory' \in Stores /\ begun' \subseteq Turns
    BY <1>3 DEF StoresInv, Stores
<1> QED BY <1>3, <1>6, <1>7, <1>8, <1>9 DEF StoresInv

LEMMA CancelKeepsStores ==
    ASSUME ChatInv, StoresInv, NEW t \in Turns, Cancel(t)
    PROVE  StoresInv'
<1>1. turn \in [Turns -> TurnRecords] /\ turn[t] \in TurnRecords BY RouteBegins
<1>2. UNCHANGED <<history, inRedis, memory>> /\ begun' = begun \ {t} BY DEF Cancel
<1>3. /\ \A u \in Turns \ {t} : turn'[u] = turn[u]
      /\ turn'[t].at = "ended" /\ turn'[t].session = turn[t].session
  <2>1. turn'[t] = Ended(t) /\ \A u \in Turns \ {t} : turn'[u] = turn[u] BY <1>1 DEF Cancel, End
  <2> QED BY <2>1, <1>1, Closed
<1>4. \A s \in Sessions : RedisOK(s)'
  <2>1. ASSUME NEW u \in Turns, turn[u].at \in Past
        PROVE  /\ turn'[u].at \in Past /\ turn'[u].session = turn[u].session
               /\ turn'[u].at = "question" =>
                      turn[u].at = "question" /\ (u \in begun => u \in begun')
    <3>1. CASE u # t BY <3>1, <2>1, <1>2, <1>3
    <3>2. CASE u = t BY <3>2, <1>3 DEF Past
    <3> QED BY <3>1, <3>2
  <2> QED BY <2>1, <1>2, RedisStays
<1>5. \A u \in Turns : turn'[u].at \in {"reply", "finish"} => memory' = "sqlite"
    BY <1>2, <1>3 DEF StoresInv
<1>6. \A u \in begun' : At(u, "question")' BY <1>2, <1>3 DEF StoresInv, At
<1> QED BY <1>2, <1>4, <1>5, <1>6 DEF StoresInv

LEMMA DeleteSessionKeepsStores ==
    ASSUME ChatInv, StoresInv, DeleteSession
    PROVE  StoresInv'
<1>1. UNCHANGED <<turn, memory, begun>> BY DEF DeleteSession
<1>2. inRedis \in [Sessions -> Seq(Saved)] /\ history \in [Sessions -> Seq(Saved)]
    BY DEF StoresInv, ChatInv, ChatTypeOK
<1>3. IsInjective(<<>>) BY DEF IsInjective
<1>4. /\ inRedis' \in [Sessions -> Seq(Saved)]
      /\ \A s \in Sessions : inRedis'[s] \in {inRedis[s], <<>>} /\ history'[s] \in {history[s], <<>>}
    BY <1>2, EmptySeq DEF DeleteSession
<1>5. ASSUME NEW s \in Sessions PROVE RedisOK(s)' /\ IsInjective(history'[s])
  <2>1. RedisOK(s) /\ IsInjective(history[s]) BY DEF StoresInv
  <2>2. IsInjective(history'[s]) BY <2>1, <1>3, <1>4
  <2>3. CASE inRedis'[s] = inRedis[s]
    <3>1. turn' = turn /\ begun' = begun BY <1>1
    <3> QED BY <2>1, <2>2, <2>3, <3>1 DEF RedisOK, SessionOf, At
  <2>4. CASE inRedis'[s] = <<>>
    <3>1. DOMAIN (inRedis'[s]) = {} /\ IsInjective(inRedis'[s]) BY <2>4, <1>3
    <3> QED BY <2>2, <3>1 DEF RedisOK
  <2> QED BY <2>2, <2>3, <2>4, <1>4
<1>6. memory' = "redis" => \A s \in Sessions : history'[s] = <<>> BY <1>1, <1>4 DEF StoresInv
<1>7. (\A u \in begun' : At(u, "question")')
      /\ \A u \in Turns : turn'[u].at \in {"reply", "finish"} => memory' = "sqlite"
    BY <1>1 DEF StoresInv, At
<1> QED BY <1>1, <1>4, <1>5, <1>6, <1>7 DEF StoresInv

(* The next process starts on Redis, with nothing under way.               *)
LEMMA RestartKeepsStores ==
    ASSUME ChatInv, StoresInv, Restart
    PROVE  StoresInv'
<1>1. UNCHANGED <<history, inRedis>> /\ begun' = {}
      /\ memory' = IF memory = "redis" THEN "redis" ELSE "again"
    BY DEF Restart
<1>2. ASSUME NEW t \in Turns
      PROVE  /\ turn'[t].session = turn[t].session
             /\ turn'[t].at = IF Running(t) THEN "ended" ELSE turn[t].at
  <2>1. turn'[t] = IF Running(t) THEN Ended(t) ELSE turn[t] BY DEF Restart
  <2>2. turn[t] \in TurnRecords BY RouteBegins
  <2> QED BY <2>1, <2>2, Closed
<1>3. \A t \in Turns : turn'[t].at \in {"new", "ended"} /\ (turn[t].at \in Past => turn'[t].at \in Past)
    BY <1>2 DEF Running, Past
<1>4. \A s \in Sessions : RedisOK(s)' BY <1>1, <1>2, <1>3, RedisStays
<1>5. memory' \in Stores /\ (memory' = "redis" => \A s \in Sessions : history'[s] = <<>>)
    BY <1>1 DEF StoresInv, Stores
<1> QED BY <1>1, <1>3, <1>4, <1>5 DEF StoresInv

(* Every step keeps what is said of the stores.                            *)
LEMMA StoresSteps ==
    ASSUME ChatInv, StoresInv, [Next]_vars
    PROVE  StoresInv'
<1>1. ASSUME NEW t \in Turns, Send(t) PROVE StoresInv'
  <2>1. turn \in [Turns -> TurnRecords] /\ turn[t].at = "new" /\ UNCHANGED <<history, redisSide>>
      BY <1>1, RouteBegins DEF Send, At
  <2>2. PICK mode \in Modes :
          turn' = [turn EXCEPT ![t] =
                     [Unsent EXCEPT !.at = "sent", !.mode = mode, !.session = sessionId,
                                    !.seen = {u \in received : SessionOf(u) = sessionId}]]
      BY <1>1 DEF Send
  <2>3. turn'[t].at = "sent" /\ \A u \in Turns \ {t} : turn'[u] = turn[u]
      BY <2>1, <2>2 DEF Unsent
  <2> QED BY <2>1, <2>3, OneMoves DEF Past
<1>2. ASSUME NEW t \in Turns, Serve(t) PROVE StoresInv'
  <2>1. CASE Push(t) BY <2>1, PushKeepsStores
  <2>2. CASE SaveQuestion(t) \/ SaveAnswer(t) BY <2>2, SaveKeepsStores
  <2> QED BY <1>2, <2>1, <2>2, ServeLeavesStores DEF Serve
<1>3. ASSUME NEW t \in Turns, Cancel(t) PROVE StoresInv' BY <1>3, CancelKeepsStores
<1>4. CASE UNCHANGED vars \/ Read \/ NewSession \/ LoadHistory \/ HistoryArrives \/ Reload \/ Rate
  <2>1. UNCHANGED <<turn, history, redisSide>>
      BY <1>4 DEF vars, Read, NewSession, LoadHistory, HistoryArrives, Reload, Rate
  <2> QED BY <2>1, StoresStay
<1>5. CASE DeleteSession BY <1>5, DeleteSessionKeepsStores
<1>6. CASE Restart BY <1>6, RestartKeepsStores
<1> QED BY <1>1, <1>2, <1>3, <1>4, <1>5, <1>6 DEF Next

-----------------------------------------------------------------------------
(* Every step keeps the invariant.                                         *)
LEMMA ChatSteps ==
    ASSUME ChatInv, StoresInv, [Next]_vars
    PROVE  ChatInv'
<1>1. CASE UNCHANGED vars
  <2>1. UNCHANGED <<messages, sessionId, stream, index, load, turn, wire, history, inference,
                    judged, received, replaced, hijacked, lost>>
      BY <1>1 DEF vars, tab, traces
  <2> QED BY <2>1, ChatStays
<1>2. ASSUME NEW t \in Turns, Send(t) \/ Serve(t) \/ Cancel(t) PROVE ChatInv'
    BY <1>2, SendKeeps, ServeKeeps, CancelKeeps
<1>3. CASE Read BY <1>3, ReadKeeps
<1>4. CASE NewSession BY <1>4, NewSessionKeeps
<1>5. CASE LoadHistory BY <1>5, LoadHistoryKeeps
<1>6. CASE HistoryArrives BY <1>6, HistoryArrivesKeeps
<1>7. CASE Reload BY <1>7, ReloadKeeps
<1>8. CASE Rate BY <1>8, RateKeeps
<1>9. CASE DeleteSession BY <1>9, DeleteSessionKeeps
<1>10. CASE Restart BY <1>10, RestartKeeps
<1> QED BY <1>1, <1>2, <1>3, <1>4, <1>5, <1>6, <1>7, <1>8, <1>9, <1>10 DEF Next

(* The inductive invariant of the conversation: what the tab shows, what is *)
(* sent to it, what each route knows and what the two stores hold of its   *)
(* session agree, whichever store a process reads.                         *)
THEOREM ChatInvariant == Spec => []ConversationInv
<1>1. Init => ConversationInv BY ChatBegins, StoresBegin DEF ConversationInv
<1>2. ConversationInv /\ [Next]_vars => ConversationInv'
    BY ChatSteps, StoresSteps DEF ConversationInv
<1> QED BY <1>1, <1>2, PTL DEF Spec

(* The tab shows one conversation, the one its next question is sent to     *)
(* (web/src/stores/chat.ts).                                               *)
THEOREM OneConversation == Spec => []SessionIsShown
<1>1. ConversationInv => SessionIsShown BY DEF ConversationInv, ChatInv
<1> QED BY <1>1, ChatInvariant, PTL

(* A follow-up question is answered with the turns before it, unless their  *)
(* saves did not get to the store that is read (api/routers/chat.py,        *)
(* core/memory/redis_memory.py).                                           *)
THEOREM FollowUpsSee == Spec => []FollowUpSees
<1>1. ConversationInv => FollowUpSees
  <2> SUFFICES ASSUME ConversationInv, NEW u \in Turns, turn[u].context # None,
                      NEW t \in (turn[u].seen \ turn[u].excused) \ lost
               PROVE  {Message(t, role) : role \in Roles} \subseteq turn[u].context
      BY DEF FollowUpSees
  <2>1. ContextOK(turn[u]) BY DEF ConversationInv, ChatInv, TurnOK
  <2> QED BY <2>1 DEF ContextOK, Both
<1> QED BY <1>1, ChatInvariant, PTL

(* No history holds half a turn, but of a route that was cut down or a save *)
(* that was lost, and none holds a message twice; Redis holds questions.    *)
THEOREM WholeTurns == Spec => []TurnsAreWhole
<1>1. ConversationInv => TurnsAreWhole
  <2> SUFFICES ASSUME ConversationInv PROVE TurnsAreWhole OBVIOUS
  <2>1. ASSUME NEW t \in Turns, t \notin lost, SessionOf(t) # None
        PROVE  LET saved == history[SessionOf(t)]
                   SavedAs(role) == {i \in DOMAIN saved : saved[i] = Message(t, role)} IN
               /\ \A i \in SavedAs("answer") : \E j \in SavedAs("question") : j < i
               /\ SavedAs("question") # {} /\ SavedAs("answer") = {} => At(t, "reply")
    <3>1. WholeIn(t, history[SessionOf(t)], turn[t].at)
        BY <2>1 DEF ConversationInv, ChatInv, Whole
    <3> QED BY <3>1 DEF WholeIn, At
  <2>2. \A s \in Sessions :
          /\ IsInjective(history[s]) /\ IsInjective(inRedis[s])
          /\ \A i \in DOMAIN inRedis[s] : inRedis[s][i].role = "question"
      BY DEF ConversationInv, StoresInv, RedisOK
  <2> QED BY <2>1, <2>2 DEF TurnsAreWhole
<1> QED BY <1>1, ChatInvariant, PTL

(* An answer is only rated once it is settled whether its inference is      *)
(* recorded (agent/eval, on_negative_feedback).                            *)
THEOREM FeedbackIsFound == Spec => []FeedbackFindsItsAnswer
<1>1. ConversationInv => FeedbackFindsItsAnswer
    BY DEF ConversationInv, ChatInv, FeedbackFindsItsAnswer
<1> QED BY <1>1, ChatInvariant, PTL

-----------------------------------------------------------------------------
(* SessionMemory: what is saved, and what the two clients do with it.       *)
MemoryTyped ==
    /\ store \in {"redis", "sqlite"} /\ clear \in {"idle", "deleting"}
    /\ acked \in Seq(Messages) /\ sqlite \in Seq(Messages) /\ Len(sqlite) <= MaxMessages
    /\ save \in [SavedTurns -> [at : SavePlaces, role : MessageRoles]]
    /\ crossed \subseteq Messages /\ gone \subseteq Messages
    /\ listed \in BOOLEAN /\ unlisted \in BOOLEAN

(* The save of a message is over; it has begun or is over.                 *)
IsPast(t, role) == save[t].role = "answer" /\ (role = "answer" => save[t].at = "done")
HasBegun(t, role) ==
    IsPast(t, role) \/ (save[t].role = role /\ save[t].at # "ready")

MemoryInv ==
    /\ MemoryTyped
    /\ \A t \in SavedTurns, role \in MessageRoles :
         /\ <<t, role>> \in ToSet(acked) => IsPast(t, role)
         /\ <<t, role>> \in crossed => HasBegun(t, role)
    /\ gone \subseteq ToSet(acked)
    /\ \A t \in InFlight : MessageOf(t) \in crossed <=> store = "sqlite"
    /\ store = "sqlite" /\ clear = "deleting" => unlisted
    /\ HistoryIsAcked

LEMMA MemoryBegins == MemoryInit => MemoryInv
<1> SUFFICES ASSUME MemoryInit PROVE MemoryInv OBVIOUS
<1> USE DEF MemoryInit
<1>1. MaxMessages \in Nat \ {0} BY MemoryAssumption DEF MemoryAssumption
<1>2. MemoryTyped
  <2>1. <<>> \in Seq(Messages) /\ Len(<<>>) = 0 OBVIOUS
  <2>2. listed \in BOOLEAN /\ unlisted \in BOOLEAN OBVIOUS
  <2>3. save \in [SavedTurns -> [at : SavePlaces, role : MessageRoles]]
      BY DEF SavePlaces, MessageRoles
  <2> QED BY <1>1, <2>1, <2>2, <2>3 DEF MemoryTyped
<1>3. Owed = {} /\ Cardinality(Owed) = 0
  <2>1. Owed = {} BY DEF Owed
  <2> QED BY <2>1, FS_EmptySet
<1>4. HistoryIsAcked BY <1>1, <1>3 DEF HistoryIsAcked
<1>5. ToSet(acked) = {} BY DEF ToSet
<1>6. InFlight = {} BY DEF InFlight
<1> QED BY <1>2, <1>4, <1>5, <1>6 DEF MemoryInv

(* What is owed after a message is acknowledged.                           *)
LEMMA OwedGrows ==
    ASSUME acked \in Seq(Messages), NEW m \in Messages, acked' = Append(acked, m),
           \A x \in ToSet(acked) : x \in crossed' \union gone' <=> x \in crossed \union gone
    PROVE  /\ m \in crossed' \union gone' => Owed' = Owed
           /\ m \notin crossed' \union gone' => Owed' = Owed \union {Len(acked) + 1}
           /\ \A i \in Owed : i \in Nat /\ i <= Len(acked) /\ acked'[i] = acked[i]
           /\ acked'[Len(acked) + 1] = m /\ acked' \in Seq(Messages)
           /\ ToSet(acked') = ToSet(acked) \union {m}
<1> DEFINE n == Len(acked) + 1
<1>1. /\ acked' \in Seq(Messages) /\ DOMAIN acked' = DOMAIN acked \union {n}
      /\ n \notin DOMAIN acked /\ acked'[n] = m /\ DOMAIN acked = 1..Len(acked) /\ Len(acked) \in Nat
      /\ \A i \in DOMAIN acked : acked'[i] = acked[i]
    OBVIOUS
<1> HIDE DEF n
<1>2. \A i \in DOMAIN acked : acked[i] \in ToSet(acked) BY DEF ToSet
<1>3. ToSet(acked') = ToSet(acked) \union {m} BY <1>1 DEF ToSet
<1>4. Owed' = {i \in DOMAIN acked' : acked'[i] \notin crossed' \union gone'} BY DEF Owed
<1>5. \A i \in DOMAIN acked : i \in Owed' <=> i \in Owed BY <1>1, <1>2, <1>4 DEF Owed
<1>6. n \in Owed' <=> m \notin crossed' \union gone' BY <1>1, <1>4
<1>7. Owed \subseteq DOMAIN acked /\ Owed' \subseteq DOMAIN acked' BY <1>4 DEF Owed
<1>8. \A i \in Owed : i \in Nat /\ i <= Len(acked) /\ acked'[i] = acked[i] BY <1>1, <1>7
<1>9. m \in crossed' \union gone' => Owed' = Owed BY <1>1, <1>5, <1>6, <1>7
<1>10. m \notin crossed' \union gone' => Owed' = Owed \union {n} BY <1>1, <1>5, <1>6, <1>7
<1> QED BY <1>1, <1>3, <1>8, <1>9, <1>10 DEF n

(* One more owed message: every other one is older by one.                 *)
NewerIn(set, i) == Cardinality({k \in set : i <= k})

OneMore(owed, n, more) ==
    /\ Cardinality(owed) \in Nat /\ Cardinality(more) = Cardinality(owed) + 1
    /\ NewerIn(more, n + 1) = 1
    /\ \A i \in owed : NewerIn(owed, i) \in Nat /\ NewerIn(owed, i) >= 1
                       /\ NewerIn(owed, i) <= Cardinality(owed)
                       /\ NewerIn(more, i) = NewerIn(owed, i) + 1

LEMMA NewestComesFirst ==
    ASSUME NEW owed, NEW n \in Nat, owed \subseteq 1..n, NEW more, more = owed \union {n + 1}
    PROVE  OneMore(owed, n, more)
<1>1. IsFiniteSet(1..n) BY FS_Interval
<1>2. IsFiniteSet(owed) BY <1>1, FS_Subset
<1>3. n + 1 \notin owed OBVIOUS
<1>4. Cardinality(owed) \in Nat /\ Cardinality(more) = Cardinality(owed) + 1
    BY <1>2, <1>3, FS_CardinalityType, FS_AddElement
<1>5. NewerIn(more, n + 1) = 1
  <2>1. ASSUME NEW k \in owed PROVE ~(n + 1 <= k)
    <3>1. k \in 1..n OBVIOUS
    <3> QED BY <3>1
  <2>2. {k \in more : n + 1 <= k} = {n + 1}
    <3>1. n + 1 <= n + 1 /\ n + 1 \in more OBVIOUS
    <3>2. \A k \in more : n + 1 <= k <=> k = n + 1 BY <2>1, <3>1
    <3> QED BY <3>1, <3>2
  <2> QED BY <2>2, FS_Singleton DEF NewerIn
<1>6. ASSUME NEW i \in owed
      PROVE  NewerIn(owed, i) \in Nat /\ NewerIn(owed, i) >= 1
             /\ NewerIn(owed, i) <= Cardinality(owed) /\ NewerIn(more, i) = NewerIn(owed, i) + 1
  <2> DEFINE newer == {k \in owed : i <= k}
  <2>1. IsFiniteSet(newer) /\ Cardinality(newer) <= Cardinality(owed)
    <3>1. newer \subseteq owed OBVIOUS
    <3> QED BY <3>1, <1>2, FS_Subset
  <2>2. Cardinality(newer) \in Nat BY <2>1, FS_CardinalityType
  <2>3. newer # {} /\ n + 1 \notin newer OBVIOUS
  <2>4. Cardinality(newer) # 0 BY <2>1, <2>3, FS_EmptySet
  <2>5. {k \in more : i <= k} = newer \union {n + 1} OBVIOUS
  <2>6. NewerIn(more, i) = Cardinality(newer) + 1
    <3> HIDE DEF newer
    <3> QED BY <2>1, <2>3, <2>5, FS_AddElement DEF NewerIn
  <2> QED BY <2>1, <2>2, <2>4, <2>6 DEF NewerIn
<1> QED BY <1>4, <1>5, <1>6 DEF OneMore

(* A message pushed to a list within the window.                            *)
LEMMA WindowShifts ==
    ASSUME NEW list \in Seq(Messages), Len(list) <= MaxMessages, NEW m \in Messages
    PROVE  LET more == Trimmed(Pushed(list, m))
               size == IF Len(list) < MaxMessages THEN Len(list) + 1 ELSE MaxMessages IN
           /\ more \in Seq(Messages) /\ Len(more) = size
           /\ more[1] = m
           /\ \A k \in 1..Len(list) : k + 1 <= MaxMessages => more[k + 1] = list[k]
<1> DEFINE pushed == Pushed(list, m)
           size == IF Len(list) < MaxMessages THEN Len(list) + 1 ELSE MaxMessages
<1>1. MaxMessages \in Nat \ {0} BY MemoryAssumption DEF MemoryAssumption
<1>2. /\ pushed \in Seq(Messages) /\ Len(pushed) = Len(list) + 1 /\ pushed[1] = m
      /\ \A k \in 1..Len(list) : pushed[k + 1] = list[k]
      /\ Len(list) \in Nat
    BY DEF Pushed
<1> HIDE DEF pushed
<1>3. Trimmed(pushed) = SubSeq(pushed, 1, size) BY <1>1, <1>2 DEF Trimmed
<1>4. size \in 1..Len(pushed) /\ size >= 1 BY <1>1, <1>2
<1> HIDE DEF size
<1>5. /\ SubSeq(pushed, 1, size) \in Seq(Messages) /\ Len(SubSeq(pushed, 1, size)) = size
      /\ \A i \in 1..size : SubSeq(pushed, 1, size)[i] = pushed[i]
    BY <1>2, <1>4
<1>6. \A k \in 1..Len(list) : k + 1 <= MaxMessages => k + 1 \in 1..size
    BY <1>1, <1>2 DEF size
<1>7. 1 \in 1..size BY <1>4
<1> QED BY <1>2, <1>3, <1>5, <1>6, <1>7 DEF pushed, size

(* Trimming a list within the window changes nothing.                      *)
LEMMA TrimmedIsKept ==
    ASSUME NEW list \in Seq(Messages), Len(list) <= MaxMessages
    PROVE  Trimmed(list) = list
<1>1. MaxMessages \in Nat /\ Len(list) \in Nat BY MemoryAssumption DEF MemoryAssumption
<1>2. Trimmed(list) = SubSeq(list, 1, Len(list)) BY <1>1 DEF Trimmed
<1> QED BY <1>2, SubSeqFull

(* A message saved on SQLite, acknowledged for the first time.              *)
LEMMA SavedThere ==
    ASSUME MemoryInv, NEW t \in SavedTurns, SaveThere(t), ~IsPast(t, save[t].role),
           MessageOf(t) \notin crossed', gone' = gone,
           \A x \in ToSet(acked) : x \in crossed' <=> x \in crossed
    PROVE  /\ HistoryIsAcked'
           /\ acked' \in Seq(Messages) /\ ToSet(acked') = ToSet(acked) \union {MessageOf(t)}
           /\ sqlite' \in Seq(Messages) /\ Len(sqlite') <= MaxMessages
<1> DEFINE m == MessageOf(t)
           n == Len(acked)
           c == Cardinality(Owed)
<1>0. MemoryTyped BY DEF MemoryInv
<1>1. m \in Messages /\ m = <<t, save[t].role>> /\ save[t].role \in MessageRoles
    BY <1>0 DEF MemoryTyped, MessageOf, Messages
<1>2. m \notin ToSet(acked) /\ m \notin gone' BY <1>1 DEF MemoryInv
<1>3. /\ acked' = Append(acked, m) /\ sqlite' = Trimmed(Pushed(sqlite, m)) /\ listed' = TRUE
    BY DEF SaveThere, Return
<1>4. MaxMessages \in Nat \ {0} BY MemoryAssumption DEF MemoryAssumption
<1> HIDE DEF m
<1>5. acked \in Seq(Messages) /\ n \in Nat BY <1>0 DEF MemoryTyped
<1>6. /\ Owed' = Owed \union {n + 1}
      /\ \A i \in Owed : i \in Nat /\ i <= n /\ acked'[i] = acked[i]
      /\ acked'[n + 1] = m /\ acked' \in Seq(Messages)
      /\ ToSet(acked') = ToSet(acked) \union {m}
  <2>1. \A x \in ToSet(acked) : x \in crossed' \union gone' <=> x \in crossed \union gone
      OBVIOUS
  <2>2. m \notin crossed' \union gone' BY <1>2 DEF m
  <2> QED BY <2>1, <2>2, <1>1, <1>3, <1>5, OwedGrows
<1>7. Owed \subseteq 1..n BY <1>5 DEF Owed
<1>8. /\ c \in Nat /\ Cardinality(Owed') = c + 1
      /\ NewerIn(Owed', n + 1) = 1
      /\ \A i \in Owed : NewerIn(Owed, i) \in Nat /\ NewerIn(Owed, i) >= 1
                         /\ NewerIn(Owed, i) <= c
                         /\ NewerIn(Owed', i) = NewerIn(Owed, i) + 1
  <2>1. Owed' = Owed \union {n + 1} /\ Owed \subseteq 1..n /\ n \in Nat BY <1>5, <1>6, <1>7
  <2> HIDE DEF n
  <2>2. OneMore(Owed, n, Owed') BY <2>1, NewestComesFirst
  <2> QED BY <2>2 DEF OneMore
<1>9. sqlite \in Seq(Messages) /\ Len(sqlite) <= MaxMessages /\ Len(sqlite) \in Nat
    BY <1>0 DEF MemoryTyped
<1>10. /\ sqlite' \in Seq(Messages)
       /\ Len(sqlite') = IF Len(sqlite) < MaxMessages THEN Len(sqlite) + 1 ELSE MaxMessages
       /\ sqlite'[1] = m
       /\ \A k \in 1..Len(sqlite) : k + 1 <= MaxMessages => sqlite'[k + 1] = sqlite[k]
    BY <1>1, <1>3, <1>9, WindowShifts DEF m
<1>11. /\ Len(sqlite) = IF c < MaxMessages THEN c ELSE MaxMessages
       /\ \A i \in Owed : NewerIn(Owed, i) <= MaxMessages => sqlite[NewerIn(Owed, i)] = acked[i]
    BY DEF MemoryInv, HistoryIsAcked, Newness, NewerIn
<1> HIDE DEF n, c
<1>12. Len(sqlite') = IF c + 1 < MaxMessages THEN c + 1 ELSE MaxMessages
    BY <1>4, <1>8, <1>9, <1>10, <1>11
<1>13. \A i \in Owed' : NewerIn(Owed', i) <= MaxMessages => sqlite'[NewerIn(Owed', i)] = acked'[i]
  <2> SUFFICES ASSUME NEW i \in Owed', NewerIn(Owed', i) <= MaxMessages
               PROVE  sqlite'[NewerIn(Owed', i)] = acked'[i]
      OBVIOUS
  <2>1. CASE i = n + 1 BY <2>1, <1>6, <1>8, <1>10
  <2>2. CASE i \in Owed
    <3> DEFINE k == NewerIn(Owed, i)
    <3>1. k \in Nat /\ k >= 1 /\ k <= c /\ NewerIn(Owed', i) = k + 1 BY <2>2, <1>8
    <3> HIDE DEF k
    <3>2. k + 1 <= MaxMessages BY <3>1
    <3>3. k \in 1..Len(sqlite) BY <3>1, <3>2, <1>4, <1>8, <1>11
    <3>4. sqlite'[k + 1] = sqlite[k] BY <3>2, <3>3, <1>10
    <3>5. sqlite[k] = acked[i] BY <2>2, <3>1, <3>2, <1>4, <1>11 DEF k
    <3> QED BY <2>2, <3>1, <3>4, <3>5, <1>6
  <2> QED BY <2>1, <2>2, <1>6
<1>14. HistoryIsAcked' BY <1>3, <1>8, <1>12, <1>13 DEF HistoryIsAcked, Newness, NewerIn
<1>15. Len(sqlite') <= MaxMessages BY <1>4, <1>8, <1>12
<1> QED BY <1>6, <1>10, <1>14, <1>15 DEF m

(* What is not owed, and what nothing changes.                             *)
LEMMA NothingOwed ==
    ASSUME MemoryInv, Owed' = Owed, \A i \in Owed : acked'[i] = acked[i],
           sqlite' = sqlite, sqlite # <<>> /\ ~unlisted' => listed'
    PROVE  HistoryIsAcked'
<1>1. \A i \in Owed : Newness(i)' = Newness(i) BY DEF Newness
<1> QED BY <1>1 DEF MemoryInv, HistoryIsAcked

(* A save that returns.                                                    *)
LEMMA ReturnMoves ==
    ASSUME MemoryTyped, NEW t \in SavedTurns, NEW ok, Return(t, ok), save[t].at # "done"
    PROVE  /\ save' \in [SavedTurns -> [at : SavePlaces, role : MessageRoles]]
           /\ \A role : role = save[t].role => IsPast(t, role)'
           /\ \A u \in SavedTurns, role \in MessageRoles :
                (IsPast(u, role) => IsPast(u, role)') /\ (HasBegun(u, role) => HasBegun(u, role)')
           /\ InFlight' = InFlight \ {t}
           /\ \A u \in SavedTurns \ {t} : MessageOf(u)' = MessageOf(u)
           /\ ~IsPast(t, save[t].role)
<1>1. save \in [SavedTurns -> [at : SavePlaces, role : MessageRoles]]
      /\ save' = [save EXCEPT ![t] = AfterSave(save[t])]
    BY DEF MemoryTyped, Return
<1> DEFINE next == AfterSave(save[t])
<1>2. save[t].role \in {"question", "answer"} BY <1>1 DEF MessageRoles
<1>3. /\ next \in [at : SavePlaces, role : MessageRoles]
      /\ next.role = "answer" /\ next.at \in {"ready", "done"}
      /\ save[t].role = "answer" => next.at = "done"
    BY <1>2 DEF AfterSave, SavePlaces, MessageRoles
<1> HIDE DEF next
<1>4. /\ save' \in [SavedTurns -> [at : SavePlaces, role : MessageRoles]]
      /\ save'[t] = next /\ \A u \in SavedTurns \ {t} : save'[u] = save[u]
    BY <1>1, <1>3 DEF next
<1>5. InFlight' = InFlight \ {t}
  <2>1. t \notin InFlight' BY <1>3, <1>4 DEF InFlight
  <2>2. \A u \in SavedTurns \ {t} : u \in InFlight' <=> u \in InFlight BY <1>4 DEF InFlight
  <2>3. InFlight \subseteq SavedTurns /\ InFlight' \subseteq SavedTurns BY DEF InFlight
  <2> QED BY <2>1, <2>2, <2>3
<1>6. \A u \in SavedTurns \ {t} : MessageOf(u)' = MessageOf(u) BY <1>4 DEF MessageOf
<1>7. ~IsPast(t, save[t].role) BY DEF IsPast
<1>8. next.role = "answer" /\ (save[t].role = "answer" => next.at = "done") BY <1>3
<1>9. ASSUME NEW u \in SavedTurns, NEW role \in MessageRoles
       PROVE  (IsPast(u, role) => IsPast(u, role)') /\ (HasBegun(u, role) => HasBegun(u, role)')
  <2>1. CASE u # t BY <2>1, <1>4 DEF IsPast, HasBegun
  <2>2. CASE u = t BY <2>2, <1>4, <1>8 DEF IsPast, HasBegun
  <2> QED BY <2>1, <2>2
<1>10. save'[t].role = "answer" /\ (save[t].role = "answer" => save'[t].at = "done") BY <1>4, <1>8
<1>11. \A role : role = save[t].role => IsPast(t, role)' BY <1>10 DEF IsPast
<1> QED BY <1>4, <1>5, <1>6, <1>7, <1>9, <1>11

(* A save done on SQLite from its first operation, by a save that found the *)
(* store there or by the one that moves it.                                *)
LEMMA SavingThereKeeps ==
    ASSUME MemoryInv, NEW t \in SavedTurns, SaveThere(t),
           \/ store = "sqlite" /\ save[t].at = "ready"
           \/ store = "redis" /\ t \in InFlight,
           store' = "sqlite",
           crossed' = crossed \union {MessageOf(u) : u \in InFlight \ {t}},
           unlisted' \in BOOLEAN, clear = "deleting" => unlisted',
           UNCHANGED <<clear, gone>>
    PROVE  MemoryInv'
<1> DEFINE m == MessageOf(t)
<1>1. MemoryTyped BY DEF MemoryInv
<1>2. /\ save[t].role \in MessageRoles /\ m = <<t, save[t].role>>
      /\ \A u \in SavedTurns : MessageOf(u) \in Messages /\ save[u].role \in MessageRoles
      /\ \A u \in SavedTurns \ {t} : MessageOf(u) # m
    BY <1>1 DEF MemoryTyped, MessageOf, Messages
<1>3. save[t].at # "done" BY DEF InFlight
<1>4. Return(t, TRUE) /\ listed' = TRUE BY DEF SaveThere
<1>5. /\ save' \in [SavedTurns -> [at : SavePlaces, role : MessageRoles]]
      /\ \A role : role = save[t].role => IsPast(t, role)'
      /\ \A u \in SavedTurns, role \in MessageRoles :
           (IsPast(u, role) => IsPast(u, role)') /\ (HasBegun(u, role) => HasBegun(u, role)')
      /\ InFlight' = InFlight \ {t}
      /\ \A u \in SavedTurns \ {t} : MessageOf(u)' = MessageOf(u)
      /\ ~IsPast(t, save[t].role)
    BY <1>1, <1>3, <1>4, ReturnMoves
<1>6. m \notin crossed
  <2>1. CASE store = "sqlite" /\ save[t].at = "ready"
    <3>1. ~HasBegun(t, save[t].role) BY <2>1, <1>5 DEF HasBegun
    <3> QED BY <3>1, <1>2 DEF MemoryInv
  <2>2. CASE store = "redis" /\ t \in InFlight BY <2>2 DEF MemoryInv
  <2> QED BY <2>1, <2>2
<1>7. InFlight \subseteq SavedTurns BY DEF InFlight
<1>8. m \notin crossed' BY <1>2, <1>6, <1>7
<1>9. \A u \in InFlight \ {t} : <<u, save[u].role>> = MessageOf(u) /\ HasBegun(u, save[u].role)
    BY DEF InFlight, MessageOf, HasBegun
<1>10. \A u \in SavedTurns, role \in MessageRoles :
           <<u, role>> \in crossed' => HasBegun(u, role)'
  <2> SUFFICES ASSUME NEW u \in SavedTurns, NEW role \in MessageRoles, <<u, role>> \in crossed'
               PROVE  HasBegun(u, role)
      BY <1>5
  <2>1. CASE <<u, role>> \in crossed BY <2>1 DEF MemoryInv
  <2>2. CASE \E v \in InFlight \ {t} : <<u, role>> = MessageOf(v)
    <3>1. PICK v \in InFlight \ {t} : <<u, role>> = MessageOf(v) BY <2>2
    <3>2. u = v /\ role = save[v].role BY <3>1 DEF MessageOf
    <3> QED BY <3>2, <1>9
  <2> QED BY <2>1, <2>2
<1>11. \A u \in InFlight \ {t} : MessageOf(u) \notin ToSet(acked)
  <2> SUFFICES ASSUME NEW u \in InFlight, MessageOf(u) \in ToSet(acked) PROVE FALSE OBVIOUS
  <2>1. IsPast(u, save[u].role) BY <1>2, <1>7 DEF MemoryInv, MessageOf
  <2> QED BY <2>1 DEF IsPast, InFlight
<1>12. \A x \in ToSet(acked) : x \in crossed' <=> x \in crossed BY <1>11
<1>13. /\ HistoryIsAcked'
       /\ acked' \in Seq(Messages) /\ ToSet(acked') = ToSet(acked) \union {m}
       /\ sqlite' \in Seq(Messages) /\ Len(sqlite') <= MaxMessages
    BY <1>5, <1>8, <1>12, SavedThere
<1>14. crossed' \subseteq Messages BY <1>1, <1>2, <1>7 DEF MemoryTyped
<1>15. MemoryTyped' BY <1>1, <1>4, <1>5, <1>13, <1>14 DEF MemoryTyped
<1>16. \A u \in SavedTurns, role \in MessageRoles :
           <<u, role>> \in ToSet(acked') => IsPast(u, role)'
  <2> SUFFICES ASSUME NEW u \in SavedTurns, NEW role \in MessageRoles,
                      <<u, role>> \in ToSet(acked')
               PROVE  IsPast(u, role)'
      OBVIOUS
  <2>1. CASE <<u, role>> \in ToSet(acked) BY <2>1, <1>5 DEF MemoryInv
  <2>2. CASE <<u, role>> = m
    <3>1. u = t /\ role = save[t].role BY <2>2, <1>2
    <3> QED BY <3>1, <1>5
  <2> QED BY <2>1, <2>2, <1>13
<1>17. \A u \in InFlight' : MessageOf(u)' \in crossed' BY <1>5, <1>7
<1>18. gone' \subseteq ToSet(acked') BY <1>13 DEF MemoryInv
<1> QED BY <1>10, <1>13, <1>15, <1>16, <1>17, <1>18 DEF MemoryInv

(* A save that returns after the move, and wrote nothing there: it crossed. *)
LEMMA CrossingKeeps ==
    ASSUME MemoryInv, NEW t \in InFlight, store = "sqlite", NEW ok \in BOOLEAN, Return(t, ok),
           listed' \in {listed, TRUE},
           UNCHANGED <<store, sqlite, clear, crossed, unlisted, gone>>
    PROVE  MemoryInv'
<1> DEFINE m == MessageOf(t)
<1>1. MemoryTyped /\ t \in SavedTurns BY DEF MemoryInv, InFlight
<1>2. save[t].role \in MessageRoles /\ m = <<t, save[t].role>> /\ m \in Messages
    BY <1>1 DEF MemoryTyped, MessageOf, Messages
<1>3. /\ save' \in [SavedTurns -> [at : SavePlaces, role : MessageRoles]]
      /\ \A role : role = save[t].role => IsPast(t, role)'
      /\ \A u \in SavedTurns, role \in MessageRoles :
           (IsPast(u, role) => IsPast(u, role)') /\ (HasBegun(u, role) => HasBegun(u, role)')
      /\ InFlight' = InFlight \ {t}
      /\ \A u \in SavedTurns \ {t} : MessageOf(u)' = MessageOf(u)
  <2>1. save[t].at # "done" BY DEF InFlight
  <2> QED BY <1>1, <2>1, ReturnMoves
<1>4. m \in crossed BY DEF MemoryInv
<1>5. acked' = IF ok THEN Append(acked, m) ELSE acked BY DEF Return
<1>6. acked \in Seq(Messages) BY <1>1 DEF MemoryTyped
<1> HIDE DEF m
<1>7. /\ Owed' = Owed /\ \A i \in Owed : acked'[i] = acked[i]
      /\ acked' \in Seq(Messages) /\ ToSet(acked') \subseteq ToSet(acked) \union {m}
      /\ ToSet(acked) \subseteq ToSet(acked')
  <2>1. CASE ok BY <2>1, <1>2, <1>4, <1>5, <1>6, OwedGrows
  <2>2. CASE ~ok BY <2>2, <1>5, <1>6 DEF Owed
  <2> QED BY <2>1, <2>2
<1>8. HistoryIsAcked'
  <2>1. sqlite # <<>> /\ ~unlisted' => listed' BY DEF MemoryInv, HistoryIsAcked
  <2> QED BY <2>1, <1>7, NothingOwed
<1>9. MemoryTyped' BY <1>1, <1>3, <1>7 DEF MemoryTyped
<1>10. \A u \in SavedTurns, role \in MessageRoles :
           <<u, role>> \in ToSet(acked') => IsPast(u, role)'
  <2> SUFFICES ASSUME NEW u \in SavedTurns, NEW role \in MessageRoles,
                      <<u, role>> \in ToSet(acked')
               PROVE  IsPast(u, role)'
      OBVIOUS
  <2>1. CASE <<u, role>> \in ToSet(acked) BY <2>1, <1>3 DEF MemoryInv
  <2>2. CASE <<u, role>> = m
    <3>1. u = t /\ role = save[t].role BY <2>2, <1>2
    <3> QED BY <3>1, <1>3
  <2> QED BY <2>1, <2>2, <1>7
<1>11. \A u \in SavedTurns, role \in MessageRoles :
           <<u, role>> \in crossed' => HasBegun(u, role)'
    BY <1>3 DEF MemoryInv
<1>12. \A u \in InFlight' : MessageOf(u)' \in crossed' BY <1>3 DEF MemoryInv, InFlight
<1>13. gone' \subseteq ToSet(acked') BY <1>7 DEF MemoryInv
<1> QED BY <1>8, <1>9, <1>10, <1>11, <1>12, <1>13 DEF MemoryInv

(* A save that waits for Redis.                                            *)
LEMMA WaitingKeeps ==
    ASSUME MemoryInv, NEW t \in SavedTurns, store = "redis",
           NEW place \in {"pushing", "trimming"}, save[t].at \in {"ready", "pushing"},
           save' = [save EXCEPT ![t].at = place],
           UNCHANGED <<store, sqlite, listed, clear, acked, crossed, unlisted, gone>>
    PROVE  MemoryInv'
<1>1. MemoryTyped BY DEF MemoryInv
<1>2. /\ save' \in [SavedTurns -> [at : SavePlaces, role : MessageRoles]]
      /\ \A u \in SavedTurns : save'[u].role = save[u].role
      /\ save'[t].at = place /\ \A u \in SavedTurns \ {t} : save'[u] = save[u]
  <2>1. place \in SavePlaces BY DEF SavePlaces
  <2> QED BY <1>1, <2>1 DEF MemoryTyped
<1>3. \A u \in SavedTurns, role \in MessageRoles :
          (IsPast(u, role) => IsPast(u, role)') /\ (HasBegun(u, role) => HasBegun(u, role)')
  <2> SUFFICES ASSUME NEW u \in SavedTurns, NEW role \in MessageRoles
               PROVE  (IsPast(u, role) => IsPast(u, role)') /\ (HasBegun(u, role) => HasBegun(u, role)')
      OBVIOUS
  <2>1. CASE u # t BY <2>1, <1>2 DEF IsPast, HasBegun
  <2>2. CASE u = t BY <2>2, <1>2 DEF IsPast, HasBegun
  <2> QED BY <2>1, <2>2
<1>4. save[t].role \in MessageRoles BY <1>1 DEF MemoryTyped
<1>5. MessageOf(t) \notin crossed
  <2>1. CASE save[t].at = "pushing" BY <2>1 DEF MemoryInv, InFlight
  <2>2. CASE save[t].at = "ready"
    <3>1. ~HasBegun(t, save[t].role) BY <2>2 DEF HasBegun, IsPast
    <3> QED BY <3>1, <1>4 DEF MemoryInv, MessageOf
  <2> QED BY <2>1, <2>2
<1>6. \A u \in InFlight' : MessageOf(u)' \notin crossed'
  <2> SUFFICES ASSUME NEW u \in InFlight' PROVE MessageOf(u) \notin crossed
      BY <1>2 DEF MessageOf, InFlight
  <2>1. CASE u = t BY <2>1, <1>5
  <2>2. CASE u # t
    <3>1. u \in InFlight BY <2>2, <1>2 DEF InFlight
    <3> QED BY <3>1 DEF MemoryInv
  <2> QED BY <2>1, <2>2
<1>7. HistoryIsAcked'
  <2>1. Owed' = Owed BY DEF Owed
  <2>2. sqlite # <<>> /\ ~unlisted' => listed' BY DEF MemoryInv, HistoryIsAcked
  <2> QED BY <2>1, <2>2, NothingOwed
<1>8. MemoryTyped' BY <1>1, <1>2 DEF MemoryTyped
<1> QED BY <1>3, <1>6, <1>7, <1>8 DEF MemoryInv

LEMMA SaveStepKeeps ==
    ASSUME MemoryInv, NEW t \in SavedTurns, SaveStep(t)
    PROVE  MemoryInv'
<1>1. MemoryTyped BY DEF MemoryInv
<1>2. Trimmed(sqlite) = sqlite BY <1>1, TrimmedIsKept DEF MemoryTyped
<1>3. store = "redis" \/ store = "sqlite" BY <1>1 DEF MemoryTyped
<1>4. ASSUME Move(t), store = "redis", t \in InFlight, UNCHANGED <<clear, gone>> PROVE MemoryInv'
  <2>1. unlisted' \in BOOLEAN /\ (clear = "deleting" => unlisted')
    <3>1. unlisted \in BOOLEAN BY <1>1 DEF MemoryTyped
    <3>2. unlisted' = (unlisted \/ clear = "deleting") BY <1>4 DEF Move
    <3> QED BY <3>1, <3>2, Zenon
  <2> QED BY <2>1, <1>4, SavingThereKeeps DEF Move
<1>5. ASSUME Fallback(t), t \in InFlight, UNCHANGED <<clear, gone>> PROVE MemoryInv'
  <2>1. CASE store = "redis" /\ Move(t) BY <2>1, <1>4, <1>5
  <2>2. CASE /\ store = "sqlite" /\ Return(t, FALSE)
             /\ UNCHANGED <<store, sqlite, listed, crossed, unlisted>>
      BY <2>2, <1>5, CrossingKeeps
  <2> QED BY <2>1, <2>2, <1>5 DEF Fallback
<1>6. CASE SaveSqlite(t)
  <2>1. /\ store = "sqlite" /\ save[t].at = "ready" /\ SaveThere(t)
        /\ UNCHANGED <<store, clear, crossed, unlisted, gone>>
      BY <1>6 DEF SaveSqlite
  <2>2. crossed = crossed \union {MessageOf(u) : u \in InFlight \ {t}} BY <2>1 DEF MemoryInv
  <2>3. unlisted \in BOOLEAN /\ (clear = "deleting" => unlisted)
      BY <2>1, <1>1 DEF MemoryInv, MemoryTyped
  <2> QED BY <2>1, <2>2, <2>3, SavingThereKeeps
<1>7. CASE BeginSave(t) BY <1>7, WaitingKeeps DEF BeginSave
<1>8. CASE PushAnswered(t)
  <2>1. save[t].at = "pushing" /\ t \in InFlight
        /\ UNCHANGED <<store, clear, crossed, unlisted, gone>>
      BY <1>8 DEF PushAnswered, InFlight
  <2>2. CASE store = "redis" /\ save' = [save EXCEPT ![t].at = "trimming"]
             /\ UNCHANGED <<sqlite, listed, acked>>
      BY <2>1, <2>2, WaitingKeeps
  <2>3. CASE store = "sqlite" /\ RunsOnSqlite(t)
      BY <2>1, <2>3, <1>2, CrossingKeeps DEF RunsOnSqlite
  <2> QED BY <2>2, <2>3, <1>8 DEF PushAnswered
<1>9. CASE PushRaises(t) \/ TrimRaises(t)
  <2>1. Fallback(t) /\ t \in InFlight /\ UNCHANGED <<clear, gone>>
      BY <1>9 DEF PushRaises, TrimRaises, InFlight
  <2> QED BY <2>1, <1>5
<1>10. CASE TrimAnswered(t)
  <2>1. t \in InFlight /\ UNCHANGED <<clear, gone>> BY <1>10 DEF TrimAnswered, InFlight
  <2>2. CASE store = "redis" /\ Move(t) BY <2>1, <2>2, <1>4
  <2>3. CASE /\ store = "sqlite" /\ listed' = TRUE /\ Return(t, TRUE)
             /\ UNCHANGED <<store, sqlite, crossed, unlisted>>
      BY <2>1, <2>3, CrossingKeeps
  <2> QED BY <2>2, <2>3, <1>10 DEF TrimAnswered
<1> QED BY <1>6, <1>7, <1>8, <1>9, <1>10 DEF SaveStep

LEMMA ClearKeeps ==
    ASSUME MemoryInv, ClearSqlite \/ BeginClear \/ DeleteAnswered \/ DeleteRaises
    PROVE  MemoryInv'
<1>1. MemoryTyped /\ UNCHANGED <<store, save, acked, crossed, unlisted>>
    BY DEF MemoryInv, ClearSqlite, BeginClear, DeleteAnswered, DeleteRaises
<1>2. InFlight' = InFlight /\ \A u \in SavedTurns : MessageOf(u)' = MessageOf(u)
    BY <1>1 DEF InFlight, MessageOf
<1>3. \A u \in InFlight' : MessageOf(u)' \in crossed' <=> store' = "sqlite"
    BY <1>1, <1>2 DEF MemoryInv, InFlight
<1>4. \A u \in SavedTurns, role \in MessageRoles :
           /\ <<u, role>> \in ToSet(acked') => IsPast(u, role)'
           /\ <<u, role>> \in crossed' => HasBegun(u, role)'
    BY <1>1 DEF MemoryInv, IsPast, HasBegun
<1>5. CASE ClearSqlite
  <2>1. sqlite' = <<>> /\ listed' = FALSE /\ gone' = gone \union ToSet(acked) /\ clear' = clear
      BY <1>5 DEF ClearSqlite
  <2>2. ToSet(acked) \subseteq Messages BY <1>1 DEF MemoryTyped, ToSet
  <2>3. MaxMessages \in Nat \ {0} BY MemoryAssumption DEF MemoryAssumption
  <2>4. MemoryTyped' /\ Len(sqlite') = 0
    <3>1. <<>> \in Seq(Messages) /\ Len(<<>>) = 0 OBVIOUS
    <3>2. sqlite' \in Seq(Messages) /\ Len(sqlite') = 0 /\ Len(sqlite') <= MaxMessages
        BY <3>1, <2>1, <2>3
    <3>3. gone' \subseteq Messages /\ listed' \in BOOLEAN BY <2>1, <2>2, <1>1 DEF MemoryTyped
    <3> QED BY <3>2, <3>3, <2>1, <1>1 DEF MemoryTyped
  <2>5. Owed' = {}
    <3>1. \A i \in DOMAIN acked : acked[i] \in ToSet(acked) BY DEF ToSet
    <3> QED BY <3>1, <2>1, <1>1 DEF Owed
  <2>6. HistoryIsAcked' BY <2>1, <2>3, <2>4, <2>5, FS_EmptySet DEF HistoryIsAcked
  <2>7. gone' \subseteq ToSet(acked') BY <2>1, <1>1 DEF MemoryInv
  <2> QED BY <2>1, <2>4, <2>6, <2>7, <1>1, <1>3, <1>4 DEF MemoryInv
<1>6. ASSUME UNCHANGED <<sqlite, gone>>, clear' \in {"idle", "deleting"}, listed' \in BOOLEAN,
             store = "sqlite" /\ clear' = "deleting" => unlisted,
             sqlite # <<>> /\ ~unlisted => listed'
      PROVE  MemoryInv'
  <2>1. MemoryTyped' BY <1>1, <1>6 DEF MemoryTyped
  <2>2. Owed' = Owed BY <1>1, <1>6 DEF Owed
  <2>3. HistoryIsAcked' BY <2>2, <1>1, <1>6, NothingOwed
  <2>4. gone' \subseteq ToSet(acked') BY <1>1, <1>6 DEF MemoryInv
  <2> QED BY <2>1, <2>3, <2>4, <1>1, <1>3, <1>4, <1>6 DEF MemoryInv
<1>7. listed \in BOOLEAN /\ (sqlite # <<>> /\ ~unlisted => listed)
    BY <1>1 DEF MemoryInv, MemoryTyped, HistoryIsAcked
<1>8. CASE BeginClear BY <1>6, <1>7, <1>8 DEF BeginClear
<1>9. CASE DeleteAnswered
  <2>1. /\ clear = "deleting" /\ clear' = "idle" /\ listed' = (listed /\ store = "redis")
        /\ UNCHANGED <<sqlite, gone>>
      BY <1>9 DEF DeleteAnswered
  <2>2. store = "redis" \/ unlisted BY <2>1, <1>1 DEF MemoryInv, MemoryTyped
  <2>3. listed' \in BOOLEAN BY <2>1, <1>7, Zenon
  <2> QED BY <2>1, <2>2, <2>3, <1>6, <1>7
<1>10. CASE DeleteRaises BY <1>6, <1>7, <1>10 DEF DeleteRaises
<1> QED BY <1>5, <1>8, <1>9, <1>10

LEMMA MemoryRestartKeeps ==
    ASSUME MemoryInv, MemoryRestart
    PROVE  MemoryInv'
<1>1. MemoryTyped BY DEF MemoryInv
<1>2. /\ store' = "redis" /\ clear' = "idle"
      /\ UNCHANGED <<sqlite, listed, acked, crossed, unlisted, gone>>
      /\ save' = [t \in SavedTurns |-> IF t \in InFlight \/ save[t].role = "answer"
                                THEN [save[t] EXCEPT !.at = "done"]
                                ELSE save[t]]
    BY DEF MemoryRestart
<1>3. \A t \in SavedTurns :
          LET ended == [save[t] EXCEPT !.at = "done"] IN
          /\ ended \in [at : SavePlaces, role : MessageRoles]
          /\ ended.at = "done" /\ ended.role = save[t].role
    BY <1>1 DEF MemoryTyped, SavePlaces
<1>4. save' \in [SavedTurns -> [at : SavePlaces, role : MessageRoles]]
    BY <1>1, <1>2, <1>3 DEF MemoryTyped
<1>5. \A t \in SavedTurns :
          /\ save'[t].role = save[t].role
          /\ save'[t].at = IF t \in InFlight \/ save[t].role = "answer" THEN "done" ELSE save[t].at
    BY <1>2, <1>3
<1>6. InFlight' = {} BY <1>5 DEF InFlight
<1>7. \A t \in SavedTurns, role \in MessageRoles :
          (IsPast(t, role) => IsPast(t, role)') /\ (HasBegun(t, role) => HasBegun(t, role)')
    BY <1>5 DEF IsPast, HasBegun
<1>8. HistoryIsAcked'
  <2>1. Owed' = Owed BY <1>2 DEF Owed
  <2>2. sqlite # <<>> /\ ~unlisted' => listed' BY <1>2 DEF MemoryInv, HistoryIsAcked
  <2> QED BY <2>1, <2>2, <1>2, NothingOwed
<1>9. MemoryTyped' BY <1>1, <1>2, <1>4 DEF MemoryTyped
<1> QED BY <1>2, <1>6, <1>7, <1>8, <1>9 DEF MemoryInv

(* The inductive invariant of the session memory: what is acknowledged and  *)
(* what crossed a move, against how far the save of each turn got.         *)
THEOREM MemoryInvariant == MemorySpec => []MemoryInv
<1>1. MemoryInit => MemoryInv BY MemoryBegins
<1>2. MemoryInv /\ [MemoryNext]_memoryVars => MemoryInv'
  <2> SUFFICES ASSUME MemoryInv, [MemoryNext]_memoryVars PROVE MemoryInv' OBVIOUS
  <2>1. CASE UNCHANGED memoryVars
    <3>1. MemoryTyped' /\ HistoryIsAcked'
        BY <2>1 DEF memoryVars, MemoryInv, MemoryTyped, HistoryIsAcked, Owed, Newness
    <3> QED BY <2>1, <3>1 DEF memoryVars, MemoryInv, IsPast, HasBegun, InFlight, MessageOf
  <2>2. ASSUME NEW t \in SavedTurns, SaveStep(t) PROVE MemoryInv' BY <2>2, SaveStepKeeps
  <2>3. CASE ClearSqlite \/ BeginClear \/ DeleteAnswered \/ DeleteRaises BY <2>3, ClearKeeps
  <2>4. CASE MemoryRestart BY <2>4, MemoryRestartKeeps
  <2> QED BY <2>1, <2>2, <2>3, <2>4 DEF MemoryNext
<1> QED BY <1>1, <1>2, PTL DEF MemorySpec

(* The history in SQLite is the acknowledged conversation, newest first,    *)
(* cut to its window, and a session with a history is listed               *)
(* (core/memory/redis_memory.py).                                          *)
THEOREM AckedIsKept == MemorySpec => []HistoryIsAcked
<1>1. MemoryInv => HistoryIsAcked BY DEF MemoryInv
<1> QED BY <1>1, MemoryInvariant, PTL
====
