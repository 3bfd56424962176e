---------------------------- MODULE SessionMemory ----------------------------
(***************************************************************************)
(* The chat history of one session (core/memory/redis_memory.py) in the    *)
(* single API process.  RedisSessionMemory starts on a Redis client and    *)
(* moves to a SQLite file at the first operation of a save that raises.    *)
(* The Redis client has no session registry, so the first save of every    *)
(* process moves.  `self.redis' is read again for every operation: a save  *)
(* that is waiting for Redis when another save moves the store goes on in  *)
(* SQLite.                                                                 *)
(*                                                                         *)
(* A turn of the conversation saves its question, then its answer          *)
(* (routers/chat.py).  A Redis call is a suspension point; an operation on *)
(* SQLite is not, so a save on SQLite is one step.  Redis may answer, or   *)
(* raise after or before it executed the call.                             *)
(***************************************************************************)
EXTENDS Naturals, FiniteSets, SequencesExt

CONSTANTS SavedTurns,        \* turns of the conversation
          MaxMessages,  \* SessionConfig.max_messages
          MaxClears,    \* bound: requests that clear the session
          MaxRestarts   \* bound: process restarts

ASSUME MemoryAssumption ==
    /\ MaxMessages \in Nat \ {0}
    /\ {MaxClears, MaxRestarts} \subseteq Nat

VARIABLES
    store,     \* what self._redis is: a Redis client or the SQLite store
    redis,     \* the session's list in Redis, newest first
    sqlite,    \* its rows in SQLite, newest first
    listed,    \* whether session_meta has the session
    save,      \* what each turn is saving and how far it got
    clear,     \* a clear request that waits for Redis
    acked,     \* history: messages whose save returned True, in that order
    crossed,   \* history: messages waiting for Redis when another save moved the store
    unlisted,  \* history: a clear waited for Redis when a save moved the store
    gone,      \* history: messages acknowledged before SQLite was cleared
    clears,
    restarts

memoryVars == <<store, redis, sqlite, listed, save, clear, acked, crossed, unlisted, gone, clears, restarts>>
memoryCounters == <<clears, restarts>>

MessageRoles == {"question", "answer"}
Messages == SavedTurns \X MessageRoles
SavePlaces == {"ready", "pushing", "trimming", "done"}

MemoryInit ==
    /\ store = "redis"
    /\ redis = <<>>
    /\ sqlite = <<>>
    /\ listed = FALSE
    /\ save = [t \in SavedTurns |-> [at |-> "ready", role |-> "question"]]
    /\ clear = "idle"
    /\ acked = <<>>
    /\ crossed = {}
    /\ unlisted = FALSE
    /\ gone = {}
    /\ clears = 0
    /\ restarts = 0

MessageOf(t) == <<t, save[t].role>>
InFlight == {t \in SavedTurns : save[t].at \in {"pushing", "trimming"}}

\* lpush, then ltrim to the window.
Pushed(list, m) == <<m>> \o list

Trimmed(list) == SubSeq(list, 1, IF Len(list) < MaxMessages THEN Len(list) ELSE MaxMessages)

\* The background task that follows: the answer after the question.
AfterSave(s) ==
    IF s.role = "question" THEN [at |-> "ready", role |-> "answer"]
                           ELSE [at |-> "done", role |-> "answer"]

\* The save returns; `ok' is what it returns, and nobody reads it.
Return(t, ok) ==
    /\ save' = [save EXCEPT ![t] = AfterSave(@)]
    /\ acked' = IF ok THEN Append(acked, MessageOf(t)) ELSE acked

\* The three operations of a save on SQLite.
SaveThere(t) ==
    /\ sqlite' = Trimmed(Pushed(sqlite, MessageOf(t)))
    /\ listed' = TRUE
    /\ Return(t, TRUE)

\* The rest of a save whose push went to Redis, once the store is SQLite.
RunsOnSqlite(t) ==
    /\ sqlite' = Trimmed(sqlite)
    /\ listed' = TRUE
    /\ Return(t, TRUE)

\* Mutation of Move: the save that moved the store is not redone.
MoveOnly(t) ==
    /\ store' = "sqlite"
    /\ Return(t, TRUE)
    /\ crossed' = crossed \cup {MessageOf(u) : u \in InFlight \ {t}}
    /\ unlisted' = (unlisted \/ clear = "deleting")
    /\ UNCHANGED <<sqlite, listed>>

\* The store moves, and this save starts over on SQLite.
Move(t) ==
    /\ store' = "sqlite"
    /\ SaveThere(t)
    /\ crossed' = crossed \cup {MessageOf(u) : u \in InFlight \ {t}}
    /\ unlisted' = (unlisted \/ clear = "deleting")

\* An operation raised: move, unless another save did already, and then fail.
Fallback(t) ==
    \/ store = "redis" /\ Move(t)
    \/ /\ store = "sqlite"
       /\ Return(t, FALSE)
       /\ UNCHANGED <<store, sqlite, listed, crossed, unlisted>>
-----------------------------------------------------------------------------
\* save_message once the store is SQLite.
SaveSqlite(t) ==
    /\ store = "sqlite" /\ save[t].at = "ready"
    /\ SaveThere(t)
    /\ UNCHANGED <<store, redis, clear, crossed, unlisted, gone, memoryCounters>>

\* save_message before that: lpush is sent to Redis.
BeginSave(t) ==
    /\ store = "redis" /\ save[t].at = "ready"
    /\ save' = [save EXCEPT ![t].at = "pushing"]
    /\ UNCHANGED <<store, redis, sqlite, listed, clear, acked, crossed, unlisted, gone, memoryCounters>>

\* lpush answered: ltrim is sent to the store of this moment.
PushAnswered(t) ==
    /\ save[t].at = "pushing"
    /\ redis' = Pushed(redis, MessageOf(t))
    /\ \/ /\ store = "redis"
          /\ save' = [save EXCEPT ![t].at = "trimming"]
          /\ UNCHANGED <<sqlite, listed, acked>>
       \/ store = "sqlite" /\ RunsOnSqlite(t)
    /\ UNCHANGED <<store, clear, crossed, unlisted, gone, memoryCounters>>

PushRaises(t) ==
    /\ save[t].at = "pushing"
    /\ redis' \in {redis, Pushed(redis, MessageOf(t))}
    /\ Fallback(t)
    /\ UNCHANGED <<clear, gone, memoryCounters>>

\* ltrim answered: a Redis client has no register_session.
TrimAnswered(t) ==
    /\ save[t].at = "trimming"
    /\ redis' = Trimmed(redis)
    /\ \/ store = "redis" /\ Move(t)
       \/ /\ store = "sqlite"
          /\ listed' = TRUE
          /\ Return(t, TRUE)
          /\ UNCHANGED <<store, sqlite, crossed, unlisted>>
    /\ UNCHANGED <<clear, gone, memoryCounters>>

TrimRaises(t) ==
    /\ save[t].at = "trimming"
    /\ redis' \in {redis, Trimmed(redis)}
    /\ Fallback(t)
    /\ UNCHANGED <<clear, gone, memoryCounters>>

\* clear_session on SQLite, from DELETE /sessions/{id} or /chat/history/{id}.
ClearSqlite ==
    /\ store = "sqlite" /\ clear = "idle" /\ clears < MaxClears
    /\ sqlite' = <<>>
    /\ listed' = FALSE
    /\ gone' = gone \cup ToSet(acked)
    /\ clears' = clears + 1
    /\ UNCHANGED <<store, redis, save, clear, acked, crossed, unlisted, restarts>>

BeginClear ==
    /\ store = "redis" /\ clear = "idle" /\ clears < MaxClears
    /\ clear' = "deleting"
    /\ clears' = clears + 1
    /\ UNCHANGED <<store, redis, sqlite, listed, save, acked, crossed, unlisted, gone, restarts>>

\* The registry is asked next: SQLite has one, Redis raises; both routes say deleted.
DeleteAnswered ==
    /\ clear = "deleting"
    /\ redis' = <<>>
    /\ listed' = (listed /\ store = "redis")
    /\ clear' = "idle"
    /\ UNCHANGED <<store, sqlite, save, acked, crossed, unlisted, gone, memoryCounters>>

DeleteRaises ==
    /\ clear = "deleting"
    /\ redis' \in {redis, <<>>}
    /\ clear' = "idle"
    /\ UNCHANGED <<store, sqlite, listed, save, acked, crossed, unlisted, gone, memoryCounters>>

\* The process stops: what it was saving is dropped and the store is Redis again.
MemoryRestart ==
    /\ restarts < MaxRestarts
    /\ restarts' = restarts + 1
    /\ store' = "redis"
    /\ clear' = "idle"
    /\ save' = [t \in SavedTurns |-> IF t \in InFlight \/ save[t].role = "answer"
                                THEN [save[t] EXCEPT !.at = "done"]
                                ELSE save[t]]
    /\ UNCHANGED <<redis, sqlite, listed, acked, crossed, unlisted, gone, clears>>

SaveStep(t) ==
    SaveSqlite(t) \/ BeginSave(t) \/ PushAnswered(t) \/ PushRaises(t)
        \/ TrimAnswered(t) \/ TrimRaises(t)

MemoryNext ==
    \/ \E t \in SavedTurns : SaveStep(t)
    \/ ClearSqlite \/ BeginClear \/ DeleteAnswered \/ DeleteRaises
    \/ MemoryRestart

MemorySpec == MemoryInit /\ [][MemoryNext]_memoryVars
-----------------------------------------------------------------------------
\* Types: the store of a process never goes back to Redis, so nothing but a
\* save in flight when it moved is still waiting for Redis afterwards.
MemoryTypeOK ==
    /\ store \in {"redis", "sqlite"}
    /\ {ToSet(redis), ToSet(sqlite), ToSet(acked), gone} \subseteq SUBSET Messages
    /\ Len(sqlite) <= MaxMessages
    /\ listed \in BOOLEAN
    /\ save \in [SavedTurns -> [at : SavePlaces, role : MessageRoles]]
    /\ clear \in {"idle", "deleting"}
    /\ crossed \subseteq Messages
    /\ unlisted \in BOOLEAN
    /\ clears \in 0 .. MaxClears
    /\ restarts \in 0 .. MaxRestarts
    /\ store = "sqlite" => \A t \in InFlight : MessageOf(t) \in crossed

\* What SQLite should hold: the acknowledged messages that crossed no move and
\* were not cleared, by their places in acked; how new one is among them.
Owed == {i \in DOMAIN acked : acked[i] \notin crossed \cup gone}
Newness(i) == Cardinality({k \in Owed : i <= k})

\* The history in SQLite is the acknowledged conversation, newest first, cut
\* to the window of max_messages, and a session with a history is listed.
\* A save or a clear that waited for Redis while another save moved the store
\* (redis_memory.py 110-124) is excepted: it is acknowledged all the same.
HistoryIsAcked ==
    /\ Len(sqlite) = IF Cardinality(Owed) < MaxMessages THEN Cardinality(Owed) ELSE MaxMessages
    /\ \A i \in Owed : Newness(i) <= MaxMessages => sqlite[Newness(i)] = acked[i]
    /\ sqlite # <<>> /\ ~unlisted => listed
=============================================================================
