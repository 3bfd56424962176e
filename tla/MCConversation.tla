--------------------------- MODULE MCConversation ---------------------------
(***************************************************************************)
(* ChatConversation and, below its saves, SessionMemory, for TLC.  The two *)
(* are on different levels and share no variable: each is explored from    *)
(* the initial state of the other.                                         *)
(***************************************************************************)
EXTENDS ChatConversation, SessionMemory

ChatMoves == MemoryInit /\ Next /\ UNCHANGED memoryVars
MemoryMoves == Init /\ MemoryNext /\ UNCHANGED vars

ConversationInit == Init /\ MemoryInit

ConversationSpec ==
    /\ ConversationInit
    /\ [][ChatMoves \/ MemoryMoves]_<<vars, memoryVars>>
    /\ WF_vars(Read) /\ \A t \in Turns : WF_vars(Serve(t))
=============================================================================
