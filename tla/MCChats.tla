------------------------------ MODULE MCChats -------------------------------
(* Small instances for TLC of what the bot keeps of a group: that it is one  *)
(* chat with its members (Chats), and its pinned board (Board).  They share  *)
(* no state; a behaviour is one of the two, so that one run checks both.     *)
EXTENDS Chats, Board

CONSTANTS p1, p2, q1  \* model values

VARIABLE part
groups == <<part, vars, boardVars>>

GroupsInit == Init /\ BoardInit /\ part \in {"chats", "board"}
GroupsNext ==
    \/ part = "chats" /\ Next /\ UNCHANGED <<part, boardVars>>
    \/ part = "board" /\ BoardNext /\ UNCHANGED <<part, vars>>
GroupsSpec == GroupsInit /\ [][GroupsNext]_groups
=============================================================================
