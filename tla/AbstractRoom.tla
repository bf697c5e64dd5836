----------------------------- MODULE AbstractRoom -----------------------------
(***************************************************************************)
(* What Server/RoomHandler.h promises of a chat room: it is opened by its  *)
(* creator, users come and go while it is open, it is closed once it is    *)
(* empty, and nobody gets into a closed room.  The statements, the counter *)
(* and the map of rooms that a server step goes through are not visible at *)
(* this level.                                                             *)
(***************************************************************************)
CONSTANTS Room, Visitor

VARIABLES state,   \* of each room: "none", "open" or "closed"
          inside   \* the users of each room

vars == <<state, inside>>

Init ==
    /\ state = [r \in Room |-> "none"]
    /\ inside = [r \in Room |-> {}]

Open(r, u) ==
    /\ state[r] = "none"
    /\ state' = [state EXCEPT ![r] = "open"]
    /\ inside' = [inside EXCEPT ![r] = {u}]

Enter(r, u) ==
    /\ state[r] = "open"
    /\ inside' = [inside EXCEPT ![r] = @ \union {u}]
    /\ UNCHANGED state

Leave(r, u) ==
    /\ u \in inside[r]
    /\ inside' = [inside EXCEPT ![r] = @ \ {u}]
    /\ UNCHANGED state

Close(r) ==
    /\ state[r] = "open" /\ inside[r] = {}
    /\ state' = [state EXCEPT ![r] = "closed"]
    /\ UNCHANGED inside

Next == \E r \in Room : Close(r) \/ \E u \in Visitor : Open(r, u) \/ Enter(r, u) \/ Leave(r, u)

Spec == Init /\ [][Next]_vars
===============================================================================
