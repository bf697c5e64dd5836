---------------------------- MODULE MCChatServer ------------------------------
EXTENDS ChatServer, TLC

(* Every user has an id of its own. *)
OwnId == [s \in Session |-> {s}]

(* Every user has an id of its own, and all may try one of these ids. *)
SharedId == [s \in Session |-> {s, CHOOSE a \in Account : TRUE}]

(* The state after every user has registered and logged in. *)
EverybodyLoggedIn ==
    /\ accounts = Session /\ online = Session
    /\ id = [s \in Session |-> s]
    /\ page = [s \in Session |-> "lobby"]

LoggedInInit == EverybodyLoggedIn /\ NothingHappening

LoggedInSpec == LoggedInInit /\ [][Next]_vars

Perms == Permutations(Session)
===============================================================================
