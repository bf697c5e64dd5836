------------------------------ MODULE Listener --------------------------------
(***************************************************************************)
(* ServerCore/Listener.cpp and ServerService::Start composed with Session. *)
(*                                                                         *)
(* main registers every accept event before the workers run; a worker that *)
(* takes an accept completion connects the event's session and registers   *)
(* the event again, with a new session.  Session follows one of the        *)
(* sessions RegisterAccept creates, Followed; of the others the model      *)
(* keeps what the listener does with them.  AcceptEx and the backlog of    *)
(* the listening socket are external.                                      *)
(***************************************************************************)
EXTENDS Session

CONSTANTS
    AcceptEvent,   \* _acceptEvents, maxSessionCount of them
    NoEvent,       \* a worker that is not in ProcessAccept
    Followed,      \* the session of module Session
    Other,         \* any other session
    MaxPeers,      \* bound on the peers that connect
    MaxFailures    \* bound on the calls of AcceptEx that fail at once

ASSUME ListenerAssumption ==
    /\ IsFiniteSet(AcceptEvent) /\ NoEvent \notin AcceptEvent
    /\ Followed # Other
    /\ MaxPeers \in Nat /\ MaxFailures \in Nat

VARIABLES
    accept,        \* of an event: "new", "posted", "completed", "handled"
    acceptSession, \* AcceptEvent::session
    accepting,     \* the event a thread has in ProcessAccept
    created,       \* the followed session has been created: "no" or "yes"
    peers,         \* peers that have called connect
    backlog,       \* those of them that AcceptEx has not taken
    failures       \* calls of AcceptEx that failed at once

listening == <<accept, acceptSession, accepting, created, peers, backlog, failures>>
listenVars == <<vars, listening>>

ListenInit ==
    /\ Init
    /\ accept = [e \in AcceptEvent |-> "new"]
    /\ acceptSession = [e \in AcceptEvent |-> Other]
    /\ accepting = [t \in Thread |-> NoEvent]
    /\ created = "no"
    /\ peers = 0 /\ backlog = 0 /\ failures = 0
-------------------------------------------------------------------------------
(* An event that is registered again keeps the session it has. *)
M_CreateSession(e) ==
    \E s \in {Followed, Other} :
        /\ s = Followed => created = "no"
        /\ acceptSession' = IF accept[e] = "new" THEN [acceptSession EXCEPT ![e] = s] ELSE acceptSession
        /\ created' = IF s = Followed THEN "yes" ELSE created

(* Service::CreateSession makes the session of the event; the model follows   *)
(* one of them.  A socket that cannot be registered with the port makes it    *)
(* return nullptr, which RegisterAccept dereferences: the process ends there, *)
(* like a behaviour of the model that takes no further step.                  *)
CreateSession(e) ==
    \E s \in {Followed, Other} :
        /\ s = Followed => created = "no"
        /\ acceptSession' = [acceptSession EXCEPT ![e] = s]
        /\ created' = IF s = Followed THEN "yes" ELSE created

(* RegisterAccept: when AcceptEx fails at once the function calls itself,     *)
(* which drops the session it has just created.                               *)
RegisterAccept(e, state) ==
    /\ accept[e] = state
    /\ CreateSession(e)
    /\ \/ accept' = [accept EXCEPT ![e] = "posted"] /\ UNCHANGED failures
       \/ failures < MaxFailures /\ failures' = failures + 1 /\ UNCHANGED accept

Started == \A e \in AcceptEvent : accept[e] # "new"

(* StartAccept, called by main before it launches the workers *)
StartAccept ==
    /\ ~Started
    /\ \E e \in AcceptEvent : RegisterAccept(e, "new")
    /\ UNCHANGED <<vars, accepting, peers, backlog>>

PeerConnect ==
    /\ peers < MaxPeers
    /\ peers' = peers + 1 /\ backlog' = backlog + 1
    /\ UNCHANGED <<vars, accept, acceptSession, accepting, created, failures>>

(* AcceptEx completes. *)
AcceptEx ==
    /\ backlog > 0
    /\ \E e \in AcceptEvent :
        /\ accept[e] = "posted"
        /\ accept' = [accept EXCEPT ![e] = "completed"]
    /\ backlog' = backlog - 1
    /\ UNCHANGED <<vars, acceptSession, accepting, created, peers, failures>>
-------------------------------------------------------------------------------
Free(t) == pc[t] = "idle" /\ accepting[t] = NoEvent /\ Started

(* A worker forgets the event of a peer that is gone. *)
M_ProcessAccept(t) ==
    \E e \in AcceptEvent :
        /\ Free(t) /\ accept[e] = "completed"
        /\ accept' = [accept EXCEPT ![e] = "handled"]
        /\ \/ UNCHANGED vars /\ UNCHANGED accepting
           \/ /\ accepting' = [accepting EXCEPT ![t] = e]
              /\ IF acceptSession[e] = Followed THEN ProcessConnect(t) ELSE UNCHANGED vars
        /\ UNCHANGED <<acceptSession, created, peers, backlog, failures>>

(* ProcessAccept: SetUpdateAcceptSocket or getpeername fails when the peer is *)
(* gone, and the session is dropped; otherwise ProcessConnect runs.           *)
ProcessAccept(t) ==
    \E e \in AcceptEvent :
        /\ Free(t) /\ accept[e] = "completed"
        /\ accept' = [accept EXCEPT ![e] = "handled"]
        /\ accepting' = [accepting EXCEPT ![t] = e]
        /\ \/ UNCHANGED vars
           \/ IF acceptSession[e] = Followed THEN ProcessConnect(t) ELSE UNCHANGED vars
        /\ UNCHANGED <<acceptSession, created, peers, backlog, failures>>

(* The event is registered again when ProcessConnect has returned. *)
ProcessAcceptEnd(t) ==
    /\ pc[t] = "idle" /\ accepting[t] # NoEvent
    /\ RegisterAccept(accepting[t], "handled")
    /\ accepting' = IF accept'[accepting[t]] = "posted" THEN [accepting EXCEPT ![t] = NoEvent]
                                                       ELSE accepting
    /\ UNCHANGED <<vars, peers, backlog>>
-------------------------------------------------------------------------------
(* A worker in ProcessAccept takes no other completion. *)
SessionStep(t) ==
    /\ \/ Continue(t)
       \/ Free(t) /\ (Send(t) \/ ProcessRecv(t) \/ ProcessSend(t) \/ ProcessDisconnect(t))
    /\ UNCHANGED listening

ListenNext ==
    \/ StartAccept \/ PeerConnect \/ AcceptEx
    \/ \E t \in Thread : ProcessAccept(t) \/ ProcessAcceptEnd(t) \/ SessionStep(t)

(* main starts the service; a worker goes on with what it does, and finds     *)
(* every completion sooner or later; a posted accept takes a waiting peer.    *)
ListenFairness ==
    /\ WF_listenVars(StartAccept) /\ WF_listenVars(AcceptEx)
    /\ SF_listenVars(\E t \in Thread : ProcessAccept(t))
    /\ SF_listenVars(\E t \in Thread : Free(t) /\ ProcessSend(t) /\ UNCHANGED listening)
    /\ SF_listenVars(\E t \in Thread : Free(t) /\ ProcessDisconnect(t) /\ UNCHANGED listening)
    /\ \A t \in Thread :
        /\ WF_listenVars(Continue(t) /\ UNCHANGED listening)
        /\ WF_listenVars(ProcessAcceptEnd(t))

ListenSpec == ListenInit /\ [][ListenNext]_listenVars /\ ListenFairness
-------------------------------------------------------------------------------
(* A session is given to AcceptEx once and connected once, by the worker that *)
(* took its completion: an event waiting in the kernel or in the port never   *)
(* has the session of a connection already made.                              *)
ConnectedOnce ==
    /\ \A e, f \in AcceptEvent : acceptSession[e] = Followed /\ acceptSession[f] = Followed => e = f
    /\ \A e \in AcceptEvent :
        acceptSession[e] = Followed /\ accept[e] # "handled" => connected = "no" /\ service = "new"

(* Listener.cpp:84: an accept event is used again.  However many peers are    *)
(* gone before their completion is handled, and whatever ProcessConnect meets *)
(* on the way, every event gets back to the kernel and every peer is taken    *)
(* from the backlog.                                                          *)
EveryPeerIsTaken ==
    []<>(Started /\ backlog = 0 /\ \A e \in AcceptEvent : accept[e] = "posted")
===============================================================================
