----------------------------- MODULE GamerManager -----------------------------
(***************************************************************************)
(* The gate's index of its connections: GamerManager of                    *)
(* service/gate/module/manager.go.  Every method runs under m.mu, so each  *)
(* is one action here.  A *Gamer is identified with the conn id it was     *)
(* created for (conn ids are random and used once); sessionID keeps the    *)
(* field of the object after the object left byConnID, because a pointer   *)
(* left behind in bySession still reads it.                                *)
(***************************************************************************)
CONSTANTS Conn,       \* connection ids
          Socket,     \* the connections opened with a closer (TCP, WebSocket)
          Session,    \* session ids issued by the auth service
          NoConn, NoSession

ASSUME ConnAssumption == Socket \subseteq Conn /\ NoConn \notin Conn
ASSUME SessionAssumption == NoSession \notin Session

VARIABLES byConnID,   \* keys of m.byConnID
          bySession,  \* m.bySession: session -> conn id of the Gamer pointed to
          closers,    \* keys of m.closers
          sessionID,  \* Gamer.SessionID of every Gamer object ever created
          closed      \* the sockets on which closer.Close() was called

managerVars == <<byConnID, bySession, closers, sessionID, closed>>

ManagerTypeOK ==
    /\ byConnID \in SUBSET Conn
    /\ bySession \in [Session -> Conn \cup {NoConn}]
    /\ closers \in SUBSET Socket
    /\ sessionID \in [Conn -> Session \cup {NoSession}]
    /\ closed \in SUBSET Socket

ManagerInit ==
    /\ byConnID = {}
    /\ bySession = [s \in Session |-> NoConn]
    /\ closers = {}
    /\ sessionID = [c \in Conn |-> NoSession]
    /\ closed = {}

(* Mutated forms of the definitions below; only the mutation runs use them. *)
KickNobody(c, s) == {}
ForgetNothing(gone) == {}
CloseNothing(gone) == closed' = closed
OpenKeepsNilCloser(c) ==
    /\ byConnID' = byConnID \cup {c}
    /\ closers' = closers \cup {c}
    /\ sessionID' = [sessionID EXCEPT ![c] = NoSession]
    /\ UNCHANGED <<bySession, closed>>

-------------------------------------------------------------------------------

(* closeLocked for every connection of gone that still has a closer. *)
CloseLocked(gone) == closed' = closed \cup (gone \cap closers)

(* The keys deleteLocked removes from bySession: the CURRENT session of each
   deleted Gamer, whichever Gamer that key points to by now.                *)
SessionsDropped(gone) == {sessionID[g] : g \in gone}

(* BindSession's eviction: the Gamer bySession still holds for s, if it is
   another connection than c (it may have left byConnID long ago).          *)
Kicked(c, s) == {bySession[s]} \ {c, NoConn}

Open(c) ==
    /\ byConnID' = byConnID \cup {c}
    /\ closers' = closers \cup ({c} \cap Socket)
    /\ sessionID' = [sessionID EXCEPT ![c] = NoSession]
    /\ UNCHANGED <<bySession, closed>>

BindSession(c, s) ==
    LET gone == Kicked(c, s)
    IN  /\ c \in byConnID
        /\ CloseLocked(gone)
        /\ byConnID' = byConnID \ gone
        /\ closers' = closers \ gone
        /\ sessionID' = [sessionID EXCEPT ![c] = s]
        /\ bySession' = [t \in Session |->
                            IF t = s THEN c
                            ELSE IF t \in SessionsDropped(gone) THEN NoConn
                            ELSE bySession[t]]

(* Get: what GET /gate/connections/<id> and the gRPC GetGamer show of c. *)
Shows(c, s) == c \in byConnID /\ sessionID[c] = s

(* BindSession's early return ErrConnNotFound, and Disconnect's. *)
ConnNotFound(c) == c \notin byConnID /\ UNCHANGED managerVars

Disconnect(c) ==
    /\ c \in byConnID
    /\ CloseLocked({c})
    /\ byConnID' = byConnID \ {c}
    /\ closers' = closers \ {c}
    /\ bySession' = [t \in Session |->
                        IF t \in SessionsDropped({c}) THEN NoConn ELSE bySession[t]]
    /\ UNCHANGED sessionID

CloseAll ==
    /\ CloseLocked(byConnID)
    /\ byConnID' = {}
    /\ bySession' = [s \in Session |-> NoConn]
    /\ closers' = {}
    /\ UNCHANGED sessionID

===============================================================================
