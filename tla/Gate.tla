--------------------------------- MODULE Gate ---------------------------------
(***************************************************************************)
(* The gate service: the goroutines that drive the GamerManager.           *)
(*                                                                         *)
(*   - one goroutine per socket (TCPServer.handleConn, handleWS): open,    *)
(*     read requests, log in through the auth service, clean up on exit;   *)
(*   - HTTP requests on any connection id, with no goroutine behind it;    *)
(*   - the gRPC control service (KickGamer);                               *)
(*   - TCPServer.Stop: close the listener, CloseAll, wait for handlers.    *)
(*                                                                         *)
(* A login is two steps with the auth call in between, so the connection   *)
(* may be kicked, logged out or closed while the answer is on its way.     *)
(***************************************************************************)
EXTENDS GamerManager

CONSTANTS TCP,       \* the sockets TCPServer.Stop waits for (the rest: WebSocket)
          Claims     \* Claims[c]: sessions the credentials presented on c stand for

ASSUME GateAssumption == /\ TCP \subseteq Socket
                         /\ Claims \in [Conn -> SUBSET Session]

VARIABLES handler,    \* where the goroutine of a socket stands; "detached" for HTTP
          answer,     \* the session auth returned to the handler of a socket
          httpLogins, \* <<c, s>>: an HTTP login on c for which auth returned s
          hungup,     \* sockets whose peer closed or broke the stream
          stop        \* progress of TCPServer.Stop

gateVars == <<handler, answer, httpLogins, hungup, stop>>
vars == <<managerVars, gateVars>>

HandlerState == {"new", "accepted", "reading", "auth", "bind", "exiting", "done", "detached"}

TypeOK ==
    /\ ManagerTypeOK
    /\ handler \in [Conn -> HandlerState]
    /\ answer \in [Socket -> Session \cup {NoSession}]
    /\ httpLogins \in SUBSET (Conn \X Session)
    /\ hungup \in SUBSET Socket
    /\ stop \in {"running", "draining", "waiting", "stopped"}

Init ==
    /\ ManagerInit
    /\ handler = [c \in Conn |-> "new"]
    /\ answer = [c \in Socket |-> NoSession]
    /\ httpLogins = {}
    /\ hungup = {}
    /\ stop = "running"

Goto(c, state) == handler' = [handler EXCEPT ![c] = state]

(* The id was handed to a client, so requests may name it. *)
Announced(c) == handler[c] \notin {"new", "accepted"}

(* Mutated forms; only the mutation runs use them. *)
LeaveSilently(c) == UNCHANGED managerVars
BindAnyway(c, s) ==
    /\ bySession' = [bySession EXCEPT ![s] = c]
    /\ sessionID' = [sessionID EXCEPT ![c] = s]
    /\ UNCHANGED <<byConnID, closers, closed>>

-------------------------------------------------------------------------------
(* Opening a connection. *)

Accept(c) ==
    /\ stop = "running"
    /\ c \in Socket /\ handler[c] = "new"
    /\ Goto(c, "accepted")
    /\ UNCHANGED <<managerVars, answer, httpLogins, hungup, stop>>

OpenSocket(c) ==
    /\ c \in Socket /\ handler[c] = "accepted"
    /\ Open(c)
    /\ Goto(c, "reading")
    /\ UNCHANGED <<answer, httpLogins, hungup, stop>>

(* newID could not read random bytes: the handler closes the socket itself. *)
OpenSocketFails(c) ==
    /\ c \in Socket /\ handler[c] = "accepted"
    /\ closed' = closed \cup {c}
    /\ Goto(c, "done")
    /\ UNCHANGED <<byConnID, bySession, closers, sessionID, answer, httpLogins, hungup, stop>>

(* POST /gate/connections/open: no closer, no goroutine. *)
OpenConnection(c) ==
    /\ c \in Conn \ Socket /\ handler[c] = "new"
    /\ Open(c)
    /\ Goto(c, "detached")
    /\ UNCHANGED <<answer, httpLogins, hungup, stop>>

-------------------------------------------------------------------------------
(* Logging in. *)

(* A login op read from the socket: the handler blocks in the auth call. *)
LoginStart(c) ==
    /\ c \in Socket /\ handler[c] = "reading"
    /\ Goto(c, "auth")
    /\ UNCHANGED <<managerVars, answer, httpLogins, hungup, stop>>

AuthAnswers(c, s) ==
    /\ c \in Socket /\ handler[c] = "auth"
    /\ s \in Claims[c]
    /\ answer' = [answer EXCEPT ![c] = s]
    /\ Goto(c, "bind")
    /\ UNCHANGED <<managerVars, httpLogins, hungup, stop>>

(* Refused, unreachable, or past the client's 5 second timeout. *)
AuthFails(c) ==
    /\ c \in Socket /\ handler[c] = "auth"
    /\ Goto(c, "reading")
    /\ UNCHANGED <<managerVars, answer, httpLogins, hungup, stop>>

(* BindSession or its ErrConnNotFound, which the caller only reports. *)
TryBind(c, s) == BindSession(c, s) \/ ConnNotFound(c)

LoginBinds(c) ==
    /\ c \in Socket /\ handler[c] = "bind"
    /\ TryBind(c, answer[c])
    /\ answer' = [answer EXCEPT ![c] = NoSession]
    /\ Goto(c, "reading")
    /\ UNCHANGED <<httpLogins, hungup, stop>>

(* POST /gate/login/...: auth has answered s for a request that names c. *)
HTTPLogin(c, s) ==
    /\ Announced(c)
    /\ s \in Claims[c]
    /\ httpLogins' = httpLogins \cup {<<c, s>>}
    /\ UNCHANGED <<managerVars, handler, answer, hungup, stop>>

(* Another request may wait to bind the same connection to the same session. *)
HTTPLoginBinds(c, s) ==
    /\ <<c, s>> \in httpLogins
    /\ TryBind(c, s)
    /\ httpLogins' \in {httpLogins, httpLogins \ {<<c, s>>}}
    /\ UNCHANGED <<handler, answer, hungup, stop>>

-------------------------------------------------------------------------------
(* Leaving. *)

(* POST /gate/logout and KickGamer: both end in GamerManager.Disconnect. *)
Logout(c) ==
    /\ Disconnect(c)
    /\ UNCHANGED gateVars

PeerHangsUp(c) ==
    /\ c \in Socket /\ handler[c] # "new"
    /\ hungup' = hungup \cup {c}
    /\ UNCHANGED <<managerVars, handler, answer, httpLogins, stop>>

(* Scan or Receive fails: the socket was closed by either end, or the peer
   sent what the reader rejects.  Requests already buffered may come first. *)
ReadEnds(c) ==
    /\ c \in Socket /\ handler[c] = "reading"
    /\ Goto(c, "exiting")
    /\ UNCHANGED <<managerVars, answer, httpLogins, hungup, stop>>

(* The deferred Disconnect; a connection already gone is not an error. *)
DeferredDisconnect(c) == Disconnect(c) \/ ConnNotFound(c)

HandlerExits(c) ==
    /\ c \in Socket /\ handler[c] = "exiting"
    /\ DeferredDisconnect(c)
    /\ Goto(c, "done")
    /\ UNCHANGED <<answer, httpLogins, hungup, stop>>

-------------------------------------------------------------------------------
(* TCPServer.Stop. *)

StopListening ==
    /\ stop = "running"
    /\ stop' = "draining"
    /\ UNCHANGED <<managerVars, handler, answer, httpLogins, hungup>>

StopCloseAll ==
    /\ stop = "draining"
    /\ CloseAll
    /\ stop' = "waiting"
    /\ UNCHANGED <<handler, answer, httpLogins, hungup>>

(* wg.Wait returns. *)
StopReturns ==
    /\ stop = "waiting"
    /\ \A c \in TCP : handler[c] \in {"new", "done"}
    /\ stop' = "stopped"
    /\ UNCHANGED <<managerVars, handler, answer, httpLogins, hungup>>

Next ==
    \/ \E c \in Conn :
          \/ Accept(c) \/ OpenSocket(c) \/ OpenSocketFails(c) \/ OpenConnection(c)
          \/ LoginStart(c) \/ AuthFails(c) \/ LoginBinds(c)
          \/ \E s \in Session : AuthAnswers(c, s) \/ HTTPLogin(c, s) \/ HTTPLoginBinds(c, s)
          \/ Logout(c) \/ PeerHangsUp(c) \/ ReadEnds(c) \/ HandlerExits(c)
    \/ StopListening \/ StopCloseAll \/ StopReturns

Spec == Init /\ [][Next]_vars

(* Goroutines run; the auth call returns within its client's timeout; reading a
   dead socket fails once the lines already buffered are used up, which is why
   ReadEnds is strongly and not weakly fair.  Nothing is assumed of peers, of
   HTTP clients or of operators, nor that Stop is ever called.               *)
Fairness ==
    /\ \A c \in Socket :
          /\ WF_vars(OpenSocket(c) \/ OpenSocketFails(c))
          /\ WF_vars(AuthFails(c) \/ \E s \in Session : AuthAnswers(c, s))
          /\ WF_vars(LoginBinds(c))
          /\ SF_vars(c \in closed \cup hungup /\ ReadEnds(c))
          /\ WF_vars(HandlerExits(c))
    /\ WF_vars(StopCloseAll)
    /\ WF_vars(StopReturns)

FairSpec == Spec /\ Fairness

-------------------------------------------------------------------------------
(* Safety properties. *)

Live(c) == handler[c] \in {"reading", "auth", "bind", "exiting"}

(* A socket the gate no longer indexes has been closed, so that its handler
   stops serving it: eviction by BindSession, Disconnect and CloseAll never
   drop a connection and leave the stream to its client.  And one still
   indexed can be kicked: its closer is registered (closeLocked, deleteLocked). *)
NoOrphanSocket ==
    \A c \in Socket : Live(c) => IF c \in byConnID THEN c \in closers ELSE c \in closed

(* A handler that returned left nothing behind in the index, whatever login,
   kick or CloseAll ran between its last read and its deferred Disconnect.   *)
FinishedHandlerIsForgotten ==
    \A c \in Socket : handler[c] = "done" => c \notin byConnID \cup closers

(* The session index is exact: bySession[s] is c if and only if c is connected
   and bound to s; hence no session is online twice and Stats counts right.
   It needs Disciplined (below): every client logs in for one session only.    *)
SessionIndexExact ==
    \A s \in Session, c \in Conn :
        bySession[s] = c <=> Shows(c, s)

(* No connection's credentials stand for two sessions. *)
Disciplined == \A c \in Conn : \A s, t \in Claims[c] : s = t

(* "clean up the local connection state when the socket is closed": no entry
   of bySession points to a connection that is gone.                          *)
NoDanglingSession ==
    \A s \in Session : bySession[s] # NoConn => bySession[s] \in byConnID

-------------------------------------------------------------------------------
(* Action property. *)

(* An answer of the auth service that comes after its connection is gone binds
   nothing: an entry of bySession only ever starts to point to a connection
   that is indexed when the step ends (BindSession's lookup under m.mu).      *)
BindsOnlyConnected ==
    [][\A s \in Session :
          bySession'[s] \in {bySession[s], NoConn} \cup byConnID']_vars

-------------------------------------------------------------------------------
(* Liveness properties, of FairSpec. *)

(* A socket that was kicked or whose peer hung up, in the middle of a login or
   not, ends: its handler returns and the index forgets it.                   *)
EndedSocketIsForgotten ==
    \A c \in Socket :
        c \in closed \cup hungup ~> handler[c] = "done" /\ c \notin byConnID

(* TCPServer.Stop does not hang, but for one reason: a connection accepted
   before the listener closed and registered after CloseAll, whose peer stays. *)
StopWaitsOnlyForLateConnections ==
    []<>(stop = "waiting" => TCP \cap byConnID # {})

-------------------------------------------------------------------------------
(* The gate implements SessionSeat: the holder of s is the connection bound to
   s, found without bySession.                                                *)
Online(s) == {c \in byConnID : sessionID[c] = s}

Holder == [s \in Session |->
              IF Online(s) = {} THEN NoConn ELSE CHOOSE c \in Online(s) : TRUE]

Departed == {c \in Conn : Announced(c)} \ byConnID

Seat == INSTANCE SessionSeat WITH present <- byConnID, gone <- Departed, seat <- Holder

(* A login evicts the holder of its session and nobody else, a connection that
   left never comes back, and a session has one holder (Disciplined clients).  *)
SeatSpec == Seat!Spec

===============================================================================
