------------------------------ MODULE GateProofs ------------------------------
(***************************************************************************)
(* Proofs about Gate, for any sets of connections and sessions.            *)
(***************************************************************************)
EXTENDS Gate, TLAPS

USE ConnAssumption, SessionAssumption, GateAssumption

(* Every variable stays in its declared set. *)
THEOREM TypeCorrect == Spec => []TypeOK
<1> USE DEF TypeOK, ManagerTypeOK, HandlerState
<1>1. Init => TypeOK
  BY DEF Init, ManagerInit
<1>2. ASSUME TypeOK, [Next]_vars
      PROVE  TypeOK'
  <2> USE TypeOK DEF Goto
  <2>1. ASSUME NEW c \in Conn, Accept(c)
        PROVE  TypeOK'
    BY <2>1 DEF Accept, managerVars
  <2>2. ASSUME NEW c \in Conn, OpenSocket(c)
        PROVE  TypeOK'
    BY <2>2 DEF OpenSocket, Open
  <2>3. ASSUME NEW c \in Conn, OpenSocketFails(c)
        PROVE  TypeOK'
    BY <2>3 DEF OpenSocketFails
  <2>4. ASSUME NEW c \in Conn, OpenConnection(c)
        PROVE  TypeOK'
    BY <2>4 DEF OpenConnection, Open
  <2>5. ASSUME NEW c \in Conn, LoginStart(c)
        PROVE  TypeOK'
    BY <2>5 DEF LoginStart, managerVars
  <2>6. ASSUME NEW c \in Conn, NEW s \in Session, AuthAnswers(c, s)
        PROVE  TypeOK'
    BY <2>6 DEF AuthAnswers, managerVars
  <2>7. ASSUME NEW c \in Conn, AuthFails(c)
        PROVE  TypeOK'
    BY <2>7 DEF AuthFails, managerVars
  <2>8. ASSUME NEW c \in Conn, LoginBinds(c)
        PROVE  TypeOK'
    <3>1. ManagerTypeOK'
      BY <2>8 DEF LoginBinds, TryBind, BindSession, ConnNotFound, CloseLocked, Kicked,
                  managerVars
    <3>2. QED
      BY <2>8, <3>1 DEF LoginBinds
  <2>9. ASSUME NEW c \in Conn, NEW s \in Session, HTTPLogin(c, s)
        PROVE  TypeOK'
    BY <2>9 DEF HTTPLogin, managerVars
  <2>10. ASSUME NEW c \in Conn, NEW s \in Session, HTTPLoginBinds(c, s)
         PROVE  TypeOK'
    BY <2>10 DEF HTTPLoginBinds, TryBind, BindSession, ConnNotFound, CloseLocked, Kicked,
                 managerVars
  <2>11. ASSUME NEW c \in Conn, Logout(c)
         PROVE  TypeOK'
    BY <2>11 DEF Logout, Disconnect, CloseLocked, gateVars
  <2>12. ASSUME NEW c \in Conn, PeerHangsUp(c)
         PROVE  TypeOK'
    BY <2>12 DEF PeerHangsUp, managerVars
  <2>13. ASSUME NEW c \in Conn, ReadEnds(c)
         PROVE  TypeOK'
    BY <2>13 DEF ReadEnds, managerVars
  <2>14. ASSUME NEW c \in Conn, HandlerExits(c)
         PROVE  TypeOK'
    BY <2>14 DEF HandlerExits, DeferredDisconnect, Disconnect, ConnNotFound, CloseLocked,
                 managerVars
  <2>15. CASE StopListening
    BY <2>15 DEF StopListening, managerVars
  <2>16. CASE StopCloseAll
    BY <2>16 DEF StopCloseAll, CloseAll, CloseLocked
  <2>17. CASE StopReturns
    BY <2>17 DEF StopReturns, managerVars
  <2>18. CASE UNCHANGED vars
    BY <2>18 DEF vars, managerVars, gateVars
  <2>19. QED
    BY <1>2, <2>1, <2>2, <2>3, <2>4, <2>5, <2>6, <2>7, <2>8, <2>9, <2>10, <2>11, <2>12,
       <2>13, <2>14, <2>15, <2>16, <2>17, <2>18 DEF Next
<1>3. QED
  BY <1>1, <1>2, PTL DEF Spec

-------------------------------------------------------------------------------
(* What makes the socket properties inductive: a closer is registered for
   exactly the indexed sockets, and a socket that is not indexed is yet to be
   opened, has been closed, or has lost its handler.                          *)
SocketInv ==
    /\ closers = byConnID \cap Socket
    /\ \A c \in Socket :
          /\ handler[c] \in {"new", "accepted", "done"} => c \notin byConnID
          /\ Live(c) => c \in byConnID \cup closed
          /\ handler[c] = "bind" => answer[c] \in Session

LEMMA SocketInvImplies == SocketInv => NoOrphanSocket /\ FinishedHandlerIsForgotten
BY DEF SocketInv, NoOrphanSocket, FinishedHandlerIsForgotten

LEMMA BindKeepsSocketInv ==
    ASSUME TypeOK, SocketInv, NEW c \in Conn, NEW s \in Session, TryBind(c, s),
           \A d \in Conn : handler'[d] = handler[d] \/ (Live(d) /\ Live(d)'),
           \A d \in Socket : handler'[d] = "bind" => handler[d] = "bind" /\ answer'[d] = answer[d]
    PROVE  SocketInv'
<1>1. CASE BindSession(c, s)
  <2>1. PICK gone : /\ gone = Kicked(c, s)
                    /\ closed' = closed \cup (gone \cap closers)
                    /\ byConnID' = byConnID \ gone
                    /\ closers' = closers \ gone
    BY <1>1 DEF BindSession, CloseLocked
  <2>2. QED
    BY <2>1 DEF SocketInv, Live, TypeOK, ManagerTypeOK
<1>2. CASE ConnNotFound(c)
  BY <1>2 DEF ConnNotFound, managerVars, SocketInv, Live
<1>3. QED
  BY <1>1, <1>2 DEF TryBind

LEMMA SocketInvInductive == TypeOK /\ SocketInv /\ [Next]_vars => SocketInv'
<1> SUFFICES ASSUME TypeOK, SocketInv, [Next]_vars
             PROVE  SocketInv'
  OBVIOUS
<1> USE DEF SocketInv, Live, Goto, TypeOK, ManagerTypeOK, HandlerState
<1>1. ASSUME NEW c \in Conn, Accept(c) \/ LoginStart(c) \/ AuthFails(c) \/ ReadEnds(c)
      PROVE  SocketInv'
  BY <1>1 DEF Accept, LoginStart, AuthFails, ReadEnds, managerVars
<1>2. ASSUME NEW c \in Conn, OpenSocket(c) \/ OpenConnection(c)
      PROVE  SocketInv'
  BY <1>2 DEF OpenSocket, OpenConnection, Open
<1>3. ASSUME NEW c \in Conn, OpenSocketFails(c)
      PROVE  SocketInv'
  BY <1>3 DEF OpenSocketFails
<1>4. ASSUME NEW c \in Conn, NEW s \in Session, AuthAnswers(c, s) \/ HTTPLogin(c, s)
      PROVE  SocketInv'
  BY <1>4 DEF AuthAnswers, HTTPLogin, managerVars
<1>5. ASSUME NEW c \in Conn, LoginBinds(c)
      PROVE  SocketInv'
  <2>1. \A d \in Conn : handler'[d] = handler[d] \/ (Live(d) /\ Live(d)')
    BY <1>5 DEF LoginBinds
  <2>2. \A d \in Socket : handler'[d] = "bind" => handler[d] = "bind" /\ answer'[d] = answer[d]
    BY <1>5 DEF LoginBinds
  <2>3. QED
    BY <1>5, <2>1, <2>2, BindKeepsSocketInv DEF LoginBinds
<1>6. ASSUME NEW c \in Conn, NEW s \in Session, HTTPLoginBinds(c, s)
      PROVE  SocketInv'
  BY <1>6, BindKeepsSocketInv DEF HTTPLoginBinds
<1>7. ASSUME NEW c \in Conn, Logout(c)
      PROVE  SocketInv'
  BY <1>7 DEF Logout, Disconnect, CloseLocked, gateVars
<1>8. ASSUME NEW c \in Conn, HandlerExits(c)
      PROVE  SocketInv'
  BY <1>8 DEF HandlerExits, DeferredDisconnect, Disconnect, ConnNotFound, CloseLocked,
              managerVars
<1>9. ASSUME NEW c \in Conn, PeerHangsUp(c)
      PROVE  SocketInv'
  BY <1>9 DEF PeerHangsUp, managerVars
<1>10. CASE StopCloseAll
  BY <1>10 DEF StopCloseAll, CloseAll, CloseLocked
<1>11. CASE StopListening \/ StopReturns \/ UNCHANGED vars
  BY <1>11 DEF StopListening, StopReturns, vars, managerVars, gateVars
<1>12. QED
  BY <1>1, <1>2, <1>3, <1>4, <1>5, <1>6, <1>7, <1>8, <1>9, <1>10, <1>11 DEF Next

LEMMA SocketInvHolds == Spec => []SocketInv
<1>1. Init => SocketInv
  BY DEF Init, ManagerInit, SocketInv, Live
<1>2. QED
  BY <1>1, TypeCorrect, SocketInvInductive, PTL DEF Spec

(* No socket drops out of the index while its stream stays open. *)
THEOREM NoOrphanSocketHolds == Spec => []NoOrphanSocket
BY SocketInvHolds, SocketInvImplies, PTL

(* A handler that returned has left the index. *)
THEOREM FinishedHandlerIsForgottenHolds == Spec => []FinishedHandlerIsForgotten
BY SocketInvHolds, SocketInvImplies, PTL

-------------------------------------------------------------------------------
(* A connection id is announced when its connection is opened, and opened once;
   the goroutines that TCPServer.Stop waited for never start again.            *)
LifeInv ==
    /\ \A c \in byConnID \cup closed : Announced(c)
    /\ closed \cap byConnID = {}
    /\ stop = "stopped" => \A c \in TCP : handler[c] \in {"new", "done"}

LEMMA LifeInvInductive == TypeOK /\ SocketInv /\ LifeInv /\ [Next]_vars => LifeInv'
<1> SUFFICES ASSUME TypeOK, SocketInv, LifeInv, [Next]_vars
             PROVE  LifeInv'
  OBVIOUS
<1> USE DEF LifeInv, Announced, Live, TypeOK, ManagerTypeOK, HandlerState, Goto
<1>1. ASSUME NEW c \in Conn, Accept(c) \/ LoginStart(c) \/ AuthFails(c) \/ ReadEnds(c)
      PROVE  LifeInv'
  <2>1. /\ UNCHANGED <<byConnID, closed, stop>>
        /\ \A d \in Conn \ {c} : handler'[d] = handler[d]
        /\ Announced(c) => Announced(c)'
    BY <1>1 DEF Accept, LoginStart, AuthFails, ReadEnds, managerVars
  <2>2. stop = "stopped" => c \notin TCP
    BY <1>1, GateAssumption DEF Accept, LoginStart, AuthFails, ReadEnds
  <2>3. QED
    BY <2>1, <2>2
<1>2. ASSUME NEW c \in Conn, OpenSocket(c) \/ OpenConnection(c)
      PROVE  LifeInv'
  <2>1. /\ ~Announced(c) /\ handler'[c] \in {"reading", "detached"}
        /\ \A d \in Conn \ {c} : handler'[d] = handler[d]
        /\ byConnID' = byConnID \cup {c} /\ UNCHANGED <<closed, stop>>
        /\ stop = "stopped" => c \notin TCP
    BY <1>2, GateAssumption DEF OpenSocket, OpenConnection, Open
  <2>2. QED
    BY <2>1
<1>3. ASSUME NEW c \in Conn, OpenSocketFails(c)
      PROVE  LifeInv'
  <2>1. c \notin byConnID
    BY <1>3 DEF OpenSocketFails, SocketInv
  <2>2. QED
    BY <1>3, <2>1 DEF OpenSocketFails
<1>4. ASSUME NEW c \in Conn, NEW s \in Session, AuthAnswers(c, s) \/ HTTPLogin(c, s)
      PROVE  LifeInv'
  BY <1>4, GateAssumption DEF AuthAnswers, HTTPLogin, managerVars
<1>5. ASSUME NEW gone \in SUBSET byConnID, byConnID' = byConnID \ gone,
             closed' \subseteq closed \cup gone, UNCHANGED stop,
             \A d \in Conn : Announced(d) => Announced(d)',
             stop = "stopped" => \A d \in TCP : handler[d] \in {"new", "done"} => handler'[d] = handler[d]
      PROVE  LifeInv'
  BY <1>5
<1>6. ASSUME NEW c \in Conn, NEW s, TryBind(c, s), UNCHANGED stop,
             \A d \in Conn : Announced(d) => Announced(d)',
             \A d \in Conn : handler[d] \in {"new", "done"} => handler'[d] = handler[d]
      PROVE  LifeInv'
  <2>1. CASE BindSession(c, s)
    <3>1. PICK gone : /\ byConnID' = byConnID \ gone
                      /\ closed' = closed \cup (gone \cap closers)
      BY <2>1 DEF BindSession, CloseLocked
    <3>2. QED
      BY <1>5, <1>6, <3>1, gone \cap byConnID \in SUBSET byConnID, GateAssumption DEF SocketInv
  <2>2. CASE ConnNotFound(c)
    BY <1>5, <1>6, <2>2, {} \in SUBSET byConnID, GateAssumption DEF ConnNotFound, managerVars
  <2>3. QED
    BY <1>6, <2>1, <2>2 DEF TryBind
<1>7. ASSUME NEW c \in Conn, LoginBinds(c)
      PROVE  LifeInv'
  BY <1>6, <1>7 DEF LoginBinds
<1>8. ASSUME NEW c \in Conn, NEW s \in Session, HTTPLoginBinds(c, s)
      PROVE  LifeInv'
  BY <1>6, <1>8 DEF HTTPLoginBinds
<1>9. ASSUME NEW c \in Conn, Logout(c) \/ HandlerExits(c)
      PROVE  LifeInv'
  <2>1. /\ UNCHANGED stop
        /\ \A d \in Conn : Announced(d) => Announced(d)'
        /\ \A d \in Conn : handler[d] \in {"new", "done"} => handler'[d] = handler[d]
    BY <1>9 DEF Logout, HandlerExits, gateVars
  <2>2. CASE Disconnect(c)
    BY <1>5, <2>1, <2>2, {c} \in SUBSET byConnID, GateAssumption DEF Disconnect, CloseLocked
  <2>3. CASE ConnNotFound(c)
    BY <1>5, <2>1, <2>3, {} \in SUBSET byConnID, GateAssumption DEF ConnNotFound, managerVars
  <2>4. QED
    BY <1>9, <2>2, <2>3 DEF Logout, HandlerExits, DeferredDisconnect
<1>10. CASE StopCloseAll
  BY <1>10 DEF StopCloseAll, CloseAll, CloseLocked
<1>11. CASE StopReturns
  BY <1>11 DEF StopReturns, managerVars
<1>12. CASE StopListening \/ UNCHANGED vars \/ \E c \in Conn : PeerHangsUp(c)
  BY <1>12 DEF StopListening, PeerHangsUp, vars, managerVars, gateVars
<1>13. QED
  BY <1>1, <1>2, <1>3, <1>4, <1>7, <1>8, <1>9, <1>10, <1>11, <1>12 DEF Next

LEMMA LifeInvHolds == Spec => []LifeInv
<1>1. Init => LifeInv
  BY DEF Init, ManagerInit, LifeInv, Announced
<1>2. QED
  BY <1>1, TypeCorrect, SocketInvHolds, LifeInvInductive, PTL DEF Spec

(* When TCPServer.Stop has returned, no handler of a TCP socket runs and none of
   its connections is indexed or holds a closer, also those that registered after
   CloseAll had walked the index.                                                *)
StopLeavesNothing ==
    stop = "stopped" => \A c \in TCP : ~Live(c) /\ c \notin byConnID \cup closers

(* Stop leaves no handler and no indexed connection, for any number of sockets. *)
THEOREM StopLeavesNothingHolds == Spec => []StopLeavesNothing
<1>1. SocketInv /\ LifeInv => StopLeavesNothing
  BY GateAssumption DEF SocketInv, LifeInv, StopLeavesNothing, Live
<1>2. QED
  BY <1>1, SocketInvHolds, LifeInvHolds, PTL

(* A socket that the gate closed is out of the index for good: a kick, eviction or
   CloseAll that races the handler's own clean-up never leaves an entry behind, so
   no later login finds the dead connection and binds to it.                      *)
ClosedIsForgotten == closed \cap byConnID = {}

(* No closed socket stays indexed, whichever of the racing clean-ups comes first. *)
THEOREM ClosedIsForgottenHolds == Spec => []ClosedIsForgotten
<1>1. LifeInv => ClosedIsForgotten
  BY DEF LifeInv, ClosedIsForgotten
<1>2. QED
  BY <1>1, LifeInvHolds, PTL

(* A connection that left the index, whichever way it went, never comes back: no
   late login, request or clean-up registers its id again.                         *)
GoneStaysGone ==
    [][\A c \in Conn : Announced(c) /\ c \notin byConnID => c \notin byConnID']_vars

(* No operation of GamerManager brings a connection back. *)
THEOREM GoneStaysGoneHolds == Spec => GoneStaysGone
<1> DEFINE Gone == \A c \in Conn : Announced(c) /\ c \notin byConnID => c \notin byConnID'
<1>1. TypeOK /\ [Next]_vars => Gone
  <2> SUFFICES ASSUME TypeOK, [Next]_vars
               PROVE  Gone
    OBVIOUS
  <2>1. ASSUME NEW c \in Conn, OpenSocket(c) \/ OpenConnection(c)
        PROVE  Gone
    BY <2>1 DEF OpenSocket, OpenConnection, Open, Announced
  <2>2. ASSUME byConnID' \subseteq byConnID
        PROVE  Gone
    BY <2>2
  <2>3. ASSUME NEW c \in Conn, NEW s, TryBind(c, s)
        PROVE  Gone
    BY <2>2, <2>3 DEF TryBind, BindSession, ConnNotFound, managerVars
  <2>4. ASSUME NEW c \in Conn, Disconnect(c) \/ ConnNotFound(c)
        PROVE  Gone
    BY <2>2, <2>4 DEF Disconnect, ConnNotFound, managerVars
  <2>5. CASE StopCloseAll
    BY <2>2, <2>5 DEF StopCloseAll, CloseAll
  <2>6. ASSUME UNCHANGED byConnID
        PROVE  Gone
    BY <2>6
  <2>7. QED
    BY <2>1, <2>3, <2>4, <2>5, <2>6
       DEF Next, LoginBinds, HTTPLoginBinds, Logout, HandlerExits, DeferredDisconnect, vars,
           managerVars, Accept, OpenSocketFails, LoginStart, AuthFails, AuthAnswers, HTTPLogin,
           PeerHangsUp, ReadEnds, StopListening, StopReturns
<1>2. QED
  BY <1>1, TypeCorrect, PTL DEF Spec, GoneStaysGone

-------------------------------------------------------------------------------
(* A late answer of the auth service never puts a connection that is gone into
   the session index: bySession changes only in Bind, Disconnect and CloseAll. *)
THEOREM BindsOnlyConnectedHolds == Spec => BindsOnlyConnected
<1> DEFINE Only == \A s \in Session : bySession'[s] \in {bySession[s], NoConn} \cup byConnID'
<1>1. ASSUME TypeOK, [Next]_vars
      PROVE  Only
  <2> USE <1>1 DEF TypeOK, ManagerTypeOK
  <2>1. ASSUME UNCHANGED bySession
        PROVE  Only
    BY <2>1
  <2>2. ASSUME NEW c \in Conn, NEW s, TryBind(c, s)
        PROVE  Only
    BY <2>2, <2>1 DEF TryBind, BindSession, ConnNotFound, Kicked, managerVars
  <2>3. ASSUME NEW c \in Conn, Disconnect(c) \/ ConnNotFound(c)
        PROVE  Only
    BY <2>3, <2>1 DEF Disconnect, ConnNotFound, managerVars
  <2>4. ASSUME CloseAll
        PROVE  Only
    BY <2>4 DEF CloseAll
  <2>5. ASSUME NEW c \in Conn, Accept(c) \/ OpenSocket(c) \/ OpenSocketFails(c) \/ OpenConnection(c)
        PROVE  Only
    BY <2>5, <2>1 DEF Accept, OpenSocket, OpenSocketFails, OpenConnection, Open, managerVars
  <2>6. ASSUME NEW c \in Conn, LoginStart(c) \/ AuthFails(c) \/ PeerHangsUp(c) \/ ReadEnds(c)
        PROVE  Only
    BY <2>6, <2>1 DEF LoginStart, AuthFails, PeerHangsUp, ReadEnds, managerVars
  <2>7. ASSUME NEW c \in Conn, NEW s \in Session, AuthAnswers(c, s) \/ HTTPLogin(c, s)
        PROVE  Only
    BY <2>7, <2>1 DEF AuthAnswers, HTTPLogin, managerVars
  <2>8. CASE StopListening \/ StopReturns \/ UNCHANGED vars
    BY <2>8, <2>1 DEF StopListening, StopReturns, vars, managerVars
  <2>9. QED
    BY <2>2, <2>3, <2>4, <2>5, <2>6, <2>7, <2>8
       DEF Next, LoginBinds, HTTPLoginBinds, Logout, HandlerExits, DeferredDisconnect,
           StopCloseAll
<1>2. QED
  BY <1>1, TypeCorrect, PTL DEF Spec, BindsOnlyConnected

-------------------------------------------------------------------------------
(* What makes the session index exact: nothing a client may present stands for
   a second session, in every place a session can wait.                       *)
IndexInv ==
    /\ SessionIndexExact
    /\ \A c \in Conn : ~Announced(c) => c \notin byConnID
    /\ \A c \in Conn : sessionID[c] \in Claims[c] \cup {NoSession}
    /\ \A c \in Socket : handler[c] = "bind" => answer[c] \in Claims[c]
    /\ \A p \in httpLogins : p[2] \in Claims[p[1]]

(* With an exact index, a login evicts exactly the holder of its session. *)
LEMMA BindKeepsIndex ==
    ASSUME TypeOK, IndexInv, Disciplined,
           NEW c \in Conn, NEW s \in Claims[c], TryBind(c, s)
    PROVE  /\ SessionIndexExact'
           /\ byConnID' \subseteq byConnID
           /\ \A d \in Conn : sessionID'[d] \in Claims[d] \cup {NoSession}
<1> USE DEF TypeOK, ManagerTypeOK
<1>1. CASE BindSession(c, s)
  <2> DEFINE gone == Kicked(c, s)
  <2>1. /\ byConnID' = byConnID \ gone
        /\ sessionID' = [sessionID EXCEPT ![c] = s]
        /\ bySession' = [t \in Session |->
                            IF t = s THEN c
                            ELSE IF t \in SessionsDropped(gone) THEN NoConn
                            ELSE bySession[t]]
        /\ c \in byConnID
    BY <1>1 DEF BindSession
  <2>2. s \in Session /\ sessionID[c] \in {s, NoSession}
    BY DEF IndexInv, Disciplined
  <2>3. \A g \in Conn : g \in gone <=> g # c /\ g \in byConnID /\ sessionID[g] = s
    BY <2>2 DEF IndexInv, SessionIndexExact, Shows, Kicked
  <2>4. SessionsDropped(gone) \subseteq {s} /\ gone \subseteq Conn
    BY <2>2, <2>3 DEF SessionsDropped, Kicked
  <2>5. \A t \in Session : bySession'[t] = IF t = s THEN c ELSE bySession[t]
    BY <2>1, <2>4
  <2>6. SessionIndexExact'
    <3> SUFFICES ASSUME NEW t \in Session, NEW d \in Conn
                 PROVE  bySession'[t] = d <=> d \in byConnID' /\ sessionID'[d] = t
      BY DEF SessionIndexExact, Shows
    <3>1. CASE t = s
      BY <3>1, <2>1, <2>3, <2>5
    <3>2. CASE t # s
      BY <3>2, <2>1, <2>2, <2>3, <2>5 DEF IndexInv, SessionIndexExact, Shows
    <3>3. QED
      BY <3>1, <3>2
  <2>7. QED
    BY <2>1, <2>6 DEF IndexInv
<1>2. CASE ConnNotFound(c)
  BY <1>2 DEF ConnNotFound, managerVars, IndexInv, SessionIndexExact, Shows
<1>3. QED
  BY <1>1, <1>2 DEF TryBind

(* Dropping a set of connections together with their entries keeps it exact. *)
LEMMA DropKeepsIndex ==
    ASSUME TypeOK, SessionIndexExact, NEW gone \in SUBSET byConnID,
           byConnID' = byConnID \ gone, UNCHANGED sessionID,
           bySession' = [t \in Session |->
                            IF t \in SessionsDropped(gone) THEN NoConn ELSE bySession[t]]
    PROVE  SessionIndexExact'
BY DEF SessionIndexExact, Shows, SessionsDropped, TypeOK, ManagerTypeOK

LEMMA IndexInvInductive ==
    ASSUME Disciplined
    PROVE  TypeOK /\ IndexInv /\ [Next]_vars => IndexInv'
<1> SUFFICES ASSUME TypeOK, IndexInv, [Next]_vars
             PROVE  IndexInv'
  OBVIOUS
<1> USE DEF TypeOK, ManagerTypeOK, HandlerState, Goto, Announced
<1>1. ASSUME NEW c \in Conn, Accept(c) \/ LoginStart(c) \/ AuthFails(c) \/ PeerHangsUp(c)
                             \/ ReadEnds(c) \/ OpenSocketFails(c)
      PROVE  IndexInv'
  BY <1>1 DEF Accept, LoginStart, AuthFails, PeerHangsUp, ReadEnds, OpenSocketFails,
              managerVars, IndexInv, SessionIndexExact, Shows
<1>2. ASSUME NEW c \in Conn, OpenSocket(c) \/ OpenConnection(c)
      PROVE  IndexInv'
  <2>1. /\ c \notin byConnID /\ Open(c)
        /\ \/ handler' = [handler EXCEPT ![c] = "reading"]
           \/ /\ c \notin Socket
              /\ handler' = [handler EXCEPT ![c] = "detached"]
        /\ UNCHANGED <<answer, httpLogins>>
    BY <1>2 DEF OpenSocket, OpenConnection, IndexInv
  <2>2. SessionIndexExact'
    BY <2>1 DEF Open, IndexInv, SessionIndexExact, Shows
  <2>3. QED
    BY <2>1, <2>2 DEF Open, IndexInv
<1>3. ASSUME NEW c \in Conn, NEW s \in Session, AuthAnswers(c, s) \/ HTTPLogin(c, s)
      PROVE  IndexInv'
  BY <1>3 DEF AuthAnswers, HTTPLogin, managerVars, IndexInv, SessionIndexExact, Shows
<1>4. ASSUME NEW c \in Conn, LoginBinds(c)
      PROVE  IndexInv'
  <2>1. answer[c] \in Claims[c] /\ TryBind(c, answer[c])
    BY <1>4 DEF LoginBinds, IndexInv
  <2>2. /\ SessionIndexExact'
        /\ byConnID' \subseteq byConnID
        /\ \A d \in Conn : sessionID'[d] \in Claims[d] \cup {NoSession}
    BY <2>1, BindKeepsIndex
  <2>3. QED
    BY <1>4, <2>2 DEF LoginBinds, IndexInv
<1>5. ASSUME NEW c \in Conn, NEW s \in Session, HTTPLoginBinds(c, s)
      PROVE  IndexInv'
  <2>1. s \in Claims[c] /\ TryBind(c, s)
    BY <1>5 DEF HTTPLoginBinds, IndexInv
  <2>2. /\ SessionIndexExact'
        /\ byConnID' \subseteq byConnID
        /\ \A d \in Conn : sessionID'[d] \in Claims[d] \cup {NoSession}
    BY <2>1, BindKeepsIndex
  <2>3. QED
    BY <1>5, <2>2 DEF HTTPLoginBinds, IndexInv
<1>6. ASSUME NEW c \in Conn, Logout(c) \/ HandlerExits(c), Disconnect(c)
      PROVE  IndexInv'
  <2>1. SessionIndexExact'
    BY <1>6, DropKeepsIndex, {c} \in SUBSET byConnID DEF Disconnect, IndexInv
  <2>2. QED
    BY <1>6, <2>1 DEF Logout, HandlerExits, Disconnect, gateVars, IndexInv
<1>7. ASSUME NEW c \in Conn, HandlerExits(c), ConnNotFound(c)
      PROVE  IndexInv'
  BY <1>7 DEF HandlerExits, ConnNotFound, managerVars, IndexInv, SessionIndexExact, Shows
<1>8. CASE StopCloseAll
  BY <1>8 DEF StopCloseAll, CloseAll, IndexInv, SessionIndexExact, Shows
<1>9. CASE StopListening \/ StopReturns \/ UNCHANGED vars
  BY <1>9 DEF StopListening, StopReturns, vars, managerVars, gateVars, IndexInv,
              SessionIndexExact, Shows
<1>10. QED
  BY <1>1, <1>2, <1>3, <1>4, <1>5, <1>6, <1>7, <1>8, <1>9
     DEF Next, Logout, HandlerExits, DeferredDisconnect

LEMMA IndexInvHolds ==
    ASSUME Disciplined
    PROVE  Spec => []IndexInv
<1>1. Init => IndexInv
  BY DEF Init, ManagerInit, IndexInv, SessionIndexExact, Shows, Announced
<1>2. QED
  BY <1>1, TypeCorrect, IndexInvInductive, PTL DEF Spec

(* If every client logs in for one session, bySession is exact in every state:
   no stale entry, and no session online on two connections.                  *)
THEOREM SessionIndexExactHolds ==
    ASSUME Disciplined
    PROVE  Spec => []SessionIndexExact
<1>1. IndexInv => SessionIndexExact
  BY DEF IndexInv
<1>2. QED
  BY <1>1, IndexInvHolds, PTL

(* The dangling entry that a client with two sessions can leave behind needs such a
   client: with one session per client no entry of bySession outlives its connection. *)
THEOREM NoDanglingSessionHolds ==
    ASSUME Disciplined
    PROVE  Spec => []NoDanglingSession
<1>1. TypeOK /\ SessionIndexExact => NoDanglingSession
  BY DEF TypeOK, ManagerTypeOK, SessionIndexExact, NoDanglingSession, Shows
<1>2. QED
  BY <1>1, TypeCorrect, SessionIndexExactHolds, PTL

-------------------------------------------------------------------------------
(* With an exact index the abstract seats are the entries of bySession. *)
LEMMA HolderIsIndexed == TypeOK /\ IndexInv => Holder = bySession
<1> SUFFICES ASSUME TypeOK, IndexInv, NEW s \in Session
             PROVE  (IF Online(s) = {} THEN NoConn ELSE CHOOSE c \in Online(s) : TRUE)
                    = bySession[s]
  BY DEF Holder, TypeOK, ManagerTypeOK
<1>1. CASE Online(s) = {}
  BY <1>1 DEF Online, IndexInv, SessionIndexExact, Shows, TypeOK, ManagerTypeOK
<1>2. CASE Online(s) # {}
  <2>1. \A c \in Online(s) : c = bySession[s]
    BY DEF Online, IndexInv, SessionIndexExact, Shows, TypeOK, ManagerTypeOK
  <2>2. QED
    BY <1>2, <2>1
<1>3. QED
  BY <1>1, <1>2

LEMMA SeatStep ==
    ASSUME Disciplined, TypeOK, IndexInv, TypeOK', IndexInv', [Next]_vars
    PROVE  [Seat!Next]_Seat!seatVars
<1> USE DEF TypeOK, ManagerTypeOK, Goto, Announced, Departed, Seat!seatVars
<1>1. Holder = bySession /\ Holder' = bySession'
  <2>1. (TypeOK /\ IndexInv => Holder = bySession)'
    BY HolderIsIndexed, PTL
  <2>2. QED
    BY <2>1, HolderIsIndexed
<1>2. ASSUME UNCHANGED managerVars, Departed' = Departed
      PROVE  UNCHANGED Seat!seatVars
  BY <1>1, <1>2 DEF managerVars
<1>3. ASSUME NEW c \in Conn, Accept(c) \/ LoginStart(c) \/ AuthFails(c) \/ PeerHangsUp(c)
                             \/ ReadEnds(c)
      PROVE  UNCHANGED Seat!seatVars
  BY <1>1, <1>3 DEF Accept, LoginStart, AuthFails, PeerHangsUp, ReadEnds, managerVars
<1>4. ASSUME NEW c \in Conn, NEW s \in Session, AuthAnswers(c, s) \/ HTTPLogin(c, s)
      PROVE  UNCHANGED Seat!seatVars
  BY <1>1, <1>4 DEF AuthAnswers, HTTPLogin, managerVars
<1>5. ASSUME NEW c \in Conn, OpenSocket(c) \/ OpenConnection(c)
      PROVE  Seat!Arrive(c)
  BY <1>1, <1>5 DEF OpenSocket, OpenConnection, Open, Seat!Arrive, IndexInv
<1>6. ASSUME NEW c \in Conn, OpenSocketFails(c)
      PROVE  Seat!TurnAway(c)
  BY <1>1, <1>6 DEF OpenSocketFails, Seat!TurnAway, IndexInv
<1>7. ASSUME NEW c \in Conn, NEW s \in Claims[c], TryBind(c, s),
             \A d \in Conn : Announced(d)' <=> Announced(d)
      PROVE  Seat!Take(c, s) \/ UNCHANGED Seat!seatVars
  <2>1. CASE BindSession(c, s)
    <3> DEFINE evicted == {Holder[s]} \ {c, NoConn}
    <3>1. evicted = Kicked(c, s) /\ evicted \subseteq byConnID
      BY <1>1 DEF Kicked, IndexInv, SessionIndexExact, Shows
    <3>2. \A g \in evicted : sessionID[g] = s
      BY <1>1 DEF IndexInv, SessionIndexExact, Shows
    <3>3. \A t \in Session : t \in SessionsDropped(evicted) => t = s
      BY <3>2 DEF SessionsDropped
    <3>4. \A t \in Session \ {s} : Holder[t] \notin evicted
      BY <1>1, <3>2 DEF IndexInv, SessionIndexExact, Shows
    <3>5. Holder' = [Seat!Vacate(evicted) EXCEPT ![s] = c]
      BY <1>1, <2>1, <3>1, <3>3, <3>4 DEF BindSession, Seat!Vacate
    <3>6. Departed' = Departed \cup evicted
      BY <1>7, <2>1, <3>1 DEF BindSession, IndexInv
    <3>7. QED
      BY <2>1, <3>1, <3>5, <3>6 DEF Seat!Take, BindSession
  <2>2. CASE ConnNotFound(c)
    BY <1>1, <1>7, <2>2 DEF ConnNotFound, managerVars
  <2>3. QED
    BY <1>7, <2>1, <2>2 DEF TryBind
<1>8. ASSUME NEW c \in Conn, LoginBinds(c)
      PROVE  \E s \in Session : Seat!Take(c, s) \/ UNCHANGED Seat!seatVars
  BY <1>7, <1>8 DEF LoginBinds, IndexInv
<1>9. ASSUME NEW c \in Conn, NEW s \in Session, HTTPLoginBinds(c, s)
      PROVE  Seat!Take(c, s) \/ UNCHANGED Seat!seatVars
  BY <1>7, <1>9 DEF HTTPLoginBinds, IndexInv
<1>10. ASSUME NEW gone \in SUBSET byConnID, byConnID' = byConnID \ gone,
              \A d \in Conn : Announced(d)' <=> Announced(d),
              bySession' = [t \in Session |->
                              IF t \in SessionsDropped(gone) THEN NoConn ELSE bySession[t]]
       PROVE  Seat!LeaveTogether(gone)
  <2>1. \A t \in Session : t \in SessionsDropped(gone) <=> bySession[t] \in gone
    BY DEF SessionsDropped, IndexInv, SessionIndexExact, Shows
  <2>2. Departed' = Departed \cup gone
    BY <1>10 DEF IndexInv
  <2>3. QED
    BY <1>1, <1>10, <2>1, <2>2 DEF Seat!LeaveTogether, Seat!Vacate
<1>11. ASSUME NEW c \in Conn, Logout(c) \/ HandlerExits(c)
       PROVE  Seat!LeaveTogether({c}) \/ UNCHANGED Seat!seatVars
  <2>1. CASE Disconnect(c)
    BY <1>10, <1>11, <2>1, {c} \in SUBSET byConnID DEF Logout, HandlerExits, Disconnect, gateVars
  <2>2. CASE ConnNotFound(c)
    BY <1>1, <1>11, <2>2 DEF Logout, Disconnect, HandlerExits, ConnNotFound, managerVars
  <2>3. QED
    BY <1>11, <2>1, <2>2 DEF Logout, HandlerExits, DeferredDisconnect
<1>12. CASE StopCloseAll
  <2>1. Holder' = Seat!Vacate(byConnID)
    BY <1>1, <1>12 DEF StopCloseAll, CloseAll, Seat!Vacate, IndexInv, SessionIndexExact, Shows
  <2>2. Seat!LeaveTogether(byConnID)
    BY <1>12, <2>1 DEF StopCloseAll, CloseAll, Seat!LeaveTogether, IndexInv
  <2>3. QED
    BY <2>2 DEF Seat!Next
<1>13. CASE StopListening \/ StopReturns \/ UNCHANGED vars
  BY <1>1, <1>13 DEF StopListening, StopReturns, vars, managerVars, gateVars
<1>14. QED
  BY <1>3, <1>4, <1>5, <1>6, <1>8, <1>9, <1>11, <1>12, <1>13 DEF Next, Seat!Next

(* The gate, goroutines, races and all, is a set of seats that one connection
   holds at a time, as long as every client logs in for one session.          *)
THEOREM ImplementsSeatSpec ==
    ASSUME Disciplined
    PROVE  Spec => SeatSpec
<1>1. Init => Seat!Init
  BY DEF Init, ManagerInit, Seat!Init, Announced, Departed, Holder, Online
<1>2. QED
  BY <1>1, TypeCorrect, IndexInvHolds, SeatStep, PTL DEF Spec, SeatSpec, Seat!Spec

===============================================================================
