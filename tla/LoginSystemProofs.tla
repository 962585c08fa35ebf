-------------------------- MODULE LoginSystemProofs --------------------------
(***************************************************************************)
(* Proofs about LoginSystem, for any number of cases, clients, connections *)
(* and calls.  What concerns the auth service alone is not proved again:   *)
(* the system implements Auth (ImplementsAuth), so the theorems of         *)
(* AuthProofs hold of it.                                                  *)
(***************************************************************************)
EXTENDS LoginSystem, AuthProofs

USE SystemAssumption, ConnAssumption, SessionAssumption

(* What the calls and the gate hold, the state of auth aside. *)
Typed ==
    /\ ManagerTypeOK
    /\ robot \in [Case -> RobotState]
    /\ opening \in SUBSET Case
    /\ opened \in SUBSET Conn
    /\ call \in [Request -> Call \cup {NoCall}]
    /\ \A r \in Request : call[r] # NoCall => call[r].conn \in opened
    /\ dropped \in SUBSET opened /\ byConnID \subseteq opened

LEMMA OpenTyped ==
    ASSUME ManagerTypeOK, NEW c \in Conn, Open(c)
    PROVE  ManagerTypeOK' /\ byConnID' = byConnID \cup {c}
BY DEF ManagerTypeOK, Open

LEMMA BindTyped ==
    ASSUME ManagerTypeOK, NEW c \in Conn, NEW s \in Session, Bind(c, s)
    PROVE  ManagerTypeOK' /\ byConnID' \subseteq byConnID
BY DEF ManagerTypeOK, Bind, BindSession, ConnNotFound, managerVars, CloseLocked

LEMMA DisconnectTyped ==
    ASSUME ManagerTypeOK, NEW c \in Conn, Disconnect(c)
    PROVE  ManagerTypeOK' /\ c \in byConnID /\ byConnID' \subseteq byConnID
BY DEF ManagerTypeOK, Disconnect, CloseLocked

LEMMA TypedStep == Typed /\ [SysNext]_sysVars => Typed'
<1> SUFFICES ASSUME Typed, [SysNext]_sysVars
             PROVE  Typed'
  OBVIOUS
<1> USE DEF Typed, RobotState
<1>1. ASSUME UNCHANGED <<gate, opening, call, dropped>>, robot' \in [Case -> RobotState]
      PROVE  Typed'
  BY <1>1 DEF gate, managerVars, ManagerTypeOK
<1>2. CASE AuthServes \/ \E r \in Request : AuthConsumes(r) \/ AuthAnswers(r)
  BY <1>1, <1>2 DEF AuthServes, AuthConsumes, AuthAnswers
<1>3. CASE (\E k \in Case : StartCase(k) \/ CaseDone(k) \/ CaseFails(k))
           \/ \E l \in Login : OtherBegins(l)
  BY <1>1, <1>3 DEF StartCase, CaseDone, CaseFails, OtherBegins, Advance
<1>4. ASSUME NEW k \in Case, LoggedIn(k)
      PROVE  Typed'
  BY <1>4 DEF LoggedIn, Advance, gate, managerVars, ManagerTypeOK
<1>5. ASSUME NEW r \in Request, NEW c \in opened, NEW method \in Method, NEW k \in Login,
             NewCall(r, c, method, k), UNCHANGED <<gate, opening, dropped>>,
             robot' \in [Case -> RobotState]
      PROVE  Typed'
  BY <1>5 DEF NewCall, Call, CallState, gate, managerVars, ManagerTypeOK
<1>6. ASSUME NEW k \in Case, ConnectionOpened(k)
      PROVE  Typed'
  BY <1>5, <1>6 DEF ConnectionOpened, HasConnection, Advance, Method, Kind
<1>7. ASSUME NEW r \in Request, NEW c \in Conn, NEW method \in Method, NEW k \in Login,
             OtherLogin(r, c, method, k)
      PROVE  Typed'
  BY <1>5, <1>7 DEF OtherLogin
<1>8. ASSUME NEW k \in Case, GateOpens(k)
      PROVE  Typed'
  <2>1. ConnOf[k] \in Conn /\ ManagerTypeOK' /\ byConnID' = byConnID \cup {ConnOf[k]}
    BY <1>8, OpenTyped DEF GateOpens
  <2>2. QED
    BY <1>8, <2>1 DEF GateOpens
<1>9. ASSUME NEW c \in Conn, OtherOpens(c)
      PROVE  Typed'
  <2>1. ManagerTypeOK' /\ byConnID' = byConnID \cup {c}
    BY <1>9, OpenTyped DEF OtherOpens
  <2>2. QED
    BY <1>9, <2>1 DEF OtherOpens
<1>10. ASSUME NEW r \in Request, call[r] # NoCall, NEW state \in CallState, Becomes(r, state)
       PROVE  /\ call' \in [Request -> Call \cup {NoCall}]
              /\ \A q \in Request : call'[q] # NoCall => call'[q].conn \in opened
  BY <1>10 DEF Becomes, Call
<1>11. ASSUME NEW r \in Request, GateHears(r) \/ GateGivesUp(r)
       PROVE  Typed'
  <2>1. /\ UNCHANGED <<gate, robot, opening, dropped>> /\ call[r] # NoCall
        /\ Becomes(r, "answered") \/ Becomes(r, "failed")
    BY <1>11 DEF GateHears, GateGivesUp, Asking
  <2>2. QED
    BY <1>10, <2>1 DEF CallState, gate, managerVars, ManagerTypeOK
<1>12. ASSUME NEW r \in Request, GateBinds(r)
       PROVE  Typed'
  <2>1. /\ Bind(call[r].conn, call[r].login) /\ call[r] # NoCall
        /\ Becomes(r, "bound") \/ Becomes(r, "missing")
        /\ UNCHANGED <<opened, robot, opening, dropped>>
    BY <1>12 DEF GateBinds
  <2>2. call[r].conn \in Conn /\ call[r].login \in Session
    BY <2>1 DEF Call
  <2>3. ManagerTypeOK' /\ byConnID' \subseteq byConnID
    BY <2>1, <2>2, BindTyped
  <2>4. QED
    BY <1>10, <2>1, <2>3 DEF CallState
<1>13. ASSUME NEW c \in Conn, Leave(c)
       PROVE  Typed'
  <2>1. ManagerTypeOK' /\ c \in byConnID /\ byConnID' \subseteq byConnID
    BY <1>13, DisconnectTyped DEF Leave
  <2>2. QED
    BY <1>13, <2>1 DEF Leave
<1>14. CASE UNCHANGED sysVars
  BY <1>1, <1>14 DEF sysVars
<1>15. QED
  BY <1>2, <1>3, <1>4, <1>6, <1>7, <1>8, <1>9, <1>11, <1>12, <1>13, <1>14 DEF SysNext

LEMMA TypedHolds == SysSpec => []Typed
<1>1. SysInit => Typed
  BY DEF SysInit, ManagerInit, Typed, ManagerTypeOK, RobotState
<1>2. QED
  BY <1>1, TypedStep, PTL DEF SysSpec

-------------------------------------------------------------------------------
(* The system implements Auth. *)

LEMMA AuthStep == Typed /\ [SysNext]_sysVars => [Next]_vars
<1> SUFFICES ASSUME Typed, [SysNext]_sysVars
             PROVE  [Next]_vars
  OBVIOUS
<1>1. CASE AuthServes
  BY <1>1, CredentialPairs DEF AuthServes, Next
<1>2. ASSUME NEW r \in Request, AuthConsumes(r)
      PROVE  Next
  <2>1. <<call[r].method, call[r].login>> \in Credential
    BY <1>2, CredentialPairs DEF AuthConsumes, Typed, Call
  <2>2. QED
    BY <1>2, <2>1 DEF AuthConsumes, Next
<1>3. ASSUME NEW r \in Request, AuthAnswers(r)
      PROVE  Next
  BY <1>3 DEF AuthAnswers, Next
<1>4. ASSUME NEW l \in Login, OtherBegins(l) \/ (l \in Case /\ StartCase(l))
      PROVE  Next
  BY <1>4 DEF OtherBegins, StartCase, Next
<1>5. QED
  <2>1. CASE UNCHANGED sysVars
    BY <2>1 DEF sysVars, auth
  <2>2. CASE SysNext
    BY <1>1, <1>2, <1>3, <1>4, <2>2
       DEF SysNext, auth, LoggedIn, ConnectionOpened, CaseDone, CaseFails, GateOpens, OtherOpens,
           OtherLogin, GateHears, GateGivesUp, GateBinds, Leave
  <2>3. QED
    BY <2>1, <2>2

(* Whatever the robot, the gate and other clients do, auth takes only the steps of
   Auth: its theorems hold in the composition.                                     *)
THEOREM ImplementsAuth == SysSpec => Spec
<1>1. SysInit => Init
  BY DEF SysInit
<1>2. QED
  BY <1>1, TypedHolds, AuthStep, PTL DEF SysSpec, Spec

(* Every variable of the composition stays in its declared set; in particular every
   call names a connection the gate has opened.                                     *)
THEOREM SysTypeCorrect == SysSpec => []SysTypeOK
<1>1. TypeOK /\ Typed => SysTypeOK
  BY DEF Typed, SysTypeOK
<1>2. QED
  BY <1>1, ImplementsAuth, TypeCorrect, TypedHolds, PTL

-------------------------------------------------------------------------------
(* The grants that calls rest on. *)

(* A consume request of auth is the call's, and what the gate took for an answer was
   granted to that call.                                                            *)
GrantInv ==
    \A r \in Request :
        /\ req[r].state # "idle" =>
              call[r] # NoCall /\ req[r].cred = <<call[r].method, call[r].login>>
        /\ call[r] # NoCall /\ call[r].method \in Kind
              /\ call[r].state \in {"answered", "bound", "missing"}
              => req[r].state = "granted"

LEMMA GrantStep ==
    TypeOK /\ Typed /\ GrantInv /\ [SysNext]_sysVars => GrantInv'
<1> SUFFICES ASSUME TypeOK, Typed, GrantInv, [SysNext]_sysVars
             PROVE  GrantInv'
  OBVIOUS
<1> USE DEF GrantInv
<1>1. ASSUME UNCHANGED <<req, call>>
      PROVE  GrantInv'
  BY <1>1
<1>2. ASSUME NEW r \in Request, NEW state, NEW c, Answer(r, c, state), UNCHANGED call,
             call[r] # NoCall, c = <<call[r].method, call[r].login>>,
             req[r].state # "granted"
      PROVE  GrantInv'
  <2>1. req'[r].cred = c /\ \A q \in Request \ {r} : req'[q] = req[q]
    BY <1>2 DEF Answer, TypeOK
  <2>2. QED
    BY <1>2, <2>1
<1>3. ASSUME NEW r \in Request, AuthConsumes(r)
      PROVE  GrantInv'
  <2> DEFINE c == <<call[r].method, call[r].login>>
  <2>1. UNCHANGED call /\ call[r] # NoCall /\ (Consume(r, c) \/ ConsumeFails(r, c))
    BY <1>3 DEF AuthConsumes
  <2>2. /\ req[r].state = "idle"
        /\ Answer(r, c, "taken") \/ Answer(r, c, "refused")
    BY <2>1 DEF Consume, ConsumeFails, Presents
  <2>3. QED
    BY <1>2, <2>1, <2>2
<1>4. ASSUME NEW r \in Request, AuthAnswers(r)
      PROVE  GrantInv'
  <2>1. /\ UNCHANGED call /\ req[r].state = "taken"
        /\ Answer(r, req[r].cred, "granted") \/ Answer(r, req[r].cred, "refused")
    BY <1>4 DEF AuthAnswers, GetSession
  <2>2. QED
    BY <1>2, <2>1
<1>5. ASSUME NEW r \in Request, NEW c, NEW method, NEW k, NewCall(r, c, method, k),
             UNCHANGED req
      PROVE  GrantInv'
  <2>1. req[r].state = "idle"
    BY <1>5 DEF NewCall
  <2>2. call'[r].state = "asking" /\ \A q \in Request \ {r} : call'[q] = call[q]
    BY <1>5 DEF NewCall, Typed
  <2>3. QED
    BY <1>5, <2>1, <2>2
<1>6. ASSUME NEW r \in Request, call[r] # NoCall, NEW state \in CallState, Becomes(r, state),
             UNCHANGED req,
             call[r].method \in Kind /\ state # "failed" => req[r].state = "granted"
      PROVE  GrantInv'
  <2>1. /\ call'[r] = [call[r] EXCEPT !.state = state]
        /\ \A q \in Request \ {r} : call'[q] = call[q]
    BY <1>6 DEF Becomes, Typed
  <2>2. /\ call'[r].state = state
        /\ call'[r].method = call[r].method /\ call'[r].login = call[r].login
    BY <1>6, <2>1 DEF Typed
  <2>3. call'[r] # NoCall
    BY <1>6, <2>1 DEF Typed, Call
  <2>4. ASSUME NEW q \in Request
        PROVE  /\ req'[q].state # "idle" =>
                     call'[q] # NoCall /\ req'[q].cred = <<call'[q].method, call'[q].login>>
               /\ call'[q] # NoCall /\ call'[q].method \in Kind
                     /\ call'[q].state \in {"answered", "bound", "missing"}
                     => req'[q].state = "granted"
    <3>1. CASE q = r
      BY <1>6, <2>2, <2>3, <3>1
    <3>2. CASE q # r
      BY <1>6, <2>1, <3>2
    <3>3. QED
      BY <3>1, <3>2
  <2>5. QED
    BY ONLY <2>4 DEF GrantInv
<1>7. ASSUME NEW r \in Request, GateHears(r) \/ GateGivesUp(r) \/ GateBinds(r)
      PROVE  GrantInv'
  <2>1. call[r] # NoCall /\ UNCHANGED req
    BY <1>7 DEF GateHears, GateGivesUp, GateBinds, Asking, auth, vars
  <2>2. CASE GateHears(r)
    BY <1>6, <2>1, <2>2 DEF GateHears, Grants, CallState, Kind
  <2>3. CASE GateGivesUp(r)
    BY <1>6, <2>1, <2>3 DEF GateGivesUp, CallState
  <2>4. CASE GateBinds(r)
    <3>1. PICK state \in {"bound", "missing"} : Becomes(r, state) /\ call[r].state = "answered"
      BY <2>4 DEF GateBinds
    <3>2. QED
      BY <1>6, <2>1, <3>1 DEF CallState
  <2>5. QED
    BY <1>7, <2>2, <2>3, <2>4
<1>8. CASE AuthServes
  BY <1>1, <1>8
     DEF AuthServes, FindOrCreateBinding, UpsertAccount, GetOldSession, ExecSaveSession, SaveTicket,
         SaveToken, CallFails, ExpireSession, ExpireCurrent, ExpireCredential
<1>9. ASSUME NEW k \in Case, ConnectionOpened(k)
      PROVE  GrantInv'
  BY <1>5, <1>9 DEF ConnectionOpened, auth, vars
<1>10. ASSUME NEW r \in Request, NEW c \in Conn, NEW method \in Method, NEW k \in Login,
              OtherLogin(r, c, method, k)
       PROVE  GrantInv'
  BY <1>5, <1>10 DEF OtherLogin, auth, vars
<1>11. CASE \/ \E k \in Case : StartCase(k) \/ LoggedIn(k) \/ CaseDone(k) \/ CaseFails(k) \/ GateOpens(k)
            \/ \E l \in Login : OtherBegins(l)
            \/ \E c \in Conn : OtherOpens(c) \/ Leave(c)
            \/ UNCHANGED sysVars
  BY <1>1, <1>11 DEF StartCase, LoggedIn, CaseDone, CaseFails, GateOpens, OtherBegins, OtherOpens,
                     Leave, Begin, sysVars, auth, vars
<1>12. QED
  BY <1>3, <1>4, <1>7, <1>8, <1>9, <1>10, <1>11 DEF SysNext

LEMMA GrantHolds == SysSpec => []GrantInv
<1>1. SysInit => GrantInv
  BY DEF SysInit, Init, GrantInv
<1>2. QED
  BY <1>1, GrantStep, TypedHolds, ImplementsAuth, TypeCorrect, PTL DEF SysSpec

(* A ticket or token binds one call at most, although the gate gives calls up that
   auth goes on to answer, and clients present credentials again.                  *)
THEOREM CredentialBindsOnceHolds == SysSpec => []CredentialBindsOnce
<1>1. Typed /\ GrantInv /\ OneShot => CredentialBindsOnce
  <2> SUFFICES ASSUME Typed, GrantInv, OneShot, NEW r \in Succeeded, NEW q \in Succeeded,
                      call[r].method \in Kind, r # q,
                      <<call[r].method, call[r].login>> = <<call[q].method, call[q].login>>
               PROVE  FALSE
    BY DEF CredentialBindsOnce
  <2>1. call[q].method \in Kind
    OBVIOUS
  <2>2. req[r].state = "granted" /\ req[q].state = "granted" /\ req[r].cred = req[q].cred
    BY <2>1 DEF GrantInv, Succeeded
  <2>3. QED
    BY <2>2 DEF OneShot, Succeeded
<1>2. QED
  BY <1>1, TypedHolds, GrantHolds, ImplementsAuth, OneShotHolds, PTL

-------------------------------------------------------------------------------
(* What a finished case may rely on. *)

(* The call of a case is its own, and its connection is opened once. *)
CaseInv ==
    \A k \in Case :
        /\ robot[k] \in {"idle", "auth"} => k \notin opening /\ ConnOf[k] \notin opened
        /\ k \in opening => ConnOf[k] \notin opened
        /\ call[RequestOf[k]] # NoCall =>
              /\ call[RequestOf[k]].conn = ConnOf[k]
              /\ call[RequestOf[k]].method = "token" /\ call[RequestOf[k]].login = k
        /\ robot[k] = "done" => RequestOf[k] \in Succeeded

(* What the session index points to was bound by a call. *)
SeatInv ==
    \A s \in Session : bySession[s] # NoConn =>
        \E r \in Succeeded : call[r].conn = bySession[s] /\ call[r].login = s

Kept(k) ==
    \/ ConnOf[k] \in byConnID /\ sessionID[ConnOf[k]] = k
    \/ ConnOf[k] \in dropped
    \/ \E r \in Succeeded \ {RequestOf[k]} : call[r].conn = ConnOf[k] \/ call[r].login = k

KeptInv == \A k \in Case : RequestOf[k] \in Succeeded => Kept(k)

(* A call that has succeeded stays what it is. *)
LEMMA SuccessLasts ==
    ASSUME Typed, [SysNext]_sysVars
    PROVE  \A r \in Succeeded : r \in Succeeded' /\ call'[r] = call[r]
<1> USE DEF Typed, Succeeded
<1>1. CASE UNCHANGED call
  BY <1>1
<1>2. ASSUME NEW r \in Request, r \notin Succeeded,
             \A q \in Request \ {r} : call'[q] = call[q]
      PROVE  \A q \in Succeeded : q \in Succeeded' /\ call'[q] = call[q]
  BY <1>2
<1>3. ASSUME NEW r \in Request, GateHears(r) \/ GateGivesUp(r) \/ GateBinds(r)
      PROVE  \A q \in Succeeded : q \in Succeeded' /\ call'[q] = call[q]
  BY <1>2, <1>3 DEF GateHears, GateGivesUp, GateBinds, Asking, Becomes
<1>4. ASSUME NEW r \in Request, NEW c, NEW method, NEW k, NewCall(r, c, method, k)
      PROVE  \A q \in Succeeded : q \in Succeeded' /\ call'[q] = call[q]
  BY <1>2, <1>4 DEF NewCall
<1>5. QED
  BY <1>1, <1>3, <1>4
     DEF SysNext, AuthServes, AuthConsumes, AuthAnswers, StartCase, LoggedIn, ConnectionOpened,
         CaseDone, CaseFails, GateOpens, OtherBegins, OtherOpens, OtherLogin, Leave, sysVars

LEMMA CaseStep == Typed /\ CaseInv /\ [SysNext]_sysVars => CaseInv'
<1> SUFFICES ASSUME Typed, CaseInv, [SysNext]_sysVars
             PROVE  CaseInv'
  OBVIOUS
<1> USE DEF CaseInv, Typed
<1>1. \A r \in Succeeded : r \in Succeeded'
  BY SuccessLasts
<1>2. ASSUME UNCHANGED <<robot, opening, opened>>,
             \A r \in Request : call'[r] # NoCall =>
                 \/ /\ call[r] # NoCall
                    /\ call'[r].conn = call[r].conn /\ call'[r].method = call[r].method
                    /\ call'[r].login = call[r].login
                 \/ \A k \in Case : r # RequestOf[k]
      PROVE  CaseInv'
  BY <1>1, <1>2
<1>3. CASE \/ AuthServes \/ \E r \in Request : AuthConsumes(r) \/ AuthAnswers(r)
           \/ \E l \in Login : OtherBegins(l)
           \/ \E c \in Conn : Leave(c)
           \/ UNCHANGED sysVars
  BY <1>2, <1>3 DEF AuthServes, AuthConsumes, AuthAnswers, OtherBegins, Leave, sysVars, gate
<1>4. ASSUME NEW r \in Request, NEW c \in Conn, NEW method \in Method, NEW k \in Login,
             OtherLogin(r, c, method, k)
      PROVE  CaseInv'
  BY <1>2, <1>4 DEF OtherLogin, NewCall, gate
<1>5. ASSUME NEW r \in Request, GateHears(r) \/ GateGivesUp(r) \/ GateBinds(r)
      PROVE  CaseInv'
  <2>1. /\ call[r] # NoCall /\ UNCHANGED <<robot, opening, opened>>
        /\ \E state \in CallState : Becomes(r, state)
    BY <1>5 DEF GateHears, GateGivesUp, GateBinds, Asking, CallState, gate
  <2>2. PICK state \in CallState : call' = [call EXCEPT ![r].state = state]
    BY <2>1 DEF Becomes
  <2>3. \A q \in Request \ {r} : call'[q] = call[q]
    BY <2>2
  <2>4. /\ call'[r].conn = call[r].conn /\ call'[r].method = call[r].method
        /\ call'[r].login = call[r].login
    BY <2>1, <2>2 DEF Call
  <2>5. QED
    BY <1>2, <2>1, <2>3, <2>4
<1>6. ASSUME NEW k \in Case, StartCase(k) \/ CaseDone(k) \/ CaseFails(k)
      PROVE  CaseInv'
  <2>1. /\ UNCHANGED <<opening, opened, call>>
        /\ \A l \in Case \ {k} : robot'[l] = robot[l]
        /\ robot'[k] \in {"idle", "auth"} => robot[k] \in {"idle", "auth"}
    BY <1>6 DEF StartCase, CaseDone, CaseFails, Advance, gate
  <2>2. robot'[k] = "done" => RequestOf[k] \in Succeeded
    <3>1. CASE CaseDone(k)
      BY <3>1 DEF CaseDone
    <3>2. CASE StartCase(k) \/ CaseFails(k)
      BY <3>2 DEF StartCase, CaseFails, Advance
    <3>3. QED
      BY <1>6, <3>1, <3>2
  <2>3. QED
    BY <1>1, <2>1, <2>2
<1>7. ASSUME NEW k \in Case, LoggedIn(k)
      PROVE  CaseInv'
  BY <1>1, <1>7 DEF LoggedIn, Advance, gate
<1>8. ASSUME NEW k \in Case, ConnectionOpened(k)
      PROVE  CaseInv'
  BY <1>1, <1>8 DEF ConnectionOpened, Advance, NewCall, gate
<1>9. ASSUME NEW k \in Case, GateOpens(k)
      PROVE  CaseInv'
  BY <1>1, <1>9 DEF GateOpens
<1>10. ASSUME NEW c \in Conn, OtherOpens(c)
       PROVE  CaseInv'
  BY <1>1, <1>10 DEF OtherOpens
<1>11. QED
  BY <1>3, <1>4, <1>5, <1>6, <1>7, <1>8, <1>9, <1>10 DEF SysNext

(* A connection opened now held no session that a finished call relies on. *)
LEMMA OpenKeeps ==
    ASSUME Typed, CaseInv, KeptInv, SeatInv, NEW c \in Conn, c \notin opened, Open(c),
           UNCHANGED <<call, dropped>>
    PROVE  KeptInv' /\ SeatInv'
<1>1. /\ byConnID' = byConnID \cup {c} /\ UNCHANGED bySession
      /\ \A d \in Conn \ {c} : sessionID'[d] = sessionID[d]
  BY DEF Open, Typed, ManagerTypeOK
<1>2. Succeeded' = Succeeded
  BY DEF Succeeded
<1>3. \A k \in Case : RequestOf[k] \in Succeeded => ConnOf[k] # c
  BY DEF Succeeded, CaseInv, Typed
<1>4. KeptInv'
  BY <1>1, <1>2, <1>3 DEF KeptInv, Kept
<1>5. SeatInv'
  BY <1>1, <1>2 DEF SeatInv
<1>6. QED
  BY <1>4, <1>5

(* The step at which a call succeeds: the connection it evicts held its session, or a
   session that another call had bound to it.                                         *)
LEMMA BindKeeps ==
    ASSUME Typed, CaseInv, KeptInv, SeatInv, [SysNext]_sysVars,
           NEW r \in Request, GateBinds(r), call[r].conn \in byConnID
    PROVE  KeptInv' /\ SeatInv'
<1> DEFINE c == call[r].conn
           s == call[r].login
           gone == Kicked(c, s)
<1>1. /\ call[r] # NoCall /\ c \in Conn /\ s \in Session
      /\ BindSession(c, s) /\ UNCHANGED dropped
  BY DEF GateBinds, Bind, ConnNotFound, Typed, Call
<1>2. /\ byConnID' = byConnID \ gone /\ c \notin gone /\ gone \subseteq {bySession[s]} \ {NoConn}
      /\ sessionID'[c] = s /\ \A d \in Conn \ {c} : sessionID'[d] = sessionID[d]
      /\ \A t \in Session : bySession'[t] \in {bySession[t], NoConn} \/ (t = s /\ bySession'[t] = c)
  BY <1>1 DEF BindSession, Kicked, Typed, ManagerTypeOK
<1>3. r \in Succeeded' /\ call'[r].conn = c /\ call'[r].login = s
  <2>1. call[r] \in Call /\ call' = [call EXCEPT ![r].state = "bound"]
    BY <1>1 DEF GateBinds, Becomes, Typed
  <2>2. call'[r] = [call[r] EXCEPT !.state = "bound"]
    BY <2>1 DEF Typed
  <2>3. call'[r] \in Call /\ call'[r].state = "bound" /\ call'[r].conn = c /\ call'[r].login = s
    BY <2>1, <2>2 DEF Call, CallState
  <2>4. QED
    BY <2>3, SystemAssumption DEF Succeeded
<1>4. \A q \in Succeeded : q \in Succeeded' /\ call'[q] = call[q]
  BY SuccessLasts
<1>5. Succeeded' \subseteq Succeeded \cup {r} /\ r \notin Succeeded
  BY DEF GateBinds, Becomes, Succeeded, Typed
<1>6. SeatInv'
  BY <1>2, <1>3, <1>4 DEF SeatInv
<1>7. ASSUME NEW k \in Case, RequestOf[k] \in Succeeded'
      PROVE  Kept(k)'
  <2>1. CASE r = RequestOf[k]
    <3>1. c = ConnOf[k] /\ s = k
      BY <1>1, <2>1 DEF CaseInv
    <3>2. QED
      BY <1>2, <3>1 DEF Kept
  <2>2. CASE r # RequestOf[k]
    <3>1. RequestOf[k] \in Succeeded /\ Kept(k)
      BY <1>5, <1>7, <2>2 DEF KeptInv
    <3>2. CASE c = ConnOf[k] \/ s = k
      BY <1>3, <2>2, <3>2 DEF Kept
    <3>3. CASE ConnOf[k] \in gone /\ s # k
      <4>1. PICK q \in Succeeded : call[q].conn = ConnOf[k] /\ call[q].login = s
        BY <1>1, <1>2, <3>3 DEF SeatInv
      <4>2. q # RequestOf[k]
        BY <3>3, <4>1 DEF CaseInv, Succeeded
      <4>3. QED
        BY <1>4, <4>1, <4>2 DEF Kept
    <3>4. CASE ConnOf[k] \notin gone /\ c # ConnOf[k]
      BY <1>1, <1>2, <1>4, <3>1, <3>4 DEF Kept
    <3>5. QED
      BY <3>2, <3>3, <3>4
  <2>3. QED
    BY <2>1, <2>2
<1>8. QED
  BY <1>6, <1>7 DEF KeptInv

LEMMA KeptStep ==
    Typed /\ CaseInv /\ KeptInv /\ SeatInv /\ [SysNext]_sysVars => KeptInv' /\ SeatInv'
<1> SUFFICES ASSUME Typed, CaseInv, KeptInv, SeatInv, [SysNext]_sysVars
             PROVE  KeptInv' /\ SeatInv'
  OBVIOUS
<1>1. \A q \in Succeeded : q \in Succeeded' /\ call'[q] = call[q]
  BY SuccessLasts
<1>2. ASSUME Succeeded' = Succeeded, UNCHANGED <<managerVars, dropped>>
      PROVE  KeptInv' /\ SeatInv'
  BY <1>1, <1>2 DEF KeptInv, Kept, SeatInv, managerVars
<1>3. CASE \/ AuthServes \/ \E r \in Request : AuthConsumes(r) \/ AuthAnswers(r)
           \/ \E k \in Case : StartCase(k) \/ LoggedIn(k) \/ CaseDone(k) \/ CaseFails(k)
           \/ \E l \in Login : OtherBegins(l)
           \/ UNCHANGED sysVars
  <2>1. UNCHANGED <<call, managerVars, dropped>>
    BY <1>3 DEF AuthServes, AuthConsumes, AuthAnswers, StartCase, LoggedIn, CaseDone, CaseFails,
                OtherBegins, sysVars, gate
  <2>2. QED
    BY <1>2, <2>1 DEF Succeeded
<1>4. ASSUME NEW r \in Request, NEW c, NEW method, NEW k, NewCall(r, c, method, k),
             UNCHANGED <<managerVars, dropped>>
      PROVE  KeptInv' /\ SeatInv'
  <2>1. Succeeded' = Succeeded
    BY <1>4 DEF NewCall, Succeeded, Typed
  <2>2. QED
    BY <1>2, <1>4, <2>1
<1>5. ASSUME NEW r \in Request, GateHears(r) \/ GateGivesUp(r)
      PROVE  KeptInv' /\ SeatInv'
  <2>1. UNCHANGED <<managerVars, dropped>>
    BY <1>5 DEF GateHears, GateGivesUp, gate
  <2>2. Succeeded' = Succeeded
    BY <1>5 DEF GateHears, GateGivesUp, Asking, Becomes, Succeeded, Typed, Call
  <2>3. QED
    BY <1>2, <2>1, <2>2
<1>6. ASSUME NEW r \in Request, GateBinds(r)
      PROVE  KeptInv' /\ SeatInv'
  <2>1. CASE call[r].conn \in byConnID
    BY <1>6, <2>1, BindKeeps
  <2>2. CASE call[r].conn \notin byConnID
    <3>1. UNCHANGED <<managerVars, dropped>>
      BY <1>6, <2>2 DEF GateBinds, Bind, BindSession, ConnNotFound
    <3>2. Succeeded' = Succeeded
      BY <1>6, <2>2 DEF GateBinds, Becomes, Succeeded, Typed, Call
    <3>3. QED
      BY <1>2, <3>1, <3>2
  <2>3. QED
    BY <2>1, <2>2
<1>7. ASSUME NEW k \in Case, GateOpens(k)
      PROVE  KeptInv' /\ SeatInv'
  BY <1>7, OpenKeeps DEF GateOpens, CaseInv
<1>8. ASSUME NEW c \in Conn, OtherOpens(c)
      PROVE  KeptInv' /\ SeatInv'
  BY <1>8, OpenKeeps DEF OtherOpens
<1>9. ASSUME NEW c \in Conn, Leave(c)
      PROVE  KeptInv' /\ SeatInv'
  <2>1. /\ byConnID' = byConnID \ {c} /\ dropped' = dropped \cup {c} /\ UNCHANGED <<sessionID, call>>
        /\ \A s \in Session : bySession'[s] \in {bySession[s], NoConn}
    BY <1>9 DEF Leave, Disconnect, Typed, ManagerTypeOK
  <2>2. Succeeded' = Succeeded
    BY <2>1 DEF Succeeded
  <2>3. QED
    BY <2>1, <2>2 DEF KeptInv, Kept, SeatInv
<1>10. QED
  BY <1>3, <1>4, <1>5, <1>6, <1>7, <1>8, <1>9
     DEF SysNext, ConnectionOpened, OtherLogin, gate

LEMMA CaseHolds == SysSpec => [](CaseInv /\ KeptInv /\ SeatInv)
<1>1. SysInit => CaseInv /\ KeptInv /\ SeatInv
  BY DEF SysInit, ManagerInit, CaseInv, KeptInv, SeatInv, Succeeded
<1>2. QED
  BY <1>1, CaseStep, KeptStep, TypedHolds, PTL DEF SysSpec

(* A login case that reports success is true to what auth and the gate then hold, for
   any number of cases, other clients, repeated presentations, timeouts and kicks.    *)
THEOREM CaseResultTrueHolds == SysSpec => []CaseResultTrue
<1>1. Typed /\ GrantInv /\ SpendInv /\ CaseInv /\ KeptInv => CaseResultTrue
  <2> SUFFICES ASSUME Typed, GrantInv, SpendInv, CaseInv, KeptInv, NEW k \in Case, robot[k] = "done"
               PROVE  pc[k] = "returned" /\ <<"token", k>> \notin creds /\ Kept(k)
    BY DEF CaseResultTrue, Kept, Shows
  <2> DEFINE r == RequestOf[k]
  <2>1. r \in Succeeded /\ call[r].method = "token" /\ call[r].login = k
    BY DEF CaseInv, Succeeded
  <2>2. req[r].state = "granted" /\ req[r].cred = <<"token", k>>
    BY <2>1 DEF GrantInv, Succeeded, Kind
  <2>3. QED
    BY <2>1, <2>2 DEF SpendInv, KeptInv
<1>2. IInv => SpendInv
  BY DEF IInv
<1>3. QED
  BY <1>1, <1>2, TypedHolds, GrantHolds, CaseHolds, ImplementsAuth, IInvHolds, PTL

-------------------------------------------------------------------------------
(* The system implements Gate, with connections of HTTP clients only. *)

(* The calls that wait to bind are changed by an answer of auth and by a bind. *)
LEMMA WaitingStays ==
    ASSUME Typed, NEW r \in Request,
           \A q \in Request \ {r} : call'[q] = call[q],
           call[r] # NoCall => call[r].state # "answered",
           call'[r] # NoCall => call'[r].state # "answered"
    PROVE  Waiting' = Waiting
BY DEF Waiting

LEMMA SameGate ==
    ASSUME UNCHANGED gate, Waiting' = Waiting
    PROVE  UNCHANGED GateOnly!vars
BY DEF gate, managerVars, GateOnly!vars, GateOnly!gateVars, GateOnly!managerVars

LEMMA GateOpensStep ==
    ASSUME NEW c \in Conn, c \notin opened, Open(c), opened' = opened \cup {c}, UNCHANGED call
    PROVE  GateOnly!Next
<1>1. GateOnly!Open(c)
  BY DEF Open, GateOnly!Open
<1>2. GateOnly!Goto(c, "detached")
  BY DEF GateOnly!Goto
<1>3. Waiting' = Waiting
  BY DEF Waiting
<1>4. GateOnly!OpenConnection(c)
  BY <1>1, <1>2, <1>3 DEF GateOnly!OpenConnection
<1>5. QED
  BY <1>4 DEF GateOnly!Next

LEMMA GateHearsStep ==
    ASSUME Typed, NEW r \in Request, GateHears(r)
    PROVE  GateOnly!Next
<1> DEFINE c == call[r].conn
           s == call[r].login
<1>1. /\ call[r] \in Call /\ call[r] # NoCall /\ call[r].state = "asking"
      /\ c \in opened /\ c \in Conn /\ s \in Session
  BY DEF GateHears, Asking, Typed, Call
<1>2. /\ call'[r] # NoCall /\ call'[r].state = "answered" /\ call'[r].conn = c /\ call'[r].login = s
      /\ \A q \in Request \ {r} : call'[q] = call[q]
  <2>1. call' = [call EXCEPT ![r].state = "answered"]
    BY DEF GateHears, Becomes
  <2>2. call'[r] = [call[r] EXCEPT !.state = "answered"] /\ \A q \in Request \ {r} : call'[q] = call[q]
    BY <2>1 DEF Typed
  <2>3. call'[r] \in Call /\ call'[r].state = "answered" /\ call'[r].conn = c /\ call'[r].login = s
    BY <1>1, <2>2 DEF Call, CallState
  <2>4. QED
    BY <2>2, <2>3
<1>3. Waiting' = Waiting \cup {<<c, s>>}
  <2> HIDE DEF c, s
  <2>1. Waiting' \subseteq Waiting \cup {<<c, s>>}
    BY <1>2 DEF Waiting
  <2>2. <<c, s>> \in Waiting'
    BY <1>2 DEF Waiting
  <2>3. Waiting \subseteq Waiting'
    BY <1>1, <1>2 DEF Waiting
  <2>4. QED
    BY <2>1, <2>2, <2>3
<1>4. GateOnly!HTTPLogin(c, s)
  <2>1. GateOnly!Announced(c)
    BY <1>1 DEF GateOnly!Announced
  <2>2. s \in [d \in Conn |-> Login][c]
    BY <1>1
  <2>3. UNCHANGED <<managerVars, opened>>
    BY DEF GateHears, gate
  <2>4. QED
    BY <1>3, <2>1, <2>2, <2>3 DEF GateOnly!HTTPLogin, managerVars, GateOnly!managerVars
<1>5. QED
  BY <1>1, <1>4 DEF GateOnly!Next

LEMMA GateBindsStep ==
    ASSUME Typed, NEW r \in Request, GateBinds(r)
    PROVE  GateOnly!Next
<1> DEFINE c == call[r].conn
           s == call[r].login
<1>1. /\ call[r] \in Call /\ call[r] # NoCall /\ call[r].state = "answered"
      /\ c \in Conn /\ s \in Session
  BY DEF GateBinds, Typed, Call
<1>2. /\ call'[r] # NoCall /\ call'[r].state # "answered"
      /\ \A q \in Request \ {r} : call'[q] = call[q]
  <2>1. PICK state \in {"bound", "missing"} : call' = [call EXCEPT ![r].state = state]
    BY DEF GateBinds, Becomes
  <2>2. call'[r] = [call[r] EXCEPT !.state = state] /\ \A q \in Request \ {r} : call'[q] = call[q]
    BY <2>1 DEF Typed
  <2>3. call'[r] \in Call /\ call'[r].state = state
    BY <1>1, <2>2 DEF Call, CallState
  <2>4. QED
    BY <2>2, <2>3
<1>3. <<c, s>> \in Waiting
  BY <1>1 DEF Waiting
<1>4. Waiting' \in {Waiting, Waiting \ {<<c, s>>}}
  <2>1. Waiting' \subseteq Waiting
    BY <1>2 DEF Waiting
  <2>2. ASSUME NEW w \in Waiting, w # <<c, s>>
        PROVE  w \in Waiting'
    <3>1. PICK q \in Request : call[q] # NoCall /\ call[q].state = "answered" /\ w = <<call[q].conn, call[q].login>>
      BY <2>2 DEF Waiting
    <3>2. q # r
      BY <2>2, <3>1
    <3>3. QED
      BY <1>2, <3>1, <3>2 DEF Waiting
  <2>3. QED
    BY <2>1, <2>2
<1>5. GateOnly!TryBind(c, s)
  BY DEF GateBinds, Bind, BindSession, ConnNotFound, Kicked, CloseLocked, SessionsDropped, managerVars,
         GateOnly!TryBind, GateOnly!BindSession, GateOnly!ConnNotFound, GateOnly!Kicked,
         GateOnly!CloseLocked, GateOnly!SessionsDropped, GateOnly!managerVars
<1>6. GateOnly!HTTPLoginBinds(c, s)
  BY <1>3, <1>4, <1>5 DEF GateBinds, GateOnly!HTTPLoginBinds
<1>7. QED
  BY <1>1, <1>6 DEF GateOnly!Next

LEMMA GateLeavesStep ==
    ASSUME NEW c \in Conn, Leave(c)
    PROVE  GateOnly!Next
<1>1. GateOnly!Disconnect(c)
  BY DEF Leave, Disconnect, CloseLocked, SessionsDropped,
         GateOnly!Disconnect, GateOnly!CloseLocked, GateOnly!SessionsDropped
<1>2. Waiting' = Waiting /\ UNCHANGED opened
  BY DEF Leave, Waiting
<1>3. GateOnly!Logout(c)
  BY <1>1, <1>2 DEF GateOnly!Logout, GateOnly!gateVars
<1>4. QED
  BY <1>3 DEF GateOnly!Next

LEMMA GateStep == Typed /\ CaseInv /\ [SysNext]_sysVars => [GateOnly!Next]_(GateOnly!vars)
<1> SUFFICES ASSUME Typed, CaseInv, [SysNext]_sysVars
             PROVE  GateOnly!Next \/ UNCHANGED GateOnly!vars
  OBVIOUS
<1>1. CASE \/ AuthServes \/ \E r \in Request : AuthConsumes(r) \/ AuthAnswers(r)
           \/ \E k \in Case : StartCase(k) \/ LoggedIn(k) \/ CaseDone(k) \/ CaseFails(k)
           \/ \E l \in Login : OtherBegins(l)
           \/ UNCHANGED sysVars
  <2>1. UNCHANGED <<gate, call>>
    BY <1>1 DEF AuthServes, AuthConsumes, AuthAnswers, StartCase, LoggedIn, CaseDone, CaseFails,
                OtherBegins, sysVars
  <2>2. QED
    BY <2>1, SameGate DEF Waiting
<1>2. ASSUME NEW r \in Request, NEW c, NEW method, NEW k, NewCall(r, c, method, k), UNCHANGED gate
      PROVE  UNCHANGED GateOnly!vars
  <2>1. call[r] = NoCall /\ call'[r].state # "answered" /\ \A q \in Request \ {r} : call'[q] = call[q]
    BY <1>2 DEF NewCall, Typed
  <2>2. QED
    BY <1>2, <2>1, WaitingStays, SameGate
<1>3. ASSUME NEW r \in Request, GateGivesUp(r)
      PROVE  UNCHANGED GateOnly!vars
  <2>1. /\ call[r].state = "asking" /\ call'[r].state = "failed" /\ UNCHANGED gate
        /\ \A q \in Request \ {r} : call'[q] = call[q]
    BY <1>3 DEF GateGivesUp, Asking, Becomes, Typed, Call
  <2>2. QED
    BY <2>1, WaitingStays, SameGate
<1>4. ASSUME NEW k \in Case, GateOpens(k)
      PROVE  GateOnly!Next
  BY <1>4, GateOpensStep DEF GateOpens, CaseInv
<1>5. ASSUME NEW c \in Conn, OtherOpens(c)
      PROVE  GateOnly!Next
  BY <1>5, GateOpensStep DEF OtherOpens
<1>6. QED
  BY <1>1, <1>2, <1>3, <1>4, <1>5, GateHearsStep, GateBindsStep, GateLeavesStep
     DEF SysNext, ConnectionOpened, OtherLogin

(* Composed with the real auth service, the robot and other clients, the gate takes only
   the steps of Gate: what is proved there of any answers holds of these.                *)
THEOREM ImplementsGateHolds == SysSpec => ImplementsGate
<1>1. SysInit => GateOnly!Init
  <2>1. SysInit => Waiting = {}
    BY DEF SysInit, Waiting
  <2>2. QED
    BY <2>1 DEF SysInit, ManagerInit, GateOnly!Init, GateOnly!ManagerInit
<1>2. QED
  BY <1>1, GateStep, TypedHolds, CaseHolds, PTL DEF SysSpec, ImplementsGate, GateOnly!Spec

-------------------------------------------------------------------------------
(* From a seat at the gate back to the account in MongoDB. *)

(* A session that auth named to the gate had been saved. *)
NamedInv ==
    \A r \in Request :
        call[r] # NoCall /\ call[r].state \in {"answered", "bound", "missing"}
            => call[r].login \in saved

(* What a connection shows was bound to it by a call. *)
ShownInv ==
    \A c \in Conn : sessionID[c] # NoSession =>
        \E r \in Succeeded : call[r].conn = c /\ call[r].login = sessionID[c]

(* A session that was saved stays in the history. *)
LEMMA SavedGrows == [Next]_vars => saved \subseteq saved'
BY DEF Next, vars, mongo, redis, Begin, FindOrCreateBinding, UpsertAccount, GetOldSession,
       ExecSaveSession, SaveTicket, SaveToken, CallFails, ExpireSession, ExpireCurrent,
       ExpireCredential, Consume, ConsumeFails, GetSession

(* The call moves on and stays about the same connection and session. *)
LEMMA BecomesKeeps ==
    ASSUME Typed, NEW r \in Request, call[r] # NoCall, NEW state \in CallState, Becomes(r, state)
    PROVE  /\ \A q \in Request \ {r} : call'[q] = call[q]
           /\ call'[r] # NoCall /\ call'[r].state = state
           /\ call'[r].conn = call[r].conn /\ call'[r].login = call[r].login
<1>1. call[r] \in Call /\ call'[r] = [call[r] EXCEPT !.state = state]
  BY DEF Becomes, Typed
<1>2. call'[r] \in Call /\ call'[r].state = state
      /\ call'[r].conn = call[r].conn /\ call'[r].login = call[r].login
  BY <1>1 DEF Call
<1>3. QED
  BY <1>2, SystemAssumption DEF Becomes, Typed

LEMMA NamedStep ==
    IInv /\ Typed /\ GrantInv /\ NamedInv /\ [SysNext]_sysVars => NamedInv'
<1> SUFFICES ASSUME IInv, Typed, GrantInv, NamedInv, [SysNext]_sysVars
             PROVE  NamedInv'
  OBVIOUS
<1>1. saved \subseteq saved'
  BY AuthStep, SavedGrows
<1>2. ASSUME UNCHANGED call
      PROVE  NamedInv'
  BY <1>1, <1>2 DEF NamedInv
<1>3. ASSUME NEW r \in Request, NEW c, NEW method, NEW k, NewCall(r, c, method, k)
      PROVE  NamedInv'
  <2>1. call'[r].state = "asking" /\ \A q \in Request \ {r} : call'[q] = call[q]
    BY <1>3 DEF NewCall, Typed
  <2>2. QED
    BY <1>1, <2>1 DEF NamedInv
<1>4. ASSUME NEW r \in Request, NEW state \in CallState, call[r] # NoCall, Becomes(r, state),
             state # "failed" => call[r].login \in saved
      PROVE  NamedInv'
  BY <1>1, <1>4, BecomesKeeps DEF NamedInv
<1>5. ASSUME NEW r \in Request, GateHears(r)
      PROVE  NamedInv'
  <2>1. call[r] # NoCall /\ call[r].method \in Method /\ Becomes(r, "answered")
    BY <1>5 DEF GateHears, Asking, Typed, Call
  <2>2. CASE call[r].method = "session"
    BY <1>4, <1>5, <2>1, <2>2 DEF GateHears, ValidateSession, IInv, PointerInv, CallState
  <2>3. CASE call[r].method # "session"
    <3>1. req[r].state = "granted" /\ req[r].cred[2] = call[r].login
      BY <1>5, <2>1, <2>3 DEF GateHears, Grants, GrantInv
    <3>2. call[r].login \in Login /\ pc[call[r].login] = "returned"
      BY <2>1, <3>1 DEF IInv, SpendInv, Typed, Call
    <3>3. QED
      BY <1>4, <2>1, <3>2 DEF IInv, LoginInv, CallState
  <2>4. QED
    BY <2>2, <2>3
<1>6. ASSUME NEW r \in Request, GateGivesUp(r)
      PROVE  NamedInv'
  BY <1>4, <1>6 DEF GateGivesUp, Asking, CallState
<1>7. ASSUME NEW r \in Request, GateBinds(r)
      PROVE  NamedInv'
  BY <1>4, <1>7 DEF GateBinds, NamedInv, CallState
<1>8. QED
  BY <1>2, <1>3, <1>5, <1>6, <1>7
     DEF SysNext, AuthServes, AuthConsumes, AuthAnswers, StartCase, LoggedIn, ConnectionOpened,
         CaseDone, CaseFails, GateOpens, OtherBegins, OtherOpens, OtherLogin, Leave, sysVars

LEMMA ShownStep == Typed /\ ShownInv /\ [SysNext]_sysVars => ShownInv'
<1> SUFFICES ASSUME Typed, ShownInv, [SysNext]_sysVars
             PROVE  ShownInv'
  OBVIOUS
<1>1. \A q \in Succeeded : q \in Succeeded' /\ call'[q] = call[q]
  BY SuccessLasts
<1>2. ASSUME \A c \in Conn : sessionID'[c] \in {sessionID[c], NoSession}
      PROVE  ShownInv'
  BY <1>1, <1>2 DEF ShownInv
<1>3. ASSUME NEW c \in Conn, Open(c)
      PROVE  ShownInv'
  BY <1>2, <1>3 DEF Open, Typed, ManagerTypeOK
<1>4. ASSUME NEW r \in Request, GateBinds(r)
      PROVE  ShownInv'
  <2> DEFINE c == call[r].conn
             s == call[r].login
  <2>1. call[r] # NoCall /\ c \in Conn /\ Bind(c, s)
    BY <1>4 DEF GateBinds, Typed, Call
  <2>2. CASE BindSession(c, s)
    <3>1. sessionID' = [sessionID EXCEPT ![c] = s] /\ c \in byConnID
      BY <2>2 DEF BindSession
    <3>2. Becomes(r, "bound")
      BY <1>4, <3>1 DEF GateBinds
    <3>3. r \in Succeeded' /\ call'[r].conn = c /\ call'[r].login = s
      BY <2>1, <3>2, BecomesKeeps DEF Succeeded, CallState
    <3>4. \A d \in Conn \ {c} : sessionID'[d] = sessionID[d]
      BY <3>1 DEF Typed, ManagerTypeOK
    <3>5. sessionID'[c] = s
      BY <2>1, <3>1 DEF Typed, ManagerTypeOK
    <3>6. QED
      BY <1>1, <3>3, <3>4, <3>5 DEF ShownInv
  <2>3. CASE ConnNotFound(c)
    BY <1>2, <2>3 DEF ConnNotFound, managerVars
  <2>4. QED
    BY <2>1, <2>2, <2>3 DEF Bind
<1>5. QED
  BY <1>2, <1>3, <1>4
     DEF SysNext, AuthServes, AuthConsumes, AuthAnswers, StartCase, LoggedIn, ConnectionOpened,
         CaseDone, CaseFails, GateOpens, OtherBegins, OtherOpens, OtherLogin, GateHears, GateGivesUp,
         Leave, Disconnect, sysVars, gate, managerVars

(* A connection that shows a session earned it: a login call on that connection
   succeeded for that session, the session was saved, and it names the account that
   MongoDB binds to the identity that logged in and holds.  No lost answer, gate
   timeout, repeated credential or failing login seats a client as anybody else.   *)
SeatsAreEarned ==
    \A c \in Conn : sessionID[c] # NoSession =>
        /\ \E r \in Succeeded : call[r].conn = c /\ call[r].login = sessionID[c]
        /\ sessionID[c] \in saved
        /\ acct[sessionID[c]] = binding[IdentityOf[sessionID[c]]]
        /\ acct[sessionID[c]] \in accounts

(* Every seat at the gate was earned, for any number of clients, calls and losses. *)
THEOREM SeatsAreEarnedHolds == SysSpec => []SeatsAreEarned
<1>1. SysInit => NamedInv /\ ShownInv
  BY DEF SysInit, ManagerInit, NamedInv, ShownInv
<1>2. IInv /\ AccountInv /\ NamedInv /\ ShownInv => SeatsAreEarned
  <2> SUFFICES ASSUME IInv, AccountInv, NamedInv, ShownInv,
                      NEW c \in Conn, sessionID[c] # NoSession
               PROVE  /\ \E r \in Succeeded : call[r].conn = c /\ call[r].login = sessionID[c]
                      /\ sessionID[c] \in saved
                      /\ acct[sessionID[c]] = binding[IdentityOf[sessionID[c]]]
                      /\ acct[sessionID[c]] \in accounts
    BY DEF SeatsAreEarned
  <2>1. PICK r \in Succeeded : call[r].conn = c /\ call[r].login = sessionID[c]
    BY DEF ShownInv
  <2>2. sessionID[c] \in saved
    BY <2>1 DEF NamedInv, Succeeded
  <2>3. QED
    BY <2>1, <2>2 DEF IInv, TypeOK, LoginInv, AccountInv
<1>3. QED
  BY <1>1, <1>2, NamedStep, ShownStep, TypedHolds, GrantHolds, ImplementsAuth, IInvHolds,
     AccountInvHolds, PTL DEF SysSpec

(* What AuthProofs shows of auth alone stays true behind the gate and its timeouts. *)
THEOREM AuthKeepsItsPromises ==
    SysSpec => [](/\ OneShot /\ OneAccountPerIdentity /\ LiveCredentialHasSession
                  /\ NewestLoginSurvives /\ LeakNeedsOverlap /\ SessionHasAccount)
BY ImplementsAuth, OneShotHolds, OneAccountPerIdentityHolds, LiveCredentialHasSessionHolds,
   NewestLoginSurvivesHolds, LeakNeedsOverlapHolds, SessionHasAccountHolds, PTL

===============================================================================
