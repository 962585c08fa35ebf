------------------------------ MODULE LoginSystem ------------------------------
(***************************************************************************)
(* The login of a player across the services: the login case of robot      *)
(* (RobotService.LoginCase), the gate's HTTP login and the auth service,   *)
(* each behind an HTTP client that gives up after 5 seconds while the      *)
(* other side goes on.  Auth and GamerManager are the two services' own    *)
(* modules; here are the calls between them.                               *)
(*                                                                         *)
(* Case k logs in with attempt k.  Other clients use the other attempts, open*)
(* connections, and present what a login returned, perhaps again, on any   *)
(* connection the gate has named.                                          *)
(***************************************************************************)
EXTENDS Auth, GamerManager

CONSTANTS Case,      \* the login attempts of robot
          ConnOf,    \* the id the gate draws for the connection of each case
          RequestOf, \* the login call of each case at the gate
          NoCall

RobotState == {"idle", "auth", "open", "login", "done", "failed"}
CallState == {"asking", "answered", "bound", "missing", "failed"}
Method == Kind \cup {"session"}
Call == [state : CallState, conn : Conn, method : Method, login : Login]

ASSUME SystemAssumption ==
    /\ Session = Login /\ Socket = {} /\ Case \subseteq Login /\ NoCall \notin Call
    /\ ConnOf \in [Case -> Conn] /\ \A k, l \in Case : ConnOf[k] = ConnOf[l] => k = l
    /\ RequestOf \in [Case -> Request] /\ \A k, l \in Case : RequestOf[k] = RequestOf[l] => k = l

VARIABLES robot,   \* where the login case of each attempt stands
          opening, \* cases whose OpenConnection request is on its way to the gate
          opened,  \* the connections the gate has opened
          call,    \* login calls at the gate: progress, connection, credential or session
          dropped  \* history: connections that logged out or were kicked

gate == <<managerVars, opened>>
auth == vars
sysVars == <<auth, gate, robot, opening, call, dropped>>

SysTypeOK ==
    /\ TypeOK /\ ManagerTypeOK
    /\ robot \in [Case -> RobotState]
    /\ opening \in SUBSET Case
    /\ opened \in SUBSET Conn
    /\ call \in [Request -> Call \cup {NoCall}]
    /\ \A r \in Request : call[r] # NoCall => call[r].conn \in opened
    /\ dropped \in SUBSET opened

SysInit ==
    /\ Init /\ ManagerInit
    /\ robot = [k \in Case |-> "idle"]
    /\ opening = {} /\ opened = {} /\ dropped = {}
    /\ call = [r \in Request |-> NoCall]

(* Mutated forms; only the mutation runs use them. *)
AssumeOpened(k) == TRUE
BindUnchecked(c, s) ==
    /\ bySession' = [bySession EXCEPT ![s] = c]
    /\ sessionID' = [sessionID EXCEPT ![c] = s]
    /\ UNCHANGED <<byConnID, closers, closed>>
BelieveRefusal(r) == req[r].state \in {"granted", "refused"}

-------------------------------------------------------------------------------
(* The auth service on its own. *)

AuthServes ==
    /\ \E l \in Login :
          \/ FindOrCreateBinding(l) \/ UpsertAccount(l) \/ GetOldSession(l)
          \/ ExecSaveSession(l) \/ SaveTicket(l) \/ SaveToken(l) \/ CallFails(l)
          \/ ExpireSession(l) \/ ExpireCurrent(l)
          \/ \E kind \in Kind : ExpireCredential(<<kind, l>>)
    /\ UNCHANGED <<gate, robot, opening, call, dropped>>

(* A login call of the gate arrives, perhaps after the gate gave it up. *)
AuthConsumes(r) ==
    /\ call[r] # NoCall /\ call[r].method \in Kind
    /\ LET c == <<call[r].method, call[r].login>> IN Consume(r, c) \/ ConsumeFails(r, c)
    /\ UNCHANGED <<gate, robot, opening, call, dropped>>

AuthAnswers(r) ==
    /\ GetSession(r)
    /\ UNCHANGED <<gate, robot, opening, call, dropped>>

-------------------------------------------------------------------------------
(* The robot's login case. *)

Advance(k, from, to) == robot[k] = from /\ robot' = [robot EXCEPT ![k] = to]

StartCase(k) ==
    /\ Advance(k, "idle", "auth")
    /\ Begin(k)
    /\ UNCHANGED <<gate, opening, call, dropped>>

LoggedIn(k) ==
    /\ Advance(k, "auth", "open")
    /\ pc[k] = "returned"
    /\ opening' = opening \cup {k}
    /\ UNCHANGED <<auth, gate, call, dropped>>

NewCall(r, c, method, k) ==
    /\ call[r] = NoCall
    /\ call' = [call EXCEPT ![r] = [state |-> "asking", conn |-> c, method |-> method, login |-> k]]

(* OpenConnection answered with a connection id. *)
HasConnection(k) == ConnOf[k] \in opened

ConnectionOpened(k) ==
    /\ Advance(k, "open", "login")
    /\ HasConnection(k)
    /\ NewCall(RequestOf[k], ConnOf[k], "token", k)
    /\ UNCHANGED <<auth, gate, opening, dropped>>

Succeeded == {r \in Request : call[r] # NoCall /\ call[r].state = "bound"}

CaseDone(k) ==
    /\ Advance(k, "login", "done")
    /\ RequestOf[k] \in Succeeded
    /\ UNCHANGED <<auth, gate, opening, call, dropped>>

(* An error answer, a lost one or the client's timeout: LoginCase returns the error
   and takes nothing back.                                                          *)
CaseFails(k) ==
    /\ robot[k] \in {"auth", "open", "login"}
    /\ robot' = [robot EXCEPT ![k] = "failed"]
    /\ UNCHANGED <<auth, gate, opening, call, dropped>>

-------------------------------------------------------------------------------
(* The gate. *)

GateOpens(k) ==
    /\ k \in opening
    /\ opening' = opening \ {k}
    /\ Open(ConnOf[k])
    /\ opened' = opened \cup {ConnOf[k]}
    /\ UNCHANGED <<auth, robot, call, dropped>>

(* Other clients: a login, a connection, and a call that presents what the login of k
   returned.                                                                         *)
OtherBegins(l) ==
    /\ l \notin Case
    /\ Begin(l)
    /\ UNCHANGED <<gate, robot, opening, call, dropped>>

OtherOpens(c) ==
    /\ c \notin opened /\ \A k \in Case : c # ConnOf[k]
    /\ Open(c)
    /\ opened' = opened \cup {c}
    /\ UNCHANGED <<auth, robot, opening, call, dropped>>

OtherLogin(r, c, method, k) ==
    /\ \A l \in Case : r # RequestOf[l]
    /\ c \in opened /\ pc[k] = "returned"
    /\ NewCall(r, c, method, k)
    /\ UNCHANGED <<auth, gate, robot, opening, dropped>>

Becomes(r, state) == call' = [call EXCEPT ![r].state = state]

Asking(r) == call[r] # NoCall /\ call[r].state = "asking"

(* The auth service's answer is an error unless it granted the session. *)
Grants(r) == req[r].state = "granted"

(* ValidateSession: the gate asks with a session id it was shown. *)
ValidateSession(k) == k \in sessions

GateHears(r) ==
    /\ Asking(r)
    /\ IF call[r].method = "session" THEN ValidateSession(call[r].login) ELSE Grants(r)
    /\ Becomes(r, "answered")
    /\ UNCHANGED <<auth, gate, robot, opening, dropped>>

(* Refused, lost, or past the gate's 5 seconds. *)
GateGivesUp(r) ==
    /\ Asking(r)
    /\ Becomes(r, "failed")
    /\ UNCHANGED <<auth, gate, robot, opening, dropped>>

Bind(c, s) == BindSession(c, s) \/ ConnNotFound(c)

GateBinds(r) ==
    /\ call[r] # NoCall /\ call[r].state = "answered"
    /\ Bind(call[r].conn, call[r].login)
    /\ Becomes(r, IF call[r].conn \in byConnID THEN "bound" ELSE "missing")
    /\ UNCHANGED <<auth, opened, robot, opening, dropped>>

(* POST /gate/logout and the gRPC KickGamer. *)
Leave(c) ==
    /\ Disconnect(c)
    /\ dropped' = dropped \cup {c}
    /\ UNCHANGED <<auth, opened, robot, opening, call>>

SysNext ==
    \/ AuthServes
    \/ \E r \in Request : \/ AuthConsumes(r) \/ AuthAnswers(r)
                          \/ GateHears(r) \/ GateGivesUp(r) \/ GateBinds(r)
                          \/ \E c \in Conn, method \in Method, k \in Login : OtherLogin(r, c, method, k)
    \/ \E k \in Case : StartCase(k) \/ LoggedIn(k) \/ ConnectionOpened(k) \/ CaseDone(k)
                        \/ CaseFails(k) \/ GateOpens(k)
    \/ \E l \in Login : OtherBegins(l)
    \/ \E c \in Conn : OtherOpens(c) \/ Leave(c)

SysSpec == SysInit /\ [][SysNext]_sysVars

-------------------------------------------------------------------------------
(* Properties. *)

(* What the gate binds was granted by auth: a ticket or token binds one call at most,
   whatever is lost, given up or presented again on either side of the gate.          *)
CredentialBindsOnce ==
    \A r, q \in Succeeded :
        call[r].method \in Kind /\ r # q =>
            <<call[r].method, call[r].login>> # <<call[q].method, call[q].login>>

(* A login case that reports success told the truth: its login returned, its token is
   spent, and its connection still shows its session, unless that connection logged
   out or was kicked, another login bound it, or its session was bound elsewhere.      *)
CaseResultTrue ==
    \A k \in Case : robot[k] = "done" =>
        /\ pc[k] = "returned" /\ <<"token", k>> \notin creds
        /\ \/ Shows(ConnOf[k], k)
           \/ ConnOf[k] \in dropped
           \/ \E r \in Succeeded \ {RequestOf[k]} :
                 call[r].conn = ConnOf[k] \/ call[r].login = k

-------------------------------------------------------------------------------
(* The gate of this module implements Gate, with HTTP connections only. *)

Waiting == {<<call[r].conn, call[r].login>> :
               r \in {q \in Request : call[q] # NoCall /\ call[q].state = "answered"}}

GateOnly == INSTANCE Gate WITH
                TCP <- {}, Claims <- [c \in Conn |-> Login],
                handler <- [c \in Conn |-> IF c \in opened THEN "detached" ELSE "new"],
                answer <- [c \in {} |-> NoSession], httpLogins <- Waiting,
                hungup <- {}, stop <- "running"

(* Composed with the real auth service and a real client, the gate still takes only
   the steps of Gate: what is checked there of every answer holds of these.         *)
ImplementsGate == GateOnly!Spec

===============================================================================
