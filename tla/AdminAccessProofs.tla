------------------------- MODULE AdminAccessProofs -------------------------
(***************************************************************************)
(* Theorems about AdminAccess, for any sessions of the human, requests and *)
(* bound on exchanges.  What HumanSessionsProofs shows of sessions is used.*)
(***************************************************************************)
EXTENDS AdminAccess, TLAPS

P == INSTANCE HumanSessionsProofs

-----------------------------------------------------------------------------
(* The two instances of HumanSessions are one.                             *)

LEMMA SameInit == S!Init <=> P!Init
BY DEF S!Init, P!Init

LEMMA SameNext == [S!Next]_(S!vars) => [P!Next]_(P!vars)
BY DEF S!Next, P!Next, S!Step, P!Step, S!Exchange, P!Exchange, S!Local, P!Local,
       S!vars, P!vars, S!keycloak, P!keycloak,
       S!request, P!request, S!marks, P!marks, S!Login, P!Login, S!Callback, P!Callback,
       S!CallbackFails, P!CallbackFails, S!Logout, P!Logout, S!Expire, P!Expire,
       S!RevokeGrant, P!RevokeGrant, S!Start, P!Start, S!ReadMiss, P!ReadMiss,
       S!ReadFresh, P!ReadFresh, S!ReadExpired, P!ReadExpired, S!ReadFails, P!ReadFails,
       S!ExchangeAccepted, P!ExchangeAccepted, S!ExchangeRefused, P!ExchangeRefused,
       S!ExchangeFails, P!ExchangeFails, S!Drop, P!Drop, S!Save, P!Save,
       S!SaveFails, P!SaveFails, S!Restart, P!Restart, S!Fresh, P!Fresh, S!At, P!At,
       S!Goto, P!Goto, S!Refuse, P!Refuse, S!Delete, P!Delete, S!Encrypted, P!Encrypted,
       S!Decrypts, P!Decrypts, S!TokenAfter, P!TokenAfter, S!Refreshed, P!Refreshed,
       S!NoneLeft, P!NoneLeft, S!Waiting, P!Waiting, S!Busy, P!Busy, S!KeyEpochs, P!KeyEpochs

LEMMA SessionsInit == S!Init => P!IInv
BY P!TypeInit, P!TokenInit, SameInit, SessionAssumption
   DEF SessionAssumption, P!TypeInit, P!TokenInit, P!IInv, P!BoundAssumption, P!NullAssumption

LEMMA SessionsStep == P!IInv /\ [S!Next]_(S!vars) => P!IInv'
<1>1. P!IInv /\ [P!Next]_(P!vars) => P!IInv'
  BY P!IInvStep, SessionAssumption
     DEF SessionAssumption, P!IInvStep, P!BoundAssumption, P!NullAssumption
<1>. QED  BY <1>1, SameNext

(* What is used of the invariant of sessions.                              *)
Sessions ==
    /\ S!TypeOK
    /\ \A n \in Sids :
          /\ login[n] # "created" => session[n] = Null
          /\ session[n] # Null => session[n].vouch \in 1 .. vouches[n]
    /\ \A r \in Requests :
          /\ pc[r] # "idle" => sid[r] \in Sids /\ login[sid[r]] = "created"
          /\ pc[r] = "save" => reply[r].vouch \in 1 .. vouches[sid[r]]

LEMMA SessionsUse == P!IInv => Sessions
<1> SUFFICES ASSUME P!IInv PROVE Sessions  OBVIOUS
<1> USE SessionAssumption DEF SessionAssumption
<1>1. /\ P!TypeOK /\ P!HoldInv /\ P!RowInv /\ P!ReplyInv
  BY DEF P!IInv, P!TypeInv, P!TokenInv
<1>2. S!TypeOK
  BY <1>1 DEF S!TypeOK, P!TypeOK, S!Rows, P!Rows, S!Replies, P!Replies, S!Vouches, P!Vouches,
              S!KeyEpochs, P!KeyEpochs, S!Waiting, P!Waiting, S!Busy, P!Busy
<1>3. ASSUME NEW n \in Sids, session[n] # Null
      PROVE  session[n].vouch \in 1 .. vouches[n]
  <2>1. session[n] \in P!Rows /\ vouches[n] \in Nat  BY <1>1, <1>3 DEF P!TypeOK
  <2>2. session[n].vouch \in Nat \ {0}  BY <2>1 DEF P!Rows, P!Vouches
  <2>. QED  BY <1>1, <1>3, <2>1, <2>2 DEF P!RowInv
<1>4. ASSUME NEW r \in Requests, pc[r] = "save"
      PROVE  reply[r].vouch \in 1 .. vouches[sid[r]]
  <2>1. reply[r] \in P!Replies /\ sid[r] \in Sids  BY <1>1, <1>4 DEF P!HoldInv
  <2>2. vouches[sid[r]] \in Nat  BY <1>1, <2>1 DEF P!TypeOK
  <2>3. reply[r].vouch \in Nat \ {0}  BY <2>1 DEF P!Replies, P!Vouches
  <2>. QED  BY <1>1, <1>4, <2>2, <2>3 DEF P!ReplyInv
<1>. QED  BY <1>1, <1>2, <1>3, <1>4 DEF Sessions, P!HoldInv, P!RowInv

-----------------------------------------------------------------------------
(* The middleware and the routes only use a session. *)

LEMMA SessionsSimulation == [Next]_vars => [S!Next]_(S!vars)
<1>1. UNCHANGED sessionVars => UNCHANGED S!vars
  BY DEF sessionVars, S!vars, S!keycloak, S!request, S!marks
<1>2. UNCHANGED vars => UNCHANGED sessionVars  BY DEF vars
<1>3. ChangeRole => UNCHANGED sessionVars  BY DEF ChangeRole
<1>4. ASSUME NEW n \in Sids, Callback(n) \/ OtherSessionStep(n)  PROVE S!Next
  BY <1>4 DEF Callback, OtherSessionStep, S!Next
<1>5. ASSUME NEW r \in Requests, NEW n \in Sids, Start(r, n)  PROVE S!Next
  BY <1>5 DEF Start, S!Next
<1>6. ASSUME NEW r \in Requests, Exchange(r) \/ Authenticate(r)  PROVE S!Next
  BY <1>6 DEF Exchange, Authenticate, ReadFresh, Save, OtherStep, S!Next, S!Step, S!Local
<1>7. ASSUME NEW r \in Requests,
             Provision(r) \/ ProvisionFails(r) \/ Act(r) \/ Forbid(r) \/ Read(r)
      PROVE  UNCHANGED sessionVars
  BY <1>7 DEF Provision, ProvisionFails, Act, Forbid, Read, Finish
<1>8. Restart => S!Next  BY DEF Restart, S!Next
<1>. QED  BY <1>1, <1>2, <1>3, <1>4, <1>5, <1>6, <1>7, <1>8 DEF Next, Step, Local

(* SessionsUnchanged holds: every step is one of HumanSessions, or none. *)
THEOREM SessionsKept == Spec => SessionsUnchanged
<1>1. Init => S!Init  BY DEF Init
<1>. QED  BY <1>1, SessionsSimulation, PTL DEF Spec, SessionsUnchanged

LEMMA SessionsInvariance == Spec => []Sessions
<1>1. Init => P!IInv  BY SessionsInit DEF Init
<1>2. P!IInv /\ [Next]_vars => P!IInv'  BY SessionsStep, SessionsSimulation
<1>. QED  BY <1>1, <1>2, SessionsUse, PTL DEF Spec

-----------------------------------------------------------------------------
(* Roles.                                                                  *)

(* Every exchange asserted a role, and who was served has one.             *)
RoleInv ==
    /\ present  \in Roles
    /\ asserted \in [Sids -> [S!Vouches -> Roles \cup {Null}]]
    /\ stored   \in Roles \cup {Null}
    /\ role     \in [Requests -> Roles \cup {Null}]
    /\ stage    \in [Requests -> Stages]
    /\ settled  \in [Requests -> BOOLEAN]
    /\ \A n \in Sids : \A v \in 1 .. vouches[n] : asserted[n][v] \in Roles
    /\ \A r \in Requests :
          /\ pc[r] = "served" <=> role[r] # Null
          /\ stage[r] \in {"route", "acted", "forbidden"} => pc[r] = "served"
          /\ stage[r] = "acted" => role[r] = "admin"
          /\ stage[r] = "forbidden" => role[r] # "admin"

(* A settled request has, or can find, no role but the present one.        *)
SettledInv ==
    \A r \in Requests : settled[r] =>
        /\ pc[r] # "idle"
        /\ role[r] \in {Null, present}
        /\ S!Fresh(sid[r]) => asserted[sid[r]][session[sid[r]].vouch] = present
        /\ \A q \in Requests : pc[q] = "save" /\ sid[q] = sid[r]
               => asserted[sid[r]][reply[q].vouch] = present

AccessInv == Sessions /\ RoleInv /\ SettledInv

(* Steps that touch neither sessions nor roles. *)
LEMMA RoutesStep ==
    ASSUME AccessInv, Sessions', NEW r \in Requests,
           Provision(r) \/ ProvisionFails(r) \/ Act(r) \/ Forbid(r) \/ Read(r)
    PROVE  AccessInv'
<1> USE SessionAssumption DEF SessionAssumption, AccessInv, RoleInv, SettledInv, S!Fresh,
        sessionVars, Stages, Ended, Roles
<1>1. CASE Provision(r)  BY <1>1 DEF Provision
<1>2. CASE ProvisionFails(r)  BY <1>2 DEF ProvisionFails
<1>3. CASE Act(r)  BY <1>3 DEF Act, Finish, Admitted
<1>4. CASE Forbid(r)  BY <1>4 DEF Forbid, Finish, Admitted
<1>5. CASE Read(r)  BY <1>5 DEF Read, Finish
<1>. QED  BY <1>1, <1>2, <1>3, <1>4, <1>5

LEMMA ChangeStep == ASSUME AccessInv, Sessions', ChangeRole PROVE AccessInv'
BY DEF ChangeRole, AccessInv, RoleInv, SettledInv, sessionVars

(* What an exchange on session n leaves behind: the present role under the *)
(* number of the exchange, and nothing else.                               *)
Asserted(n) ==
    /\ asserted' \in [Sids -> [S!Vouches -> Roles \cup {Null}]]
    /\ \A m \in Sids : \A v \in 1 .. vouches'[m] : asserted'[m][v] \in Roles
    /\ \A m \in Sids : m # n => asserted'[m] = asserted[m]
    /\ \A v \in 1 .. vouches'[n] : asserted'[n][v] = asserted[n][v] \/ v = vouches'[n]
    /\ vouches'[n] = vouches[n] => asserted' = asserted
    /\ vouches'[n] # vouches[n] => asserted'[n][vouches'[n]] = present

LEMMA AssertFacts ==
    ASSUME AccessInv, NEW n \in Sids, Assert(n), NEW v \in {vouches[n], vouches[n] + 1, 1},
           v \in 0 .. MaxVouches, vouches' = [vouches EXCEPT ![n] = v]
    PROVE  Asserted(n)
<1> USE SessionAssumption DEF SessionAssumption, AccessInv, Sessions, RoleInv, S!Vouches
<1>1. vouches \in [Sids -> 0 .. MaxVouches] /\ vouches'[n] = v  BY DEF S!TypeOK
<1>2. CASE v = vouches[n]
  <2>1. asserted' = asserted /\ vouches' = vouches  BY <1>1, <1>2 DEF Assert
  <2>. QED  BY <1>1, <1>2, <2>1 DEF Asserted
<1>3. CASE v # vouches[n]
  <2>1. v \in 1 .. MaxVouches  BY <1>1, <1>3
  <2>2. asserted' = [asserted EXCEPT ![n][v] = present]  BY <1>1, <1>3 DEF Assert
  <2>3. /\ asserted' \in [Sids -> [S!Vouches -> Roles \cup {Null}]]
        /\ \A m \in Sids : m # n => asserted'[m] = asserted[m]
        /\ asserted'[n][v] = present
        /\ \A w \in 1 .. MaxVouches : w # v => asserted'[n][w] = asserted[n][w]
    BY <2>1, <2>2
  <2>4. \A w \in 1 .. v : w # v => w \in 1 .. vouches[n] /\ w \in 1 .. MaxVouches
    BY <1>1, <1>3
  <2>. QED  BY <1>1, <1>3, <2>1, <2>3, <2>4 DEF Asserted
<1>. QED  BY <1>2, <1>3

LEMMA CallbackStep == ASSUME AccessInv, Sessions', NEW n \in Sids, Callback(n) PROVE AccessInv'
<1> USE DEF AccessInv, SettledInv
<1>1. /\ login[n] = "redirected"
      /\ \A m \in Sids : m # n => session'[m] = session[m]
      /\ vouches' = [vouches EXCEPT ![n] = 1]
      /\ UNCHANGED <<pc, sid, reply, present, stored, role, stage, settled>>
  BY DEF Callback, S!Callback, S!request, S!marks, Sessions, S!TypeOK
<1>2. Asserted(n)
  <2>1. Assert(n) /\ 1 \in {vouches[n], vouches[n] + 1, 1} /\ 1 \in 0 .. MaxVouches
    BY SessionAssumption DEF Callback, SessionAssumption
  <2>. QED  BY <1>1, <2>1, AssertFacts
<1>3. RoleInv'  BY <1>1, <1>2 DEF RoleInv, Asserted
<1>4. \A r \in Requests : pc[r] # "idle" => sid[r] \in Sids /\ sid[r] # n
  BY <1>1 DEF Sessions
<1>5. SettledInv'  BY <1>1, <1>2, <1>4 DEF Asserted, S!Fresh
<1>. QED  BY <1>3, <1>5

LEMMA ExchangeStep == ASSUME AccessInv, Sessions', NEW r \in Requests, Exchange(r) PROVE AccessInv'
<1> DEFINE n == sid[r]
<1> USE SessionAssumption DEF SessionAssumption, AccessInv
<1>1. /\ n \in Sids /\ pc[r] = "refresh" /\ Assert(n)
      /\ vouches \in [Sids -> 0 .. MaxVouches] /\ vouches' \in [Sids -> 0 .. MaxVouches]
      /\ UNCHANGED <<session, sid, present, stored, role, stage, settled>>
  BY DEF Exchange, S!Exchange, S!ExchangeAccepted, S!ExchangeRefused, S!ExchangeFails, S!marks,
         Sessions, S!TypeOK
<1>2. CASE S!ExchangeAccepted(r)
  <2> DEFINE v == vouches[n] + 1
  <2>1. /\ vouches' = [vouches EXCEPT ![n] = v]
        /\ reply'[r].vouch = v
        /\ \A q \in Requests : q # r => reply'[q] = reply[q]
        /\ pc' = [pc EXCEPT ![r] = "save"]
    BY <1>1, <1>2 DEF S!ExchangeAccepted, S!Goto, Sessions, S!TypeOK
  <2>2. v \in 0 .. MaxVouches /\ vouches'[n] = v /\ v # vouches[n]  BY <1>1, <2>1
  <2>3. Asserted(n)  BY <1>1, <2>1, <2>2, AssertFacts
  <2> HIDE DEF v
  <2>4. RoleInv'
    <3>1. \A q \in Requests : pc'[q] = "served" <=> pc[q] = "served"
      BY <1>1, <2>1 DEF Sessions, S!TypeOK
    <3>2. asserted' \in [Sids -> [S!Vouches -> Roles \cup {Null}]]
          /\ \A m \in Sids : \A w \in 1 .. vouches'[m] : asserted'[m][w] \in Roles
      BY <2>3 DEF Asserted
    <3>. QED  BY <1>1, <3>1, <3>2 DEF RoleInv
  <2>5. /\ session[n] # Null => session[n].vouch # v /\ session[n].vouch \in 1 .. vouches'[n]
        /\ \A q \in Requests : pc[q] = "save" /\ sid[q] = n
               => reply[q].vouch # v /\ reply[q].vouch \in 1 .. vouches'[n]
    BY <1>1, <2>2 DEF Sessions, v
  <2>6. asserted'[n][v] = present /\ \A w \in 1 .. vouches'[n] : w # v => asserted'[n][w] = asserted[n][w]
    BY <2>2, <2>3 DEF Asserted
  <2>7. \A m \in Sids : m # n => asserted'[m] = asserted[m]  BY <2>3 DEF Asserted
  <2>8. SettledInv'
    <3> SUFFICES ASSUME NEW s \in Requests, settled[s]
        PROVE  /\ pc'[s] # "idle"
               /\ role[s] \in {Null, present}
               /\ S!Fresh(sid[s]) => asserted'[sid[s]][session[sid[s]].vouch] = present
               /\ \A q \in Requests : pc'[q] = "save" /\ sid[q] = sid[s]
                      => asserted'[sid[s]][reply'[q].vouch] = present
      BY <1>1 DEF SettledInv, S!Fresh
    <3>1. pc'[r] = "save" /\ \A q \in Requests : q # r => pc'[q] = pc[q]
      BY <2>1 DEF Sessions, S!TypeOK
    <3>2. pc'[s] # "idle" /\ role[s] \in {Null, present} /\ sid[s] \in Sids
      BY <3>1 DEF SettledInv, Sessions
    <3>3. S!Fresh(sid[s]) => asserted'[sid[s]][session[sid[s]].vouch] = present
      BY <2>5, <2>6, <2>7, <3>2 DEF SettledInv, S!Fresh
    <3>4. ASSUME NEW q \in Requests, pc'[q] = "save", sid[q] = sid[s]
          PROVE  asserted'[sid[s]][reply'[q].vouch] = present
      BY <2>1, <2>5, <2>6, <2>7, <3>1, <3>2, <3>4 DEF SettledInv
    <3>. QED  BY <3>2, <3>3, <3>4
  <2>. QED  BY <2>4, <2>8
<1>3. CASE S!ExchangeRefused(r) \/ S!ExchangeFails(r)
  <2>1. pc' = [pc EXCEPT ![r] = "drop"] /\ UNCHANGED reply
    BY <1>3 DEF S!ExchangeRefused, S!ExchangeFails, S!Goto
  <2>2. PICK v \in {vouches[n], vouches[n] + 1} : vouches' = [vouches EXCEPT ![n] = v]
    BY <1>1, <1>3 DEF S!ExchangeRefused, S!ExchangeFails, S!keycloak
  <2>3. v \in 0 .. MaxVouches /\ vouches'[n] = v  BY <1>1, <2>2
  <2>4. Asserted(n)  BY <1>1, <2>2, <2>3, AssertFacts
  <2>5. RoleInv'
    <3>1. \A q \in Requests : pc'[q] = "served" <=> pc[q] = "served"
      BY <1>1, <2>1 DEF Sessions, S!TypeOK
    <3>2. asserted' \in [Sids -> [S!Vouches -> Roles \cup {Null}]]
          /\ \A m \in Sids : \A w \in 1 .. vouches'[m] : asserted'[m][w] \in Roles
      BY <2>4 DEF Asserted
    <3>. QED  BY <1>1, <3>1, <3>2 DEF RoleInv
  <2>6. /\ session[n] # Null => session[n].vouch \in 1 .. vouches[n]
        /\ \A q \in Requests : pc[q] = "save" /\ sid[q] = n => reply[q].vouch \in 1 .. vouches[n]
    BY <1>1 DEF Sessions
  <2>7. \A w \in 1 .. vouches[n] : asserted'[n][w] = asserted[n][w]
    <3>1. CASE v = vouches[n]  BY <2>3, <2>4, <3>1 DEF Asserted
    <3>2. CASE v = vouches[n] + 1
      <4>1. vouches[n] \in Nat  BY <1>1
      <4>2. \A w \in 1 .. vouches[n] : w \in 1 .. v /\ w # v  BY <3>2, <4>1
      <4>. QED  BY <2>3, <2>4, <4>2 DEF Asserted
    <3>. QED  BY <2>2, <3>1, <3>2
  <2>8. SettledInv'
    <3>1. \A q \in Requests : /\ pc'[q] = "idle" <=> pc[q] = "idle"
                              /\ pc'[q] = "save" => pc[q] = "save"
      BY <1>1, <2>1 DEF Sessions, S!TypeOK
    <3>2. \A m \in Sids : m # n => asserted'[m] = asserted[m]  BY <2>4 DEF Asserted
    <3>3. \A q \in Requests : pc[q] # "idle" => sid[q] \in Sids  BY DEF Sessions
    <3>. QED  BY <1>1, <2>1, <2>6, <2>7, <3>1, <3>2, <3>3 DEF SettledInv, S!Fresh
  <2>. QED  BY <2>5, <2>8
<1>. QED  BY <1>2, <1>3 DEF Exchange, S!Exchange

LEMMA OtherSessionSteps ==
    ASSUME AccessInv, Sessions', NEW n \in Sids, OtherSessionStep(n)
    PROVE  AccessInv'
<1> USE DEF AccessInv, RoleInv, SettledInv, S!keycloak, S!request, S!marks
<1>1. UNCHANGED <<vouches, pc, sid, reply, present, asserted, stored, role, stage, settled>>
  BY DEF OtherSessionStep, S!Login, S!CallbackFails, S!Logout, S!Expire, S!RevokeGrant
<1>2. \A m \in Sids : session'[m] = session[m] \/ ~S!Fresh(m)'
  <2>1. CASE S!Expire(n)
    <3>1. session[n] \in S!Rows  BY <2>1 DEF S!Expire, S!Fresh, Sessions, S!TypeOK
    <3>2. session'[n].fresh = FALSE /\ \A m \in Sids : m # n => session'[m] = session[m]
      BY <2>1, <3>1 DEF S!Expire, S!Rows, Sessions, S!TypeOK
    <3>. QED  BY <3>2 DEF S!Fresh
  <2>2. CASE ~S!Expire(n)
    BY <2>2 DEF OtherSessionStep, S!Login, S!CallbackFails, S!Logout, S!RevokeGrant, S!Delete,
                S!Fresh, Sessions, S!TypeOK
  <2>. QED  BY <2>1, <2>2
<1>. QED  BY <1>1, <1>2 DEF S!Fresh, Sessions

LEMMA StartStep ==
    ASSUME AccessInv, Sessions', NEW r \in Requests, NEW n \in Sids, Start(r, n)
    PROVE  AccessInv'
<1> USE DEF AccessInv
<1>1. /\ pc[r] = "idle" /\ pc' = [pc EXCEPT ![r] = "read"]
      /\ sid' = [sid EXCEPT ![r] = n]
      /\ settled' = [settled EXCEPT ![r] = Cached(n) \subseteq {present}]
      /\ UNCHANGED <<vouches, session, reply, present, asserted, stored, role, stage>>
  BY DEF Start, S!Start, S!Goto, S!keycloak
<1>2. Cached(n) \subseteq {present} =>
        /\ S!Fresh(n) => asserted[n][session[n].vouch] = present
        /\ \A q \in Requests : pc[q] = "save" /\ sid[q] = n => asserted[n][reply[q].vouch] = present
  BY DEF Cached, S!At
<1>3. (Cached(n) \subseteq {present}) \in BOOLEAN  OBVIOUS
<1>4. RoleInv'  BY <1>1, <1>3 DEF RoleInv, Sessions, S!TypeOK
<1>5. role[r] = Null  BY <1>1 DEF RoleInv
<1>6. settled'[r] = (Cached(n) \subseteq {present})
      /\ \A q \in Requests : q # r => settled'[q] = settled[q]
  BY <1>1 DEF RoleInv
<1>7. /\ pc'[r] = "read" /\ sid'[r] = n
      /\ \A q \in Requests : q # r => pc'[q] = pc[q] /\ sid'[q] = sid[q]
  BY <1>1 DEF Sessions, S!TypeOK
<1>8. SettledInv'
  <2>1. ASSUME NEW s \in Requests, s # r, settled'[s]
        PROVE  /\ pc'[s] # "idle"
               /\ role[s] \in {Null, present}
               /\ S!Fresh(sid[s]) => asserted[sid[s]][session[sid[s]].vouch] = present
               /\ \A q \in Requests : pc'[q] = "save" /\ sid'[q] = sid[s]
                      => asserted[sid[s]][reply[q].vouch] = present
    BY <1>6, <1>7, <2>1 DEF SettledInv
  <2>2. ASSUME settled'[r]
        PROVE  /\ pc'[r] # "idle"
               /\ role[r] \in {Null, present}
               /\ S!Fresh(n) => asserted[n][session[n].vouch] = present
               /\ \A q \in Requests : pc'[q] = "save" /\ sid'[q] = n
                      => asserted[n][reply[q].vouch] = present
    BY <1>2, <1>5, <1>6, <1>7, <2>2
  <2>. QED  BY <1>1, <1>7, <2>1, <2>2 DEF SettledInv, S!Fresh
<1>. QED  BY <1>4, <1>8

LEMMA AuthenticateStep ==
    ASSUME AccessInv, Sessions', NEW r \in Requests, Authenticate(r)
    PROVE  AccessInv'
<1> USE SessionAssumption DEF SessionAssumption, AccessInv, RoleInv, SettledInv, S!Fresh, S!Goto,
        S!keycloak, S!request, S!marks
<1>1. /\ pc \in [Requests -> {"idle", "served", "refused", "cut"} \cup S!Busy]
      /\ session \in [Sids -> S!Rows \cup {Null}]
  BY DEF Sessions, S!TypeOK
<1>2. CASE ReadFresh(r)
  <2>1. /\ sid[r] \in Sids /\ pc[r] = "read" /\ S!Fresh(sid[r])
        /\ asserted[sid[r]][session[sid[r]].vouch] \in Roles
    BY <1>2 DEF ReadFresh, S!ReadFresh, Sessions
  <2>2. /\ pc' = [pc EXCEPT ![r] = "served"]
        /\ role' = [role EXCEPT ![r] = asserted[sid[r]][session[sid[r]].vouch]]
        /\ UNCHANGED <<vouches, session, sid, reply, present, asserted, stored, stage, settled>>
    BY <1>2 DEF ReadFresh, S!ReadFresh
  <2>. QED  BY <1>1, <2>1, <2>2
<1>3. CASE Save(r)
  <2> DEFINE given == RoleOfReply(r)
  <2>1. /\ sid[r] \in Sids /\ pc[r] = "save" /\ given \in Roles
        /\ given = asserted[sid[r]][reply[r].vouch]
    BY <1>3 DEF Save, S!Save, Sessions, RoleOfReply
  <2>2. /\ pc' = [pc EXCEPT ![r] = "served"]
        /\ role' = [role EXCEPT ![r] = given]
        /\ session'[sid[r]].vouch = reply[r].vouch
        /\ \A m \in Sids : m # sid[r] => session'[m] = session[m]
        /\ UNCHANGED <<vouches, sid, reply, present, asserted, stored, stage, settled>>
    <3>1. session' = [session EXCEPT ![sid[r]] = S!Refreshed(r)]
          /\ S!Refreshed(r).vouch = reply[r].vouch
      BY <1>3 DEF Save, S!Save, S!Refreshed, S!Encrypted
    <3>2. /\ pc' = [pc EXCEPT ![r] = "served"]
          /\ role' = [role EXCEPT ![r] = given]
          /\ UNCHANGED <<vouches, sid, reply, present, asserted, stored, stage, settled>>
      BY <1>3 DEF Save, S!Save
    <3>. QED  BY <1>1, <2>1, <3>1, <3>2
  <2> HIDE DEF given
  <2>3. \A q \in Requests : pc[q] # "idle" => sid[q] \in Sids  BY DEF Sessions
  <2>4. RoleInv'  BY <1>1, <2>1, <2>2
  <2>5. SettledInv'  BY <1>1, <2>1, <2>2, <2>3
  <2>. QED  BY <2>4, <2>5
<1>4. CASE OtherStep(r)
  <2>1. /\ pc[r] \in {"read", "refresh", "drop", "save"}
        /\ \E step \in {"refused", "refresh", "drop"} : pc' = [pc EXCEPT ![r] = step]
        /\ UNCHANGED <<vouches, sid, reply, present, asserted, stored, role, stage, settled>>
    BY <1>4 DEF OtherStep, S!ReadMiss, S!ReadExpired, S!ReadFails, S!Drop, S!SaveFails,
                S!Refuse
  <2>2. \A m \in Sids : session'[m] = session[m] \/ session'[m] = Null
    BY <1>1, <1>4 DEF OtherStep, S!ReadMiss, S!ReadExpired, S!ReadFails, S!Drop, S!SaveFails,
                S!Refuse, S!Delete
  <2>3. \A q \in Requests : pc[q] # "idle" => sid[q] \in Sids  BY DEF Sessions
  <2>. QED  BY <1>1, <2>1, <2>2, <2>3
<1>. QED  BY <1>2, <1>3, <1>4 DEF Authenticate

LEMMA RestartStep == ASSUME AccessInv, Sessions', Restart PROVE AccessInv'
<1> USE DEF AccessInv
<1>1. /\ pc' = [r \in Requests |-> IF pc[r] \in S!Busy THEN "cut" ELSE pc[r]]
      /\ UNCHANGED <<vouches, session, sid, reply, present, asserted, stored, role, settled>>
  BY DEF Restart, S!Restart, S!keycloak
<1>2. \A r \in Requests : /\ pc'[r] = "served" <=> pc[r] = "served"
                          /\ pc'[r] = "idle" <=> pc[r] = "idle"
                          /\ pc'[r] # "save"
  BY <1>1 DEF S!Busy, S!Waiting
<1>3. /\ stage' \in [Requests -> Stages]
      /\ \A r \in Requests : stage'[r] = stage[r] \/ stage'[r] = "cut"
  BY DEF Restart, RoleInv, Stages, Ended
<1>4. RoleInv'  BY <1>1, <1>2, <1>3 DEF RoleInv
<1>5. SettledInv'  BY <1>1, <1>2 DEF SettledInv, S!Fresh
<1>. QED  BY <1>4, <1>5

LEMMA AccessStep == AccessInv /\ Sessions' /\ [Next]_vars => AccessInv'
<1> SUFFICES ASSUME AccessInv, Sessions', [Next]_vars PROVE AccessInv'  OBVIOUS
<1>1. CASE UNCHANGED vars
  BY <1>1 DEF AccessInv, RoleInv, SettledInv, S!Fresh, vars, sessionVars
<1>2. CASE Next
  BY <1>2, RoutesStep, ChangeStep, CallbackStep, ExchangeStep, OtherSessionSteps, StartStep,
     AuthenticateStep, RestartStep
  DEF Next, Step, Local
<1>. QED  BY <1>1, <1>2

LEMMA Invariance == Spec => []AccessInv
<1>1. Init /\ Sessions => AccessInv
  <2> SUFFICES ASSUME Init, Sessions PROVE AccessInv  OBVIOUS
  <2>1. RoleInv
    BY SessionAssumption DEF SessionAssumption, Init, S!Init, RoleInv, Stages
  <2>2. SettledInv  BY DEF Init, SettledInv
  <2>. QED  BY <2>1, <2>2 DEF AccessInv
<1>2. AccessInv /\ Sessions' /\ [Next]_vars => AccessInv'  BY AccessStep
<1>. QED  BY <1>1, <1>2, SessionsInvariance, PTL DEF Spec

(* The type invariant holds, for any constants. *)
THEOREM TypeCorrect == Spec => []TypeOK
<1>1. AccessInv => TypeOK  BY DEF AccessInv, Sessions, RoleInv, TypeOK
<1>. QED  BY <1>1, Invariance, PTL

(* RoleChangesTakeEffect holds: while Keycloak does not change its mind,   *)
(* exchanges only add the present role to what a settled request can find. *)
THEOREM RolesTakeEffect == Spec => []RoleChangesTakeEffect
<1>1. AccessInv => RoleChangesTakeEffect
  BY SessionAssumption
  DEF SessionAssumption, AccessInv, RoleInv, SettledInv, RoleChangesTakeEffect, Roles
<1>. QED  BY <1>1, Invariance, PTL
=============================================================================
