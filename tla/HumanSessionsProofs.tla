------------------------ MODULE HumanSessionsProofs ------------------------
(***************************************************************************)
(* Theorems about HumanSessions, for any sessions, requests and bound on   *)
(* exchanges.                                                              *)
(***************************************************************************)
EXTENDS HumanSessions, TLAPS

(* What a request holds while it waits. *)
HoldInv ==
    \A r \in Requests :
        /\ pc[r] # "idle" => sid[r] \in Sids /\ login[sid[r]] = "created"
        /\ pc[r] \in {"refresh", "save"} => row[r] \in Rows
        /\ pc[r] = "save" => reply[r] \in Replies

TypeInv == TypeOK /\ HoldInv

(* Nothing of a session that a logout deleted in peace is left. *)
LogoutInv ==
    \A n \in Sids : loggedOut[n] =>
        /\ login[n] = "created"
        /\ ~raced[n] => /\ session[n] = Null
                        /\ \A r \in Requests : sid[r] = n => pc[r] \notin Waiting

-----------------------------------------------------------------------------
(* The type invariant with what requests hold is kept by every action. *)

LEMMA TypeInit == Init => TypeInv
<1> USE BoundAssumption DEF Init, TypeInv, TypeOK, HoldInv, Vouches, KeyEpochs
<1>. QED  OBVIOUS

LEMMA ExpiredRow == ASSUME NEW w \in Rows PROVE [w EXCEPT !.fresh = FALSE] \in Rows
BY DEF Rows

LEMMA TypeLogin ==
    ASSUME TypeInv, NEW n \in Sids,
           Login(n) \/ Callback(n) \/ CallbackFails(n) \/ Logout(n)
                \/ Expire(n) \/ RevokeGrant(n)
    PROVE  TypeInv'
<1> USE BoundAssumption
    DEF TypeInv, TypeOK, HoldInv, Vouches, KeyEpochs, Rows, Replies, keycloak, request, marks
<1>1. CASE Login(n)  BY <1>1 DEF Login
<1>2. CASE Callback(n)
  <2>1. Encrypted(1, 1) \in Rows  BY DEF Encrypted
  <2>. QED  BY <1>2, <2>1 DEF Callback
<1>3. CASE CallbackFails(n)  BY <1>3 DEF CallbackFails
<1>4. CASE Logout(n)  BY <1>4 DEF Logout, Delete
<1>5. CASE Expire(n)
  <2> DEFINE expired == [session[n] EXCEPT !.fresh = FALSE]
  <2>1. session[n] \in Rows  BY <1>5 DEF Expire, Fresh
  <2>2. expired \in Rows  BY <2>1, ExpiredRow
  <2>3. session' = [session EXCEPT ![n] = expired]  BY <1>5 DEF Expire
  <2> HIDE DEF expired
  <2>4. session' \in [Sids -> Rows \cup {Null}]  BY <2>2, <2>3
  <2>. QED  BY <1>5, <2>4 DEF Expire
<1>6. CASE RevokeGrant(n)  BY <1>6 DEF RevokeGrant
<1>. QED  BY <1>1, <1>2, <1>3, <1>4, <1>5, <1>6

LEMMA TypeStart ==
    ASSUME TypeInv, NEW r \in Requests, NEW n \in Sids, Start(r, n)
    PROVE  TypeInv'
<1> USE BoundAssumption
    DEF TypeInv, TypeOK, HoldInv, Vouches, KeyEpochs, Rows, Replies, keycloak, request, marks,
        Waiting, Busy
<1>1. NoneLeft(n) \in BOOLEAN  BY DEF NoneLeft
<1>2. hopeless' = [hopeless EXCEPT ![r] = NoneLeft(n)]  BY DEF Start
<1>3. hopeless' \in [Requests -> BOOLEAN]  BY <1>1, <1>2
<1>. QED  BY <1>3 DEF Start, Goto

LEMMA TypeRead ==
    ASSUME TypeInv, NEW r \in Requests,
           ReadMiss(r) \/ ReadFresh(r) \/ ReadExpired(r) \/ ReadFails(r)
    PROVE  TypeInv'
<1> USE BoundAssumption
    DEF TypeInv, TypeOK, HoldInv, Vouches, KeyEpochs, Rows, Replies, keycloak, request, marks,
        Waiting, Busy, Goto
<1>1. CASE ReadMiss(r)  BY <1>1 DEF ReadMiss, Refuse
<1>2. CASE ReadFresh(r)  BY <1>2 DEF ReadFresh
<1>3. CASE ReadExpired(r)  BY <1>3 DEF ReadExpired
<1>4. CASE ReadFails(r)  BY <1>4 DEF ReadFails, Refuse
<1>. QED  BY <1>1, <1>2, <1>3, <1>4

LEMMA TypeExchange ==
    ASSUME TypeInv, NEW r \in Requests,
           ExchangeAccepted(r) \/ ExchangeRefused(r) \/ ExchangeFails(r)
    PROVE  TypeInv'
<1> USE BoundAssumption
    DEF TypeInv, TypeOK, HoldInv, Vouches, KeyEpochs, Rows, Replies, keycloak, request, marks,
        Waiting, Busy, Goto
<1>1. CASE ExchangeAccepted(r)
  <2>1. sid[r] \in Sids /\ row[r] \in Rows  BY <1>1 DEF ExchangeAccepted
  <2>2. vouches[sid[r]] + 1 \in Vouches  BY <1>1, <2>1 DEF ExchangeAccepted
  <2>3. TokenAfter(sid[r], vouches[sid[r]] + 1) \in Vouches
    BY <1>1, <2>1, <2>2 DEF ExchangeAccepted, TokenAfter
  <2>. QED  BY <1>1, <2>1, <2>2, <2>3 DEF ExchangeAccepted
<1>2. CASE ExchangeRefused(r)  BY <1>2 DEF ExchangeRefused
<1>3. CASE ExchangeFails(r)
  <2>1. sid[r] \in Sids /\ row[r] \in Rows  BY <1>3 DEF ExchangeFails
  <2>2. CASE UNCHANGED <<vouches, current, lost>>  BY <1>3, <2>2 DEF ExchangeFails
  <2>3. CASE ~UNCHANGED <<vouches, current, lost>>
    <3> DEFINE v == vouches[sid[r]] + 1
               t == TokenAfter(sid[r], v)
    <3>1. /\ v \in 0 .. MaxVouches
          /\ vouches' = [vouches EXCEPT ![sid[r]] = v]
          /\ current' = [current EXCEPT ![sid[r]] = t]
          /\ lost' = [lost EXCEPT ![sid[r]] = TRUE]
      BY <1>3, <2>1, <2>3 DEF ExchangeFails
    <3>2. t \in 0 .. MaxVouches  BY <2>1, <3>1 DEF TokenAfter
    <3> HIDE DEF v, t
    <3>3. vouches' \in [Sids -> 0 .. MaxVouches]  BY <3>1
    <3>4. current' \in [Sids -> 0 .. MaxVouches]  BY <3>1, <3>2
    <3>5. lost' \in [Sids -> BOOLEAN]  BY <3>1
    <3>. QED  BY <1>3, <3>3, <3>4, <3>5 DEF ExchangeFails
  <2>. QED  BY <2>2, <2>3
<1>. QED  BY <1>1, <1>2, <1>3

LEMMA TypeEnd ==
    ASSUME TypeInv, NEW r \in Requests, Drop(r) \/ Save(r) \/ SaveFails(r)
    PROVE  TypeInv'
<1> USE BoundAssumption
    DEF TypeInv, TypeOK, HoldInv, Vouches, KeyEpochs, Rows, Replies, keycloak, request, marks,
        Waiting, Busy, Goto
<1>1. CASE Drop(r)  BY <1>1 DEF Drop, Refuse, Delete
<1>2. CASE Save(r)
  <2>1. Refreshed(r) \in Rows  BY <1>2 DEF Save, Refreshed, Encrypted
  <2>. QED  BY <1>2, <2>1 DEF Save
<1>3. CASE SaveFails(r)  BY <1>3 DEF SaveFails, Refuse
<1>. QED  BY <1>1, <1>2, <1>3

LEMMA TypeRestart == ASSUME TypeInv, Restart PROVE TypeInv'
<1> USE DEF TypeInv, TypeOK, HoldInv, KeyEpochs, keycloak, request, marks, Waiting, Busy
<1>1. pc' \in [Requests -> {"idle", "served", "refused", "cut"} \cup Busy]  BY DEF Restart
<1>2. lost' \in [Sids -> BOOLEAN]  BY DEF Restart
<1>3. keyEpoch' \in KeyEpochs  BY DEF Restart
<1>. QED  BY <1>1, <1>2, <1>3 DEF Restart

(* Every step of the system keeps the type invariant. *)
LEMMA TypeStep == ASSUME TypeInv, [Next]_vars PROVE TypeInv'
<1>1. CASE UNCHANGED vars
  BY <1>1 DEF TypeInv, TypeOK, HoldInv, vars, keycloak, request, marks
<1>2. CASE Next  BY <1>2, TypeLogin, TypeStart, TypeRead, TypeExchange, TypeEnd, TypeRestart
                 DEF Next, Step, Exchange, Local
<1>. QED  BY <1>1, <1>2

(* The type invariant holds, for any sessions, requests and bound. *)
THEOREM TypeCorrect == Spec => []TypeOK
<1>1. Init => TypeInv  BY TypeInit
<1>2. TypeInv /\ [Next]_vars => TypeInv'  BY TypeStep
<1>3. TypeInv => TypeOK  BY DEF TypeInv
<1>. QED  BY <1>1, <1>2, <1>3, PTL DEF Spec

-----------------------------------------------------------------------------
(* A logout is final.                                                      *)

LEMMA LogoutStep == ASSUME TypeInv, LogoutInv, [Next]_vars PROVE LogoutInv'
<1> USE DEF TypeInv, TypeOK, HoldInv, LogoutInv, Waiting, Goto, keycloak, request, marks
<1>1. CASE UNCHANGED vars  BY <1>1 DEF vars
<1>2. ASSUME NEW n \in Sids, Login(n) \/ Callback(n) \/ CallbackFails(n)
      PROVE  LogoutInv'
  BY <1>2 DEF Login, Callback, CallbackFails
<1>3. ASSUME NEW n \in Sids, Logout(n)  PROVE LogoutInv'
  <2>1. raced'[n] = (At(n, Waiting) # {})  BY <1>3 DEF Logout
  <2>2. ~raced'[n] => \A r \in Requests : sid[r] = n => pc[r] \notin Waiting
    BY <2>1 DEF At
  <2>3. /\ login[n] = "created"
        /\ session' = [session EXCEPT ![n] = Null]
        /\ \A m \in Sids : m # n => loggedOut'[m] = loggedOut[m] /\ raced'[m] = raced[m]
        /\ UNCHANGED <<login, pc, sid>>
    BY <1>3 DEF Logout, Delete
  <2>. QED  BY <2>2, <2>3
<1>4. ASSUME NEW n \in Sids, Expire(n) \/ RevokeGrant(n)  PROVE LogoutInv'
  BY <1>4 DEF Expire, RevokeGrant, Fresh
<1>5. ASSUME NEW r \in Requests, NEW n \in Sids, Start(r, n)  PROVE LogoutInv'
  BY <1>5 DEF Start
<1>6. ASSUME NEW r \in Requests, Step(r)  PROVE LogoutInv'
  <2>1. CASE ReadMiss(r)  BY <2>1 DEF ReadMiss, Refuse
  <2>2. CASE ReadFresh(r)  BY <2>2 DEF ReadFresh
  <2>3. CASE ReadExpired(r)  BY <2>3 DEF ReadExpired
  <2>4. CASE ReadFails(r)  BY <2>4 DEF ReadFails, Refuse
  <2>5. CASE ExchangeAccepted(r)  BY <2>5 DEF ExchangeAccepted
  <2>6. CASE ExchangeRefused(r)  BY <2>6 DEF ExchangeRefused
  <2>7. CASE ExchangeFails(r)  BY <2>7 DEF ExchangeFails
  <2>8. CASE Drop(r)  BY <2>8 DEF Drop, Refuse, Delete
  <2>9. CASE Save(r)  BY <2>9 DEF Save
  <2>10. CASE SaveFails(r)  BY <2>10 DEF SaveFails, Refuse
  <2>. QED  BY <1>6, <2>1, <2>2, <2>3, <2>4, <2>5, <2>6, <2>7, <2>8, <2>9, <2>10
     DEF Step, Exchange, Local
<1>7. ASSUME Restart  PROVE LogoutInv'  BY <1>7 DEF Restart, Busy
<1>. QED  BY <1>1, <1>2, <1>3, <1>4, <1>5, <1>6, <1>7 DEF Next

(* LogoutIsFinal holds, for any sessions and requests: a refresh that      *)
(* waits is the only way to a row, and after a logout in peace none waits  *)
(* and none can begin.                                                     *)
THEOREM LogoutFinal == Spec => []LogoutIsFinal
<1>1. Init => TypeInv /\ LogoutInv  BY TypeInit DEF Init, LogoutInv
<1>2. TypeInv /\ LogoutInv /\ [Next]_vars => (TypeInv /\ LogoutInv)'
  BY TypeStep, LogoutStep
<1>3. LogoutInv => LogoutIsFinal  BY DEF LogoutInv, LogoutIsFinal
<1>. QED  BY <1>1, <1>2, <1>3, PTL DEF Spec

-----------------------------------------------------------------------------
(* A request that is refused for good.                                     *)

(* Where no claims are left and none can come, none come: the token that   *)
(* Keycloak accepts stays what it is, because no exchange succeeds, and a  *)
(* row under a replaced key stays shut.                                    *)
KeyInv == \A n \in Sids : session[n] # Null => session[n].key <= keyEpoch

HopelessInv ==
    \A r \in Requests : hopeless[r] =>
        /\ pc[r] \notin {"idle", "served"}
        /\ ~Fresh(sid[r])
        /\ \A q \in Requests : sid[q] = sid[r] => pc[q] # "save"
        /\ \/ ~granted[sid[r]]
           \/ /\ session[sid[r]] # Null =>
                     \/ session[sid[r]].key # keyEpoch
                     \/ session[sid[r]].token # current[sid[r]]
              /\ \A q \in Requests : sid[q] = sid[r] /\ pc[q] = "refresh"
                                        => row[q].token # current[sid[r]]

LEMMA KeyStep == ASSUME TypeInv, KeyInv, [Next]_vars PROVE KeyInv'
<1> USE DEF TypeInv, TypeOK, KeyInv, KeyEpochs, keycloak, request, marks
<1>1. CASE UNCHANGED <<session, keyEpoch>>  BY <1>1
<1>2. ASSUME NEW n \in Sids, Callback(n)  PROVE KeyInv'
  BY <1>2 DEF Callback, Encrypted
<1>3. ASSUME NEW n \in Sids, Logout(n)  PROVE KeyInv'  BY <1>3 DEF Logout, Delete
<1>4. ASSUME NEW n \in Sids, Expire(n)  PROVE KeyInv'
  <2>1. session[n] \in Rows  BY <1>4 DEF Expire, Fresh
  <2>2. session'[n].key = session[n].key  BY <1>4, <2>1 DEF Expire, Rows
  <2>3. session[n] # Null /\ (\A m \in Sids : m # n => session'[m] = session[m])
    BY <1>4 DEF Expire, Fresh
  <2>. QED  BY <1>4, <2>2, <2>3 DEF Expire
<1>5. ASSUME NEW r \in Requests, Drop(r)  PROVE KeyInv'  BY <1>5 DEF Drop, Delete
<1>6. ASSUME NEW r \in Requests, Save(r)  PROVE KeyInv'
  <2>1. Refreshed(r).key = keyEpoch  BY DEF Refreshed, Encrypted
  <2>. QED  BY <1>6, <2>1 DEF Save
<1>7. CASE Restart
  <2>1. /\ session' = session /\ keyEpoch' >= keyEpoch
        /\ keyEpoch \in Nat /\ keyEpoch' \in Nat
    BY <1>7 DEF Restart
  <2>2. \A n \in Sids : session[n] # Null => session[n].key \in Nat  BY DEF Rows
  <2>. QED  BY <2>1, <2>2
<1>8. Next => \/ UNCHANGED <<session, keyEpoch>>
              \/ \E n \in Sids : Callback(n) \/ Logout(n) \/ Expire(n)
              \/ \E r \in Requests : Drop(r) \/ Save(r)
              \/ Restart
  BY DEF Next, Step, Exchange, Local, Login, CallbackFails, RevokeGrant, Start, ReadMiss,
         ReadFresh, ReadExpired, ReadFails, ExchangeAccepted, ExchangeRefused, ExchangeFails,
         SaveFails
<1>. QED  BY <1>1, <1>2, <1>3, <1>4, <1>5, <1>6, <1>7, <1>8 DEF vars

LEMMA HopelessStep ==
    ASSUME TypeInv, KeyInv, HopelessInv, [Next]_vars
    PROVE  HopelessInv'
<1> USE DEF TypeInv, TypeOK, HoldInv, HopelessInv, Fresh, Waiting, Goto, keycloak, request, marks
<1>1. CASE UNCHANGED vars  BY <1>1 DEF vars
<1>2. ASSUME NEW n \in Sids, Login(n) \/ Callback(n) \/ CallbackFails(n) \/ Logout(n)
      PROVE  HopelessInv'
  BY <1>2 DEF Login, Callback, CallbackFails, Logout, Delete
<1>3. ASSUME NEW n \in Sids, Expire(n)  PROVE HopelessInv'
  <2>1. /\ \A m \in Sids : m # n => session'[m] = session[m]
        /\ session[n] # Null
        /\ session'[n].fresh = FALSE
        /\ session[n].fresh
        /\ UNCHANGED <<pc, sid, row, granted, current, keyEpoch, hopeless>>
    <3>1. [session[n] EXCEPT !.fresh = FALSE].fresh = FALSE
      <4>1. session[n] \in Rows  BY <1>3 DEF Expire
      <4>. QED  BY <4>1 DEF Rows
    <3>. QED  BY <1>3, <3>1 DEF Expire
  <2>2. \A r \in Requests : hopeless[r] => sid[r] # n  BY <2>1
  <2>. QED  BY <2>1, <2>2
<1>4. ASSUME NEW n \in Sids, RevokeGrant(n)  PROVE HopelessInv'
  BY <1>4 DEF RevokeGrant
<1>5. ASSUME NEW r \in Requests, NEW n \in Sids, Start(r, n)  PROVE HopelessInv'
  <2>1. hopeless'[r] =>
            /\ ~Fresh(n)
            /\ \A q \in Requests : sid[q] = n => pc[q] # "save"
            /\ \/ ~granted[n]
               \/ /\ session[n] # Null =>
                        session[n].key # keyEpoch \/ session[n].token # current[n]
                  /\ \A q \in Requests : sid[q] = n /\ pc[q] = "refresh"
                                            => row[q].token # current[n]
    BY <1>5 DEF Start, NoneLeft, Decrypts, At
  <2>2. \A q \in Requests : q # r => hopeless'[q] = hopeless[q]  BY <1>5 DEF Start
  <2>3. /\ pc[r] = "idle"
        /\ pc' = [pc EXCEPT ![r] = "read"]
        /\ sid' = [sid EXCEPT ![r] = n]
        /\ UNCHANGED <<granted, session, current, keyEpoch, row>>
    BY <1>5 DEF Start
  <2>. QED  BY <2>1, <2>2, <2>3
<1>6. ASSUME NEW r \in Requests, Step(r)  PROVE HopelessInv'
  <2>1. CASE ReadMiss(r)  BY <2>1 DEF ReadMiss, Refuse
  <2>2. CASE ReadFresh(r)  BY <2>2 DEF ReadFresh
  <2>3. CASE ReadExpired(r)  BY <2>3 DEF ReadExpired, Decrypts
  <2>4. CASE ReadFails(r)  BY <2>4 DEF ReadFails, Refuse
  <2>5. CASE ExchangeAccepted(r)  BY <2>5 DEF ExchangeAccepted
  <2>6. CASE ExchangeRefused(r)  BY <2>6 DEF ExchangeRefused
  <2>7. CASE ExchangeFails(r)  BY <2>7 DEF ExchangeFails
  <2>8. CASE Drop(r)  BY <2>8 DEF Drop, Refuse, Delete
  <2>9. CASE Save(r)  BY <2>9 DEF Save
  <2>10. CASE SaveFails(r)  BY <2>10 DEF SaveFails, Refuse
  <2>. QED  BY <1>6, <2>1, <2>2, <2>3, <2>4, <2>5, <2>6, <2>7, <2>8, <2>9, <2>10
     DEF Step, Exchange, Local
<1>7. ASSUME Restart  PROVE HopelessInv'
  <2>1. \A n \in Sids : session[n] # Null /\ session[n].key # keyEpoch
                           => session[n].key # keyEpoch'
    BY <1>7 DEF Restart, KeyInv, Rows, KeyEpochs
  <2>2. \A r \in Requests : hopeless[r] => sid[r] \in Sids  OBVIOUS
  <2>3. /\ \A r \in Requests :
              /\ pc'[r] \notin {"save", "refresh"}
              /\ pc[r] \notin {"idle", "served"} => pc'[r] \notin {"idle", "served"}
        /\ UNCHANGED <<sid, session, granted, current, hopeless>>
    BY <1>7 DEF Restart, Busy
  <2>. QED  BY <2>1, <2>2, <2>3
<1>. QED  BY <1>1, <1>2, <1>3, <1>4, <1>5, <1>6, <1>7 DEF Next

(* HopelessRequestsAreRefused holds, for any number of requests that       *)
(* overlap: without the grant or without the token that Keycloak accepts   *)
(* no exchange succeeds, and neither comes back.                           *)
THEOREM HopelessRefused == Spec => []HopelessRequestsAreRefused
<1>1. Init => TypeInv /\ KeyInv /\ HopelessInv  BY TypeInit DEF Init, KeyInv, HopelessInv
<1>2. TypeInv /\ KeyInv /\ HopelessInv /\ [Next]_vars => (TypeInv /\ KeyInv /\ HopelessInv)'
  BY TypeStep, KeyStep, HopelessStep
<1>3. HopelessInv => HopelessRequestsAreRefused  BY DEF HopelessInv, HopelessRequestsAreRefused
<1>. QED  BY <1>1, <1>2, <1>3, PTL DEF Spec

-----------------------------------------------------------------------------
(* Refresh tokens.                                                         *)

(* Without rotation there is one token per session, for good.  With it,    *)
(* tokens and claims have the number of the exchange that gave them, and   *)
(* a request that still has to save has the last: so the row is behind     *)
(* Keycloak, and no other request can make an exchange.                    *)
RowInv ==
    \A n \in Sids :
        /\ login[n] # "created" => session[n] = Null
        /\ login[n] = "created" => current[n] = (IF rotates THEN vouches[n] ELSE 1)
        /\ session[n] # Null =>
               /\ session[n].vouch <= vouches[n]
               /\ session[n].token = (IF rotates THEN session[n].vouch ELSE 1)

ReplyInv ==
    \A r \in Requests :
        /\ pc[r] = "refresh" => /\ row[r].token <= current[sid[r]]
                                /\ row[r].vouch <= vouches[sid[r]]
        /\ pc[r] = "save" =>
               /\ reply[r].token = current[sid[r]]
               /\ reply[r].vouch <= vouches[sid[r]]
               /\ reply[r].vouch > row[r].vouch
               /\ rotates => reply[r].vouch = vouches[sid[r]]

AloneInv ==
    rotates => \A r \in Requests : pc[r] = "save" =>
        /\ session[sid[r]] # Null => session[sid[r]].token < current[sid[r]]
        /\ \A q \in Requests : q # r /\ sid[q] = sid[r] =>
               /\ pc[q] # "save"
               /\ pc[q] = "refresh" => row[q].token < current[sid[r]]

LatestInv ==
    \A n \in Sids :
        \/ session[n] = Null
        \/ lost[n]
        \/ session[n].token = current[n]
        \/ \E r \in Requests : sid[r] = n /\ pc[r] = "save"

TokenInv == RowInv /\ ReplyInv /\ AloneInv /\ LatestInv
IInv     == TypeInv /\ TokenInv

LEMMA TokenInit == Init => TokenInv
BY DEF Init, TokenInv, RowInv, ReplyInv, AloneInv, LatestInv

LEMMA TokenLogin ==
    ASSUME IInv, NEW n \in Sids,
           Login(n) \/ Callback(n) \/ CallbackFails(n) \/ Logout(n) \/ RevokeGrant(n)
    PROVE  TokenInv'
<1> USE DEF IInv, TypeInv, TypeOK, HoldInv, TokenInv, RowInv, ReplyInv, AloneInv, LatestInv,
            keycloak, request, marks
<1>1. CASE Login(n)  BY <1>1 DEF Login
<1>2. CASE Callback(n)
  <2>1. /\ session'[n].vouch = 1 /\ session'[n].token = 1
        /\ vouches'[n] = 1 /\ current'[n] = 1 /\ login'[n] = "created"
        /\ \A m \in Sids : m # n =>
               /\ session'[m] = session[m] /\ vouches'[m] = vouches[m]
               /\ current'[m] = current[m] /\ login'[m] = login[m]
        /\ UNCHANGED <<rotates, pc, sid, row, reply, lost>>
    BY <1>2 DEF Callback, Encrypted
  <2>2. \A r \in Requests : pc[r] # "idle" => sid[r] # n  BY <1>2 DEF Callback
  <2>. QED  BY <2>1, <2>2
<1>3. CASE CallbackFails(n)  BY <1>3 DEF CallbackFails
<1>4. CASE Logout(n)  BY <1>4 DEF Logout, Delete
<1>5. CASE RevokeGrant(n)  BY <1>5 DEF RevokeGrant
<1>. QED  BY <1>1, <1>2, <1>3, <1>4, <1>5

LEMMA TokenExpire == ASSUME IInv, NEW n \in Sids, Expire(n) PROVE TokenInv'
<1> USE DEF IInv, TypeInv, TypeOK, HoldInv, TokenInv, RowInv, ReplyInv, AloneInv, LatestInv,
            keycloak, request, marks
<1>1. session[n] \in Rows  BY DEF Expire, Fresh
<1>2. /\ session'[n] # Null => session'[n].vouch = session[n].vouch
      /\ session'[n] # Null => session'[n].token = session[n].token
      /\ session[n] # Null
      /\ \A m \in Sids : m # n => session'[m] = session[m]
  BY <1>1 DEF Expire, Fresh, Rows
<1>3. UNCHANGED <<rotates, vouches, current, login, pc, sid, row, reply, lost>>
  BY DEF Expire
<1>. QED  BY <1>2, <1>3

LEMMA TokenStart ==
    ASSUME IInv, NEW r \in Requests, NEW n \in Sids, Start(r, n)
    PROVE  TokenInv'
BY DEF Start, IInv, TypeInv, TypeOK, HoldInv, Goto, TokenInv, RowInv, ReplyInv, AloneInv,
       LatestInv, keycloak

LEMMA TokenRead ==
    ASSUME IInv, NEW r \in Requests,
           ReadMiss(r) \/ ReadFresh(r) \/ ReadExpired(r) \/ ReadFails(r)
    PROVE  TokenInv'
<1> USE BoundAssumption
    DEF IInv, TypeInv, TypeOK, HoldInv, Goto, TokenInv, RowInv, ReplyInv, AloneInv, LatestInv,
        keycloak, request, marks
<1>1. CASE ReadMiss(r)  BY <1>1 DEF ReadMiss, Refuse
<1>2. CASE ReadFresh(r)  BY <1>2 DEF ReadFresh
<1>3. CASE ReadExpired(r)
  <2>1. sid[r] \in Sids /\ session[sid[r]] # Null  BY <1>3 DEF ReadExpired
  <2>2. /\ session[sid[r]].token <= current[sid[r]]
        /\ session[sid[r]].vouch <= vouches[sid[r]]
    BY <2>1 DEF Rows, Vouches
  <2>. QED  BY <1>3, <2>1, <2>2 DEF ReadExpired
<1>4. CASE ReadFails(r)  BY <1>4 DEF ReadFails, Refuse
<1>. QED  BY <1>1, <1>2, <1>3, <1>4

(* An exchange: Keycloak takes its current token and counts up.            *)
LEMMA TokenExchange ==
    ASSUME IInv, NEW r \in Requests, ExchangeAccepted(r)
    PROVE  TokenInv'
<1> DEFINE n == sid[r]
           v == vouches[n] + 1
           t == TokenAfter(n, v)
<1> USE DEF IInv, TypeInv, TypeOK, HoldInv, TokenInv
<1>1. /\ n \in Sids /\ login[n] = "created" /\ row[r].token = current[n]
      /\ current[n] \in Nat /\ vouches[n] \in Nat
      /\ t = IF rotates THEN v ELSE 1
  BY DEF ExchangeAccepted, TokenAfter, RowInv
<1>2. /\ vouches' = [vouches EXCEPT ![n] = v]
      /\ current' = [current EXCEPT ![n] = t]
      /\ pc' = [pc EXCEPT ![r] = "save"]
      /\ reply'[r].vouch = v /\ reply'[r].token = t
      /\ \A q \in Requests : q # r => reply'[q] = reply[q]
      /\ UNCHANGED <<rotates, session, login, sid, row, lost>>
  BY DEF ExchangeAccepted, Goto, marks
<1>3. pc[r] = "refresh"  BY DEF ExchangeAccepted
<1>4. rotates => \A q \in Requests : sid[q] = n => pc[q] # "save"
  BY <1>1, <1>3 DEF AloneInv
<1>a. \A q \in Requests :
        /\ pc[q] \in {"refresh", "save"} => row[q].token \in Nat /\ row[q].vouch \in Nat
        /\ pc[q] = "save" => reply[q].vouch \in Nat /\ reply[q].token \in Nat
  BY BoundAssumption DEF Rows, Replies, Vouches
<1>b. session[n] # Null => session[n].vouch \in Nat /\ session[n].token \in Nat
  BY <1>1, BoundAssumption DEF Rows, Vouches
<1> HIDE DEF n, v, t
<1>5. v = vouches[n] + 1 /\ n = sid[r]  BY DEF n, v
<1>6. RowInv'  BY <1>1, <1>2, <1>5 DEF RowInv, Rows, Vouches
<1>7. ReplyInv'  BY <1>1, <1>2, <1>3, <1>4, <1>5, <1>a DEF ReplyInv, RowInv
<1>8. AloneInv'  BY <1>1, <1>2, <1>3, <1>4, <1>5, <1>a, <1>b DEF AloneInv, RowInv, ReplyInv
<1>9. LatestInv'  BY <1>1, <1>2, <1>3, <1>5 DEF LatestInv
<1>. QED  BY <1>6, <1>7, <1>8, <1>9

LEMMA TokenRefused ==
    ASSUME IInv, NEW r \in Requests, ExchangeRefused(r) \/ ExchangeFails(r)
    PROVE  TokenInv'
<1> DEFINE n == sid[r]
           v == vouches[n] + 1
           t == TokenAfter(n, v)
<1> USE DEF IInv, TypeInv, TypeOK, HoldInv, TokenInv
<1>1. /\ n \in Sids /\ pc[r] = "refresh" /\ pc' = [pc EXCEPT ![r] = "drop"]
      /\ UNCHANGED <<rotates, session, login, sid, row, reply>>
  BY DEF ExchangeRefused, ExchangeFails, Goto, marks
<1>2. CASE UNCHANGED <<vouches, current, lost>>
  BY <1>1, <1>2 DEF RowInv, ReplyInv, AloneInv, LatestInv
<1>3. CASE ~UNCHANGED <<vouches, current, lost>>
  <2>1. /\ row[r].token = current[n]
        /\ vouches' = [vouches EXCEPT ![n] = v]
        /\ current' = [current EXCEPT ![n] = t]
        /\ lost' = [lost EXCEPT ![n] = TRUE]
    BY <1>1, <1>3 DEF ExchangeRefused, ExchangeFails, keycloak, marks
  <2>2. /\ vouches[n] \in Nat /\ current[n] \in Nat
        /\ login[n] = "created"
        /\ t = IF rotates THEN v ELSE 1
    BY <1>1, <2>1 DEF TokenAfter, RowInv
  <2>3. \A q \in Requests :
          /\ pc[q] \in {"refresh", "save"} => row[q].token \in Nat /\ row[q].vouch \in Nat
          /\ pc[q] = "save" => reply[q].vouch \in Nat /\ reply[q].token \in Nat
    BY BoundAssumption DEF Rows, Replies, Vouches
  <2>4. session[n] # Null => session[n].vouch \in Nat /\ session[n].token \in Nat
    BY <1>1, BoundAssumption DEF Rows, Vouches
  <2>5. rotates => \A q \in Requests : sid[q] = n => pc[q] # "save"
    BY <1>1, <2>1, <2>2 DEF AloneInv
  <2> HIDE DEF n, v, t
  <2>6. v = vouches[n] + 1 /\ n = sid[r]  BY DEF n, v
  <2>7. RowInv'  BY <1>1, <2>1, <2>2, <2>4, <2>6 DEF RowInv
  <2>8. ReplyInv'  BY <1>1, <2>1, <2>2, <2>3, <2>5, <2>6 DEF ReplyInv, RowInv
  <2>9. AloneInv'  BY <1>1, <2>1, <2>2, <2>3, <2>4, <2>5, <2>6 DEF AloneInv
  <2>10. LatestInv'  BY <1>1, <2>1, <2>6 DEF LatestInv
  <2>. QED  BY <2>7, <2>8, <2>9, <2>10
<1>. QED  BY <1>2, <1>3

LEMMA TokenEnd ==
    ASSUME IInv, NEW r \in Requests, Drop(r) \/ Save(r) \/ SaveFails(r)
    PROVE  TokenInv'
<1> USE DEF IInv, TypeInv, TypeOK, HoldInv, Goto, TokenInv, RowInv, ReplyInv, AloneInv, LatestInv,
            keycloak, request, marks
<1>1. CASE Drop(r)  BY <1>1 DEF Drop, Refuse, Delete
<1>2. CASE Save(r)
  <2>1. /\ session'[sid[r]].vouch = reply[r].vouch
        /\ session'[sid[r]].token = reply[r].token
        /\ \A m \in Sids : m # sid[r] => session'[m] = session[m]
        /\ pc' = [pc EXCEPT ![r] = "served"]
        /\ UNCHANGED <<rotates, vouches, current, login, sid, row, reply, lost>>
    BY <1>2 DEF Save, Refreshed, Encrypted
  <2>2. pc[r] = "save" /\ sid[r] \in Sids /\ login[sid[r]] = "created"
    BY <1>2 DEF Save
  <2>. QED  BY <2>1, <2>2
<1>3. CASE SaveFails(r)  BY <1>3 DEF SaveFails, Refuse
<1>. QED  BY <1>1, <1>2, <1>3

LEMMA TokenRestart == ASSUME IInv, Restart PROVE TokenInv'
<1> USE DEF IInv, TypeInv, TypeOK, HoldInv, TokenInv, keycloak
<1>1. /\ \A r \in Requests : pc'[r] # "save" /\ pc'[r] # "refresh"
      /\ \A n \in Sids : lost'[n] = (lost[n] \/ At(n, {"save"}) # {})
      /\ UNCHANGED <<rotates, vouches, current, session, login, sid, row, reply>>
  BY DEF Restart, Busy, Waiting
<1>2. \A n \in Sids :
        (\E r \in Requests : sid[r] = n /\ pc[r] = "save") => lost'[n]
  BY <1>1 DEF At
<1>3. RowInv' /\ ReplyInv' /\ AloneInv'  BY <1>1 DEF RowInv, ReplyInv, AloneInv
<1>4. LatestInv'  BY <1>1, <1>2 DEF LatestInv
<1>. QED  BY <1>3, <1>4

LEMMA IInvStep == ASSUME IInv, [Next]_vars PROVE IInv'
<1>1. TypeInv'  BY TypeStep DEF IInv
<1>2. TokenInv'
  <2>1. CASE UNCHANGED vars
    BY <2>1 DEF IInv, TypeInv, TypeOK, TokenInv, RowInv, ReplyInv, AloneInv, LatestInv,
                vars, keycloak, request, marks
  <2>2. CASE Next
    BY <2>2, TokenLogin, TokenExpire, TokenStart, TokenRead, TokenExchange,
       TokenRefused, TokenEnd, TokenRestart
    DEF Next, Step, Exchange, Local
  <2>. QED  BY <2>1, <2>2
<1>. QED  BY <1>1, <1>2 DEF IInv

(* StoredTokenIsCurrent holds, with and without rotation, for any number   *)
(* of overlapping refreshes.                                               *)
THEOREM StoredCurrent == Spec => []StoredTokenIsCurrent
<1>1. Init => IInv  BY TypeInit, TokenInit DEF IInv
<1>2. IInv /\ [Next]_vars => IInv'  BY IInvStep
<1>3. IInv => StoredTokenIsCurrent
  BY DEF IInv, TokenInv, LatestInv, StoredTokenIsCurrent, At
<1>. QED  BY <1>1, <1>2, <1>3, PTL DEF Spec

(* What a step may do to the claims of a row that stays.                   *)
ClaimsStep ==
    \A n \in Sids : (session[n] # Null /\ session'[n] # Null) =>
        \/ session'[n].vouch >= session[n].vouch
        \/ /\ ~rotates
           /\ \E r \in At(n, {"save"}) :
                 /\ session'[n].vouch = reply[r].vouch
                 /\ reply[r].vouch > row[r].vouch

(* ClaimsNeverGoBack holds: only a request that saves replaces claims; its *)
(* answer is later than the row it had read and, with rotation, later than *)
(* any other.                                                              *)
THEOREM ClaimsForward == Spec => ClaimsNeverGoBack
<1>1. Init => IInv  BY TypeInit, TokenInit DEF IInv
<1>2. IInv /\ [Next]_vars => IInv'  BY IInvStep
<1>3. IInv /\ [Next]_vars => [ClaimsStep]_vars
  <2> SUFFICES ASSUME IInv, [Next]_vars PROVE ClaimsStep  OBVIOUS
  <2> USE DEF IInv, TypeInv, TypeOK, HoldInv, TokenInv
  <2>1. \A n \in Sids : session[n] # Null => session[n].vouch \in Nat
    BY BoundAssumption DEF Rows, Vouches
  <2>2. CASE UNCHANGED session  BY <2>1, <2>2 DEF ClaimsStep
  <2>3. ASSUME NEW n \in Sids, Callback(n)  PROVE ClaimsStep
    BY <2>1, <2>3 DEF ClaimsStep, Callback, RowInv
  <2>4. ASSUME NEW n \in Sids, Logout(n)  PROVE ClaimsStep
    BY <2>1, <2>4 DEF ClaimsStep, Logout, Delete
  <2>5. ASSUME NEW n \in Sids, Expire(n)  PROVE ClaimsStep
    <3>1. session[n] \in Rows  BY <2>5 DEF Expire, Fresh
    <3>2. session'[n] # Null => session'[n].vouch = session[n].vouch
      BY <2>5, <3>1 DEF Expire, Rows
    <3>3. \A m \in Sids : m # n => session'[m] = session[m]  BY <2>5 DEF Expire
    <3>. QED  BY <2>1, <3>2, <3>3 DEF ClaimsStep
  <2>6. ASSUME NEW r \in Requests, Drop(r)  PROVE ClaimsStep
    BY <2>1, <2>6 DEF ClaimsStep, Drop, Delete
  <2>7. ASSUME NEW r \in Requests, Save(r)  PROVE ClaimsStep
    <3>1. /\ session'[sid[r]].vouch = reply[r].vouch
          /\ \A m \in Sids : m # sid[r] => session'[m] = session[m]
          /\ pc[r] = "save" /\ sid[r] \in Sids
      BY <2>7 DEF Save, Refreshed, Encrypted
    <3>2. rotates => reply[r].vouch = vouches[sid[r]] /\ vouches[sid[r]] \in Nat
      BY <3>1 DEF ReplyInv
    <3>3. r \in At(sid[r], {"save"}) /\ reply[r].vouch > row[r].vouch
      BY <3>1 DEF At, ReplyInv
    <3>4. \A n \in Sids : n # sid[r] /\ session'[n] # Null /\ session[n] # Null
                            => session'[n].vouch >= session[n].vouch
      BY <2>1, <3>1
    <3>5. CASE rotates  BY <2>1, <3>1, <3>2, <3>4, <3>5 DEF ClaimsStep, RowInv
    <3>6. CASE ~rotates  BY <3>1, <3>3, <3>4, <3>6 DEF ClaimsStep
    <3>. QED  BY <3>5, <3>6
  <2>8. Next => UNCHANGED session
             \/ (\E n \in Sids : Callback(n) \/ Logout(n) \/ Expire(n))
             \/ (\E r \in Requests : Drop(r) \/ Save(r))
    BY DEF Next, Step, Exchange, Local, Login, CallbackFails, RevokeGrant, Start, ReadMiss, ReadFresh,
           ReadExpired, ReadFails, ExchangeAccepted, ExchangeRefused, ExchangeFails,
           SaveFails, Restart
  <2>. QED  BY <2>2, <2>3, <2>4, <2>5, <2>6, <2>7, <2>8 DEF vars
<1>4. ClaimsNeverGoBack <=> [][ClaimsStep]_vars  BY DEF ClaimsNeverGoBack, ClaimsStep
<1>. QED  BY <1>1, <1>2, <1>3, <1>4, PTL DEF Spec
=============================================================================
