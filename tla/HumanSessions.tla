--------------------------- MODULE HumanSessions ---------------------------
(***************************************************************************)
(* Browser sessions of humans: login and logout                            *)
(* (internal/humanauth/oidc_handlers.go) and OIDCProvider.Authenticate     *)
(* (internal/humanauth/oidc_provider.go), which serves a request from the  *)
(* claims cached in the session row while they are fresh and re-validates  *)
(* them with the stored refresh token once they are not.                   *)
(*                                                                         *)
(* A request holds the row it read while it waits for Keycloak: it then    *)
(* saves that copy, or deletes the row.  Keycloak's claims are named by    *)
(* the number of the exchange that asserted them.                          *)
(***************************************************************************)
EXTENDS Naturals

CONSTANTS
    Sids,        \* sessions, each named by the login that may create it
    Requests,    \* requests carrying a session cookie, each used once
    Null,
    MaxVouches   \* bound on Keycloak's successful exchanges per session

ASSUME BoundAssumption == MaxVouches \in Nat \ {0}
ASSUME NullAssumption  == Null \notin Sids

VARIABLES
    rotates,   \* Keycloak replaces the refresh token at every use of it
    (* Keycloak, per session *)
    granted,   \* granted[n]: the grant of the login is still good
    vouches,   \* vouches[n]: number of exchanges that succeeded
    current,   \* current[n]: the refresh token Keycloak accepts
    (* the service *)
    keyEpoch,  \* OIDC_ENCRYPTION_KEY of the running process
    session,   \* table sessions
    (* the browser *)
    login,     \* login[n]: "none", "redirected", "created" or "failed"
    (* requests *)
    pc, sid, row, reply,
    (* history *)
    loggedOut, \* loggedOut[n]: a logout deleted the session
    raced,     \* raced[n]: a refresh was under way at the last such logout
    lost,      \* lost[n]: an answer of Keycloak's was lost before it was saved
    hopeless   \* hopeless[r]: no claims were left or could come when r began

keycloak == <<granted, vouches, current>>
request  == <<pc, sid, row, reply>>
marks    == <<loggedOut, raced, lost, hopeless>>
vars     == <<rotates, keycloak, keyEpoch, session, login, request, marks>>

Vouches   == 1 .. MaxVouches
KeyEpochs == {1, 2}

(* A row: the claims and the refresh token of exchange number vouch and    *)
(* token, encrypted under key; fresh until expires_at.                     *)
Rows    == [vouch : Vouches, token : Vouches, key : KeyEpochs, fresh : BOOLEAN]
Replies == [vouch : Vouches, token : Vouches]

Waiting == {"refresh", "save"}
Busy    == {"read", "drop"} \cup Waiting

TypeOK ==
    /\ rotates   \in BOOLEAN
    /\ granted   \in [Sids -> BOOLEAN]
    /\ vouches   \in [Sids -> 0 .. MaxVouches]
    /\ current   \in [Sids -> 0 .. MaxVouches]
    /\ keyEpoch  \in KeyEpochs
    /\ session   \in [Sids -> Rows \cup {Null}]
    /\ login     \in [Sids -> {"none", "redirected", "created", "failed"}]
    /\ pc        \in [Requests -> {"idle", "served", "refused", "cut"} \cup Busy]
    /\ sid       \in [Requests -> Sids \cup {Null}]
    /\ row       \in [Requests -> Rows \cup {Null}]
    /\ reply     \in [Requests -> Replies \cup {Null}]
    /\ loggedOut \in [Sids -> BOOLEAN]
    /\ raced     \in [Sids -> BOOLEAN]
    /\ lost      \in [Sids -> BOOLEAN]
    /\ hopeless  \in [Requests -> BOOLEAN]

Init ==
    /\ rotates   \in BOOLEAN
    /\ granted   = [n \in Sids |-> FALSE]
    /\ vouches   = [n \in Sids |-> 0]
    /\ current   = [n \in Sids |-> 0]
    /\ keyEpoch  = 1
    /\ session   = [n \in Sids |-> Null]
    /\ login     = [n \in Sids |-> "none"]
    /\ pc        = [r \in Requests |-> "idle"]
    /\ sid       = [r \in Requests |-> Null]
    /\ row       = [r \in Requests |-> Null]
    /\ reply     = [r \in Requests |-> Null]
    /\ loggedOut = [n \in Sids |-> FALSE]
    /\ raced     = [n \in Sids |-> FALSE]
    /\ lost      = [n \in Sids |-> FALSE]
    /\ hopeless  = [r \in Requests |-> FALSE]

-----------------------------------------------------------------------------
Fresh(n) == session[n] # Null /\ session[n].fresh

(* Requests on session n that stand at one of these steps. *)
At(n, steps) == {r \in Requests : sid[r] = n /\ pc[r] \in steps}

Goto(r, step) == pc' = [pc EXCEPT ![r] = step]

Refuse(r) ==
    /\ Goto(r, "refused")
    /\ UNCHANGED <<sid, row, reply>>

Delete(n) == session' = [session EXCEPT ![n] = Null]

(* encryptRefreshToken: the row of exchange v, its token t under the key   *)
(* of the process.                                                         *)
Encrypted(v, t) == [vouch |-> v, token |-> t, key |-> keyEpoch, fresh |-> TRUE]

(* decryptRefreshToken: AES-GCM opens what the same key has sealed.        *)
Decrypts(n) == session[n].key = keyEpoch

(* No claims of session n are left and none can come: its row is gone or   *)
(* expired, no answer waits to be saved, and either the grant is revoked   *)
(* or nobody can present the token Keycloak accepts, neither from the row  *)
(* nor from a copy of it.                                                  *)
NoneLeft(n) ==
    /\ ~Fresh(n)
    /\ At(n, {"save"}) = {}
    /\ \/ ~granted[n]
       \/ /\ session[n] = Null \/ ~Decrypts(n) \/ session[n].token # current[n]
          /\ \A q \in At(n, {"refresh"}) : row[q].token # current[n]

(* The refresh token Keycloak accepts after exchange number v. *)
TokenAfter(n, v) == IF rotates THEN v ELSE current[n]

-----------------------------------------------------------------------------
(* Faulty variants of definitions below, not part of Next. *)

Faulty_LogoutClearsCookieOnly(n) ==
    /\ login[n] = "created"
    /\ loggedOut' = [loggedOut EXCEPT ![n] = TRUE]
    /\ raced' = [raced EXCEPT ![n] = At(n, Waiting) # {}]
    /\ UNCHANGED <<rotates, keycloak, keyEpoch, session, login, request, lost, hopeless>>

Faulty_ServeStaleClaims(r) ==
    /\ pc[r] = "drop"
    /\ Goto(r, "served")
    /\ UNCHANGED <<sid, row, reply, rotates, keycloak, keyEpoch, session, login, marks>>

(* The refreshed row keeps the refresh token it had. *)
Faulty_RefreshedKeepsToken(r) == Encrypted(reply[r].vouch, row[r].token)

(* A failed refresh keeps the session for another interval: the copy that  *)
(* the request holds is saved with a new expires_at.                       *)
Faulty_DropProlongs(r) ==
    /\ pc[r] = "drop"
    /\ Refuse(r)
    /\ session' = [session EXCEPT ![sid[r]] = [row[r] EXCEPT !.fresh = TRUE]]
    /\ UNCHANGED <<rotates, keycloak, keyEpoch, login, marks>>

-----------------------------------------------------------------------------
(* Login and logout.                                                       *)

(* /auth/login sends the browser to Keycloak with a state cookie. *)
Login(n) ==
    /\ login[n] = "none"
    /\ login' = [login EXCEPT ![n] = "redirected"]
    /\ UNCHANGED <<rotates, keycloak, keyEpoch, session, request, marks>>

(* /auth/callback: the state matches, the code is exchanged and verified,  *)
(* and a row is created under a fresh id.                                  *)
Callback(n) ==
    /\ login[n] = "redirected"
    /\ login'   = [login EXCEPT ![n] = "created"]
    /\ granted' = [granted EXCEPT ![n] = TRUE]
    /\ vouches' = [vouches EXCEPT ![n] = 1]
    /\ current' = [current EXCEPT ![n] = 1]
    /\ session' = [session EXCEPT ![n] = Encrypted(1, 1)]
    /\ UNCHANGED <<rotates, keyEpoch, request, marks>>

(* The state cookie is gone (it expires, and another login in the browser  *)
(* overwrites it), or the exchange, the verification or the INSERT fails.  *)
CallbackFails(n) ==
    /\ login[n] = "redirected"
    /\ login' = [login EXCEPT ![n] = "failed"]
    /\ UNCHANGED <<rotates, keycloak, keyEpoch, session, request, marks>>

(* /auth/logout deletes the row; Keycloak is not told.  A DELETE that      *)
(* fails changes nothing: its error is ignored.                            *)
Logout(n) ==
    /\ login[n] = "created"
    /\ Delete(n)
    /\ loggedOut' = [loggedOut EXCEPT ![n] = TRUE]
    /\ raced' = [raced EXCEPT ![n] = At(n, Waiting) # {}]
    /\ UNCHANGED <<rotates, keycloak, keyEpoch, login, request, lost, hopeless>>

-----------------------------------------------------------------------------
(* Authenticate, step by step.  The cookie may be sent again after a       *)
(* logout: nothing but the row decides.                                    *)

Start(r, n) ==
    /\ pc[r] = "idle"
    /\ login[n] = "created"
    /\ Goto(r, "read")
    /\ sid' = [sid EXCEPT ![r] = n]
    /\ hopeless' = [hopeless EXCEPT ![r] = NoneLeft(n)]
    /\ UNCHANGED <<rotates, keycloak, keyEpoch, session, login, row, reply,
                   loggedOut, raced, lost>>

ReadMiss(r) ==
    /\ pc[r] = "read"
    /\ session[sid[r]] = Null
    /\ Refuse(r)
    /\ UNCHANGED <<rotates, keycloak, keyEpoch, session, login, marks>>

ReadFresh(r) ==
    /\ pc[r] = "read"
    /\ Fresh(sid[r])
    /\ Goto(r, "served")
    /\ UNCHANGED <<sid, row, reply, rotates, keycloak, keyEpoch, session, login, marks>>

(* An expired row is decrypted: with another key, it has to go. *)
ReadExpired(r) ==
    /\ pc[r] = "read"
    /\ session[sid[r]] # Null
    /\ ~Fresh(sid[r])
    /\ row' = [row EXCEPT ![r] = session[sid[r]]]
    /\ Goto(r, IF Decrypts(sid[r]) THEN "refresh" ELSE "drop")
    /\ UNCHANGED <<sid, reply, rotates, keycloak, keyEpoch, session, login, marks>>

ReadFails(r) ==
    /\ pc[r] = "read"
    /\ Refuse(r)
    /\ UNCHANGED <<rotates, keycloak, keyEpoch, session, login, marks>>

(* Keycloak's answer (external): it takes the refresh token it gave last.  *)
ExchangeAccepted(r) ==
    /\ pc[r] = "refresh"
    /\ granted[sid[r]]
    /\ row[r].token = current[sid[r]]
    /\ vouches[sid[r]] < MaxVouches
    /\ LET n == sid[r]  v == vouches[n] + 1 IN
       /\ vouches' = [vouches EXCEPT ![n] = v]
       /\ current' = [current EXCEPT ![n] = TokenAfter(n, v)]
       /\ reply'   = [reply EXCEPT ![r] = [vouch |-> v, token |-> TokenAfter(n, v)]]
    /\ Goto(r, "save")
    /\ UNCHANGED <<rotates, granted, keyEpoch, session, login, sid, row, marks>>

ExchangeRefused(r) ==
    /\ pc[r] = "refresh"
    /\ ~granted[sid[r]] \/ row[r].token # current[sid[r]]
    /\ Goto(r, "drop")
    /\ UNCHANGED <<sid, row, reply, rotates, keycloak, keyEpoch, session, login, marks>>

(* The exchange fails on the way there, or on the way back. *)
ExchangeFails(r) ==
    /\ pc[r] = "refresh"
    /\ Goto(r, "drop")
    /\ \/ UNCHANGED <<vouches, current, lost>>
       \/ LET n == sid[r]  v == vouches[n] + 1 IN
          /\ granted[n] /\ row[r].token = current[n] /\ vouches[n] < MaxVouches
          /\ vouches' = [vouches EXCEPT ![n] = v]
          /\ current' = [current EXCEPT ![n] = TokenAfter(n, v)]
          /\ lost'    = [lost EXCEPT ![n] = TRUE]
    /\ UNCHANGED <<rotates, granted, keyEpoch, session, login, sid, row, reply,
                   loggedOut, raced, hopeless>>

(* db.Delete(&session) by id, whatever the row holds by now; its error is  *)
(* ignored.                                                                *)
Drop(r) ==
    /\ pc[r] = "drop"
    /\ Refuse(r)
    /\ Delete(sid[r]) \/ UNCHANGED session
    /\ UNCHANGED <<rotates, keycloak, keyEpoch, login, marks>>

Refreshed(r) == Encrypted(reply[r].vouch, reply[r].token)

(* db.Save(&session): UPDATE by id, and INSERT when no row matched. *)
Save(r) ==
    /\ pc[r] = "save"
    /\ session' = [session EXCEPT ![sid[r]] = Refreshed(r)]
    /\ Goto(r, "served")
    /\ UNCHANGED <<sid, row, reply, rotates, keycloak, keyEpoch, login, marks>>

SaveFails(r) ==
    /\ pc[r] = "save"
    /\ Refuse(r)
    /\ lost' = [lost EXCEPT ![sid[r]] = TRUE]
    /\ UNCHANGED <<rotates, keycloak, keyEpoch, session, login, loggedOut, raced, hopeless>>

-----------------------------------------------------------------------------
(* The environment.                                                        *)

(* sessionRefreshInterval has passed since the row was written. *)
Expire(n) ==
    /\ Fresh(n)
    /\ session' = [session EXCEPT ![n].fresh = FALSE]
    /\ UNCHANGED <<rotates, keycloak, keyEpoch, login, request, marks>>

(* The account is disabled, or its Keycloak session ended. *)
RevokeGrant(n) ==
    /\ granted[n]
    /\ granted' = [granted EXCEPT ![n] = FALSE]
    /\ UNCHANGED <<rotates, vouches, current, keyEpoch, session, login, request, marks>>

(* The process is restarted, perhaps with a new encryption key; a key that *)
(* was replaced does not come back.                                        *)
Restart ==
    /\ keyEpoch' \in {k \in KeyEpochs : k >= keyEpoch}
    /\ pc' = [r \in Requests |-> IF pc[r] \in Busy THEN "cut" ELSE pc[r]]
    /\ lost' = [n \in Sids |-> lost[n] \/ At(n, {"save"}) # {}]
    /\ UNCHANGED <<rotates, keycloak, session, login, sid, row, reply,
                   loggedOut, raced, hopeless>>

-----------------------------------------------------------------------------
Exchange(r) ==
    \/ ExchangeAccepted(r)
    \/ ExchangeRefused(r)
    \/ ExchangeFails(r)

(* What the service does by itself. *)
Local(r) ==
    \/ ReadMiss(r)
    \/ ReadFresh(r)
    \/ ReadExpired(r)
    \/ ReadFails(r)
    \/ Drop(r)
    \/ Save(r)
    \/ SaveFails(r)

Step(r) == Exchange(r) \/ Local(r)

Next ==
    \/ \E n \in Sids : Login(n) \/ Callback(n) \/ CallbackFails(n) \/ Logout(n)
    \/ \E n \in Sids : Expire(n) \/ RevokeGrant(n)
    \/ \E r \in Requests, n \in Sids : Start(r, n)
    \/ \E r \in Requests : Step(r)
    \/ Restart

(* Goroutines run and statements end.  Exchanges are not fair: a refresh   *)
(* runs on context.Background (oidc_handlers.go:47) and the client it uses *)
(* has no timeout, so Keycloak may keep a request waiting for ever.        *)
Fairness == \A r \in Requests : WF_vars(Local(r))

Spec == Init /\ [][Next]_vars /\ Fairness

-----------------------------------------------------------------------------
(* A logout is final: unless a refresh of the session was under way when   *)
(* it deleted the row, no request brings the row back.                     *)
LogoutIsFinal ==
    \A n \in Sids : loggedOut[n] /\ ~raced[n] => session[n] = Null

(* No request is served on claims that no one vouches for: one that began  *)
(* when the session was gone or expired, and when nothing could renew it   *)
(* any more, is refused, whatever its neighbours do.  Nothing can when the *)
(* grant is revoked, when the row does not open under the present key, and *)
(* when the row holds a token that an exchange has replaced whose answer   *)
(* was lost or not saved.                                                  *)
HopelessRequestsAreRefused ==
    \A r \in Requests : hopeless[r] => pc[r] # "served"

(* The stored refresh token is the one Keycloak accepts, with and without  *)
(* rotation and however refreshes overlap, once none of them still has to  *)
(* save its answer and unless an answer was lost.                          *)
StoredTokenIsCurrent ==
    \A n \in Sids :
        (session[n] # Null /\ At(n, {"save"}) = {} /\ ~lost[n])
            => session[n].token = current[n]

(* Superseded claims do not come back.  With rotation the claims of a row  *)
(* only get newer, however refreshes overlap.  Without it a refresh that   *)
(* was overtaken may still put its answer over a newer one, but only its   *)
(* answer: claims newer than the row it had read, never a copy of that row.*)
ClaimsNeverGoBack ==
    [][\A n \in Sids : (session[n] # Null /\ session'[n] # Null) =>
           \/ session'[n].vouch >= session[n].vouch
           \/ /\ ~rotates
              /\ \E r \in At(n, {"save"}) :
                    /\ session'[n].vouch = reply[r].vouch
                    /\ reply[r].vouch > row[r].vouch]_vars

(* "Session is a server-side browser session created after OIDC login."    *)
(* (internal/storage/models.go:27): a row appears only at a callback.      *)
SessionsComeFromLogin ==
    [][\A n \in Sids : (session[n] = Null /\ session'[n] # Null)
           => login[n] = "redirected"]_vars
=============================================================================
