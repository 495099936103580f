---------------------------- MODULE AdminAccess ----------------------------
(***************************************************************************)
(* Who may administer: from a member list in Keycloak to a request on an   *)
(* administrative route (internal/restapi/router.go).                      *)
(*                                                                         *)
(* Composes HumanSessions, all of whose sessions are one human's here,     *)
(* with what RequireHumanAuth and RequireAdmin                             *)
(* (internal/humanauth/middleware.go) do with the identity it returns: the *)
(* role asserted at an exchange is cached in the session, copied into the  *)
(* request, written to user_identities and, for administrative routes,     *)
(* compared with "admin".                                                  *)
(***************************************************************************)
EXTENDS Naturals

CONSTANTS Sids, Requests, Null, MaxVouches

VARIABLES
    (* HumanSessions *)
    rotates, granted, vouches, current, keyEpoch, session, login,
    pc, sid, row, reply, loggedOut, raced, lost, hopeless,
    (* Keycloak *)
    present,   \* the role the human's groups give at present
    asserted,  \* asserted[n][v]: the role in the claims of exchange v
    (* the service *)
    stored,    \* user_identities.role, Null before the first request
    (* requests *)
    role,      \* role[r]: the role in the context of r
    stage,     \* stage[r]: where r stands behind OIDCProvider.Authenticate
    (* history *)
    settled    \* settled[r]: when r began, all that could decide its role
               \* agreed with Keycloak, which has not changed its mind since

sessionVars == <<rotates, granted, vouches, current, keyEpoch, session, login,
                 pc, sid, row, reply, loggedOut, raced, lost, hopeless>>
vars == <<sessionVars, present, asserted, stored, role, stage, settled>>

S == INSTANCE HumanSessions

Roles  == {"admin", "viewer"}

(* What HumanSessions assumes of its constants; and Null is no role.       *)
ASSUME SessionAssumption ==
    /\ MaxVouches \in Nat \ {0}
    /\ Null \notin Sids \cup Roles

Ended  == {"acted", "forbidden", "read", "error", "cut"}
Stages == {"auth", "route"} \cup Ended

TypeOK ==
    /\ S!TypeOK
    /\ present  \in Roles
    /\ asserted \in [Sids -> [S!Vouches -> Roles \cup {Null}]]
    /\ stored   \in Roles \cup {Null}
    /\ role     \in [Requests -> Roles \cup {Null}]
    /\ stage    \in [Requests -> Stages]
    /\ settled  \in [Requests -> BOOLEAN]
    /\ \A r \in Requests : pc[r] = "served" => role[r] # Null

Init ==
    /\ S!Init
    /\ present  \in Roles
    /\ asserted = [n \in Sids |-> [v \in S!Vouches |-> Null]]
    /\ stored   = Null
    /\ role     = [r \in Requests |-> Null]
    /\ stage    = [r \in Requests |-> "auth"]
    /\ settled  = [r \in Requests |-> FALSE]

-----------------------------------------------------------------------------
(* Faulty variants of definitions below, not part of Next. *)

(* RequireAdmin asks the database instead of the context. *)
Faulty_AdmittedByStoredRole(r) == stored = "admin"

(* The middleware keeps the role that the session had before the refresh. *)
Faulty_RoleOfReply(r) == asserted[sid[r]][row[r].vouch]

(* A failed provisioning ends the session too. *)
Faulty_ProvisionFailsAndLogsOut(r) ==
    /\ pc[r] = "served"
    /\ stage[r] = "auth"
    /\ stage' = [stage EXCEPT ![r] = "error"]
    /\ session' = [session EXCEPT ![sid[r]] = Null]
    /\ UNCHANGED <<rotates, granted, vouches, current, keyEpoch, login, pc, sid,
                   row, reply, loggedOut, raced, lost, hopeless,
                   present, asserted, stored, role, settled>>

(* The role is taken from the id_token of the login only. *)
Faulty_AssertAtLogin(n) ==
    asserted' = IF vouches[n] > 0 THEN asserted
                ELSE [asserted EXCEPT ![n][vouches'[n]] = present]

-----------------------------------------------------------------------------
(* Keycloak.                                                               *)

(* The human is added to the administrators' group or removed from it. *)
ChangeRole ==
    /\ present' \in Roles \ {present}
    /\ settled' = [r \in Requests |-> FALSE]
    /\ UNCHANGED <<sessionVars, asserted, stored, role, stage>>

(* The id_token of the exchange that has just succeeded, and the role that *)
(* roleForGroups finds in its groups.                                      *)
Assert(n) ==
    asserted' = IF vouches'[n] = vouches[n] THEN asserted
                ELSE [asserted EXCEPT ![n][vouches'[n]] = present]

-----------------------------------------------------------------------------
(* Login and logout, expiry and restart.                                   *)

Callback(n) ==
    /\ S!Callback(n)
    /\ Assert(n)
    /\ UNCHANGED <<present, stored, role, stage, settled>>

OtherSessionStep(n) ==
    /\ \/ S!Login(n) \/ S!CallbackFails(n) \/ S!Logout(n)
       \/ S!Expire(n) \/ S!RevokeGrant(n)
    /\ UNCHANGED <<present, asserted, stored, role, stage, settled>>

Restart ==
    /\ S!Restart
    /\ stage' = [r \in Requests |->
                    IF pc[r] = "served" /\ stage[r] \notin Ended THEN "cut" ELSE stage[r]]
    /\ UNCHANGED <<present, asserted, stored, role, settled>>

-----------------------------------------------------------------------------
(* OIDCProvider.Authenticate.                                              *)

(* The roles that a request beginning now on session n may find cached:    *)
(* that of the fresh row, and those about to be saved.                     *)
Cached(n) ==
    (IF S!Fresh(n) THEN {asserted[n][session[n].vouch]} ELSE {})
        \cup {asserted[n][reply[q].vouch] : q \in S!At(n, {"save"})}

Start(r, n) ==
    /\ S!Start(r, n)
    /\ settled' = [settled EXCEPT ![r] = Cached(n) \subseteq {present}]
    /\ UNCHANGED <<present, asserted, stored, role, stage>>

(* The refresh at Keycloak: when it succeeds a role is asserted. *)
Exchange(r) ==
    /\ S!Exchange(r)
    /\ Assert(sid[r])
    /\ UNCHANGED <<present, stored, role, stage, settled>>

(* The identity is that of the cached claims. *)
ReadFresh(r) ==
    /\ S!ReadFresh(r)
    /\ role' = [role EXCEPT ![r] = asserted[sid[r]][session[sid[r]].vouch]]
    /\ UNCHANGED <<present, asserted, stored, stage, settled>>

(* The identity is that of the new claims. *)
RoleOfReply(r) == asserted[sid[r]][reply[r].vouch]

Save(r) ==
    /\ S!Save(r)
    /\ role' = [role EXCEPT ![r] = RoleOfReply(r)]
    /\ UNCHANGED <<present, asserted, stored, stage, settled>>

OtherStep(r) ==
    /\ \/ S!ReadMiss(r) \/ S!ReadExpired(r) \/ S!ReadFails(r)
       \/ S!Drop(r) \/ S!SaveFails(r)
    /\ UNCHANGED <<present, asserted, stored, role, stage, settled>>

(* Faulty: a lock per session, held while Keycloak is asked. *)
Faulty_AuthenticateInTurn(r) ==
    /\ pc[r] = "read" => S!At(sid[r], {"refresh"}) = {}
    /\ ReadFresh(r) \/ Save(r) \/ OtherStep(r)

(* Requests on one session authenticate side by side, with no lock.        *)
Authenticate(r) == ReadFresh(r) \/ Save(r) \/ OtherStep(r)

-----------------------------------------------------------------------------
(* The middleware and the routes behind it.                                *)

(* GetOrCreateHumanActor creates the identity or updates its role (in      *)
(* HumanActors, statement by statement).                                   *)
Provision(r) ==
    /\ pc[r] = "served"
    /\ stage[r] = "auth"
    /\ stored' = role[r]
    /\ stage'  = [stage EXCEPT ![r] = "route"]
    /\ UNCHANGED <<sessionVars, present, asserted, role, settled>>

ProvisionFails(r) ==
    /\ pc[r] = "served"
    /\ stage[r] = "auth"
    /\ stage' = [stage EXCEPT ![r] = "error"]
    /\ UNCHANGED <<sessionVars, present, asserted, stored, role, settled>>

Finish(r, end) ==
    /\ stage[r] = "route"
    /\ stage' = [stage EXCEPT ![r] = end]
    /\ UNCHANGED <<sessionVars, present, asserted, stored, role, settled>>

(* RequireAdmin *)
Admitted(r) == role[r] = "admin"

Act(r)    == Admitted(r) /\ Finish(r, "acted")
Forbid(r) == ~Admitted(r) /\ Finish(r, "forbidden")

(* /me and the history are open to any human. *)
Read(r) == Finish(r, "read")

-----------------------------------------------------------------------------
Local(r) ==
    \/ Authenticate(r)
    \/ Provision(r)
    \/ ProvisionFails(r)
    \/ Act(r)
    \/ Forbid(r)
    \/ Read(r)

Step(r) == Exchange(r) \/ Local(r)

Next ==
    \/ ChangeRole
    \/ \E n \in Sids : Callback(n) \/ OtherSessionStep(n)
    \/ \E r \in Requests, n \in Sids : Start(r, n)
    \/ \E r \in Requests : Step(r)
    \/ Restart

(* As in HumanSessions: exchanges are not fair.  Statements of the         *)
(* provisioning end too.                                                   *)
Fairness == \A r \in Requests : WF_vars(Local(r))

Spec == Init /\ [][Next]_vars /\ Fairness

-----------------------------------------------------------------------------
(* A change of role takes effect with the next exchange: a request that    *)
(* begins when no claims of another role are cached, or about to be, is    *)
(* decided by the role Keycloak gives, whatever other requests of the human*)
(* do in the meantime and whatever older role they put back into the       *)
(* stored identity.                                                        *)
RoleChangesTakeEffect ==
    \A r \in Requests : settled[r] =>
        /\ role[r] \in {Null, present}
        /\ stage[r] = "acted" => present = "admin"
        /\ stage[r] = "forbidden" => present = "viewer"

(* The middleware and the routes only use a session: with them, sessions   *)
(* behave as HumanSessions says.                                           *)
SessionsUnchanged == S!Init /\ [][S!Next]_(S!vars)

(* Keycloak may keep a request waiting for ever; that request holds up     *)
(* nobody else.  Every request gets as far as Keycloak or to its end, and  *)
(* every one that Keycloak has answered ends, whatever fails on its way    *)
(* through provider, middleware and route.                                 *)
Over(r) == pc[r] \in {"refused", "cut"} \/ stage[r] \in Ended

RequestsAreAnswered ==
    \A r \in Requests :
        /\ pc[r] = "read" ~> Over(r) \/ pc[r] = "refresh"
        /\ pc[r] \in {"drop", "save"} ~> Over(r)
=============================================================================
