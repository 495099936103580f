---------------------------- MODULE AgentTokens ----------------------------
(***************************************************************************)
(* Bearer tokens of agents: the tables `actors` and `agent_credentials`,   *)
(* the admin operations on them (internal/restapi/agents.go) and the       *)
(* authentication of /mcp requests (internal/auth/auth.go).                *)
(*                                                                         *)
(* One action is one SQL statement: statements of concurrent requests, of  *)
(* the admin and of the detached last_used_at goroutines interleave.  A    *)
(* raw token is 32 random bytes and the table holds its SHA-256, so a      *)
(* token is identified with the id of the credential it was issued for.    *)
(***************************************************************************)
EXTENDS Naturals

CONSTANTS
    ActorIds,     \* uuids an actor row may get
    CredIds,      \* uuids a credential row may get
    Requests,     \* requests to /mcp, each used once
    Null,         \* SQL NULL, and the absence of a row
    NoToken,      \* no Bearer header, or an empty token
    StrayToken,   \* a token this service never issued
    MaxClock      \* bound on the wall clock of a behaviour

ASSUME ClockAssumption == MaxClock \in Nat
ASSUME NullAssumption  == /\ Null \notin ActorIds
                          /\ Null \notin Nat
                          /\ Null \notin {"agent", "human"}
ASSUME TokenAssumption == NoToken \notin CredIds /\ StrayToken \notin CredIds

VARIABLES
    kind,       \* kind[a]: column kind of actor a, Null when there is no row
    owner,      \* owner[c]: column actor_id of credential c, Null when no row
    revokedAt,  \* revokedAt[c]: column revoked_at
    lastUsed,   \* lastUsed[c]: column last_used_at
    clock,      \* time.Now()
    auth,       \* auth[r]: where request r stands in RequireBearer
    token,      \* token[r]: the token r presents
    holder,     \* holder[r]: cred.ActorID as r read it
    touch,      \* touch[r]: where the last_used_at goroutine of r stands
    stamp,      \* stamp[r]: the time.Now() that goroutine took
    late        \* history: the token of r was already revoked when r arrived

dbVars  == <<kind, owner, revokedAt, lastUsed>>
reqVars == <<auth, token, holder, touch, stamp, late>>
vars    == <<dbVars, clock, reqVars>>

Times  == 0 .. MaxClock
Tokens == CredIds \cup {NoToken, StrayToken}

(* "refused" is a 401 for a reason the tables give; "errored" is the same  *)
(* 401 after a database error.  "cut" is a request the process died under. *)
AuthStates  == {"idle", "lookup", "load", "admitted", "refused", "errored", "cut"}
TouchStates == {"none", "spawned", "stamped", "done", "failed", "lost"}

TypeOK ==
    /\ kind      \in [ActorIds -> {"agent", "human", Null}]
    /\ owner     \in [CredIds -> ActorIds \cup {Null}]
    /\ revokedAt \in [CredIds -> Times \cup {Null}]
    /\ lastUsed  \in [CredIds -> Times \cup {Null}]
    /\ clock     \in Times
    /\ auth      \in [Requests -> AuthStates]
    /\ token     \in [Requests -> Tokens]
    /\ holder    \in [Requests -> ActorIds \cup {Null}]
    /\ touch     \in [Requests -> TouchStates]
    /\ stamp     \in [Requests -> Times \cup {Null}]
    /\ late      \in [Requests -> BOOLEAN]

Init ==
    /\ kind      = [a \in ActorIds |-> Null]
    /\ owner     = [c \in CredIds |-> Null]
    /\ revokedAt = [c \in CredIds |-> Null]
    /\ lastUsed  = [c \in CredIds |-> Null]
    /\ clock     = 0
    /\ auth      = [r \in Requests |-> "idle"]
    /\ token     = [r \in Requests |-> NoToken]
    /\ holder    = [r \in Requests |-> Null]
    /\ touch     = [r \in Requests |-> "none"]
    /\ stamp     = [r \in Requests |-> Null]
    /\ late      = [r \in Requests |-> FALSE]

-----------------------------------------------------------------------------
(* The tables.                                                             *)

Issued(c) == owner[c] # Null

(* token_hash = ? AND revoked_at IS NULL *)
Live(c) == Issued(c) /\ revokedAt[c] = Null

-----------------------------------------------------------------------------
(* Steps of an authentication: the verdict, and the row it goes on with.   *)

Conclude(r, verdict) ==
    /\ auth' = [auth EXCEPT ![r] = verdict]
    /\ UNCHANGED <<dbVars, clock, token, holder, touch, stamp, late>>

(* The row is read: spawn the goroutine and go on to its actor. *)
Hold(r, id) ==
    /\ auth'   = [auth EXCEPT ![r] = "load"]
    /\ holder' = [holder EXCEPT ![r] = id]
    /\ touch'  = [touch EXCEPT ![r] = "spawned"]
    /\ UNCHANGED <<dbVars, clock, token, stamp, late>>

-----------------------------------------------------------------------------
(* Faulty variants of actions below.  They are not part of Next: each is a *)
(* slip the code could have made, and shows that a property can fail.      *)

Faulty_LookupIgnoresRevocation(r) ==
    /\ auth[r] = "lookup" /\ token[r] \in CredIds
    /\ Hold(r, owner[token[r]])

Faulty_LookupHoldsCredential(r) ==
    /\ auth[r] = "lookup" /\ token[r] \in CredIds /\ Live(token[r])
    /\ Hold(r, token[r])

Faulty_LoadUnchecked(r) == auth[r] = "load" /\ Conclude(r, "admitted")

Faulty_LoadRefusesHumans(r) ==
    auth[r] = "load" /\ kind[holder[r]] # "agent" /\ Conclude(r, "refused")

Faulty_TouchSavesRow(r) ==
    /\ touch[r] = "stamped"
    /\ touch'     = [touch EXCEPT ![r] = "done"]
    /\ lastUsed'  = [lastUsed EXCEPT ![token[r]] = stamp[r]]
    /\ revokedAt' = [revokedAt EXCEPT ![token[r]] = Null]
    /\ UNCHANGED <<kind, owner, clock, auth, token, holder, stamp, late>>

Faulty_TouchByActor(r) ==
    /\ touch[r] = "stamped"
    /\ touch'    = [touch EXCEPT ![r] = "done"]
    /\ lastUsed' = [c \in CredIds |->
                        IF owner[c] = holder[r] THEN stamp[r] ELSE lastUsed[c]]
    /\ UNCHANGED <<kind, owner, revokedAt, clock, auth, token, holder, stamp, late>>

-----------------------------------------------------------------------------
(* The operations of the admin.                                            *)

(* The uuid is drawn fresh, so no row refers to it yet. *)
AddActor(a, k) ==
    /\ kind[a] = Null
    /\ \A c \in CredIds : owner[c] # a
    /\ kind' = [kind EXCEPT ![a] = k]
    /\ UNCHANGED <<owner, revokedAt, lastUsed, clock, reqVars>>

CreateAgent(a) == AddActor(a, "agent")

(* A human signs in for the first time (module HumanActors). *)
ProvisionHuman(a) == AddActor(a, "human")

(* The actor id is the path parameter of the request: nothing compares it  *)
(* with the actors table, and the schema declares no foreign key.          *)
Issue(c, a) ==
    /\ ~Issued(c)
    /\ owner' = [owner EXCEPT ![c] = a]
    /\ UNCHANGED <<kind, revokedAt, lastUsed, clock, reqVars>>

RevokeCredential(c) ==
    /\ Live(c)
    /\ revokedAt' = [revokedAt EXCEPT ![c] = clock]
    /\ UNCHANGED <<kind, owner, lastUsed, clock, reqVars>>

RevokeAll(a) ==
    /\ revokedAt' = [c \in CredIds |->
                        IF owner[c] = a /\ Live(c) THEN clock ELSE revokedAt[c]]
    /\ UNCHANGED <<kind, owner, lastUsed, clock, reqVars>>

-----------------------------------------------------------------------------
(* RequireBearer and Authenticate.                                         *)

Arrive(r, t) ==
    /\ auth[r] = "idle"
    /\ t \in CredIds => Issued(t)
    /\ auth'  = [auth EXCEPT ![r] = IF t = NoToken THEN "refused" ELSE "lookup"]
    /\ token' = [token EXCEPT ![r] = t]
    /\ late'  = [late EXCEPT ![r] = t \in CredIds /\ ~Live(t)]
    /\ UNCHANGED <<dbVars, clock, holder, touch, stamp>>

LookupFound(r) ==
    /\ auth[r] = "lookup"
    /\ token[r] \in CredIds
    /\ Live(token[r])
    /\ Hold(r, owner[token[r]])

LookupNotFound(r) ==
    /\ auth[r] = "lookup"
    /\ ~(token[r] \in CredIds /\ Live(token[r]))
    /\ Conclude(r, "refused")

LoadFound(r) ==
    /\ auth[r] = "load"
    /\ kind[holder[r]] # Null
    /\ Conclude(r, "admitted")

LoadNotFound(r) ==
    /\ auth[r] = "load"
    /\ kind[holder[r]] = Null
    /\ Conclude(r, "refused")

(* Either query may fail; the goroutine of a request past Lookup runs on.  *)
DatabaseError(r) ==
    /\ auth[r] \in {"lookup", "load"}
    /\ Conclude(r, "errored")

-----------------------------------------------------------------------------
(* The goroutine that records last_used_at: detached from the request, it  *)
(* takes the time and then updates one column of one row.                  *)

TouchStamp(r) ==
    /\ touch[r] = "spawned"
    /\ touch' = [touch EXCEPT ![r] = "stamped"]
    /\ stamp' = [stamp EXCEPT ![r] = clock]
    /\ UNCHANGED <<dbVars, clock, auth, token, holder, late>>

TouchCommit(r) ==
    /\ touch[r] = "stamped"
    /\ touch'    = [touch EXCEPT ![r] = "done"]
    /\ lastUsed' = [lastUsed EXCEPT ![token[r]] = stamp[r]]
    /\ UNCHANGED <<kind, owner, revokedAt, clock, auth, token, holder, stamp, late>>

TouchFails(r) ==
    /\ touch[r] = "stamped"
    /\ touch' = [touch EXCEPT ![r] = "failed"]
    /\ UNCHANGED <<dbVars, clock, auth, token, holder, stamp, late>>

-----------------------------------------------------------------------------
(* The process dies: its requests and goroutines with it, the tables stay. *)
Crash ==
    /\ auth'  = [r \in Requests |->
                    IF auth[r] \in {"lookup", "load"} THEN "cut" ELSE auth[r]]
    /\ touch' = [r \in Requests |->
                    IF touch[r] \in {"spawned", "stamped"} THEN "lost" ELSE touch[r]]
    /\ UNCHANGED <<dbVars, clock, token, holder, stamp, late>>

Tick ==
    /\ clock < MaxClock
    /\ clock' = clock + 1
    /\ UNCHANGED <<dbVars, reqVars>>

-----------------------------------------------------------------------------
Admin ==
    \/ \E a \in ActorIds : CreateAgent(a) \/ ProvisionHuman(a) \/ RevokeAll(a)
    \/ \E c \in CredIds, a \in ActorIds : Issue(c, a)
    \/ \E c \in CredIds : RevokeCredential(c)

Decide(r) ==
    \/ LookupFound(r)
    \/ LookupNotFound(r)
    \/ LoadFound(r)
    \/ LoadNotFound(r)
    \/ DatabaseError(r)

Touch(r) == TouchStamp(r) \/ TouchCommit(r) \/ TouchFails(r)

Next ==
    \/ Admin
    \/ \E r \in Requests, t \in Tokens : Arrive(r, t)
    \/ \E r \in Requests : Decide(r) \/ Touch(r)
    \/ Crash
    \/ Tick

(* A goroutine that can run is eventually scheduled and every statement    *)
(* ends, with or without an error.  Nothing is assumed of clients, of the  *)
(* admin, of the clock, or of crashes.                                     *)
Fairness == \A r \in Requests : WF_vars(Decide(r)) /\ WF_vars(Touch(r))

Spec == Init /\ [][Next]_vars /\ Fairness

-----------------------------------------------------------------------------
(* A request whose token was revoked before it arrived is never admitted,  *)
(* however its two queries interleave with the admin and with the updates  *)
(* of last_used_at that requests before the revocation left running.       *)
NoLateAdmission ==
    \A r \in Requests : late[r] => auth[r] \notin {"load", "admitted"}

(* An admitted request acts as the actor its token was issued for, and     *)
(* that actor has a row, although tokens are issued for any actor id.      *)
AdmittedAsOwner ==
    \A r \in Requests : auth[r] = "admitted" =>
        /\ token[r] \in CredIds
        /\ holder[r] = owner[token[r]]
        /\ holder[r] \in ActorIds
        /\ kind[holder[r]] # Null

(* A token that is still live was refused only because its owner has no    *)
(* row: neither revocations of other tokens nor the kind of its owner make *)
(* RequireBearer turn a good token away.                                   *)
NoFalseRefusal ==
    \A r \in Requests :
        (auth[r] = "refused" /\ token[r] \in CredIds /\ Live(token[r]))
            => kind[owner[token[r]]] = Null

(* last_used_at of a credential is the stamp of a request that presented   *)
(* that very credential and found it live.                                 *)
LastUsedIsEarned ==
    \A c \in CredIds : lastUsed[c] # Null =>
        \E r \in Requests :
            /\ token[r] = c
            /\ touch[r] = "done"
            /\ stamp[r] = lastUsed[c]
            /\ ~late[r]

(* A revocation is final: no later statement, in particular no last_used_at *)
(* update still in flight and no second revocation, changes or clears it.  *)
RevocationIsFinal ==
    [][\A c \in CredIds : revokedAt[c] # Null => revokedAt'[c] = revokedAt[c]]_vars

-----------------------------------------------------------------------------
(* The promise of BearerGate, kept by these queries and columns.  A token  *)
(* is live while its row has no revoked_at; the lookup is the moment that  *)
(* decides; a 401 is a 401 whatever the reason.                            *)
Phase == [idle    |-> "idle", lookup  |-> "asked", load |-> "vouched", admitted |-> "in",
          refused |-> "out",  errored |-> "out",   cut  |-> "out"]

Gate == INSTANCE BearerGate WITH
            Owners  <- ActorIds,
            Tokens  <- CredIds,
            Strange <- {NoToken, StrayToken},
            Nobody  <- Null,
            live    <- {c \in CredIds : Live(c)},
            phase   <- [r \in Requests |-> Phase[auth[r]]],
            shown   <- token,
            as      <- holder

(* However the two queries of a request interleave with revocations, with  *)
(* the goroutines of other requests and with crashes, whom RequireBearer   *)
(* lets in a gate that looks at each token once could have let in as well. *)
ImplementsGate == Gate!Spec
=============================================================================
