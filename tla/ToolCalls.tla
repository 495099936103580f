----------------------------- MODULE ToolCalls -----------------------------
(***************************************************************************)
(* The audit log of tool calls: AgentTokens composed with the tool handler *)
(* of an admitted request and the Recorder that wraps it                   *)
(* (internal/mcpserver/recorder.go, internal/tools/weather/registrar.go).  *)
(*                                                                         *)
(* The Recorder runs inside the request, before the answer: the tool       *)
(* returns, one INSERT is tried without the request's context, then the    *)
(* result goes back whether or not the INSERT succeeded.                   *)
(***************************************************************************)
EXTENDS Naturals, Sequences

CONSTANTS ActorIds, CredIds, Requests, Null, NoToken, StrayToken

(* What AgentTokens assumes of its constants. *)
ASSUME AuthAssumption ==
    /\ Null \notin ActorIds
    /\ Null \notin Nat
    /\ Null \notin {"agent", "human"}
    /\ NoToken \notin CredIds /\ StrayToken \notin CredIds

VARIABLES
    kind, owner, revokedAt, lastUsed,             \* AgentTokens
    auth, token, holder, touch, stamp, late,      \* AgentTokens
    dbUp,      \* the database answers statements
    client,    \* client[r]: "here", or "gone" once it has disconnected
    call,      \* call[r]: where the tool call of request r stands
    outcome,   \* outcome[r]: what the tool returned
    history    \* table tool_calls, in the order of the INSERTs

(* The log does not depend on when a token was revoked or last used: here  *)
(* the clock of AgentTokens stands still.                                  *)
Auth == INSTANCE AgentTokens WITH clock <- 0, MaxClock <- 0

authVars == <<kind, owner, revokedAt, lastUsed,
              auth, token, holder, touch, stamp, late>>
callVars == <<client, call, outcome, history>>
vars     == <<authVars, dbUp, callVars>>

CallStates == {"none", "running", "returned", "noted", "answered", "cut"}
Outcomes   == {"ok", "error"}

(* A row: actor_id and is_error; its request stands for the generated id.  *)
Rows == [call : Requests, actor : ActorIds, isError : BOOLEAN]

TypeOK ==
    /\ Auth!TypeOK
    /\ dbUp    \in BOOLEAN
    /\ client  \in [Requests -> {"here", "gone"}]
    /\ call    \in [Requests -> CallStates]
    /\ outcome \in [Requests -> Outcomes \cup {Null}]
    /\ history \in Seq(Rows)

Init ==
    /\ Auth!Init
    /\ dbUp    = TRUE
    /\ client  = [r \in Requests |-> "here"]
    /\ call    = [r \in Requests |-> "none"]
    /\ outcome = [r \in Requests |-> Null]
    /\ history = << >>

-----------------------------------------------------------------------------
RowsOf(r) == {i \in 1 .. Len(history) : history[i].call = r}

(* Faulty: the row names the credential of the call, not its actor. *)
Faulty_RowForCredential(r) ==
    [call |-> r, actor |-> token[r], isError |-> outcome[r] = "error"]

RowFor(r) == [call |-> r, actor |-> holder[r], isError |-> outcome[r] = "error"]

-----------------------------------------------------------------------------
(* Faulty variants of actions below, not part of Next. *)

Faulty_DeletePurgesActor(a) ==
    /\ revokedAt' = [c \in CredIds |->
                        IF owner[c] = a /\ Auth!Live(c) THEN 0 ELSE revokedAt[c]]
    /\ kind' = [kind EXCEPT ![a] = Null]
    /\ UNCHANGED <<owner, lastUsed, auth, token, holder, touch, stamp, late>>
    /\ UNCHANGED <<dbUp, callVars>>

Faulty_DeletePurgesHistory(a) ==
    /\ Auth!RevokeAll(a)
    /\ history' = SelectSeq(history, LAMBDA row : row.actor # a)
    /\ UNCHANGED <<dbUp, client, call, outcome>>

Faulty_RecordWithContext(r) ==
    /\ call[r] = "returned"
    /\ call' = [call EXCEPT ![r] = "noted"]
    /\ IF dbUp /\ client[r] = "here"
       THEN history' = Append(history, RowFor(r))
       ELSE history' = history
    /\ UNCHANGED <<authVars, dbUp, client, outcome>>

Faulty_RecordRetries(r) ==
    /\ call[r] = "returned"
    /\ dbUp
    /\ call' = [call EXCEPT ![r] = "noted"]
    /\ history' = Append(history, RowFor(r))
    /\ UNCHANGED <<authVars, dbUp, client, outcome>>

(* Faulty: the INSERT runs in a goroutine that the answer does not await.  *)
Faulty_RecordDetached(r) ==
    /\ \/ call[r] = "returned" /\ call' = [call EXCEPT ![r] = "noted"] /\ history' = history
       \/ /\ call[r] \in {"noted", "answered"} /\ RowsOf(r) = {} /\ dbUp
          /\ call' = call
          /\ history' = Append(history, RowFor(r))
    /\ UNCHANGED <<authVars, dbUp, client, outcome>>

-----------------------------------------------------------------------------
(* Steps of AgentTokens that leave the calls alone.  A statement reaches   *)
(* the tables only while the database is up, and errors otherwise.         *)

DeleteActor(a) == Auth!RevokeAll(a) /\ UNCHANGED <<dbUp, callVars>>

AdminStep ==
    /\ dbUp
    /\ \/ \E a \in ActorIds : Auth!CreateAgent(a) \/ Auth!ProvisionHuman(a)
       \/ \E c \in CredIds, a \in ActorIds : Auth!Issue(c, a)
       \/ \E c \in CredIds : Auth!RevokeCredential(c)
    /\ UNCHANGED <<dbUp, callVars>>

Arrive(r, t) == Auth!Arrive(r, t) /\ UNCHANGED <<dbUp, callVars>>

Authenticate(r) ==
    /\ \/ dbUp /\ (Auth!LookupFound(r) \/ Auth!LookupNotFound(r))
       \/ dbUp /\ (Auth!LoadFound(r) \/ Auth!LoadNotFound(r))
       \/ ~dbUp /\ Auth!DatabaseError(r)
    /\ UNCHANGED <<dbUp, callVars>>

Touch(r) ==
    /\ \/ Auth!TouchStamp(r)
       \/ dbUp /\ Auth!TouchCommit(r)
       \/ ~dbUp /\ Auth!TouchFails(r)
    /\ UNCHANGED <<dbUp, callVars>>

-----------------------------------------------------------------------------
(* The tool call.                                                          *)

(* The MCP server dispatches an admitted tools/call; the actor in the      *)
(* handler's context is the one RequireBearer put there.  That the context *)
(* is that of this very HTTP request is an assumption about the MCP        *)
(* library: recorder.go:55 relies on it, nothing in the repository shows it.*)
StartTool(r) ==
    /\ auth[r] = "admitted"
    /\ call[r] = "none"
    /\ call' = [call EXCEPT ![r] = "running"]
    /\ UNCHANGED <<authVars, dbUp, client, outcome, history>>

ToolReturns(r, o) ==
    /\ call[r] = "running"
    /\ call'    = [call EXCEPT ![r] = "returned"]
    /\ outcome' = [outcome EXCEPT ![r] = o]
    /\ UNCHANGED <<authVars, dbUp, client, history>>

(* The INSERT.  An error of it is logged and otherwise ignored; it does    *)
(* not tell whether the row was written before the connection was lost.    *)
Record(r) ==
    /\ call[r] = "returned"
    /\ call' = [call EXCEPT ![r] = "noted"]
    /\ \/ history' = Append(history, RowFor(r))
       \/ ~dbUp /\ history' = history
    /\ UNCHANGED <<authVars, dbUp, client, outcome>>

Answer(r) ==
    /\ call[r] = "noted"
    /\ call' = [call EXCEPT ![r] = "answered"]
    /\ UNCHANGED <<authVars, dbUp, client, outcome, history>>

-----------------------------------------------------------------------------
(* The environment.                                                        *)

Disconnect(r) ==
    /\ call[r] \in {"running", "returned", "noted"}
    /\ client[r] = "here"
    /\ client' = [client EXCEPT ![r] = "gone"]
    /\ UNCHANGED <<authVars, dbUp, call, outcome, history>>

DatabaseChanges ==
    /\ dbUp' = ~dbUp
    /\ UNCHANGED <<authVars, callVars>>

Crash ==
    /\ Auth!Crash
    /\ call' = [r \in Requests |->
                   IF \/ call[r] \in {"running", "returned", "noted"}
                      \/ call[r] = "none" /\ auth[r] = "admitted"
                   THEN "cut" ELSE call[r]]
    /\ UNCHANGED <<dbUp, client, outcome, history>>

-----------------------------------------------------------------------------
Serve(r) ==
    \/ Authenticate(r)
    \/ \E o \in Outcomes : ToolReturns(r, o)
    \/ Record(r)
    \/ Answer(r)

Next ==
    \/ AdminStep
    \/ \E a \in ActorIds : dbUp /\ DeleteActor(a)
    \/ \E r \in Requests, t \in Auth!Tokens : Arrive(r, t)
    \/ \E r \in Requests : Serve(r) \/ Touch(r) \/ StartTool(r) \/ Disconnect(r)
    \/ DatabaseChanges
    \/ Crash

(* Goroutines are scheduled and statements end; a tool returns because the *)
(* HTTP client it uses gives up after its timeout (internal/httpclient).   *)
(* An admitted request need not be a tools/call, so StartTool is not fair. *)
Fairness == \A r \in Requests : WF_vars(Serve(r)) /\ WF_vars(Touch(r))

Spec == Init /\ [][Next]_vars /\ Fairness

-----------------------------------------------------------------------------
(* History stays attributable: the actor of a row has a row of its own and *)
(* is the owner of the token the call presented, revoked since or not; no  *)
(* row belongs to a request that came with a revoked token; and the row    *)
(* says how the tool of the call ended.                                    *)
HistoryIsAttributable ==
    \A i \in 1 .. Len(history) :
        LET row == history[i] IN
        /\ kind[row.actor] # Null
        /\ token[row.call] \in CredIds /\ row.actor = owner[token[row.call]]
        /\ ~late[row.call]
        /\ outcome[row.call] = IF row.isError THEN "error" ELSE "ok"

(* Nothing rewrites or removes a row, deleting its actor included.         *)
HistoryIsAppendOnly ==
    [][/\ Len(history') >= Len(history)
       /\ SubSeq(history', 1, Len(history)) = history]_vars

(* An answer never overtakes its row: the log is one to which the row of a *)
(* call is added before the call is answered or cut off, once, even when   *)
(* the INSERT is carried out and reports an error, or never.               *)
Log == INSTANCE AuditLog WITH
    Calls  <- Requests,
    Actors <- ActorIds,
    log    <- history,
    closed <- {r \in Requests : call[r] \in {"answered", "cut"}}

ImplementsLog == Log!Spec

(* While the database works every call whose tool returned gets its row,   *)
(* its client gone or not, unless the process dies first.                  *)
ReturnedCallsAreLogged ==
    []dbUp => \A r \in Requests :
        call[r] = "returned" ~> (RowsOf(r) # {} \/ call[r] = "cut")

(* Observability never blocks what it observes: a request that is being    *)
(* authenticated or has called a tool is answered, even while the database *)
(* is down, unless the process dies, and its last_used_at goroutine ends.  *)
CallsAreAnswered ==
    \A r \in Requests :
        /\ auth[r] = "lookup" ~> auth[r] \notin {"lookup", "load"}
        /\ call[r] = "running" ~> call[r] \in {"answered", "cut"}
        /\ touch[r] = "spawned" ~> touch[r] \in {"done", "failed", "lost"}

(* Composition and outages add nothing to what authentication does: every  *)
(* behaviour is one of AgentTokens, its fairness included.                 *)
AuthenticationUnchanged == Auth!Spec
=============================================================================
