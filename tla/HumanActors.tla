---------------------------- MODULE HumanActors ----------------------------
(***************************************************************************)
(* Just-in-time provisioning of humans: GetOrCreateHumanActor              *)
(* (internal/storage/human_repo.go), called for every authenticated        *)
(* request of a human, beside the creation of agents, which share the      *)
(* table `actors` and its unique index on the name.                        *)
(*                                                                         *)
(* A call is one transaction of several statements and a read after it.    *)
(* Writes become visible at the commit; a statement that meets an          *)
(* uncommitted row with the same name or subject waits for the other       *)
(* transaction, as a unique index makes it do (external: the database).    *)
(***************************************************************************)
EXTENDS FiniteSets

CONSTANTS
    Calls,      \* calls of GetOrCreateHumanActor; each stands for its new uuid
    AgentIds,   \* uuids of agents
    Subjects,   \* Keycloak subjects
    Names,      \* display names and agent names
    Claims,     \* what Keycloak may assert: subject, display name and role
    Null

Roles    == {"viewer", "admin"}
ActorIds == Calls \cup AgentIds

ASSUME ClaimAssumption == Claims \subseteq [subject : Subjects, name : Names, role : Roles]
ASSUME IdAssumption ==
    /\ Calls \cap AgentIds = {}
    /\ Null \notin ActorIds \cup Names \cup {"agent", "human"}

VARIABLES
    name,        \* name[a]: column name of actor a, Null when there is no row
    kind,        \* kind[a]: column kind, Null when there is no row
    identities,  \* table user_identities
    pc,          \* pc[p]: where call p stands
    claims,      \* claims[p]: the subject, displayName and role it was given
    wrote,       \* wrote[p]: what the transaction wrote to `actors` so far
    actor        \* actor[p]: identity.ActorID, as the call knows it

vars == <<name, kind, identities, pc, claims, wrote, actor>>

Identities == [actor : ActorIds, subject : Subjects, role : Roles]

(* "conflict": rolled back because of what the tables hold; "errored":     *)
(* rolled back, or failed after the commit, for any other database error.  *)
Open  == {"find", "update", "insert", "reload", "link", "commit"}
Ended == {"done", "conflict", "errored", "cut"}

TypeOK ==
    /\ name       \in [ActorIds -> Names \cup {Null}]
    /\ kind       \in [ActorIds -> {"agent", "human", Null}]
    /\ identities \subseteq Identities
    /\ pc         \in [Calls -> {"idle", "read"} \cup Open \cup Ended]
    /\ claims     \in [Calls -> Claims \cup {Null}]
    /\ wrote      \in [Calls -> {"nothing", "row", "kind"}]
    /\ actor      \in [Calls -> ActorIds \cup {Null}]

Init ==
    /\ name       = [a \in ActorIds |-> Null]
    /\ kind       = [a \in ActorIds |-> Null]
    /\ identities = {}
    /\ pc         = [p \in Calls |-> "idle"]
    /\ claims     = [p \in Calls |-> Null]
    /\ wrote      = [p \in Calls |-> "nothing"]
    /\ actor      = [p \in Calls |-> Null]

-----------------------------------------------------------------------------
(* The committed tables, and what open transactions hold of them.          *)

Named(n)    == {a \in ActorIds : name[a] = n}
IdentityOf(s) == {i \in identities : i.subject = s}

(* An open transaction wrote a row of this name, or of this subject. *)
NameHeld(n, p) ==
    \E q \in Calls \ {p} :
        pc[q] \in Open /\ wrote[q] # "nothing" /\ claims[q].name = n
SubjectHeld(s, p) ==
    \E q \in Calls \ {p} : pc[q] = "commit" /\ claims[q].subject = s

Goto(p, step) == pc' = [pc EXCEPT ![p] = step]

Rollback(p, step) ==
    /\ Goto(p, step)
    /\ wrote' = [wrote EXCEPT ![p] = "nothing"]
    /\ UNCHANGED <<name, kind, identities, claims, actor>>

(* Faulty: the two keys are swapped. *)
Faulty_LinkedBySwapped(p) == [actor   |-> claims[p].subject,
                              subject |-> actor[p],
                              role    |-> claims[p].role]

LinkedBy(p) == [actor   |-> actor[p],
                subject |-> claims[p].subject,
                role    |-> claims[p].role]

-----------------------------------------------------------------------------
(* Faulty variants of actions below, not part of Next. *)

(* The reload finds the row of that name, whoever's it is. *)
Faulty_ReloadByName(p) ==
    /\ pc[p] = "reload"
    /\ actor' = [actor EXCEPT ![p] =
                    IF wrote[p] = "row" THEN p ELSE CHOOSE a \in Named(claims[p].name) : TRUE]
    /\ Goto(p, "link")
    /\ UNCHANGED <<name, kind, identities, claims, wrote>>

(* No unique index on keycloak_subject. *)
Faulty_LinkAgain(p) ==
    /\ pc[p] = "link"
    /\ Goto(p, "commit")
    /\ UNCHANGED <<name, kind, identities, claims, wrote, actor>>

(* The INSERT is not part of the transaction. *)
Faulty_InsertAtOnce(p) ==
    /\ pc[p] = "insert"
    /\ ~NameHeld(claims[p].name, p)
    /\ Goto(p, "reload")
    /\ IF Named(claims[p].name) = {}
       THEN /\ name'  = [name EXCEPT ![p] = claims[p].name]
            /\ kind'  = [kind EXCEPT ![p] = "human"]
            /\ wrote' = [wrote EXCEPT ![p] = "row"]
       ELSE /\ wrote' = [wrote EXCEPT ![p] = "kind"]
            /\ UNCHANGED <<name, kind>>
    /\ UNCHANGED <<identities, claims, actor>>

(* A reload that finds nothing tries the INSERT again. *)
Faulty_ReloadRetries(p) ==
    /\ pc[p] = "reload"
    /\ wrote[p] = "kind"
    /\ Goto(p, "insert")
    /\ UNCHANGED <<name, kind, identities, claims, wrote, actor>>

-----------------------------------------------------------------------------
(* GetOrCreateHumanActor, statement by statement.                          *)

Begin(p, c) ==
    /\ pc[p] = "idle"
    /\ claims' = [claims EXCEPT ![p] = c]
    /\ Goto(p, "find")
    /\ UNCHANGED <<name, kind, identities, wrote, actor>>

FindHit(p) ==
    /\ pc[p] = "find"
    /\ \E i \in IdentityOf(claims[p].subject) : actor' = [actor EXCEPT ![p] = i.actor]
    /\ Goto(p, "update")
    /\ UNCHANGED <<name, kind, identities, claims, wrote>>

FindMiss(p) ==
    /\ pc[p] = "find"
    /\ IdentityOf(claims[p].subject) = {}
    /\ Goto(p, "insert")
    /\ UNCHANGED <<name, kind, identities, claims, wrote, actor>>

(* The UPDATE of the role and the commit: one column of one row. *)
UpdateRole(p) ==
    /\ pc[p] = "update"
    /\ identities' = {IF i.actor = actor[p] THEN [i EXCEPT !.role = claims[p].role] ELSE i
                         : i \in identities}
    /\ Goto(p, "read")
    /\ UNCHANGED <<name, kind, claims, wrote, actor>>

(* INSERT ... ON CONFLICT (name) DO UPDATE SET kind = 'human'. *)
InsertActor(p) ==
    /\ pc[p] = "insert"
    /\ ~NameHeld(claims[p].name, p)
    /\ wrote' = [wrote EXCEPT ![p] = IF Named(claims[p].name) = {} THEN "row" ELSE "kind"]
    /\ Goto(p, "reload")
    /\ UNCHANGED <<name, kind, identities, claims, actor>>

(* SELECT ... WHERE name = ? AND kind = 'human': First(actor) adds         *)
(* AND id = <actor.ID>, and actor.ID still holds the uuid made for this    *)
(* call (external: GORM), so only a row of this call is found.             *)
ReloadHit(p) ==
    /\ pc[p] = "reload"
    /\ wrote[p] = "row"
    /\ actor' = [actor EXCEPT ![p] = p]
    /\ Goto(p, "link")
    /\ UNCHANGED <<name, kind, identities, claims, wrote>>

ReloadMiss(p) ==
    /\ pc[p] = "reload"
    /\ wrote[p] = "kind"
    /\ Rollback(p, "conflict")

(* INSERT ... ON CONFLICT (actor_id) DO UPDATE SET role: fails when the    *)
(* subject has an identity with another actor.                             *)
Link(p) ==
    /\ pc[p] = "link"
    /\ ~SubjectHeld(claims[p].subject, p)
    /\ \A i \in IdentityOf(claims[p].subject) : i.actor = actor[p]
    /\ Goto(p, "commit")
    /\ UNCHANGED <<name, kind, identities, claims, wrote, actor>>

LinkDuplicate(p) ==
    /\ pc[p] = "link"
    /\ \E i \in IdentityOf(claims[p].subject) : i.actor # actor[p]
    /\ Rollback(p, "conflict")

(* Both rows appear at once.  The conflict branches are those the two      *)
(* ON CONFLICT clauses would take.                                         *)
Commit(p) ==
    /\ pc[p] = "commit"
    /\ Goto(p, "read")
    /\ name'  = IF wrote[p] = "row" THEN [name EXCEPT ![p] = claims[p].name] ELSE name
    /\ kind'  = [kind EXCEPT ![actor[p]] = "human"]
    /\ identities' =
           IF \E i \in identities : i.actor = actor[p]
           THEN {IF i.actor = actor[p] THEN [i EXCEPT !.role = claims[p].role] ELSE i
                    : i \in identities}
           ELSE identities \cup {LinkedBy(p)}
    /\ wrote' = [wrote EXCEPT ![p] = "nothing"]
    /\ UNCHANGED <<claims, actor>>

(* The row read after the transaction: actors are never deleted. *)
ReadActor(p) ==
    /\ pc[p] = "read"
    /\ kind[actor[p]] # Null
    /\ Goto(p, "done")
    /\ UNCHANGED <<name, kind, identities, claims, wrote, actor>>

(* Any statement may fail: a lost connection, a lock wait that times out.  *)
DatabaseError(p) ==
    /\ pc[p] \in Open \cup {"read"}
    /\ Rollback(p, "errored")

-----------------------------------------------------------------------------
(* The rest of the system.                                                 *)

(* POST /actors: a name that is taken is an error and changes nothing.     *)
CreateAgent(a, n) ==
    /\ kind[a] = Null
    /\ Named(n) = {}
    /\ \A p \in Calls : ~NameHeld(n, p)
    /\ name' = [name EXCEPT ![a] = n]
    /\ kind' = [kind EXCEPT ![a] = "agent"]
    /\ UNCHANGED <<identities, pc, claims, wrote, actor>>

(* The process dies and the database rolls its transactions back. *)
Crash ==
    /\ pc' = [p \in Calls |-> IF pc[p] \in Open \cup {"read"} THEN "cut" ELSE pc[p]]
    /\ wrote' = [p \in Calls |-> "nothing"]
    /\ UNCHANGED <<name, kind, identities, claims, actor>>

-----------------------------------------------------------------------------
Step(p) ==
    \/ FindHit(p)
    \/ FindMiss(p)
    \/ UpdateRole(p)
    \/ InsertActor(p)
    \/ ReloadHit(p)
    \/ ReloadMiss(p)
    \/ Link(p)
    \/ LinkDuplicate(p)
    \/ Commit(p)
    \/ ReadActor(p)

Next ==
    \/ \E p \in Calls, c \in Claims : Begin(p, c)
    \/ \E p \in Calls : Step(p) \/ DatabaseError(p)
    \/ \E a \in AgentIds, n \in Names : CreateAgent(a, n)
    \/ Crash

(* A statement that can proceed does; nothing makes the database fail. *)
Fairness == \A p \in Calls : WF_vars(Step(p))

Spec == Init /\ [][Next]_vars /\ Fairness

-----------------------------------------------------------------------------
(* A human is one actor: calls for one subject that succeed return the     *)
(* same actor, first logins in parallel, renames and crashes included, and *)
(* calls for two subjects never do ("different subjects should produce     *)
(* different actors", internal/storage/human_repo_test.go:64).             *)
SubjectsAreActors ==
    \A p, q \in Calls :
        (pc[p] = "done" /\ pc[q] = "done") =>
            (claims[p].subject = claims[q].subject <=> actor[p] = actor[q])

(* Provisioning is all or nothing: a human actor has exactly one identity  *)
(* and an identity has a human actor, in every committed state.            *)
ProvisioningIsAtomic ==
    \A a \in ActorIds :
        Cardinality({i \in identities : i.actor = a}) = IF kind[a] = "human" THEN 1 ELSE 0

(* A display name equal to an agent's name never turns the agent into a    *)
(* human, though the INSERT says so: the transaction does not commit.      *)
AgentsStayAgents ==
    [][\A a \in ActorIds : kind[a] = "agent" => kind'[a] = "agent"]_vars

(* Waiting for each other's rows, calls never wait for ever. *)
CallsEnd ==
    \A p \in Calls : pc[p] = "find" ~> pc[p] \in Ended

(* "It is idempotent and safe under concurrent calls"                      *)
(* (internal/storage/human_repo.go:10): no call fails because of another   *)
(* call for the same subject and name.                                     *)
SafeUnderConcurrentCalls == \A p \in Calls : pc[p] # "conflict"
=============================================================================
