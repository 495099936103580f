------------------------- MODULE HumanActorsProofs -------------------------
(***************************************************************************)
(* Theorems about HumanActors, for any calls, agents, subjects and names.  *)
(***************************************************************************)
EXTENDS HumanActors, FiniteSetTheorems, TLAPS

(* What a call has done by the time it stands at a step. *)
CallInv ==
    \A p \in Calls :
        /\ pc[p] # "idle" => claims[p] \in Claims
        /\ pc[p] \in {"find", "insert", "reload", "link", "commit"} => kind[p] = Null
        /\ pc[p] = "idle" => kind[p] = Null
        /\ pc[p] \in {"link", "commit"} => actor[p] = p /\ wrote[p] = "row"

(* Identities and human actors are the same thing; neither the actor nor   *)
(* the subject of an identity has another one.                             *)
IdentityInv ==
    /\ \A i \in identities : i.actor \in Calls /\ kind[i.actor] = "human"
    /\ \A a \in ActorIds : kind[a] = "human" => \E i \in identities : i.actor = a
    /\ \A i, j \in identities : i.actor = j.actor \/ i.subject = j.subject => i = j
    /\ \A a \in ActorIds : kind[a] = "agent" => a \in AgentIds

(* A transaction about to commit an identity is alone with its subject.    *)
CommitInv ==
    \A p \in Calls : pc[p] = "commit" =>
        /\ \A i \in identities : i.subject # claims[p].subject
        /\ \A q \in Calls : q # p /\ pc[q] = "commit" => claims[q].subject # claims[p].subject

(* A call that found or committed its human holds the identity's actor.    *)
FoundInv ==
    \A p \in Calls : pc[p] \in {"update", "read", "done"} =>
        \E i \in identities : i.actor = actor[p] /\ i.subject = claims[p].subject

IInv == TypeOK /\ CallInv /\ IdentityInv /\ CommitInv /\ FoundInv

-----------------------------------------------------------------------------
(* UPDATE user_identities SET role = r WHERE actor_id = a changes no key.  *)

WithRole(ids, a, r) == {IF i.actor = a THEN [i EXCEPT !.role = r] ELSE i : i \in ids}

(* The keys of the rows ids are unique. *)
Keyed(ids) == \A i, j \in ids : i.actor = j.actor \/ i.subject = j.subject => i = j

LEMMA RoleOnly ==
    ASSUME NEW ids, ids \subseteq Identities, Keyed(ids),
           NEW a \in ActorIds \cup {Null}, NEW r \in Roles
    PROVE  /\ WithRole(ids, a, r) \subseteq Identities
           /\ Keyed(WithRole(ids, a, r))
           /\ \A i \in ids : \E j \in WithRole(ids, a, r) :
                  j.actor = i.actor /\ j.subject = i.subject
           /\ \A j \in WithRole(ids, a, r) : \E i \in ids :
                  j.actor = i.actor /\ j.subject = i.subject
<1> DEFINE new(i) == IF i.actor = a THEN [i EXCEPT !.role = r] ELSE i
<1>1. \A i \in ids : new(i) \in Identities /\ new(i).actor = i.actor /\ new(i).subject = i.subject
  BY DEF Identities
<1> HIDE DEF new
<1>2. WithRole(ids, a, r) = {new(i) : i \in ids}  BY DEF WithRole, new
<1>3. \A j \in WithRole(ids, a, r) : \E i \in ids : j = new(i)  BY <1>2
<1>4. \A i \in ids : new(i) \in WithRole(ids, a, r)  BY <1>2
<1>5. Keyed(WithRole(ids, a, r))  BY <1>1, <1>3 DEF Keyed
<1>. QED  BY <1>1, <1>3, <1>4, <1>5

-----------------------------------------------------------------------------
LEMMA InvInit == Init => IInv
<1> SUFFICES ASSUME Init PROVE IInv  OBVIOUS
<1> USE DEF Init
<1>1. TypeOK  BY DEF TypeOK, Identities
<1>2. CallInv /\ CommitInv /\ FoundInv  BY DEF CallInv, CommitInv, FoundInv, ActorIds
<1>3. IdentityInv  BY IdAssumption DEF IdentityInv
<1>. QED  BY <1>1, <1>2, <1>3 DEF IInv

(* Steps that leave the tables alone.                                      *)
LEMMA InvWalk ==
    ASSUME IInv, NEW p \in Calls,
           \/ \E c \in Claims : Begin(p, c)
           \/ FindHit(p) \/ FindMiss(p) \/ InsertActor(p) \/ ReloadHit(p) \/ ReloadMiss(p)
           \/ Link(p) \/ LinkDuplicate(p) \/ ReadActor(p) \/ DatabaseError(p)
    PROVE  IInv'
<1> USE ClaimAssumption, IdAssumption
    DEF IInv, TypeOK, CallInv, IdentityInv, CommitInv, FoundInv, Goto, Rollback, Open, Ended
<1>1. ASSUME NEW c \in Claims, Begin(p, c)  PROVE IInv'  BY <1>1 DEF Begin
<1>2. CASE FindHit(p)
  <2>1. PICK i \in identities : i.subject = claims[p].subject /\ actor' = [actor EXCEPT ![p] = i.actor]
    BY <1>2 DEF FindHit, IdentityOf
  <2>2. i.actor \in ActorIds  BY DEF ActorIds
  <2>. QED  BY <1>2, <2>1, <2>2 DEF FindHit
<1>3. CASE FindMiss(p)  BY <1>3 DEF FindMiss
<1>4. CASE InsertActor(p)  BY <1>4 DEF InsertActor
<1>5. CASE ReloadHit(p)  BY <1>5 DEF ReloadHit, ActorIds
<1>6. CASE ReloadMiss(p)  BY <1>6 DEF ReloadMiss
<1>7. CASE Link(p)
  <2>1. \A i \in identities : i.subject # claims[p].subject
    BY <1>7 DEF Link, IdentityOf
  <2>2. \A q \in Calls : q # p /\ pc[q] = "commit" => claims[q].subject # claims[p].subject
    BY <1>7 DEF Link, SubjectHeld
  <2>. QED  BY <1>7, <2>1, <2>2 DEF Link
<1>8. CASE LinkDuplicate(p)  BY <1>8 DEF LinkDuplicate
<1>9. CASE ReadActor(p)  BY <1>9 DEF ReadActor
<1>10. CASE DatabaseError(p)  BY <1>10 DEF DatabaseError
<1>. QED  BY <1>1, <1>2, <1>3, <1>4, <1>5, <1>6, <1>7, <1>8, <1>9, <1>10

LEMMA InvUpdateRole == ASSUME IInv, NEW p \in Calls, UpdateRole(p) PROVE IInv'
<1> DEFINE r == claims[p].role
<1>1. r \in Roles /\ actor[p] \in ActorIds \cup {Null}
  BY ClaimAssumption DEF UpdateRole, IInv, TypeOK, CallInv
<1>2. identities' = WithRole(identities, actor[p], r)  BY DEF UpdateRole, WithRole
<1>3. identities \subseteq Identities /\ Keyed(identities)
  BY DEF IInv, TypeOK, IdentityInv, Keyed
<1> HIDE DEF r
<1>4. /\ identities' \subseteq Identities
      /\ \A i \in identities : \E j \in identities' : j.actor = i.actor /\ j.subject = i.subject
      /\ \A j \in identities' : \E i \in identities : j.actor = i.actor /\ j.subject = i.subject
      /\ Keyed(identities')
  <2> DEFINE W == WithRole(identities, actor[p], r)
  <2>1. /\ W \subseteq Identities
        /\ \A i \in identities : \E j \in W : j.actor = i.actor /\ j.subject = i.subject
        /\ \A j \in W : \E i \in identities : j.actor = i.actor /\ j.subject = i.subject
        /\ Keyed(W)
    BY <1>1, <1>3, RoleOnly, Zenon
  <2>. QED  BY <1>2, <2>1, Zenon
<1>5. /\ pc[p] = "update"
      /\ pc' = [pc EXCEPT ![p] = "read"]
      /\ UNCHANGED <<name, kind, claims, wrote, actor>>
  BY DEF UpdateRole, Goto
<1>6. TypeOK'  BY <1>4, <1>5 DEF IInv, TypeOK
<1>7. CallInv'  BY <1>5 DEF IInv, TypeOK, CallInv
<1>8. IdentityInv'  BY <1>4, <1>5 DEF IInv, IdentityInv, Keyed
<1>9. CommitInv'  BY <1>4, <1>5 DEF IInv, TypeOK, CommitInv
<1>10. FoundInv'  BY <1>4, <1>5 DEF IInv, TypeOK, FoundInv
<1>. QED  BY <1>6, <1>7, <1>8, <1>9, <1>10 DEF IInv

(* The commit of a first login: a new actor and its identity, at once.     *)
LEMMA CommitIsFirst ==
    ASSUME IInv, NEW p \in Calls, Commit(p)
    PROVE  /\ kind[p] = Null
           /\ kind' = [kind EXCEPT ![p] = "human"]
           /\ identities' = identities \cup {LinkedBy(p)}
           /\ LinkedBy(p) \in Identities
           /\ LinkedBy(p).actor = p
           /\ LinkedBy(p).subject = claims[p].subject
<1>1. /\ pc[p] = "commit" /\ actor[p] = p /\ kind[p] = Null /\ claims[p] \in Claims
  BY DEF Commit, IInv, CallInv
<1>2. \A i \in identities : i.actor # p  BY <1>1, IdAssumption DEF IInv, IdentityInv
<1>3. /\ LinkedBy(p) \in Identities
      /\ LinkedBy(p).actor = p
      /\ LinkedBy(p).subject = claims[p].subject
  BY <1>1, ClaimAssumption DEF LinkedBy, Identities, ActorIds
<1>. QED  BY <1>1, <1>2, <1>3 DEF Commit

LEMMA InvCommit == ASSUME IInv, NEW p \in Calls, Commit(p) PROVE IInv'
<1> DEFINE new == LinkedBy(p)
<1>1. /\ kind[p] = Null
      /\ kind' = [kind EXCEPT ![p] = "human"]
      /\ identities' = identities \cup {new}
      /\ new \in Identities /\ new.actor = p /\ new.subject = claims[p].subject
  BY CommitIsFirst
<1> HIDE DEF new
<1>2. /\ pc[p] = "commit" /\ actor[p] = p /\ wrote[p] = "row"
      /\ name' = [name EXCEPT ![p] = claims[p].name]
      /\ pc' = [pc EXCEPT ![p] = "read"]
      /\ wrote' = [wrote EXCEPT ![p] = "nothing"]
      /\ UNCHANGED <<claims, actor>>
  BY DEF Commit, Goto, IInv, CallInv
<1>3. /\ p \in ActorIds /\ p \notin AgentIds
      /\ claims[p].name \in Names
  BY <1>2, IdAssumption, ClaimAssumption DEF ActorIds, IInv, CallInv
<1>4. TypeOK'  BY <1>1, <1>2, <1>3 DEF IInv, TypeOK, Ended, Open
<1>5. CallInv'  BY <1>1, <1>2, <1>3 DEF IInv, TypeOK, CallInv, ActorIds
<1>6. IdentityInv'  BY <1>1, <1>2, <1>3, IdAssumption DEF IInv, TypeOK, IdentityInv, CommitInv, ActorIds
<1>7. CommitInv'  BY <1>1, <1>2 DEF IInv, TypeOK, CommitInv
<1>8. FoundInv'  BY <1>1, <1>2 DEF IInv, TypeOK, FoundInv
<1>. QED  BY <1>4, <1>5, <1>6, <1>7, <1>8 DEF IInv

LEMMA InvAgent == ASSUME IInv, NEW a \in AgentIds, NEW n \in Names, CreateAgent(a, n) PROVE IInv'
<1>1. a \in ActorIds /\ a \notin Calls  BY IdAssumption DEF ActorIds
<1>2. IdentityInv'  BY <1>1, IdAssumption DEF CreateAgent, IInv, TypeOK, IdentityInv, ActorIds
<1>3. TypeOK' /\ CallInv' /\ CommitInv' /\ FoundInv'
  BY <1>1 DEF CreateAgent, IInv, TypeOK, CallInv, CommitInv, FoundInv
<1>. QED  BY <1>2, <1>3 DEF IInv

LEMMA InvCrash == ASSUME IInv, Crash PROVE IInv'
BY DEF Crash, IInv, TypeOK, CallInv, IdentityInv, CommitInv, FoundInv, Open, Ended

LEMMA InvStep == ASSUME IInv, [Next]_vars PROVE IInv'
<1>1. CASE UNCHANGED vars
  BY <1>1 DEF vars, IInv, TypeOK, CallInv, IdentityInv, CommitInv, FoundInv
<1>2. CASE Next
  BY <1>2, InvWalk, InvUpdateRole, InvCommit, InvAgent, InvCrash DEF Next, Step
<1>. QED  BY <1>1, <1>2

LEMMA Invariance == Spec => []IInv
BY InvInit, InvStep, PTL DEF Spec

-----------------------------------------------------------------------------
(* The type invariant holds, for any constants. *)
THEOREM TypeCorrect == Spec => []TypeOK
<1>1. IInv => TypeOK  BY DEF IInv
<1>. QED  BY <1>1, Invariance, PTL

(* SubjectsAreActors holds: calls that succeeded hold actors of identities,*)
(* of which there is one per subject and one per actor.                    *)
THEOREM OneActorPerSubject == Spec => []SubjectsAreActors
<1>1. IInv => SubjectsAreActors  BY DEF IInv, FoundInv, IdentityInv, SubjectsAreActors
<1>. QED  BY <1>1, Invariance, PTL

(* ProvisioningIsAtomic holds: the two rows appear in one commit. *)
THEOREM AtomicProvisioning == Spec => []ProvisioningIsAtomic
<1>1. ASSUME IInv  PROVE ProvisioningIsAtomic
  <2> SUFFICES ASSUME NEW a \in ActorIds
               PROVE  Cardinality({i \in identities : i.actor = a})
                          = IF kind[a] = "human" THEN 1 ELSE 0
    BY DEF ProvisioningIsAtomic
  <2>1. CASE kind[a] = "human"
    <3>1. PICK i \in identities : i.actor = a  BY <1>1, <2>1 DEF IInv, IdentityInv
    <3>2. {j \in identities : j.actor = a} = {i}  BY <1>1, <3>1 DEF IInv, IdentityInv
    <3>. QED  BY <2>1, <3>2, FS_Singleton
  <2>2. CASE kind[a] # "human"
    <3>1. {j \in identities : j.actor = a} = {}  BY <1>1, <2>2 DEF IInv, IdentityInv
    <3>. QED  BY <2>2, <3>1, FS_EmptySet
  <2>. QED  BY <2>1, <2>2
<1>. QED  BY <1>1, Invariance, PTL

(* AgentsStayAgents holds: a commit writes a row of its own, whatever the  *)
(* name of the human.                                                      *)
AgentsStep == \A a \in ActorIds : kind[a] = "agent" => kind'[a] = "agent"

THEOREM AgentsKept == Spec => AgentsStayAgents
<1>1. IInv /\ [Next]_vars => [AgentsStep]_vars
  <2> SUFFICES ASSUME IInv, [Next]_vars PROVE AgentsStep  OBVIOUS
  <2>1. CASE UNCHANGED kind  BY <2>1 DEF AgentsStep
  <2>2. ASSUME NEW p \in Calls, Commit(p)  PROVE AgentsStep
    BY <2>2, CommitIsFirst, IdAssumption DEF AgentsStep, IInv, TypeOK
  <2>3. ASSUME NEW a \in AgentIds, NEW n \in Names, CreateAgent(a, n)  PROVE AgentsStep
    BY <2>3 DEF CreateAgent, AgentsStep, IInv, TypeOK
  <2>4. Next => \/ UNCHANGED kind
                \/ \E p \in Calls : Commit(p)
                \/ \E a \in AgentIds, n \in Names : CreateAgent(a, n)
    BY DEF Next, Step, Begin, FindHit, FindMiss, UpdateRole, InsertActor, ReloadHit,
           ReloadMiss, Link, LinkDuplicate, ReadActor, DatabaseError, Rollback, Crash
  <2>. QED  BY <2>1, <2>2, <2>3, <2>4 DEF vars
<1>2. AgentsStayAgents <=> [][AgentsStep]_vars  BY DEF AgentsStayAgents, AgentsStep
<1>. QED  BY <1>1, <1>2, Invariance, PTL DEF Spec
=============================================================================
