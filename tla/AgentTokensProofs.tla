------------------------- MODULE AgentTokensProofs -------------------------
(***************************************************************************)
(* Proofs about AgentTokens, for every number of actors, credentials and   *)
(* requests and every bound on the clock.                                  *)
(*                                                                         *)
(* Types apart, no safety property is inductive.  The strengthening has    *)
(* three parts: what is known of a request's token (TokenInv), of a late   *)
(* request (LateInv) and of the actor id a request holds (HolderInv).      *)
(***************************************************************************)
EXTENDS AgentTokens, TLAPS

(* A request that has not arrived has no history, one that is not past the *)
(* lookup no goroutine; a presented token that is one of ours was issued.  *)
TokenInv ==
    \A r \in Requests :
        /\ auth[r] = "idle" => ~late[r]
        /\ auth[r] \in {"idle", "lookup"} => touch[r] = "none"
        /\ token[r] \in CredIds => Issued(token[r])

(* The token of a late request is revoked for good, so the request never   *)
(* gets past the lookup and never spawns a goroutine.                      *)
LateInv ==
    \A r \in Requests : late[r] =>
        /\ token[r] \in CredIds
        /\ revokedAt[token[r]] # Null
        /\ auth[r] \notin {"load", "admitted"}
        /\ touch[r] = "none"

(* The actor id read with the credential is still its owner's. *)
HolderInv ==
    \A r \in Requests :
        /\ auth[r] \in {"load", "admitted"} =>
              /\ token[r] \in CredIds
              /\ Issued(token[r])
              /\ holder[r] = owner[token[r]]
        /\ auth[r] = "admitted" => kind[holder[r]] # Null

-----------------------------------------------------------------------------
(* What the actions have in common.                                        *)

(* Next, as the list of its actions. *)
LEMMA NextCases ==
    ASSUME Next
    PROVE  \/ \E a \in ActorIds : AddActor(a, "agent") \/ AddActor(a, "human")
           \/ \E a \in ActorIds : RevokeAll(a)
           \/ \E c \in CredIds, a \in ActorIds : Issue(c, a)
           \/ \E c \in CredIds : RevokeCredential(c)
           \/ \E r \in Requests, t \in Tokens : Arrive(r, t)
           \/ \E r \in Requests : LookupFound(r)
           \/ \E r \in Requests : LookupNotFound(r)
           \/ \E r \in Requests : LoadFound(r)
           \/ \E r \in Requests : LoadNotFound(r)
           \/ \E r \in Requests : DatabaseError(r)
           \/ \E r \in Requests : TouchStamp(r)
           \/ \E r \in Requests : TouchCommit(r)
           \/ \E r \in Requests : TouchFails(r)
           \/ Crash
           \/ Tick
BY DEF Next, Admin, Decide, Touch, CreateAgent, ProvisionHuman

(* The state predicates only read the variables. *)
LEMMA TypeStep == TypeOK /\ [Next]_vars => TypeOK'
<1> SUFFICES ASSUME TypeOK, [Next]_vars
             PROVE  TypeOK'
  OBVIOUS
<1> USE DEF TypeOK, Times, Tokens, AuthStates, TouchStates, vars, dbVars, reqVars
<1>1. ASSUME NEW a \in ActorIds, NEW k \in {"agent", "human"}, AddActor(a, k)
      PROVE  TypeOK'
  BY <1>1 DEF AddActor
<1>2. ASSUME NEW a \in ActorIds, RevokeAll(a)
      PROVE  TypeOK'
  BY <1>2 DEF RevokeAll
<1>3. ASSUME NEW c \in CredIds, NEW a \in ActorIds, Issue(c, a)
      PROVE  TypeOK'
  BY <1>3 DEF Issue
<1>4. ASSUME NEW c \in CredIds, RevokeCredential(c)
      PROVE  TypeOK'
  BY <1>4 DEF RevokeCredential
<1>5. ASSUME NEW r \in Requests, NEW t \in Tokens, Arrive(r, t)
      PROVE  TypeOK'
  BY <1>5 DEF Arrive
<1>6. ASSUME NEW r \in Requests, LookupFound(r)
      PROVE  TypeOK'
  BY <1>6 DEF LookupFound, Hold, Live, Issued
<1>7. ASSUME NEW r \in Requests,
             LookupNotFound(r) \/ LoadFound(r) \/ LoadNotFound(r) \/ DatabaseError(r)
      PROVE  TypeOK'
  BY <1>7 DEF LookupNotFound, LoadFound, LoadNotFound, DatabaseError, Conclude
<1>8. ASSUME NEW r \in Requests, TouchStamp(r)
      PROVE  TypeOK'
  BY <1>8 DEF TouchStamp
<1>9. ASSUME NEW r \in Requests, TouchCommit(r)
      PROVE  TypeOK'
  <2>1. \A c \in CredIds : lastUsed'[c] \in Times \cup {Null}
    BY <1>9 DEF TouchCommit
  <2> QED
    BY <1>9, <2>1 DEF TouchCommit
<1>10. ASSUME NEW r \in Requests, TouchFails(r)
       PROVE  TypeOK'
  BY <1>10 DEF TouchFails
<1>11. CASE Crash
  BY <1>11 DEF Crash
<1>12. CASE Tick
  BY <1>12, ClockAssumption DEF Tick
<1>13. CASE UNCHANGED vars
  BY <1>13
<1> QED
  BY NextCases, <1>1, <1>2, <1>3, <1>4, <1>5, <1>6, <1>7, <1>8, <1>9, <1>10,
     <1>11, <1>12, <1>13

(* Every table, request and goroutine of every reachable state is of the   *)
(* form the columns and the handler's states allow: in particular a        *)
(* request holds an actor id, never another column.                        *)
THEOREM TypeCorrect == Spec => []TypeOK
<1>1. Init => TypeOK
  BY ClockAssumption
     DEF Init, TypeOK, Times, Tokens, AuthStates, TouchStates
<1> QED
  BY <1>1, TypeStep, PTL DEF Spec

-----------------------------------------------------------------------------
(* Revocation.                                                             *)

(* One step: a stamp in revoked_at stays as it is.  The statements that    *)
(* write the column ask for revoked_at IS NULL; the rest leave it alone.   *)
LEMMA RevocationStep ==
    ASSUME TypeOK, [Next]_vars, NEW c \in CredIds, revokedAt[c] # Null
    PROVE  revokedAt'[c] = revokedAt[c]
<1> USE DEF TypeOK, vars, dbVars, reqVars
<1>1. ASSUME NEW a \in ActorIds, RevokeAll(a)
      PROVE  revokedAt'[c] = revokedAt[c]
  BY <1>1 DEF RevokeAll, Live
<1>2. ASSUME NEW d \in CredIds, RevokeCredential(d)
      PROVE  revokedAt'[c] = revokedAt[c]
  BY <1>2 DEF RevokeCredential, Live
<1>3. CASE UNCHANGED revokedAt
  BY <1>3
<1> QED
  BY NextCases, <1>1, <1>2, <1>3
     DEF AddActor, Issue, Arrive, LookupFound, LookupNotFound, LoadFound, LoadNotFound,
         DatabaseError, Hold, Conclude, TouchStamp, TouchCommit, TouchFails, Crash, Tick

(* A revocation is final: no UPDATE that was in flight when the credential *)
(* was revoked, and no later revocation, changes or clears revoked_at.     *)
THEOREM RevocationFinal == Spec => RevocationIsFinal
<1>1. TypeOK /\ [Next]_vars
        => [\A c \in CredIds : revokedAt[c] # Null => revokedAt'[c] = revokedAt[c]]_vars
  BY RevocationStep
<1> QED
  BY <1>1, TypeCorrect, PTL DEF Spec, RevocationIsFinal

-----------------------------------------------------------------------------
(* The inductive invariant.                                                *)

(* One step: an issued credential keeps its owner, so does the row of an   *)
(* actor its kind.                                                         *)
LEMMA OwnerStep ==
    ASSUME TypeOK, [Next]_vars
    PROVE  /\ \A c \in CredIds : Issued(c) => owner'[c] = owner[c]
           /\ \A a \in ActorIds : kind[a] # Null => kind'[a] = kind[a]
<1> USE DEF TypeOK, vars, dbVars, reqVars
<1> DEFINE Goal == /\ \A c \in CredIds : Issued(c) => owner'[c] = owner[c]
                   /\ \A a \in ActorIds : kind[a] # Null => kind'[a] = kind[a]
<1>1. ASSUME NEW a \in ActorIds, NEW k \in {"agent", "human"}, AddActor(a, k)
      PROVE  Goal
  BY <1>1 DEF AddActor
<1>2. ASSUME NEW d \in CredIds, NEW a \in ActorIds, Issue(d, a)
      PROVE  Goal
  BY <1>2 DEF Issue, Issued
<1>3. CASE UNCHANGED <<owner, kind>>
  BY <1>3
<1> QED
  BY NextCases, <1>1, <1>2, <1>3
     DEF RevokeAll, RevokeCredential, Arrive, LookupFound, LookupNotFound, LoadFound,
         LoadNotFound, DatabaseError, Hold, Conclude, TouchStamp, TouchCommit, TouchFails,
         Crash, Tick

(* One step: what a request has read of itself. *)
LEMMA TokenStep == TypeOK /\ TokenInv /\ [Next]_vars => TokenInv'
<1> SUFFICES ASSUME TypeOK, TokenInv, [Next]_vars
             PROVE  TokenInv'
  OBVIOUS
<1> USE DEF TypeOK, TokenInv, Issued, vars, dbVars, reqVars
<1>1. \A c \in CredIds : Issued(c) => Issued(c)'
  BY OwnerStep
<1>2. ASSUME NEW r \in Requests, NEW t \in Tokens, Arrive(r, t)
      PROVE  TokenInv'
  BY <1>1, <1>2 DEF Arrive
<1>3. ASSUME NEW r \in Requests,
             \/ LookupFound(r) \/ LookupNotFound(r) \/ LoadFound(r)
             \/ LoadNotFound(r) \/ DatabaseError(r)
      PROVE  TokenInv'
  BY <1>1, <1>3
     DEF LookupFound, LookupNotFound, LoadFound, LoadNotFound, DatabaseError, Hold, Conclude
<1>4. ASSUME NEW r \in Requests, TouchStamp(r) \/ TouchCommit(r) \/ TouchFails(r)
      PROVE  TokenInv'
  BY <1>1, <1>4 DEF TouchStamp, TouchCommit, TouchFails
<1>5. CASE Crash
  BY <1>1, <1>5 DEF Crash
<1>6. CASE UNCHANGED <<auth, late, touch, token>>
  BY <1>1, <1>6
<1> QED
  BY NextCases, <1>2, <1>3, <1>4, <1>5, <1>6
     DEF AddActor, RevokeAll, RevokeCredential, Issue, Tick

(* One step: a late request stays outside, because its token stays revoked *)
(* and the lookup asks for revoked_at IS NULL.                             *)
LEMMA LateStep == TypeOK /\ TokenInv /\ LateInv /\ [Next]_vars => LateInv'
<1> SUFFICES ASSUME TypeOK, TokenInv, LateInv, [Next]_vars
             PROVE  LateInv'
  OBVIOUS
<1> USE DEF TypeOK, TokenInv, LateInv, vars, dbVars, reqVars
<1>1. \A c \in CredIds : revokedAt[c] # Null => revokedAt'[c] # Null
  BY RevocationStep
<1>2. ASSUME NEW r \in Requests, NEW t \in Tokens, Arrive(r, t)
      PROVE  LateInv'
  BY <1>1, <1>2, TokenAssumption DEF Arrive, Live, Issued
<1>3. ASSUME NEW r \in Requests, LookupFound(r)
      PROVE  LateInv'
  BY <1>1, <1>3 DEF LookupFound, Hold, Live
<1>4. ASSUME NEW r \in Requests,
             LookupNotFound(r) \/ LoadFound(r) \/ LoadNotFound(r) \/ DatabaseError(r)
      PROVE  LateInv'
  BY <1>1, <1>4 DEF LookupNotFound, LoadFound, LoadNotFound, DatabaseError, Conclude
<1>5. ASSUME NEW r \in Requests, TouchStamp(r) \/ TouchCommit(r) \/ TouchFails(r)
      PROVE  LateInv'
  BY <1>1, <1>5 DEF TouchStamp, TouchCommit, TouchFails
<1>6. CASE Crash
  BY <1>1, <1>6 DEF Crash
<1>7. CASE UNCHANGED <<auth, late, touch, token>>
  BY <1>1, <1>7
<1> QED
  BY NextCases, <1>2, <1>3, <1>4, <1>5, <1>6, <1>7
     DEF AddActor, RevokeAll, RevokeCredential, Issue, Tick

(* One step: the actor id a request holds stays right, because neither the *)
(* owner of a credential nor the row of an actor ever goes away.           *)
LEMMA HolderStep == TypeOK /\ TokenInv /\ HolderInv /\ [Next]_vars => HolderInv'
<1> SUFFICES ASSUME TypeOK, TokenInv, HolderInv, [Next]_vars
             PROVE  HolderInv'
  OBVIOUS
<1> USE DEF TypeOK, TokenInv, HolderInv, vars, dbVars, reqVars
<1>1. \A c \in CredIds : Issued(c) => Issued(c)' /\ owner'[c] = owner[c]
  BY OwnerStep DEF Issued
<1>2. \A a \in ActorIds : kind[a] # Null => kind'[a] # Null
  BY OwnerStep
<1>3. \A c \in CredIds : Issued(c) => owner[c] \in ActorIds
  BY DEF Issued
<1>4. ASSUME NEW r \in Requests, NEW t \in Tokens, Arrive(r, t)
      PROVE  HolderInv'
  BY <1>1, <1>2, <1>3, <1>4 DEF Arrive
<1>5. ASSUME NEW r \in Requests, LookupFound(r)
      PROVE  HolderInv'
  BY <1>1, <1>2, <1>3, <1>5 DEF LookupFound, Hold, Live
<1>6. ASSUME NEW r \in Requests,
             LookupNotFound(r) \/ LoadFound(r) \/ LoadNotFound(r) \/ DatabaseError(r)
      PROVE  HolderInv'
  BY <1>1, <1>2, <1>3, <1>6
     DEF LookupNotFound, LoadFound, LoadNotFound, DatabaseError, Conclude
<1>7. CASE Crash
  BY <1>1, <1>2, <1>3, <1>7 DEF Crash
<1>8. CASE UNCHANGED <<auth, holder, token>>
  BY <1>1, <1>2, <1>3, <1>8
<1> QED
  BY NextCases, <1>4, <1>5, <1>6, <1>7, <1>8
     DEF AddActor, RevokeAll, RevokeCredential, Issue, TouchStamp, TouchCommit,
         TouchFails, Tick

(* One step: no live token whose owner has a row is refused. *)
LEMMA RefusalStep ==
    TypeOK /\ TokenInv /\ HolderInv /\ NoFalseRefusal /\ [Next]_vars => NoFalseRefusal'
<1> SUFFICES ASSUME TypeOK, TokenInv, HolderInv, NoFalseRefusal, [Next]_vars
             PROVE  NoFalseRefusal'
  OBVIOUS
<1> USE DEF TypeOK, TokenInv, HolderInv, NoFalseRefusal, Live, vars, dbVars, reqVars
<1>1. \A c \in CredIds : Issued(c) => Issued(c)' /\ owner'[c] = owner[c]
  BY OwnerStep DEF Issued
<1>2. \A c \in CredIds : revokedAt[c] # Null => revokedAt'[c] # Null
  BY RevocationStep
<1>3. \A c \in CredIds : Issued(c) => owner[c] \in ActorIds
  BY DEF Issued
<1>4. ASSUME NEW a \in ActorIds, NEW k \in {"agent", "human"}, AddActor(a, k)
      PROVE  NoFalseRefusal'
  BY <1>1, <1>2, <1>3, <1>4 DEF AddActor
<1>5. ASSUME NEW r \in Requests, NEW t \in Tokens, Arrive(r, t)
      PROVE  NoFalseRefusal'
  BY <1>1, <1>2, <1>3, <1>5, TokenAssumption DEF Arrive
<1>6. ASSUME NEW r \in Requests, LookupFound(r) \/ LookupNotFound(r)
      PROVE  NoFalseRefusal'
  BY <1>1, <1>2, <1>3, <1>6 DEF LookupFound, LookupNotFound, Hold, Conclude
<1>7. ASSUME NEW r \in Requests, LoadFound(r) \/ LoadNotFound(r) \/ DatabaseError(r)
      PROVE  NoFalseRefusal'
  BY <1>1, <1>2, <1>3, <1>7 DEF LoadFound, LoadNotFound, DatabaseError, Conclude
<1>8. CASE Crash
  BY <1>1, <1>2, <1>3, <1>8 DEF Crash
<1>9. CASE UNCHANGED <<auth, token, kind>>
  BY <1>1, <1>2, <1>3, <1>9
<1> QED
  BY NextCases, <1>4, <1>5, <1>6, <1>7, <1>8, <1>9
     DEF RevokeAll, RevokeCredential, Issue, TouchStamp, TouchCommit, TouchFails, Tick

(* One step: last_used_at keeps the request it stems from, whose goroutine *)
(* is done and whose token and stamp no longer change.                     *)
LEMMA LastUsedStep ==
    TypeOK /\ TokenInv /\ LateInv /\ LastUsedIsEarned /\ [Next]_vars => LastUsedIsEarned'
<1> SUFFICES ASSUME TypeOK, TokenInv, LateInv, LastUsedIsEarned, [Next]_vars,
                    NEW c \in CredIds, lastUsed'[c] # Null
             PROVE  \E r \in Requests : /\ token'[r] = c
                                        /\ touch'[r] = "done"
                                        /\ stamp'[r] = lastUsed'[c]
                                        /\ ~late'[r]
  BY DEF LastUsedIsEarned
<1> USE DEF TypeOK, TokenInv, vars, dbVars, reqVars
<1> DEFINE Settled(r) == /\ token'[r] = token[r] /\ touch'[r] = "done"
                         /\ stamp'[r] = stamp[r] /\ late'[r] = late[r]
<1>1. ASSUME NEW r \in Requests, touch[r] = "done"
      PROVE  Settled(r)
  <2>1. auth[r] \notin {"idle", "lookup"}
    BY <1>1
  <2>2. ASSUME NEW q \in Requests, NEW t \in Tokens, Arrive(q, t)
        PROVE  Settled(r)
    BY <1>1, <2>1, <2>2 DEF Arrive
  <2>3. ASSUME NEW q \in Requests, LookupFound(q)
        PROVE  Settled(r)
    BY <1>1, <2>1, <2>3 DEF LookupFound, Hold
  <2>4. ASSUME NEW q \in Requests, TouchStamp(q) \/ TouchCommit(q) \/ TouchFails(q)
        PROVE  Settled(r)
    BY <1>1, <2>4 DEF TouchStamp, TouchCommit, TouchFails
  <2>5. CASE Crash
    BY <1>1, <2>5 DEF Crash
  <2>6. CASE UNCHANGED <<token, touch, stamp, late>>
    BY <1>1, <2>6
  <2> QED
    BY NextCases, <2>2, <2>3, <2>4, <2>5, <2>6
       DEF AddActor, RevokeAll, RevokeCredential, Issue, LookupNotFound, LoadFound,
           LoadNotFound, DatabaseError, Conclude, Tick
<1>2. ASSUME NEW r \in Requests, TouchCommit(r), c = token[r]
      PROVE  /\ token'[r] = c /\ touch'[r] = "done"
             /\ stamp'[r] = lastUsed'[c] /\ ~late'[r]
  BY <1>2 DEF TouchCommit, LateInv
<1>3. ASSUME lastUsed'[c] = lastUsed[c]
      PROVE  \E r \in Requests : /\ token'[r] = c
                                 /\ touch'[r] = "done"
                                 /\ stamp'[r] = lastUsed'[c]
                                 /\ ~late'[r]
  <2>1. PICK r \in Requests : /\ token[r] = c
                              /\ touch[r] = "done"
                              /\ stamp[r] = lastUsed[c]
                              /\ ~late[r]
    BY <1>3 DEF LastUsedIsEarned
  <2>2. Settled(r)
    BY <1>1, <2>1
  <2> QED
    BY <1>3, <2>1, <2>2
<1>4. \/ lastUsed'[c] = lastUsed[c]
      \/ \E r \in Requests : TouchCommit(r) /\ c = token[r]
  <2>1. ASSUME NEW r \in Requests, TouchCommit(r), c # token[r]
        PROVE  lastUsed'[c] = lastUsed[c]
    BY <2>1 DEF TouchCommit
  <2>2. CASE UNCHANGED lastUsed
    BY <2>2
  <2> QED
    BY NextCases, <2>1, <2>2
       DEF AddActor, RevokeAll, RevokeCredential, Issue, Arrive, LookupFound,
           LookupNotFound, LoadFound, LoadNotFound, DatabaseError, Hold, Conclude,
           TouchStamp, TouchFails, Crash, Tick
<1> QED
  BY <1>2, <1>3, <1>4

-----------------------------------------------------------------------------
(* The invariant, and what follows from it.                                *)

Inv ==
    /\ TypeOK
    /\ TokenInv
    /\ LateInv
    /\ HolderInv
    /\ NoFalseRefusal
    /\ LastUsedIsEarned

LEMMA InvInit == Init => Inv
<1>1. Init => TypeOK
  BY ClockAssumption DEF Init, TypeOK, Times, Tokens, AuthStates, TouchStates
<1> QED
  BY <1>1, TokenAssumption
     DEF Init, Inv, TokenInv, LateInv, HolderInv, NoFalseRefusal, LastUsedIsEarned

(* Each part is preserved with the help of those before it. *)
LEMMA InvStep == Inv /\ [Next]_vars => Inv'
BY TypeStep, TokenStep, LateStep, HolderStep, RefusalStep, LastUsedStep DEF Inv

LEMMA Invariance == Spec => []Inv
BY InvInit, InvStep, PTL DEF Spec

(* No request that arrives after its token was revoked is admitted,        *)
(* whatever was in flight at the time.                                     *)
THEOREM LateRequestsRefused == Spec => []NoLateAdmission
<1>1. Inv => NoLateAdmission
  BY DEF Inv, LateInv, NoLateAdmission
<1> QED
  BY <1>1, Invariance, PTL

(* An admitted request acts as the owner of its token, who has a row.      *)
THEOREM AdmissionIsTheOwners == Spec => []AdmittedAsOwner
<1>1. Inv => AdmittedAsOwner
  <2> SUFFICES ASSUME Inv, NEW r \in Requests, auth[r] = "admitted"
               PROVE  /\ token[r] \in CredIds
                      /\ holder[r] = owner[token[r]]
                      /\ holder[r] \in ActorIds
                      /\ kind[holder[r]] # Null
    BY DEF AdmittedAsOwner
  <2> QED
    BY DEF Inv, HolderInv, TypeOK, Issued
<1> QED
  BY <1>1, Invariance, PTL

(* A live token whose owner has a row is not refused.                      *)
THEOREM LiveTokensAccepted == Spec => []NoFalseRefusal
<1>1. Inv => NoFalseRefusal
  BY DEF Inv
<1> QED
  BY <1>1, Invariance, PTL

(* Every last_used_at was earned by a request with that very credential.   *)
THEOREM LastUsedEarned == Spec => []LastUsedIsEarned
<1>1. Inv => LastUsedIsEarned
  BY DEF Inv
<1> QED
  BY <1>1, Invariance, PTL
-----------------------------------------------------------------------------
(* AgentTokens implements BearerGate: its initial states map to initial    *)
(* states, and each of its steps to a step of the gate or to no step.      *)

(* Only a row that exists has been revoked: a token is live when issued.   *)
RevokedInv == \A c \in CredIds : revokedAt[c] # Null => Issued(c)

LEMMA RevokedStep == TypeOK /\ RevokedInv /\ [Next]_vars => RevokedInv'
<1> SUFFICES ASSUME TypeOK, RevokedInv, [Next]_vars
             PROVE  RevokedInv'
  OBVIOUS
<1> USE DEF TypeOK, RevokedInv, Issued, Live, vars, dbVars, reqVars
<1>1. \A c \in CredIds : Issued(c) => Issued(c)'
  BY OwnerStep
<1>2. ASSUME NEW a \in ActorIds, RevokeAll(a)
      PROVE  RevokedInv'
  BY <1>1, <1>2 DEF RevokeAll
<1>3. ASSUME NEW c \in CredIds, RevokeCredential(c)
      PROVE  RevokedInv'
  BY <1>1, <1>3 DEF RevokeCredential
<1>4. CASE UNCHANGED revokedAt
  BY <1>1, <1>4
<1> QED
  BY NextCases, <1>2, <1>3, <1>4
     DEF AddActor, Issue, Arrive, LookupFound, LookupNotFound, LoadFound, LoadNotFound,
         DatabaseError, Hold, Conclude, TouchStamp, TouchCommit, TouchFails, Crash, Tick

-----------------------------------------------------------------------------
(* The refinement mapping, step by step.                                   *)

(* The phases of the gate that a step of one request leads to. *)
LEMMA PhaseOf ==
    /\ Phase["idle"] = "idle"
    /\ Phase["lookup"] = "asked"
    /\ Phase["load"] = "vouched"
    /\ Phase["admitted"] = "in"
    /\ \A s \in {"refused", "errored", "cut"} : Phase[s] = "out"
BY DEF Phase

(* Nothing the gate knows of changes. *)
LEMMA GateStutter ==
    ASSUME UNCHANGED <<owner, revokedAt, auth, token, holder>>
    PROVE  UNCHANGED Gate!vars
BY DEF Gate!vars, Live, Issued

(* A row is inserted: one more live token. *)
LEMMA GateIssue ==
    ASSUME TypeOK, RevokedInv, NEW c \in CredIds, NEW a \in ActorIds, Issue(c, a)
    PROVE  Gate!Issue(c, a)
<1> USE DEF TypeOK
<1>1. {d \in CredIds : Live(d)}' = {d \in CredIds : Live(d)} \cup {c}
  BY NullAssumption DEF Issue, Live, Issued, RevokedInv
<1> QED
  BY <1>1 DEF Issue, Gate!Issue, Issued, reqVars

(* A revocation, of one or of all tokens of an actor: they leave together. *)
LEMMA GateRevoke ==
    ASSUME TypeOK, UNCHANGED <<owner, reqVars>>,
           \A c \in CredIds : revokedAt[c] # Null => revokedAt'[c] # Null
    PROVE  \E C \in SUBSET {c \in CredIds : Live(c)} : Gate!Revoke(C)
<1> DEFINE Gone == {c \in CredIds : Live(c) /\ revokedAt'[c] # Null}
<1>1. {c \in CredIds : Live(c)}' = {c \in CredIds : Live(c)} \ Gone
  BY DEF Live, Issued
<1>2. Gate!Revoke(Gone)
  BY <1>1 DEF Gate!Revoke, reqVars
<1> QED
  BY <1>2

LEMMA GateAsk ==
    ASSUME TypeOK, NEW r \in Requests, NEW t \in Tokens, Arrive(r, t)
    PROVE  \E step \in {"asked", "out"} : Gate!Ask(r, t, step)
<1> DEFINE step == IF t = NoToken THEN "out" ELSE "asked"
<1>1. [q \in Requests |-> Phase[auth[q]]]' = [[q \in Requests |-> Phase[auth[q]]] EXCEPT ![r] = step]
  BY PhaseOf DEF Arrive, TypeOK
<1>2. Gate!Ask(r, t, step)
  BY <1>1, PhaseOf DEF Arrive, Gate!Ask, dbVars, Live, Issued, TypeOK
<1> QED
  BY <1>2

(* The lookup is the moment at which the gate looks at the token. *)
LEMMA GateVouch ==
    ASSUME TypeOK, NEW r \in Requests, LookupFound(r)
    PROVE  Gate!Vouch(r)
<1>1. [q \in Requests |-> Phase[auth[q]]]' = [[q \in Requests |-> Phase[auth[q]]] EXCEPT ![r] = "vouched"]
  BY PhaseOf DEF LookupFound, Hold, TypeOK
<1> QED
  BY <1>1, PhaseOf DEF LookupFound, Hold, Gate!Vouch, dbVars, Live, Issued, TypeOK

LEMMA GateAdmit ==
    ASSUME TypeOK, NEW r \in Requests, LoadFound(r)
    PROVE  Gate!Admit(r)
<1>1. [q \in Requests |-> Phase[auth[q]]]' = [[q \in Requests |-> Phase[auth[q]]] EXCEPT ![r] = "in"]
  BY PhaseOf DEF LoadFound, Conclude, TypeOK
<1> QED
  BY <1>1, PhaseOf DEF LoadFound, Conclude, Gate!Admit, dbVars, Live, Issued, TypeOK

(* Refusals, errors and the death of the process. *)
LEMMA GateRefuse ==
    ASSUME TypeOK, NEW R \in SUBSET Requests,
           \A r \in R : auth[r] \in {"lookup", "load"},
           \A r \in R : auth'[r] \in {"refused", "errored", "cut"},
           \A r \in Requests \ R : auth'[r] = auth[r],
           UNCHANGED <<owner, revokedAt, token, holder>>
    PROVE  Gate!Refuse(R)
<1>1. [q \in Requests |-> Phase[auth[q]]]'
        = [q \in Requests |-> IF q \in R THEN "out" ELSE [p \in Requests |-> Phase[auth[p]]][q]]
  BY PhaseOf
<1> QED
  BY <1>1, PhaseOf DEF Gate!Refuse, Live, Issued

(* Every step of AgentTokens is a step of the gate, or none. *)
LEMMA GateStep ==
    ASSUME TypeOK, RevokedInv, [Next]_vars
    PROVE  [Gate!Next]_(Gate!vars)
<1> USE DEF dbVars, reqVars
<1>1. ASSUME NEW c \in CredIds, NEW a \in ActorIds, Issue(c, a)
      PROVE  Gate!Next
  BY <1>1, GateIssue DEF Gate!Next
<1>2. ASSUME \/ \E a \in ActorIds : RevokeAll(a)
             \/ \E c \in CredIds : RevokeCredential(c)
      PROVE  Gate!Next
  <2>1. \A c \in CredIds : revokedAt[c] # Null => revokedAt'[c] # Null
    BY RevocationStep
  <2>2. \E C \in SUBSET {c \in CredIds : Live(c)} : Gate!Revoke(C)
    BY <1>2, <2>1, GateRevoke DEF RevokeAll, RevokeCredential
  <2> QED
    BY <2>2 DEF Gate!Next
<1>3. ASSUME NEW r \in Requests, NEW t \in Tokens, Arrive(r, t)
      PROVE  Gate!Next
  <2>1. PICK step \in {"asked", "out"} : Gate!Ask(r, t, step)
    BY <1>3, GateAsk
  <2> QED
    BY <2>1 DEF Gate!Next, Tokens
<1>4. ASSUME NEW r \in Requests, LookupFound(r)
      PROVE  Gate!Next
  BY <1>4, GateVouch DEF Gate!Next
<1>5. ASSUME NEW r \in Requests, LoadFound(r)
      PROVE  Gate!Next
  BY <1>5, GateAdmit DEF Gate!Next
<1>6. ASSUME NEW r \in Requests, LookupNotFound(r) \/ LoadNotFound(r) \/ DatabaseError(r)
      PROVE  Gate!Next
  <2>1. Gate!Refuse({r})
    BY <1>6, GateRefuse DEF LookupNotFound, LoadNotFound, DatabaseError, Conclude, TypeOK
  <2> QED
    BY <2>1 DEF Gate!Next
<1>7. ASSUME Crash
      PROVE  Gate!Next
  <2>1. PICK R \in SUBSET Requests : R = {r \in Requests : auth[r] \in {"lookup", "load"}}
    OBVIOUS
  <2>2. Gate!Refuse(R)
    BY <1>7, <2>1, GateRefuse DEF Crash
  <2> QED
    BY <2>2 DEF Gate!Next
<1>8. CASE UNCHANGED <<owner, revokedAt, auth, token, holder>>
  BY <1>8, GateStutter
<1> QED
  BY NextCases, <1>1, <1>2, <1>3, <1>4, <1>5, <1>6, <1>7, <1>8
     DEF AddActor, TouchStamp, TouchCommit, TouchFails, Tick, vars

(* The two queries, the detached goroutine and the admin's statements give *)
(* agents the gate they were promised: a token that is looked at once.     *)
THEOREM GateImplemented == Spec => ImplementsGate
<1>1. Init => RevokedInv
  BY DEF Init, RevokedInv
<1>2. Init => Gate!Init
  <2> SUFFICES ASSUME Init PROVE Gate!Init
    OBVIOUS
  <2>1. {c \in CredIds : Live(c)} = {}
    BY DEF Init, Live, Issued
  <2>2. [r \in Requests |-> Phase[auth[r]]] = [r \in Requests |-> "idle"]
    BY PhaseOf DEF Init
  <2> QED
    BY <2>1, <2>2 DEF Init, Gate!Init
<1>3. Spec => []RevokedInv
  BY <1>1, RevokedStep, TypeCorrect, PTL DEF Spec
<1>4. TypeOK /\ RevokedInv /\ [Next]_vars => [Gate!Next]_(Gate!vars)
  BY GateStep
<1> QED
  BY <1>2, <1>3, <1>4, TypeCorrect, PTL DEF Spec, ImplementsGate, Gate!Spec
=============================================================================
