-------------------------- MODULE ToolCallsProofs --------------------------
(***************************************************************************)
(* Theorems about ToolCalls, for any actors, credentials and requests.     *)
(* What AgentTokensProofs shows of authentication is used, not shown again.*)
(***************************************************************************)
EXTENDS ToolCalls, SequenceTheorems, TLAPS

P == INSTANCE AgentTokensProofs WITH clock <- 0, MaxClock <- 0

-----------------------------------------------------------------------------
(* The two instances of AgentTokens are one.                               *)

LEMMA SameInit == Auth!Init <=> P!Init
BY DEF Auth!Init, P!Init, Auth!Tokens, P!Tokens

LEMMA SameType == Auth!TypeOK <=> P!TypeOK
BY DEF Auth!TypeOK, P!TypeOK, Auth!Times, P!Times, Auth!Tokens, P!Tokens,
       Auth!AuthStates, P!AuthStates, Auth!TouchStates, P!TouchStates

LEMMA SameNext == [Auth!Next]_(Auth!vars) => [P!Next]_(P!vars)
BY DEF Auth!Next, P!Next, Auth!vars, P!vars, Auth!dbVars, P!dbVars, Auth!reqVars, P!reqVars,
       Auth!Admin, P!Admin, Auth!Decide, P!Decide, Auth!Touch, P!Touch, Auth!Crash, P!Crash,
       Auth!Tick, P!Tick, Auth!Arrive, P!Arrive, Auth!Tokens, P!Tokens,
       Auth!LookupFound, P!LookupFound, Auth!LookupNotFound, P!LookupNotFound,
       Auth!LoadFound, P!LoadFound, Auth!LoadNotFound, P!LoadNotFound,
       Auth!DatabaseError, P!DatabaseError, Auth!Conclude, P!Conclude, Auth!Hold, P!Hold,
       Auth!TouchStamp, P!TouchStamp, Auth!TouchCommit, P!TouchCommit,
       Auth!TouchFails, P!TouchFails, Auth!AddActor, P!AddActor,
       Auth!CreateAgent, P!CreateAgent, Auth!ProvisionHuman, P!ProvisionHuman,
       Auth!Issue, P!Issue, Auth!RevokeCredential, P!RevokeCredential,
       Auth!RevokeAll, P!RevokeAll, Auth!Issued, P!Issued, Auth!Live, P!Live

(* The invariant of authentication, proved in AgentTokensProofs.           *)
LEMMA AuthInit == Auth!Init => P!Inv
BY P!InvInit, SameInit, AuthAssumption
   DEF AuthAssumption, P!InvInit, P!ClockAssumption, P!NullAssumption, P!TokenAssumption

LEMMA AuthStep == P!Inv /\ [Auth!Next]_(Auth!vars) => P!Inv'
<1>1. P!Inv /\ [P!Next]_(P!vars) => P!Inv'
  BY P!InvStep, AuthAssumption
     DEF AuthAssumption, P!InvStep, P!ClockAssumption, P!NullAssumption, P!TokenAssumption
<1>. QED  BY <1>1, SameNext

LEMMA AuthType == P!Inv => Auth!TypeOK
BY SameType DEF P!Inv

-----------------------------------------------------------------------------
(* Steps of authentication beside a call.                                  *)

(* A step of the system that leaves the calls alone.                       *)
AuthOnly ==
    /\ UNCHANGED callVars
    /\ \/ AdminStep
       \/ \E a \in ActorIds : DeleteActor(a)
       \/ \E r \in Requests, t \in Auth!Tokens : Arrive(r, t)
       \/ \E r \in Requests : Authenticate(r) \/ Touch(r)

(* A step of a call, and of the environment, that leaves authentication    *)
(* alone.                                                                  *)
CallOnly ==
    /\ UNCHANGED authVars
    /\ \/ \E r \in Requests, o \in Outcomes : ToolReturns(r, o)
       \/ \E r \in Requests : Record(r) \/ Answer(r) \/ StartTool(r) \/ Disconnect(r)
       \/ DatabaseChanges

LEMMA Steps == Next => AuthOnly \/ CallOnly \/ Crash
BY DEF Next, Serve, AuthOnly, CallOnly, AdminStep, DeleteActor, Arrive, Authenticate, Touch,
       ToolReturns, Record, Answer, StartTool, Disconnect, DatabaseChanges

LEMMA AuthOnlyIsAuth == AuthOnly => Auth!Next
BY DEF AuthOnly, AdminStep, DeleteActor, Arrive, Authenticate, Touch, Auth!Next, Auth!Admin,
       Auth!Decide, Auth!Touch

(* Every step of the system is one of authentication, or none.             *)
LEMMA AuthSimulation == [Next]_vars => [Auth!Next]_(Auth!vars)
<1>1. UNCHANGED authVars => UNCHANGED Auth!vars
  BY DEF authVars, Auth!vars, Auth!dbVars, Auth!reqVars
<1>2. UNCHANGED vars => UNCHANGED authVars  BY DEF vars
<1>3. CallOnly => UNCHANGED authVars  BY DEF CallOnly
<1>4. Crash => Auth!Next  BY DEF Crash, Auth!Next
<1>. QED  BY <1>1, <1>2, <1>3, <1>4, Steps, AuthOnlyIsAuth

(* The safety part of AuthenticationUnchanged: outages, tools and the log  *)
(* add nothing to what authentication does.                                *)
THEOREM AuthenticationKept == Spec => Auth!Init /\ [][Auth!Next]_(Auth!vars)
<1>1. Init => Auth!Init  BY DEF Init
<1>. QED  BY <1>1, AuthSimulation, PTL DEF Spec

(* Whoever is admitted stays so, under the same name.                      *)
LEMMA AdmittedStays ==
    ASSUME Auth!TypeOK, Auth!Next, NEW r \in Requests, auth[r] = "admitted"
    PROVE  auth'[r] = "admitted" /\ holder'[r] = holder[r]
<1> USE DEF Auth!TypeOK, Auth!dbVars, Auth!reqVars
<1>1. CASE Auth!Admin
  BY <1>1 DEF Auth!Admin, Auth!CreateAgent, Auth!ProvisionHuman, Auth!AddActor, Auth!RevokeAll,
              Auth!Issue, Auth!RevokeCredential
<1>2. ASSUME NEW q \in Requests, NEW t \in Auth!Tokens, Auth!Arrive(q, t)
      PROVE  auth'[r] = "admitted" /\ holder'[r] = holder[r]
  BY <1>2 DEF Auth!Arrive
<1>3. ASSUME NEW q \in Requests, Auth!Decide(q)
      PROVE  auth'[r] = "admitted" /\ holder'[r] = holder[r]
  BY <1>3 DEF Auth!Decide, Auth!LookupFound, Auth!LookupNotFound, Auth!LoadFound,
              Auth!LoadNotFound, Auth!DatabaseError, Auth!Conclude, Auth!Hold
<1>4. ASSUME NEW q \in Requests, Auth!Touch(q)
      PROVE  auth'[r] = "admitted" /\ holder'[r] = holder[r]
  BY <1>4 DEF Auth!Touch, Auth!TouchStamp, Auth!TouchCommit, Auth!TouchFails
<1>5. CASE Auth!Crash  BY <1>5 DEF Auth!Crash
<1>6. CASE Auth!Tick  BY <1>6 DEF Auth!Tick
<1>. QED  BY <1>1, <1>2, <1>3, <1>4, <1>5, <1>6 DEF Auth!Next

-----------------------------------------------------------------------------
(* The log.                                                                *)

CallInv ==
    /\ call    \in [Requests -> CallStates]
    /\ outcome \in [Requests -> Outcomes \cup {Null}]
    /\ \A r \in Requests :
          /\ call[r] # "none" => auth[r] = "admitted"
          /\ call[r] \in {"returned", "noted", "answered"} => outcome[r] \in Outcomes

(* A row was inserted by its call, once, after the tool returned.          *)
RowInv ==
    /\ history \in Seq(Rows)
    /\ \A i \in 1 .. Len(history) :
          /\ call[history[i].call] \in {"noted", "answered", "cut"}
          /\ history[i].actor = holder[history[i].call]
          /\ outcome[history[i].call] = IF history[i].isError THEN "error" ELSE "ok"
    /\ \A i, j \in 1 .. Len(history) : history[i].call = history[j].call => i = j

Inv == P!Inv /\ dbUp \in BOOLEAN /\ client \in [Requests -> {"here", "gone"}] /\ CallInv /\ RowInv

LEMMA RowOfRequest == RowInv => \A i \in 1 .. Len(history) : history[i].call \in Requests
<1>1. RowInv => \A i \in 1 .. Len(history) : history[i] \in Rows  BY ElementOfSeq DEF RowInv
<1>. QED  BY <1>1 DEF Rows

LEMMA InvInit == Init => Inv
<1>1. << >> \in Seq(Rows) /\ Len(<< >>) = 0  OBVIOUS
<1>. QED  BY <1>1, AuthInit DEF Init, Inv, CallInv, RowInv, CallStates, Outcomes

LEMMA RecordStep ==
    ASSUME Inv, NEW r \in Requests, Record(r)
    PROVE  CallInv' /\ RowInv'
<1>1. Auth!TypeOK  BY AuthType DEF Inv
<1>2. auth[r] = "admitted" /\ holder[r] \in ActorIds
  <2>1. P!HolderInv /\ auth[r] = "admitted"  BY DEF Inv, P!Inv, CallInv, Record
  <2>2. /\ token[r] \in CredIds
        /\ holder[r] = owner[token[r]]
        /\ owner[token[r]] # Null
    BY <2>1 DEF P!HolderInv, P!Issued
  <2>. QED  BY <1>1, <2>1, <2>2 DEF Auth!TypeOK
<1>3. CallInv'  BY DEF Inv, CallInv, Record, authVars, CallStates
<1>4. CASE history' = history
  BY <1>3, <1>4, RowOfRequest DEF Inv, CallInv, RowInv, Record, authVars
<1>5. CASE history' = Append(history, RowFor(r))
  <2> DEFINE new == RowFor(r)
  <2>1. new \in Rows  BY <1>2 DEF RowFor, Rows
  <2>2. /\ new.call = r /\ new.actor = holder[r]
        /\ outcome[r] = IF new.isError THEN "error" ELSE "ok"
    BY DEF RowFor, Record, Inv, CallInv, Outcomes
  <2>3. /\ call[r] = "returned"
        /\ call' = [call EXCEPT ![r] = "noted"]
        /\ history' = Append(history, new)
        /\ UNCHANGED <<outcome, holder>>
    BY <1>5 DEF Record, authVars
  <2> HIDE DEF new
  <2>4. /\ history' \in Seq(Rows)
        /\ Len(history') = Len(history) + 1
        /\ \A i \in 1 .. Len(history) : history'[i] = history[i]
        /\ history'[Len(history) + 1] = new
    BY <2>1, <2>3, AppendProperties DEF Inv, RowInv
  <2>5. \A i \in 1 .. Len(history) : history[i].call \in Requests /\ history[i].call # r
    BY <2>3, RowOfRequest DEF Inv, RowInv
  <2>6. call \in [Requests -> CallStates] /\ Len(history) \in Nat  BY DEF Inv, CallInv, RowInv
  <2>7. \A i \in 1 .. Len(history') : i \in 1 .. Len(history) \/ i = Len(history) + 1
    BY <2>4, <2>6
  <2>. QED  BY <1>3, <2>2, <2>3, <2>4, <2>5, <2>6, <2>7 DEF Inv, RowInv
<1>. QED  BY <1>3, <1>4, <1>5 DEF Record

LEMMA InvStep == Inv /\ [Next]_vars => Inv'
<1> SUFFICES ASSUME Inv, [Next]_vars PROVE Inv'  OBVIOUS
<1>1. P!Inv' /\ Auth!TypeOK  BY AuthStep, AuthSimulation, AuthType DEF Inv
<1>2. \A i \in 1 .. Len(history) : history[i].call \in Requests  BY RowOfRequest DEF Inv
<1>3. CASE UNCHANGED vars
  BY <1>1, <1>3 DEF Inv, CallInv, RowInv, vars, authVars, callVars
<1>4. CASE AuthOnly
  <2>1. \A r \in Requests : auth[r] = "admitted" => auth'[r] = "admitted" /\ holder'[r] = holder[r]
    BY <1>1, <1>4, AuthOnlyIsAuth, AdmittedStays
  <2>2. UNCHANGED <<dbUp, client, call, outcome, history>>
    BY <1>4 DEF AuthOnly, callVars, AdminStep, DeleteActor, Arrive, Authenticate, Touch
  <2>3. \A i \in 1 .. Len(history) : auth[history[i].call] = "admitted"
    BY <1>2 DEF Inv, CallInv, RowInv
  <2>. QED  BY <1>1, <1>2, <2>1, <2>2, <2>3 DEF Inv, CallInv, RowInv
<1>5. CASE CallOnly
  <2> USE DEF Inv, CallInv, RowInv, authVars, callVars, CallStates
  <2>1. ASSUME NEW r \in Requests, Record(r)  PROVE Inv'
    BY <1>1, <2>1, RecordStep DEF Record
  <2>2. ASSUME NEW r \in Requests, NEW o \in Outcomes, ToolReturns(r, o)  PROVE Inv'
    BY <1>1, <1>2, <2>2 DEF ToolReturns
  <2>3. ASSUME NEW r \in Requests, Answer(r)  PROVE Inv'
    BY <1>1, <1>2, <2>3 DEF Answer
  <2>4. ASSUME NEW r \in Requests, StartTool(r)  PROVE Inv'
    BY <1>1, <1>2, <2>4 DEF StartTool
  <2>5. ASSUME NEW r \in Requests, Disconnect(r)  PROVE Inv'
    BY <1>1, <1>2, <2>5 DEF Disconnect
  <2>6. CASE DatabaseChanges  BY <1>1, <2>6 DEF DatabaseChanges
  <2>. QED  BY <1>5, <2>1, <2>2, <2>3, <2>4, <2>5, <2>6 DEF CallOnly
<1>6. CASE Crash
  <2>1. /\ call' \in [Requests -> CallStates]
        /\ \A r \in Requests : call[r] \in {"noted", "answered", "cut"}
                                 => call'[r] \in {"noted", "answered", "cut"}
        /\ \A r \in Requests : call'[r] # "none" => call[r] # "none" \/ auth[r] = "admitted"
        /\ \A r \in Requests : call'[r] \in {"returned", "noted", "answered"}
                                 => call'[r] = call[r]
        /\ UNCHANGED <<dbUp, client, outcome, history, holder>>
    BY <1>6 DEF Crash, Inv, CallInv, CallStates, Auth!Crash
  <2>2. \A r \in Requests : auth[r] = "admitted" => auth'[r] = "admitted"
    BY <1>1, <1>6, AdmittedStays DEF Crash, Auth!Next
  <2>. QED  BY <1>1, <1>2, <2>1, <2>2 DEF Inv, CallInv, RowInv
<1>. QED  BY <1>3, <1>4, <1>5, <1>6, Steps

LEMMA Invariance == Spec => []Inv
BY InvInit, InvStep, PTL DEF Spec

-----------------------------------------------------------------------------
(* The type invariant holds, for any constants. *)
THEOREM TypeCorrect == Spec => []TypeOK
<1>1. Inv => TypeOK  BY AuthType DEF Inv, CallInv, RowInv, TypeOK
<1>. QED  BY <1>1, Invariance, PTL

(* HistoryIsAttributable holds: the row of a call has the actor that its   *)
(* request was admitted as, and that is what authentication promises.      *)
THEOREM Attributable == Spec => []HistoryIsAttributable
<1>1. ASSUME Inv  PROVE HistoryIsAttributable
  <2>1. P!HolderInv /\ P!LateInv  BY <1>1 DEF Inv, P!Inv
  <2>2. ASSUME NEW i \in 1 .. Len(history)
        PROVE  /\ outcome[history[i].call] = IF history[i].isError THEN "error" ELSE "ok"
               /\ kind[history[i].actor] # Null
               /\ token[history[i].call] \in CredIds
               /\ history[i].actor = owner[token[history[i].call]]
               /\ ~late[history[i].call]
    <3>1. history[i].call \in Requests  BY <1>1, RowOfRequest DEF Inv
    <3>2. auth[history[i].call] = "admitted"  BY <1>1, <3>1 DEF Inv, RowInv, CallInv
    <3>3. /\ history[i].actor = holder[history[i].call]
          /\ outcome[history[i].call] = IF history[i].isError THEN "error" ELSE "ok"
      BY <1>1 DEF Inv, RowInv
    <3>. QED  BY <2>1, <3>1, <3>2, <3>3 DEF P!HolderInv, P!LateInv
  <2>. QED  BY <2>2 DEF HistoryIsAttributable
<1>. QED  BY <1>1, Invariance, PTL

(* What a step may do to the log.                                          *)
Extends(before, after) ==
    /\ Len(after) >= Len(before)
    /\ SubSeq(after, 1, Len(before)) = before

(* HistoryIsAppendOnly holds. *)
THEOREM AppendOnly == Spec => HistoryIsAppendOnly
<1>1. ASSUME Inv, [Next]_vars  PROVE Extends(history, history')
  <2>1. history \in Seq(Rows) /\ Len(history) \in Nat  BY <1>1 DEF Inv, RowInv
  <2>2. CASE UNCHANGED history  BY <2>1, <2>2, SubSeqFull DEF Extends
  <2>3. ASSUME NEW r \in Requests, history' = Append(history, RowFor(r))
        PROVE  Extends(history, history')
    <3> DEFINE new == RowFor(r)
    <3>1. history' = history \o <<new>> /\ Len(history') = Len(history) + 1
      BY <2>1, <2>3
    <3>2. SubSeq(history', 1, Len(history)) = history  BY <2>1, <2>3
    <3>. QED  BY <2>1, <3>1, <3>2 DEF Extends
  <2>4. [Next]_vars => UNCHANGED history
                       \/ \E r \in Requests : history' = Append(history, RowFor(r))
    BY Steps DEF AuthOnly, CallOnly, ToolReturns, Record, Answer, StartTool, Disconnect,
                 DatabaseChanges, Crash, callVars, vars
  <2>. QED  BY <1>1, <2>2, <2>3, <2>4
<1>2. Inv /\ [Next]_vars => [Extends(history, history')]_vars  BY <1>1
<1>3. HistoryIsAppendOnly <=> [][Extends(history, history')]_vars
  BY DEF HistoryIsAppendOnly, Extends
<1>. QED  BY <1>2, <1>3, Invariance, PTL DEF Spec

-----------------------------------------------------------------------------
(* ToolCalls implements AuditLog.                                          *)

Closed == {r \in Requests : call[r] \in {"answered", "cut"}}

(* An INSERT that is carried out is a Write.                               *)
LEMMA RecordIsWrite ==
    ASSUME Inv, NEW r \in Requests, Record(r)
    PROVE  [Log!Next]_(Log!vars)
<1>1. Closed' = Closed
  BY DEF Closed, Record, Inv, CallInv
<1>2. CASE history' = history  BY <1>1, <1>2 DEF Log!vars, Closed
<1>3. CASE history' = Append(history, RowFor(r))
  <2>1. holder[r] \in ActorIds
    <3>1. Auth!TypeOK /\ P!HolderInv /\ auth[r] = "admitted"
      BY AuthType DEF Inv, P!Inv, CallInv, Record
    <3>. QED  BY <3>1 DEF Auth!TypeOK, P!HolderInv, P!Issued
  <2>2. RowFor(r) \in Log!Entries  BY <2>1 DEF RowFor, Log!Entries
  <2>3. RowFor(r).call = r  BY DEF RowFor
  <2>4. r \notin Closed  BY DEF Closed, Record
  <2>5. ~Log!Logged(r)
    <3>1. DOMAIN history = 1 .. Len(history)  BY DEF Inv, RowInv
    <3>. QED  BY <3>1 DEF Log!Logged, Inv, RowInv, Record
  <2>6. Log!Write(RowFor(r))  BY <1>1, <1>3, <2>3, <2>4, <2>5 DEF Log!Write, Closed
  <2>. QED  BY <2>2, <2>6 DEF Log!Next
<1>. QED  BY <1>2, <1>3 DEF Record

(* The end of calls, by an answer or with the process, is a Close.         *)
LEMMA EndIsClose ==
    ASSUME Closed \subseteq Closed', UNCHANGED history
    PROVE  [Log!Next]_(Log!vars)
<1>1. PICK C \in SUBSET Requests : C = Closed'  BY DEF Closed
<1>2. Closed' = Closed \cup C  BY <1>1
<1>3. Log!Close(C)  BY <1>2 DEF Log!Close, Closed
<1>. QED  BY <1>3 DEF Log!Next

(* ImplementsLog holds: rows are only added, one per call, and none for a  *)
(* call whose answer has left.                                             *)
THEOREM LogImplemented == Spec => ImplementsLog
<1>1. Init => Log!Init  BY DEF Init, Log!Init
<1>2. Inv /\ [Next]_vars => [Log!Next]_(Log!vars)
  <2> SUFFICES ASSUME Inv, [Next]_vars PROVE [Log!Next]_(Log!vars)  OBVIOUS
  <2>1. CASE UNCHANGED <<call, history>>  BY <2>1 DEF Log!vars
  <2>2. ASSUME NEW r \in Requests, Record(r)  PROVE [Log!Next]_(Log!vars)
    BY <2>2, RecordIsWrite
  <2>3. ASSUME NEW r \in Requests,
               Answer(r) \/ StartTool(r) \/ \E o \in Outcomes : ToolReturns(r, o)
        PROVE  Closed \subseteq Closed' /\ UNCHANGED history
    BY <2>3 DEF Closed, Answer, StartTool, ToolReturns, Inv, CallInv
  <2>4. ASSUME Crash  PROVE Closed \subseteq Closed' /\ UNCHANGED history
    BY <2>4 DEF Closed, Crash
  <2>5. \/ UNCHANGED <<call, history>>
        \/ Crash
        \/ \E r \in Requests :
              Record(r) \/ Answer(r) \/ StartTool(r) \/ \E o \in Outcomes : ToolReturns(r, o)
    BY Steps DEF AuthOnly, CallOnly, Disconnect, DatabaseChanges, callVars, vars
  <2>. QED  BY <2>1, <2>2, <2>3, <2>4, <2>5, EndIsClose
<1>3. ImplementsLog <=> Log!Init /\ [][Log!Next]_(Log!vars)
  BY DEF ImplementsLog, Log!Spec
<1>. QED  BY <1>1, <1>2, <1>3, Invariance, PTL DEF Spec
=============================================================================
