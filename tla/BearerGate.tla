----------------------------- MODULE BearerGate -----------------------------
(***************************************************************************)
(* What the bearer tokens of /mcp promise, with nothing of how the promise *)
(* is kept: tokens are live until they are revoked, once and for good, and *)
(* a request gets in only if at one moment between its arrival and its     *)
(* admission its token was live; it gets in as the owner of that token.    *)
(*                                                                         *)
(* AgentTokens shows that RequireBearer keeps it with two queries, a       *)
(* detached goroutine and no transaction.  There is no fairness: the gate  *)
(* promises whom it lets in, not that it answers.                          *)
(***************************************************************************)
CONSTANTS Owners, Tokens, Strange, Requests, Nobody

VARIABLES
    owner,   \* owner[c]: whose token c is, Nobody before it is issued
    live,    \* the tokens that are good
    phase,   \* phase[r]: "idle", "asked", "vouched", "in" or "out"
    shown,   \* shown[r]: the token r came with
    as       \* as[r]: whom r acts as

vars == <<owner, live, phase, shown, as>>

Init ==
    /\ owner = [c \in Tokens |-> Nobody]
    /\ live  = {}
    /\ phase = [r \in Requests |-> "idle"]
    /\ shown \in [Requests -> Tokens \cup Strange]
    /\ as    = [r \in Requests |-> Nobody]

(* A token is issued once. *)
Issue(c, a) ==
    /\ owner[c] = Nobody
    /\ owner' = [owner EXCEPT ![c] = a]
    /\ live'  = live \cup {c}
    /\ UNCHANGED <<phase, shown, as>>

(* Several tokens of one owner may go at once; none ever comes back. *)
Revoke(C) ==
    /\ live' = live \ C
    /\ UNCHANGED <<owner, phase, shown, as>>

Ask(r, t, step) ==
    /\ phase[r] = "idle"
    /\ step \in {"asked", "out"}
    /\ phase' = [phase EXCEPT ![r] = step]
    /\ shown' = [shown EXCEPT ![r] = t]
    /\ UNCHANGED <<owner, live, as>>

(* The moment that decides: the token is live now. *)
Vouch(r) ==
    /\ phase[r] = "asked"
    /\ shown[r] \in live
    /\ phase' = [phase EXCEPT ![r] = "vouched"]
    /\ as'    = [as EXCEPT ![r] = owner[shown[r]]]
    /\ UNCHANGED <<owner, live, shown>>

Admit(r) ==
    /\ phase[r] = "vouched"
    /\ phase' = [phase EXCEPT ![r] = "in"]
    /\ UNCHANGED <<owner, live, shown, as>>

(* Any number of requests that wait may fail, those of a process that dies *)
(* all at once.  Whoever is in stays in.                                   *)
Refuse(R) ==
    /\ \A r \in R : phase[r] \in {"asked", "vouched"}
    /\ phase' = [r \in Requests |-> IF r \in R THEN "out" ELSE phase[r]]
    /\ UNCHANGED <<owner, live, shown, as>>

Next ==
    \/ \E c \in Tokens, a \in Owners : Issue(c, a)
    \/ \E C \in SUBSET live : Revoke(C)
    \/ \E r \in Requests, t \in Tokens \cup Strange, step \in {"asked", "out"} : Ask(r, t, step)
    \/ \E r \in Requests : Vouch(r) \/ Admit(r)
    \/ \E R \in SUBSET Requests : Refuse(R)

Spec == Init /\ [][Next]_vars
=============================================================================
