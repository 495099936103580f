---------------------------- MODULE WeatherCalls ----------------------------
(***************************************************************************)
(* The outbound side of a tool call (internal/tools/weather/client.go and  *)
(* internal/httpclient): a named place is geocoded first, then the weather *)
(* is fetched.  Each of the two is an exchange with Open-Meteo of its own: *)
(* one attempt and up to RetryMax retries within one time budget.          *)
(*                                                                         *)
(* Time passes in ticks.  client.Timeout is a deadline that time does not  *)
(* pass before the call has given up.                                      *)
(***************************************************************************)
EXTENDS Naturals

CONSTANTS
    Calls,      \* tool calls, each used once
    Timeout,    \* client.Timeout, in ticks
    RetryMax    \* retries after the first attempt

VARIABLES
    step,       \* step[c]: where call c stands
    resting,    \* resting[c]: waiting to repeat an attempt that failed
    tries,      \* tries[c]: attempts made in the present exchange
    spent,      \* spent[c]: ticks since the present exchange began
    exchanges,  \* history: exchanges[c] begun
    sent,       \* history: sent[c], attempts made at Open-Meteo; redirects that
                \* net/http follows inside an attempt are not counted
    elapsed     \* history: elapsed[c], ticks since the call began

vars == <<step, resting, tries, spent, exchanges, sent, elapsed>>

Active == {"geocode", "fetch"}
Ended  == {"ok", "error", "cut"}

TypeOK ==
    /\ step      \in [Calls -> {"idle"} \cup Active \cup Ended]
    /\ resting   \in [Calls -> BOOLEAN]
    /\ tries     \in [Calls -> 0 .. RetryMax + 1]
    /\ spent     \in [Calls -> 0 .. Timeout]
    /\ exchanges \in [Calls -> 0 .. 2]
    /\ sent      \in [Calls -> Nat]
    /\ elapsed   \in [Calls -> Nat]

Init ==
    /\ step      = [c \in Calls |-> "idle"]
    /\ resting   = [c \in Calls |-> FALSE]
    /\ tries     = [c \in Calls |-> 0]
    /\ spent     = [c \in Calls |-> 0]
    /\ exchanges = [c \in Calls |-> 0]
    /\ sent      = [c \in Calls |-> 0]
    /\ elapsed   = [c \in Calls |-> 0]

-----------------------------------------------------------------------------
Running == {c \in Calls : step[c] \in Active}

(* An attempt is under way. *)
Attempting(c) == step[c] \in Active /\ ~resting[c]

Goto(c, s) == step' = [step EXCEPT ![c] = s]

End(c, result) ==
    /\ Goto(c, result)
    /\ UNCHANGED <<resting, tries, spent, exchanges, sent, elapsed>>

(* A new exchange begins with its first attempt and the whole budget. *)
Exchange(c, s) ==
    /\ Goto(c, s)
    /\ tries'     = [tries EXCEPT ![c] = 1]
    /\ spent'     = [spent EXCEPT ![c] = 0]
    /\ exchanges' = [exchanges EXCEPT ![c] = @ + 1]
    /\ sent'      = [sent EXCEPT ![c] = @ + 1]
    /\ UNCHANGED <<resting, elapsed>>

-----------------------------------------------------------------------------
(* Faulty variants of actions below, not part of Next. *)

(* The timeout is that of each attempt. *)
Faulty_RetryRenewsBudget(c) ==
    /\ step[c] \in Active
    /\ resting[c]
    /\ resting' = [resting EXCEPT ![c] = FALSE]
    /\ tries'   = [tries EXCEPT ![c] = @ + 1]
    /\ sent'    = [sent EXCEPT ![c] = @ + 1]
    /\ spent'   = [spent EXCEPT ![c] = 0]
    /\ UNCHANGED <<step, exchanges, elapsed>>

(* The attempt that has just failed is not counted. *)
Faulty_RestOnceMore(c) ==
    /\ Attempting(c)
    /\ tries[c] <= RetryMax + 1
    /\ resting' = [resting EXCEPT ![c] = TRUE]
    /\ UNCHANGED <<step, tries, spent, exchanges, sent, elapsed>>

(* The budget is looked at between attempts only. *)
Faulty_GiveUpBetweenAttempts(c) ==
    /\ step[c] \in Active
    /\ resting[c]
    /\ spent[c] = Timeout
    /\ End(c, "error")

-----------------------------------------------------------------------------
(* The handler begins: validateUnits, then ResolveLocation.                *)

BeginRejected(c)      == step[c] = "idle" /\ End(c, "error")
BeginAtCoordinates(c) == step[c] = "idle" /\ Exchange(c, "fetch")
BeginByName(c)        == step[c] = "idle" /\ Exchange(c, "geocode")

Begin(c) == BeginRejected(c) \/ BeginAtCoordinates(c) \/ BeginByName(c)

-----------------------------------------------------------------------------
(* The answer of Open-Meteo.                                               *)

Located(c) == step[c] = "geocode" /\ Attempting(c) /\ Exchange(c, "fetch")

Fetched(c) == step[c] = "fetch" /\ Attempting(c) /\ End(c, "ok")

(* No such place, a status that is neither 200 nor worth a retry, or a     *)
(* body that cannot be decoded.                                            *)
Refused(c) == Attempting(c) /\ End(c, "error")

(* A failed connection, 429 or 5xx, which the retrying transport repeats   *)
(* (external: retryablehttp).                                              *)
Rest(c) ==
    /\ Attempting(c)
    /\ tries[c] <= RetryMax
    /\ resting' = [resting EXCEPT ![c] = TRUE]
    /\ UNCHANGED <<step, tries, spent, exchanges, sent, elapsed>>

RetriesExhausted(c) == Attempting(c) /\ tries[c] > RetryMax /\ End(c, "error")

Retry(c) ==
    /\ step[c] \in Active
    /\ resting[c]
    /\ resting' = [resting EXCEPT ![c] = FALSE]
    /\ tries'   = [tries EXCEPT ![c] = @ + 1]
    /\ sent'    = [sent EXCEPT ![c] = @ + 1]
    /\ UNCHANGED <<step, spent, exchanges, elapsed>>

(* The budget is spent: whatever the exchange waits for is abandoned. *)
GiveUp(c) ==
    /\ step[c] \in Active
    /\ spent[c] = Timeout
    /\ End(c, "error")

(* The context of the call is cancelled: its client has gone. *)
Cancelled(c) == step[c] \in Active /\ End(c, "error")

-----------------------------------------------------------------------------
Answer(c) ==
    \/ Located(c)
    \/ Fetched(c)
    \/ Refused(c)
    \/ Rest(c)
    \/ RetriesExhausted(c)
    \/ Cancelled(c)

(* A tick passes for every running call, unless one has met its deadline.  *)
Tick ==
    /\ \A c \in Running : spent[c] < Timeout
    /\ spent'   = [c \in Calls |-> IF c \in Running THEN spent[c] + 1 ELSE spent[c]]
    /\ elapsed' = [c \in Calls |-> IF c \in Running THEN elapsed[c] + 1 ELSE elapsed[c]]
    /\ UNCHANGED <<step, resting, tries, exchanges, sent>>

-----------------------------------------------------------------------------
(* A call lasts at most one budget for each place it asks Open-Meteo, its  *)
(* retries included, two in all: "the caller's timeout stays the hard      *)
(* bound" (internal/httpclient/httpclient.go:41) of each exchange.  And it *)
(* sends at most RetryMax + 1 requests for each exchange, however attempts *)
(* fail and time runs out.                                                 *)
CallsAreBounded ==
    \A c \in Calls :
        /\ elapsed[c] <= exchanges[c] * Timeout
        /\ sent[c] <= exchanges[c] * (RetryMax + 1)
=============================================================================
