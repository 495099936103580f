----------------------------- MODULE Lifecycle -----------------------------
(***************************************************************************)
(* The life of one process (cmd/weather/main.go): it serves a placeholder  *)
(* while it opens the database, swaps in the real handler, and shuts down  *)
(* on SIGTERM, when calls (module WeatherCalls) may still be under way.    *)
(*                                                                         *)
(* run's goroutine and the one that listens proceed independently.  A      *)
(* request is a tool call or, before the swap, one the placeholder turns   *)
(* away.  The grace period is counted in the ticks of WeatherCalls.        *)
(***************************************************************************)
EXTENDS Naturals

CONSTANTS Calls, Timeout, RetryMax,
    Grace       \* time srv.Shutdown may take, in ticks

ASSUME BudgetAssumption == Timeout \in Nat \ {0} /\ RetryMax \in Nat
ASSUME GraceAssumption  == Grace \in Nat \ {0}

VARIABLES
    step, resting, tries, spent, exchanges, sent, elapsed,   \* WeatherCalls
    main,       \* where run stands
    handler,    \* what the atomicHandler points to
    database,   \* storage.Open has returned a migrated database
    listener,   \* where the goroutine that listens stands
    stream,     \* an agent keeps an MCP event stream open (external: MCP library)
    signalled,  \* SIGINT or SIGTERM arrived: ctx is done
    waited,     \* ticks since srv.Shutdown began
    exit        \* exit status, "none" while the process runs

Weather == INSTANCE WeatherCalls

callVars == <<step, resting, tries, spent, exchanges, sent, elapsed>>
procVars == <<main, handler, database, listener, stream, signalled, waited, exit>>
vars     == <<callVars, procVars>>

TypeOK ==
    /\ Weather!TypeOK
    /\ main      \in {"open", "build", "swap", "select", "abandon", "drain", "exited"}
    /\ handler   \in {"placeholder", "real"}
    /\ database  \in BOOLEAN
    /\ listener  \in {"starting", "listening", "failed", "closed"}
    /\ stream    \in BOOLEAN
    /\ signalled \in BOOLEAN
    /\ waited    \in 0 .. Grace
    /\ exit      \in {"none", "success", "failure"}

Init ==
    /\ Weather!Init
    /\ main      = "open"
    /\ handler   = "placeholder"
    /\ database  = FALSE
    /\ listener  = "starting"
    /\ stream    = FALSE
    /\ signalled = FALSE
    /\ waited    = 0
    /\ exit      = "none"

-----------------------------------------------------------------------------
Alive == main # "exited"

(* The process ends, and with it every call. *)
Exit(status) ==
    /\ main' = "exited"
    /\ exit' = status
    /\ listener' = "closed"
    /\ stream' = FALSE
    /\ step' = [c \in Calls |-> IF c \in Weather!Running THEN "cut" ELSE step[c]]
    /\ UNCHANGED <<resting, tries, spent, exchanges, sent, elapsed>>
    /\ UNCHANGED <<handler, database, signalled, waited>>

(* A step of run that changes nothing else. *)
Proceed(from, to) ==
    /\ main = from
    /\ main' = to
    /\ UNCHANGED <<callVars, handler, stream, signalled, waited, exit>>

-----------------------------------------------------------------------------
(* Faulty variants of actions below, not part of Next. *)

(* Calls under way are not waited for. *)
Faulty_DrainAtOnce == main = "drain" /\ Exit("failure")

(* The error of srv.Shutdown is dropped. *)
Faulty_DrainExpiresQuietly == main = "drain" /\ waited = Grace /\ Exit("success")

-----------------------------------------------------------------------------
(* run: opening, building, swapping.                                       *)

Open ==
    /\ Proceed("open", "build")
    /\ database' = TRUE
    /\ UNCHANGED listener

OpenFails ==
    /\ Proceed("open", "abandon")
    /\ listener' = "closed"
    /\ UNCHANGED database

Build == Proceed("build", "swap") /\ UNCHANGED <<database, listener>>

(* A malformed key, no answer of the OIDC issuer, or ctx already done. *)
BuildFails ==
    /\ Proceed("build", "abandon")
    /\ listener' = "closed"
    /\ UNCHANGED database

Swap ==
    /\ main = "swap"
    /\ main' = "select"
    /\ handler' = "real"
    /\ UNCHANGED <<callVars, database, listener, stream, signalled, waited, exit>>

(* Shutdown after a failed start: only the placeholder was serving. *)
Abandon == main = "abandon" /\ Exit("failure")

-----------------------------------------------------------------------------
(* run: the select, and the shutdown.                                      *)

(* srv.Shutdown closes the listener and then waits for the calls. *)
Shutdown ==
    /\ signalled
    /\ Proceed("select", "drain")
    /\ listener' = "closed"
    /\ UNCHANGED database

(* The error of ListenAndServe: no call is waited for. *)
ServeError == main = "select" /\ listener = "failed" /\ Exit("failure")

(* No connection is active any more. *)
Drained == main = "drain" /\ Weather!Running = {} /\ ~stream /\ Exit("success")

DrainExpires == main = "drain" /\ waited = Grace /\ Exit("failure")

-----------------------------------------------------------------------------
(* The listening goroutine, the signal, and requests.                      *)

Listen ==
    /\ listener = "starting"
    /\ Alive
    /\ listener' = "listening"
    /\ UNCHANGED <<callVars, main, handler, database, stream, signalled, waited, exit>>

(* The port is taken, or Accept fails later on. *)
ListenFails ==
    /\ listener \in {"starting", "listening"}
    /\ listener' = "failed"
    /\ UNCHANGED <<callVars, main, handler, database, stream, signalled, waited, exit>>

Signal ==
    /\ Alive
    /\ ~signalled
    /\ signalled' = TRUE
    /\ UNCHANGED <<callVars, main, handler, database, listener, stream, waited, exit>>

(* 503 with Retry-After; nothing of the service is touched. *)
TurnAway(c) ==
    /\ listener = "listening"
    /\ handler = "placeholder"
    /\ step[c] = "idle"
    /\ Weather!End(c, "error")
    /\ UNCHANGED procVars

Arrive(c) ==
    /\ listener = "listening"
    /\ handler = "real"
    /\ Weather!Begin(c)
    /\ UNCHANGED procVars

(* GET /mcp; either side may end it. *)
OpenStream ==
    /\ listener = "listening"
    /\ handler = "real"
    /\ ~stream
    /\ stream' = TRUE
    /\ UNCHANGED <<callVars, main, handler, database, listener, signalled, waited, exit>>

CloseStream ==
    /\ stream
    /\ stream' = FALSE
    /\ UNCHANGED <<callVars, main, handler, database, listener, signalled, waited, exit>>

Answer(c) == Weather!Answer(c) /\ UNCHANGED procVars

Persist(c) == (Weather!Retry(c) \/ Weather!GiveUp(c)) /\ UNCHANGED procVars

Tick ==
    /\ Weather!Tick
    /\ main = "drain" => waited < Grace
    /\ waited' = IF main = "drain" THEN waited + 1 ELSE waited
    /\ UNCHANGED <<main, handler, database, listener, stream, signalled, exit>>

-----------------------------------------------------------------------------
Run ==
    \/ Open
    \/ OpenFails
    \/ Build
    \/ BuildFails
    \/ Swap
    \/ Abandon
    \/ Shutdown
    \/ ServeError
    \/ Drained
    \/ DrainExpires

Next ==
    \/ Run
    \/ Listen
    \/ ListenFails
    \/ Signal
    \/ OpenStream
    \/ CloseStream
    \/ Tick
    \/ \E c \in Calls : TurnAway(c) \/ Arrive(c) \/ Answer(c) \/ Persist(c)

(* run proceeds: opening and building end one way or the other.  Time      *)
(* passes, and timers fire.  Open-Meteo need never answer.                 *)
Fairness ==
    /\ WF_vars(Run)
    /\ WF_vars(Tick)
    /\ \A c \in Calls : WF_vars(Persist(c))

Spec == Init /\ [][Next]_vars /\ Fairness

-----------------------------------------------------------------------------
(* The bounds of WeatherCalls hold for calls that a shutdown overtakes. *)
CallsAreBounded == Weather!CallsAreBounded

(* Calls are given their grace: the process ends under one of them only    *)
(* when the whole grace period is over or its listener has failed, and     *)
(* then never with exit status 0, which says that every call was answered. *)
CutOnlyAfterGrace ==
    [][\A c \in Calls : (step[c] # "cut" /\ step'[c] = "cut")
           => (waited = Grace \/ listener = "failed") /\ exit' = "failure"]_vars

(* The process ends after a signal or a failure of its listener, whatever  *)
(* Open-Meteo does; and every call ends.                                   *)
EverythingEnds ==
    /\ (signalled \/ listener = "failed") ~> main = "exited"
    /\ \A c \in Calls : step[c] \in Weather!Active ~> step[c] \in Weather!Ended

(* "without this, in-flight tool calls are cut mid-response on every       *)
(* rollout" (cmd/weather/main.go:284): with it, a signal cuts none.        *)
RolloutsCutNoCall ==
    (exit # "none" /\ waited > 0) => \A c \in Calls : step[c] # "cut"
=============================================================================
