--------------------------- MODULE WeatherProofs ---------------------------
(***************************************************************************)
(* Theorems about a call of a weather tool, in two parts: how long it may  *)
(* last and what may cut it (Lifecycle, with the WeatherCalls it is        *)
(* composed with), for any calls, budget, number of retries and grace      *)
(* period; and what it says and what is kept of it (CallData), for any     *)
(* days, any answer of Open-Meteo, any limit of the preview and any text.  *)
(***************************************************************************)
EXTENDS Lifecycle, CallData, SequenceTheorems, WellFoundedInduction, TLAPS

-----------------------------------------------------------------------------
(* Lifecycle: one call.                                                    *)

(* What has been spent and sent, told for the present exchange and the one *)
(* before it: a deadline that is not renewed by retries bounds the ticks,  *)
(* and a call that rests has a retry left.                                 *)
CallInv(c) ==
    /\ step[c] = "idle" => exchanges[c] = 0 /\ elapsed[c] = 0 /\ sent[c] = 0 /\ ~resting[c]
    /\ step[c] = "geocode" => exchanges[c] = 1
    /\ step[c] \in Weather!Active => exchanges[c] # 0
    /\ exchanges[c] = 0 => elapsed[c] = 0 /\ sent[c] = 0
    /\ exchanges[c] = 1 => elapsed[c] <= spent[c] /\ sent[c] <= tries[c]
    /\ exchanges[c] = 2 => elapsed[c] <= Timeout + spent[c] /\ sent[c] <= RetryMax + 1 + tries[c]
    /\ step[c] \in Weather!Active /\ resting[c] => tries[c] <= RetryMax

CallsInv == Weather!TypeOK /\ \A c \in Calls : CallInv(c)

LEMMA CallsInit == Weather!Init => CallsInv
BY BudgetAssumption DEF BudgetAssumption, Weather!Init, CallsInv, CallInv, Weather!TypeOK,
   Weather!Active, Weather!Ended

(* A call that ends, or goes on resting, changes nothing else. *)
LEMMA EndStep ==
    ASSUME CallsInv, NEW c \in Calls, NEW s \in Weather!Ended, Weather!End(c, s)
    PROVE  CallsInv'
BY DEF CallsInv, CallInv, Weather!End, Weather!Goto, Weather!TypeOK, Weather!Active, Weather!Ended

LEMMA ExchangeStep ==
    ASSUME CallsInv, NEW c \in Calls, NEW s \in Weather!Active, Weather!Exchange(c, s), ~resting[c],
           (step[c] = "idle") \/ (step[c] = "geocode" /\ s = "fetch")
    PROVE  CallsInv'
<1> USE BudgetAssumption
    DEF BudgetAssumption, CallsInv, CallInv, Weather!TypeOK, Weather!Active, Weather!Ended
<1>1. /\ step' = [step EXCEPT ![c] = s]
      /\ tries' = [tries EXCEPT ![c] = 1]
      /\ spent' = [spent EXCEPT ![c] = 0]
      /\ exchanges' = [exchanges EXCEPT ![c] = exchanges[c] + 1]
      /\ sent' = [sent EXCEPT ![c] = sent[c] + 1]
      /\ UNCHANGED <<resting, elapsed>>
  BY DEF Weather!Exchange, Weather!Goto
<1>2. exchanges[c] \in 0 .. 1  OBVIOUS
<1>3. Weather!TypeOK'  BY <1>1, <1>2
<1>4. CallInv(c)'  BY <1>1, <1>2
<1>5. \A d \in Calls : d # c => CallInv(d)'  BY <1>1
<1>. QED  BY <1>3, <1>4, <1>5

LEMMA BeginStep == ASSUME CallsInv, NEW c \in Calls, Weather!Begin(c) PROVE CallsInv'
<1>1. step[c] = "idle" /\ ~resting[c]
  BY DEF Weather!Begin, Weather!BeginRejected, Weather!BeginAtCoordinates, Weather!BeginByName,
         CallsInv, CallInv
<1>2. CASE Weather!BeginRejected(c)
  BY <1>2, EndStep DEF Weather!BeginRejected, Weather!Ended
<1>3. CASE Weather!BeginAtCoordinates(c)
  BY <1>1, <1>3, ExchangeStep DEF Weather!BeginAtCoordinates, Weather!Active
<1>4. CASE Weather!BeginByName(c)
  BY <1>1, <1>4, ExchangeStep DEF Weather!BeginByName, Weather!Active
<1>. QED  BY <1>2, <1>3, <1>4 DEF Weather!Begin

LEMMA AnswerStep == ASSUME CallsInv, NEW c \in Calls, Weather!Answer(c) PROVE CallsInv'
<1>1. CASE Weather!Located(c)
  BY <1>1, ExchangeStep DEF Weather!Located, Weather!Attempting, Weather!Active
<1>2. CASE Weather!Fetched(c)  BY <1>2, EndStep DEF Weather!Fetched, Weather!Ended
<1>3. CASE Weather!Refused(c)  BY <1>3, EndStep DEF Weather!Refused, Weather!Ended
<1>4. CASE Weather!Rest(c)
  BY <1>4
  DEF Weather!Rest, Weather!Attempting, CallsInv, CallInv, Weather!TypeOK, Weather!Active
<1>5. CASE Weather!RetriesExhausted(c)
  BY <1>5, EndStep DEF Weather!RetriesExhausted, Weather!Ended
<1>6. CASE Weather!Cancelled(c)  BY <1>6, EndStep DEF Weather!Cancelled, Weather!Ended
<1>. QED  BY <1>1, <1>2, <1>3, <1>4, <1>5, <1>6 DEF Weather!Answer

LEMMA PersistStep ==
    ASSUME CallsInv, NEW c \in Calls, Weather!Retry(c) \/ Weather!GiveUp(c) PROVE CallsInv'
<1>1. CASE Weather!Retry(c)
  BY <1>1, BudgetAssumption
  DEF BudgetAssumption, Weather!Retry, CallsInv, CallInv, Weather!TypeOK, Weather!Active
<1>2. CASE Weather!GiveUp(c)  BY <1>2, EndStep DEF Weather!GiveUp, Weather!Ended
<1>. QED  BY <1>1, <1>2

LEMMA TickStep == ASSUME CallsInv, Weather!Tick PROVE CallsInv'
<1> USE BudgetAssumption DEF BudgetAssumption, CallsInv
<1>1. ASSUME NEW c \in Calls
      PROVE  /\ spent'[c] \in 0 .. Timeout /\ elapsed'[c] \in Nat
             /\ \/ spent'[c] = spent[c] /\ elapsed'[c] = elapsed[c]
                \/ /\ spent'[c] = spent[c] + 1 /\ elapsed'[c] = elapsed[c] + 1
                   /\ step[c] \in Weather!Active
  BY DEF Weather!Tick, Weather!Running, Weather!TypeOK
<1>2. UNCHANGED <<step, resting, tries, exchanges, sent>>  BY DEF Weather!Tick
<1>3. Weather!TypeOK'
  BY <1>1, <1>2 DEF Weather!Tick, Weather!TypeOK
<1>4. ASSUME NEW c \in Calls PROVE CallInv(c)'
  BY <1>1, <1>2 DEF CallInv, Weather!TypeOK, Weather!Active
<1>. QED  BY <1>3, <1>4

(* The process ends under the calls that run. *)
LEMMA CutStep ==
    ASSUME CallsInv, UNCHANGED <<resting, tries, spent, exchanges, sent, elapsed>>,
           step' = [c \in Calls |-> IF c \in Weather!Running THEN "cut" ELSE step[c]]
    PROVE  CallsInv'
BY DEF CallsInv, CallInv, Weather!TypeOK, Weather!Active, Weather!Ended, Weather!Running

-----------------------------------------------------------------------------
(* Lifecycle: the process.                                                 *)

ProcessTypes ==
    /\ main      \in {"open", "build", "swap", "select", "abandon", "drain", "exited"}
    /\ handler   \in {"placeholder", "real"}
    /\ database  \in BOOLEAN
    /\ listener  \in {"starting", "listening", "failed", "closed"}
    /\ stream    \in BOOLEAN
    /\ signalled \in BOOLEAN
    /\ waited    \in 0 .. Grace
    /\ exit      \in {"none", "success", "failure"}

(* Calls run only behind the real handler, which is swapped in once run    *)
(* can no longer give up the start.                                        *)
StartInv ==
    /\ main \in {"open", "build", "swap", "abandon"} => handler = "placeholder"
    /\ handler = "placeholder" => \A c \in Calls : step[c] \notin Weather!Active

IInv == CallsInv /\ ProcessTypes /\ StartInv

LEMMA InvInit == Init => IInv
<1>1. Init => ProcessTypes
  <2>1. Init => waited \in 0 .. Grace  BY GraceAssumption DEF GraceAssumption, Init
  <2>2. Init => database \in BOOLEAN /\ stream \in BOOLEAN /\ signalled \in BOOLEAN
    BY Zenon DEF Init
  <2>. QED  BY <2>1, <2>2, Zenon DEF Init, ProcessTypes
<1>2. Init => StartInv
  <2>1. Init => handler = "placeholder"  BY DEF Init
  <2>2. Init => \A c \in Calls : step[c] = "idle"  BY DEF Init, Weather!Init
  <2>. QED  BY <2>1, <2>2 DEF StartInv, Weather!Active
<1>. QED  BY <1>1, <1>2, CallsInit DEF Init, IInv

LEMMA CallsStep == ASSUME CallsInv, [Next]_vars PROVE CallsInv'
<1>1. CASE UNCHANGED callVars
  BY <1>1 DEF callVars, CallsInv, CallInv, Weather!TypeOK
<1>2. ASSUME NEW status, Exit(status) PROVE CallsInv'  BY <1>2, CutStep DEF Exit
<1>3. CASE Run
  BY <1>1, <1>2, <1>3
  DEF Run, Open, OpenFails, Build, BuildFails, Swap, Abandon, Shutdown, ServeError, Drained,
      DrainExpires, Proceed
<1>4. CASE Listen \/ ListenFails \/ Signal \/ OpenStream \/ CloseStream
  BY <1>1, <1>4 DEF Listen, ListenFails, Signal, OpenStream, CloseStream
<1>5. CASE Tick  BY <1>5, TickStep DEF Tick
<1>6. ASSUME NEW c \in Calls, TurnAway(c) \/ Arrive(c) \/ Answer(c) \/ Persist(c)
      PROVE  CallsInv'
  BY <1>6, EndStep, BeginStep, AnswerStep, PersistStep
  DEF TurnAway, Arrive, Answer, Persist, Weather!Ended
<1>. QED  BY <1>1, <1>3, <1>4, <1>5, <1>6 DEF Next, vars

(* No step of WeatherCalls but Begin makes a call active, and none cuts it. *)
LEMMA CallMoves ==
    ASSUME CallsInv, NEW c \in Calls, NEW d \in Calls,
           TurnAway(c) \/ Answer(c) \/ Persist(c)
    PROVE  /\ step'[d] \in Weather!Active => step[d] \in Weather!Active
           /\ step'[d] = "cut" => step[d] = "cut"
BY DEF CallsInv, Weather!TypeOK, TurnAway, Answer, Persist, Weather!Answer, Weather!Located, Weather!Fetched,
   Weather!Refused, Weather!Rest, Weather!RetriesExhausted, Weather!Cancelled, Weather!Retry,
   Weather!GiveUp, Weather!Attempting, Weather!Exchange, Weather!End, Weather!Goto, Weather!Active

LEMMA ProcessStep == ASSUME IInv, [Next]_vars PROVE ProcessTypes' /\ StartInv'
<1> USE GraceAssumption DEF GraceAssumption, IInv, ProcessTypes, StartInv
<1>1. CASE UNCHANGED vars  BY <1>1 DEF vars, callVars, procVars
<1>2. ASSUME NEW status \in {"success", "failure"}, Exit(status),
             main \in {"abandon", "select", "drain"}
      PROVE  ProcessTypes' /\ StartInv'
  <2>1. \A c \in Calls : step'[c] \notin Weather!Active
    BY <1>2 DEF Exit, Weather!Running, Weather!Active
  <2>. QED  BY <1>2, <2>1 DEF Exit
<1>3. CASE Open \/ OpenFails \/ Build \/ BuildFails \/ Swap \/ Shutdown
  BY <1>3 DEF Open, OpenFails, Build, BuildFails, Swap, Shutdown, Proceed, callVars
<1>4. CASE Abandon \/ ServeError \/ Drained \/ DrainExpires
  BY <1>2, <1>4 DEF Abandon, ServeError, Drained, DrainExpires
<1>5. CASE Listen \/ ListenFails \/ Signal \/ OpenStream \/ CloseStream
  BY <1>5 DEF Listen, ListenFails, Signal, OpenStream, CloseStream, callVars
<1>6. CASE Tick
  <2>1. waited' \in 0 .. Grace  BY <1>6 DEF Tick
  <2>. QED  BY <1>6, <2>1 DEF Tick, Weather!Tick
<1>7. ASSUME NEW c \in Calls, TurnAway(c) \/ Answer(c) \/ Persist(c)
      PROVE  ProcessTypes' /\ StartInv'
  <2>1. UNCHANGED procVars  BY <1>7 DEF TurnAway, Answer, Persist
  <2>2. \A d \in Calls : step'[d] \in Weather!Active => step[d] \in Weather!Active
    BY <1>7, CallMoves
  <2>. QED  BY <2>1, <2>2 DEF procVars
<1>8. ASSUME NEW c \in Calls, Arrive(c) PROVE ProcessTypes' /\ StartInv'
  BY <1>8 DEF Arrive, procVars
<1>. QED  BY <1>1, <1>3, <1>4, <1>5, <1>6, <1>7, <1>8 DEF Next, Run

LEMMA Invariance == Spec => []IInv
<1>1. IInv /\ [Next]_vars => IInv'  BY CallsStep, ProcessStep DEF IInv
<1>. QED  BY InvInit, <1>1, PTL DEF Spec

-----------------------------------------------------------------------------
(* The type invariant holds, for any constants. *)
THEOREM TypeCorrect == Spec => []TypeOK
<1>1. IInv => TypeOK  BY DEF IInv, CallsInv, ProcessTypes, TypeOK
<1>. QED  BY <1>1, Invariance, PTL

(* CallsAreBounded holds: a call lasts at most one budget, and sends at    *)
(* most RetryMax + 1 requests, for each of at most two exchanges.          *)
THEOREM CallsBounded == Spec => []CallsAreBounded
<1>1. ASSUME IInv, NEW c \in Calls
      PROVE  /\ elapsed[c] <= exchanges[c] * Timeout
             /\ sent[c] <= exchanges[c] * (RetryMax + 1)
  <2>1. /\ exchanges[c] \in 0 .. 2 /\ elapsed[c] \in Nat /\ sent[c] \in Nat
        /\ spent[c] \in 0 .. Timeout /\ tries[c] \in 0 .. RetryMax + 1
    BY <1>1 DEF IInv, CallsInv, Weather!TypeOK
  <2>2. CallInv(c)  BY <1>1 DEF IInv, CallsInv
  <2>3. CASE exchanges[c] = 0  BY <2>1, <2>2, <2>3, BudgetAssumption DEF BudgetAssumption, CallInv
  <2>4. CASE exchanges[c] = 1  BY <2>1, <2>2, <2>4, BudgetAssumption DEF BudgetAssumption, CallInv
  <2>5. CASE exchanges[c] = 2  BY <2>1, <2>2, <2>5, BudgetAssumption DEF BudgetAssumption, CallInv
  <2>. QED  BY <2>1, <2>3, <2>4, <2>5
<1>2. IInv => CallsAreBounded  BY <1>1 DEF CallsAreBounded, Weather!CallsAreBounded
<1>. QED  BY <1>2, Invariance, PTL

(* CutOnlyAfterGrace holds: only an exit cuts calls, an abandoned start    *)
(* has none, and a drained server has none left.                           *)
THEOREM CutAfterGrace == Spec => CutOnlyAfterGrace
<1> DEFINE Graceful(c) == step[c] # "cut" /\ step'[c] = "cut"
                             => (waited = Grace \/ listener = "failed") /\ exit' = "failure"
<1>1. ASSUME IInv, Next, NEW c \in Calls PROVE Graceful(c)
  <2>1. CASE UNCHANGED step  BY <2>1
  <2>2. CASE Abandon
    BY <1>1, <2>2 DEF Abandon, Exit, IInv, StartInv, Weather!Running
  <2>3. CASE ServeError  BY <2>3 DEF ServeError, Exit
  <2>4. CASE Drained  BY <2>4 DEF Drained, Exit
  <2>5. CASE DrainExpires  BY <2>5 DEF DrainExpires, Exit
  <2>6. CASE \E d \in Calls : TurnAway(d) \/ Answer(d) \/ Persist(d)
    BY <1>1, <2>6, CallMoves DEF IInv
  <2>7. ASSUME NEW d \in Calls, Arrive(d) PROVE Graceful(c)
    BY <1>1, <2>7
    DEF IInv, CallsInv, Weather!TypeOK, Arrive, Weather!Begin, Weather!BeginRejected,
        Weather!BeginAtCoordinates, Weather!BeginByName, Weather!Exchange, Weather!End, Weather!Goto
  <2>8. CASE \/ Open \/ OpenFails \/ Build \/ BuildFails \/ Swap \/ Shutdown
             \/ Listen \/ ListenFails \/ Signal \/ OpenStream \/ CloseStream \/ Tick
    BY <2>1, <2>8
    DEF Open, OpenFails, Build, BuildFails, Swap, Shutdown, Proceed, Listen, ListenFails, Signal,
        OpenStream, CloseStream, Tick, Weather!Tick, callVars
  <2>. QED  BY <1>1, <2>2, <2>3, <2>4, <2>5, <2>6, <2>7, <2>8 DEF Next, Run
<1>2. IInv /\ [Next]_vars => [\A c \in Calls : Graceful(c)]_vars  BY <1>1
<1>. QED  BY <1>2, Invariance, PTL DEF Spec, CutOnlyAfterGrace

-----------------------------------------------------------------------------
(* CallData: the bytes of a text.                                          *)

(* Induction: a set of numbers that is not empty has a least element. *)
LEMMA LeastElement ==
    ASSUME NEW T \in SUBSET Nat, T # {}
    PROVE  \E x \in T : \A y \in T : x <= y
<1>1. PICK x \in T : \A y \in T : ~(<<y, x>> \in OpToRel(<, Nat))
  BY NatLessThanWellFounded, WFMin
<1>2. \A y \in T : ~(y < x)
  BY <1>1 DEF OpToRel
<1> QED
  BY <1>2

(* FlattenSeq is defined by recursion: a function that satisfies it exists *)
(* for every number of sequences, and the one chosen has sequences for     *)
(* values.                                                                 *)
LEMMA Flattened ==
    ASSUME NEW X, NEW seqs \in Seq(Seq(X)), seqs # << >>
    PROVE  \E f \in [1 .. Len(seqs) -> Seq(X)] :
              /\ f[1] = seqs[1]
              /\ \A i \in 2 .. Len(seqs) : f[i] = f[i - 1] \o seqs[i]
              /\ FlattenSeq(seqs) = f[Len(seqs)]
<1> DEFINE N == Len(seqs)
           Body(g, n) == [i \in 1 .. n |-> IF i = 1 THEN seqs[i] ELSE g[i - 1] \o seqs[i]]
<1>1. N \in Nat \ {0} /\ \A i \in 1 .. N : seqs[i] \in Seq(X)
  OBVIOUS
<1> DEFINE Undefined == {n \in 0 .. N : ~\E g : g = Body(g, n)}
<1>2. Undefined = {}
  <2> SUFFICES ASSUME Undefined # {}
               PROVE  FALSE
    OBVIOUS
  <2>0. Undefined \in SUBSET Nat
    <3>1. 0 .. N \subseteq Nat
      BY <1>1
    <3> HIDE DEF Body
    <3> QED
      BY <3>1
  <2>1. PICK n \in Undefined : \A k \in Undefined : n <= k
    <3> HIDE DEF Undefined
    <3> QED
      BY <2>0, LeastElement
  <2>2. n # 0
    <3> DEFINE g == [i \in 1 .. 0 |-> 0]
    <3>1. g = Body(g, 0)
      OBVIOUS
    <3> QED
      BY <2>1, <3>1
  <2>3. n \in 1 .. N /\ n - 1 \in 0 .. N /\ n - 1 \notin Undefined
    <3>1. n \in 1 .. N /\ n - 1 \in 0 .. N /\ ~(n <= n - 1)
      BY <1>1, <2>1, <2>2
    <3> HIDE DEF Undefined
    <3> QED
      BY <2>1, <3>1
  <2>4. PICK g : g = Body(g, n - 1)
    <3> HIDE DEF Body
    <3> QED
      BY <2>3
  <2> DEFINE h == [i \in 1 .. n |-> IF i < n THEN g[i]
                                    ELSE IF i = 1 THEN seqs[i] ELSE g[i - 1] \o seqs[i]]
  <2>5. ASSUME NEW i \in 1 .. n
        PROVE  h[i] = IF i = 1 THEN seqs[i] ELSE h[i - 1] \o seqs[i]
    <3>1. i # 1 => i - 1 \in 1 .. n /\ i - 1 < n /\ h[i - 1] = g[i - 1]
      BY <2>3
    <3>2. CASE i < n
      <4>1. i \in 1 .. n - 1 /\ h[i] = g[i]
        BY <2>3, <3>2
      <4>2. g[i] = IF i = 1 THEN seqs[i] ELSE g[i - 1] \o seqs[i]
        BY <2>4, <4>1
      <4> QED
        BY <3>1, <4>1, <4>2
    <3>3. CASE i = n
      BY <2>3, <3>1, <3>3
    <3> QED
      BY <2>3, <3>2, <3>3
  <2>6. h = [i \in 1 .. n |-> h[i]]
    OBVIOUS
  <2> HIDE DEF h
  <2>7. h = Body(h, n)
    BY <2>5, <2>6
  <2> QED
    BY <2>1, <2>7
<1> DEFINE f == CHOOSE g : g = Body(g, N)
<1>3. f = Body(f, N)
  <2>1. N \in 0 .. N
    BY <1>1
  <2> HIDE DEF Body
  <2>2. \E g : g = Body(g, N)
    BY <1>2, <2>1
  <2> QED
    BY <2>2
<1>4. FlattenSeq(seqs) = f[N]
  BY <1>1 DEF FlattenSeq
<1> HIDE DEF f
<1>5. /\ f = [i \in 1 .. N |-> f[i]]
      /\ f[1] = seqs[1]
      /\ \A i \in 2 .. N : f[i] = f[i - 1] \o seqs[i]
  <2>1. \A i \in 1 .. N : f[i] = IF i = 1 THEN seqs[i] ELSE f[i - 1] \o seqs[i]
    BY <1>1, <1>3
  <2>2. f = [i \in 1 .. N |-> f[i]]
    BY <1>3
  <2>3. 1 \in 1 .. N
    BY <1>1
  <2>4. ASSUME NEW i \in 2 .. N
        PROVE  i \in 1 .. N /\ i # 1
    BY <1>1
  <2> HIDE DEF Body
  <2> QED
    BY <2>1, <2>2, <2>3, <2>4
<1> DEFINE Odd == {i \in 1 .. N : f[i] \notin Seq(X)}
<1>6. Odd = {}
  <2> SUFFICES ASSUME Odd # {}
               PROVE  FALSE
    OBVIOUS
  <2>0. Odd \in SUBSET Nat
    BY <1>1
  <2>1. PICK n \in Odd : \A k \in Odd : n <= k
    <3> HIDE DEF Odd
    <3> QED
      BY <2>0, LeastElement
  <2>2. n \in 2 .. N
    BY <1>1, <1>5, <2>1
  <2>3. f[n - 1] \in Seq(X) /\ seqs[n] \in Seq(X)
    BY <1>1, <2>1, <2>2
  <2>4. f[n] \in Seq(X)
    BY <1>5, <2>2, <2>3, ConcatProperties
  <2> QED
    BY <2>1, <2>4
<1>7. f \in [1 .. N -> Seq(X)]
  BY <1>5, <1>6
<1> QED
  BY <1>4, <1>5, <1>7

(* The bytes of one character: one that tells its width, and that many     *)
(* less one to go on.                                                      *)
Rune(c) == <<c>> \o [j \in 1 .. Width(c) - 1 |-> Continuation]

ByteSet == Chars \cup {Continuation}

LEMMA RuneBytes ==
    ASSUME NEW c \in Chars
    PROVE  /\ Width(c) \in 1 .. 4
           /\ Rune(c) \in Seq(ByteSet) /\ Len(Rune(c)) = Width(c)
           /\ Rune(c)[1] = c
           /\ \A j \in 2 .. Width(c) : Rune(c)[j] = Continuation
           /\ c # Continuation
<1> DEFINE rest == [j \in 1 .. Width(c) - 1 |-> Continuation]
<1>1. Width(c) \in 1 .. 4 /\ c # Continuation
  BY DEF Width, Chars, Continuation
<1> HIDE DEF Chars
<1>2. rest \in Seq(ByteSet) /\ Len(rest) = Width(c) - 1
      /\ \A j \in 1 .. Width(c) - 1 : rest[j] = Continuation
  BY <1>1 DEF ByteSet
<1> HIDE DEF rest
<1>3. <<c>> \in Seq(ByteSet) /\ Len(<<c>>) = 1 /\ <<c>>[1] = c
  BY DEF ByteSet
<1>4. Rune(c) = <<c>> \o rest
  BY DEF Rune, rest
<1>5. /\ Rune(c) \in Seq(ByteSet) /\ Len(Rune(c)) = 1 + Len(rest)
      /\ \A j \in 1 .. 1 + Len(rest) :
            Rune(c)[j] = IF j <= 1 THEN <<c>>[j] ELSE rest[j - 1]
  BY <1>2, <1>3, <1>4, ConcatProperties
<1> QED
  BY <1>1, <1>2, <1>3, <1>5

(* The bytes of a text, character by character. *)
LEMMA BytesByCharacter ==
    ASSUME NEW t \in Seq(Chars)
    PROVE  \E f \in [0 .. Len(t) -> Seq(ByteSet)] :
              /\ f[0] = << >>
              /\ \A k \in 1 .. Len(t) : f[k] = f[k - 1] \o Rune(t[k])
              /\ \A k \in 0 .. Len(t) : Bytes(SubSeq(t, 1, k)) = f[k]
<1> DEFINE N       == Len(t)
           runes(k) == [i \in 1 .. k |-> Rune(t[i])]
<1>1. N \in Nat /\ \A i \in 1 .. N : t[i] \in Chars
  OBVIOUS
<1>2. ASSUME NEW k \in 0 .. N
      PROVE  /\ Bytes(SubSeq(t, 1, k)) = FlattenSeq(runes(k))
             /\ runes(k) \in Seq(Seq(ByteSet)) /\ Len(runes(k)) = k
             /\ \A i \in 1 .. k : runes(k)[i] = Rune(t[i])
  <2> DEFINE u == SubSeq(t, 1, k)
  <2>1. u \in Seq(Chars) /\ Len(u) = k /\ \A i \in 1 .. k : u[i] = t[i]
    BY <1>1, SubSeqProperties
  <2>2. DOMAIN u = 1 .. k
    BY <2>1
  <2> HIDE DEF u
  <2>3. Bytes(u) = FlattenSeq([i \in DOMAIN u |-> Rune(u[i])])
    BY DEF Bytes, Rune
  <2>4. [i \in DOMAIN u |-> Rune(u[i])] = runes(k)
    BY <2>1, <2>2
  <2>5. \A i \in 1 .. k : Rune(t[i]) \in Seq(ByteSet)
    BY <1>1, RuneBytes
  <2>6. runes(k) \in Seq(Seq(ByteSet)) /\ Len(runes(k)) = k
    BY <1>1, <2>5
  <2> QED
    BY <2>3, <2>4, <2>6 DEF u
<1> HIDE DEF runes
<1>3. Bytes(SubSeq(t, 1, 0)) = << >>
  <2>1. 0 \in 0 .. N
    BY <1>1
  <2>2. runes(0) = << >>
    BY <1>2, <2>1
  <2>3. FlattenSeq(<< >>) = << >>
    BY DEF FlattenSeq
  <2> QED
    BY <1>2, <2>1, <2>2, <2>3
<1>4. CASE N = 0
  <2> DEFINE f == [k \in 0 .. 0 |-> << >>]
  <2>1. f \in [0 .. N -> Seq(ByteSet)] /\ f[0] = << >>
    BY <1>4
  <2> HIDE DEF f
  <2> QED
    BY <1>3, <1>4, <2>1
<1>5. CASE N # 0
  <2>1. N \in 0 .. N /\ runes(N) # << >>
    BY <1>1, <1>2, <1>5
  <2>2. PICK g \in [1 .. N -> Seq(ByteSet)] :
          /\ g[1] = Rune(t[1])
          /\ \A i \in 2 .. N : g[i] = g[i - 1] \o Rune(t[i])
    <3>1. runes(N) \in Seq(Seq(ByteSet)) /\ Len(runes(N)) = N
      BY <1>2, <2>1
    <3>2. PICK g \in [1 .. Len(runes(N)) -> Seq(ByteSet)] :
            /\ g[1] = runes(N)[1]
            /\ \A i \in 2 .. Len(runes(N)) : g[i] = g[i - 1] \o runes(N)[i]
      BY <2>1, <3>1, Flattened
    <3>3. 1 \in 1 .. N /\ \A i \in 2 .. N : i \in 1 .. N
      BY <1>1, <1>5
    <3>4. \A i \in 1 .. N : runes(N)[i] = Rune(t[i])
      BY <1>2, <2>1
    <3>5. g[1] = Rune(t[1])
      BY <3>2, <3>3, <3>4
    <3>6. ASSUME NEW i \in 2 .. N
          PROVE  g[i] = g[i - 1] \o Rune(t[i])
      <4>1. i \in 2 .. Len(runes(N)) /\ runes(N)[i] = Rune(t[i])
        BY <3>1, <3>3, <3>4
      <4> QED
        BY <3>2, <4>1
    <3> QED
      BY <3>1, <3>2, <3>5, <3>6
  <2>3. ASSUME NEW k \in 1 .. N
        PROVE  Bytes(SubSeq(t, 1, k)) = g[k]
    <3>1. k \in 0 .. N /\ runes(k) # << >>
      BY <1>1, <1>2
    <3>2. PICK h \in [1 .. k -> Seq(ByteSet)] :
            /\ h[1] = Rune(t[1])
            /\ \A i \in 2 .. k : h[i] = h[i - 1] \o Rune(t[i])
            /\ FlattenSeq(runes(k)) = h[k]
      <4>1. runes(k) \in Seq(Seq(ByteSet)) /\ Len(runes(k)) = k
        BY <1>2, <3>1
      <4>2. PICK h \in [1 .. Len(runes(k)) -> Seq(ByteSet)] :
              /\ h[1] = runes(k)[1]
              /\ \A i \in 2 .. Len(runes(k)) : h[i] = h[i - 1] \o runes(k)[i]
              /\ FlattenSeq(runes(k)) = h[Len(runes(k))]
        BY <3>1, <4>1, Flattened
      <4>3. 1 \in 1 .. k /\ \A i \in 2 .. k : i \in 1 .. k
        BY <1>1
      <4>4. \A i \in 1 .. k : runes(k)[i] = Rune(t[i])
        BY <1>2, <3>1
      <4> QED
        BY <4>1, <4>2, <4>3, <4>4
    <3> DEFINE Apart == {i \in 1 .. k : h[i] # g[i]}
    <3>3. Apart = {}
      <4> SUFFICES ASSUME Apart # {}
                   PROVE  FALSE
        OBVIOUS
      <4>1. Apart \in SUBSET Nat
        BY <1>1
      <4>2. PICK n \in Apart : \A i \in Apart : n <= i
        <5> HIDE DEF Apart
        <5> QED
          BY <4>1, LeastElement
      <4>3. n \in 2 .. k /\ n \in 2 .. N
        BY <1>1, <2>2, <3>2, <4>2
      <4>4. h[n - 1] = g[n - 1]
        BY <4>2, <4>3
      <4> QED
        BY <2>2, <3>2, <4>2, <4>3, <4>4
    <3>4. h[k] = g[k]
      <4>1. k \in 1 .. k
        BY <1>1
      <4>2. k \notin Apart
        <5> HIDE DEF Apart
        <5> QED
          BY <3>3
      <4> QED
        BY <4>1, <4>2, Zenon
    <3> QED
      BY <1>2, <3>1, <3>2, <3>4
  <2> DEFINE f == [k \in 0 .. N |-> IF k = 0 THEN << >> ELSE g[k]]
  <2>4. f \in [0 .. N -> Seq(ByteSet)] /\ f[0] = << >> /\ \A k \in 1 .. N : f[k] = g[k]
    BY <1>1
  <2> HIDE DEF f
  <2>5. ASSUME NEW k \in 1 .. N
        PROVE  f[k] = f[k - 1] \o Rune(t[k])
    <3>1. CASE k = 1
      <4>1. Rune(t[1]) \in Seq(ByteSet)
        BY <1>1, <1>5, RuneBytes
      <4>2. << >> \o Rune(t[1]) = Rune(t[1])
        BY <4>1, ConcatEmptySeq
      <4>3. k - 1 = 0
        BY <3>1
      <4>4. f[k - 1] = << >>
        BY <2>4, <4>3
      <4>5. f[k] = Rune(t[1]) /\ t[k] = t[1]
        BY <2>2, <2>4, <3>1
      <4> QED
        BY <4>2, <4>4, <4>5, Zenon
    <3>2. CASE k # 1
      <4>1. k \in 2 .. N /\ k - 1 \in 1 .. N
        BY <1>1, <3>2
      <4>2. g[k] = g[k - 1] \o Rune(t[k])
        BY <2>2, <4>1
      <4>3. f[k] = g[k] /\ f[k - 1] = g[k - 1]
        BY <2>4, <4>1
      <4> QED
        BY <4>2, <4>3, Zenon
    <3> QED
      BY <3>1, <3>2
  <2>6. ASSUME NEW k \in 0 .. N
        PROVE  Bytes(SubSeq(t, 1, k)) = f[k]
    <3>1. k = 0 \/ k \in 1 .. N
      BY <1>1
    <3> QED
      BY <1>3, <2>3, <2>4, <3>1
  <2> QED
    BY <2>4, <2>5, <2>6
<1> QED
  BY <1>4, <1>5

(* The number of bytes of the first k characters of t. *)
Size(t, k) == Len(Bytes(SubSeq(t, 1, k)))

(* Where the characters of a text lie in its bytes. *)
LEMMA BytesLayout ==
    ASSUME NEW t \in Seq(Chars)
    PROVE  /\ Bytes(t) \in Seq(ByteSet)
           /\ Size(t, 0) = 0 /\ Size(t, Len(t)) = Len(Bytes(t))
           /\ \A k \in 0 .. Len(t) : Size(t, k) \in Nat
           /\ \A i, j \in 0 .. Len(t) : i < j => Size(t, i) < Size(t, j)
           /\ \A k \in 0 .. Len(t) : Bytes(SubSeq(t, 1, k)) = SubSeq(Bytes(t), 1, Size(t, k))
           /\ \A k \in 1 .. Len(t) :
                 /\ Size(t, k) = Size(t, k - 1) + Width(t[k])
                 /\ Bytes(t)[Size(t, k - 1) + 1] = t[k]
                 /\ \A j \in 2 .. Width(t[k]) : Bytes(t)[Size(t, k - 1) + j] = Continuation
<1> DEFINE N == Len(t)
<1>1. N \in Nat /\ \A i \in 1 .. N : t[i] \in Chars
  OBVIOUS
<1>2. PICK f \in [0 .. N -> Seq(ByteSet)] :
        /\ f[0] = << >>
        /\ \A k \in 1 .. N : f[k] = f[k - 1] \o Rune(t[k])
        /\ \A k \in 0 .. N : Bytes(SubSeq(t, 1, k)) = f[k]
  BY BytesByCharacter
<1> HIDE DEF N
<1>3. \A k \in 0 .. N : f[k] \in Seq(ByteSet) /\ Len(f[k]) \in Nat /\ Size(t, k) = Len(f[k])
  BY <1>2 DEF Size
<1>4. 0 \in 0 .. N /\ N \in 0 .. N /\ \A k \in 1 .. N : k \in 0 .. N /\ k - 1 \in 0 .. N
  BY <1>1
<1>5. Bytes(t) = f[N]
  <2>1. SubSeq(t, 1, N) = t
    BY SubSeqFull DEF N
  <2> QED
    BY <1>2, <1>4, <2>1
<1>6. ASSUME NEW k \in 1 .. N
      PROVE  /\ Width(t[k]) \in 1 .. 4
             /\ Len(f[k]) = Len(f[k - 1]) + Width(t[k])
             /\ \A p \in 1 .. Len(f[k - 1]) : f[k][p] = f[k - 1][p]
             /\ f[k][Len(f[k - 1]) + 1] = t[k]
             /\ \A j \in 2 .. Width(t[k]) : f[k][Len(f[k - 1]) + j] = Continuation
  <2> DEFINE a == f[k - 1]
             b == Rune(t[k])
             m == Len(a)
             w == Width(t[k])
  <2>1. a \in Seq(ByteSet) /\ m \in Nat
    BY <1>3, <1>4
  <2>2. /\ w \in 1 .. 4
        /\ b \in Seq(ByteSet) /\ Len(b) = w
        /\ b[1] = t[k]
        /\ \A j \in 2 .. w : b[j] = Continuation
    BY <1>1, RuneBytes
  <2>3. f[k] = a \o b
    BY <1>2
  <2> HIDE DEF a, b
  <2>4. /\ Len(f[k]) = m + w
        /\ \A p \in 1 .. m + w : f[k][p] = IF p <= m THEN a[p] ELSE b[p - m]
    BY <2>1, <2>2, <2>3, ConcatProperties
  <2> HIDE DEF m, w
  <2> m \in Nat /\ w \in 1 .. 4
    BY <2>1, <2>2, Zenon
  <2>5. ASSUME NEW p \in 1 .. m
        PROVE  f[k][p] = a[p]
    <3>1. p \in 1 .. m + w /\ p <= m
      OBVIOUS
    <3> QED
      BY <2>4, <3>1
  <2>6. ASSUME NEW j \in 1 .. w
        PROVE  f[k][m + j] = b[j]
    <3>1. m + j \in 1 .. m + w /\ ~(m + j <= m) /\ (m + j) - m = j
      OBVIOUS
    <3> QED
      BY <2>4, <3>1
  <2>7. f[k][m + 1] = t[k] /\ \A j \in 2 .. w : f[k][m + j] = Continuation
    BY <2>2, <2>6
  <2> QED
    BY <2>2, <2>4, <2>5, <2>7 DEF a, m, w
<1> DEFINE Extends(i, j) == /\ i < j => Len(f[i]) < Len(f[j])
                           /\ Len(f[i]) <= Len(f[j])
                           /\ \A p \in 1 .. Len(f[i]) : f[j][p] = f[i][p]
           Bad == {j \in 0 .. N : \E i \in 0 .. j : ~Extends(i, j)}
<1>7. Bad = {}
  <2> SUFFICES ASSUME Bad # {}
               PROVE  FALSE
    OBVIOUS
  <2>1. Bad \in SUBSET Nat
    <3> HIDE DEF Extends
    <3> QED
      BY <1>1
  <2>2. PICK n \in Bad : \A j \in Bad : n <= j
    <3> HIDE DEF Bad
    <3> QED
      BY <2>1, LeastElement
  <2>3. n \in 0 .. N
    <3> HIDE DEF Extends
    <3> QED
      BY <2>2
  <2>4. PICK i \in 0 .. n : ~Extends(i, n)
    <3> HIDE DEF Extends
    <3> QED
      BY <2>2
  <2>5. i # n
    <3>1. Extends(n, n)
      BY <1>3, <2>3
    <3> HIDE DEF Extends
    <3> QED
      BY <2>4, <3>1
  <2>6. n \in 1 .. N /\ i \in 0 .. n - 1 /\ n - 1 \in 0 .. N /\ i \in 0 .. N /\ ~(n <= n - 1)
    BY <1>1, <2>3, <2>4, <2>5
  <2>7. Extends(i, n - 1)
    <3> HIDE DEF Extends
    <3>1. n - 1 \notin Bad
      <4> HIDE DEF Bad
      <4> QED
        BY <2>2, <2>6
    <3> QED
      BY <2>6, <3>1
  <2>8. /\ Len(f[i]) \in Nat /\ Len(f[n - 1]) \in Nat
        /\ Len(f[n - 1]) < Len(f[n])
        /\ Len(f[n]) \in Nat
        /\ \A p \in 1 .. Len(f[n - 1]) : f[n][p] = f[n - 1][p]
    <3>1. Len(f[i]) \in Nat /\ Len(f[n - 1]) \in Nat /\ Len(f[n]) \in Nat
      BY <1>3, <2>3, <2>6
    <3>2. /\ Width(t[n]) \in 1 .. 4
          /\ Len(f[n]) = Len(f[n - 1]) + Width(t[n])
          /\ \A p \in 1 .. Len(f[n - 1]) : f[n][p] = f[n - 1][p]
      BY <1>6, <2>6
    <3> QED
      BY <3>1, <3>2
  <2>9. Len(f[i]) < Len(f[n]) /\ \A p \in 1 .. Len(f[i]) : f[n][p] = f[i][p]
    BY <2>7, <2>8
  <2> QED
    BY <2>4, <2>8, <2>9
<1>8. ASSUME NEW i \in 0 .. N, NEW j \in 0 .. N, i <= j
      PROVE  Extends(i, j)
  <2> HIDE DEF Extends
  <2>1. i \in 0 .. j /\ j \notin Bad
    <3> HIDE DEF Bad
    <3> QED
      BY <1>1, <1>7, <1>8
  <2> QED
    BY <2>1
<1>9. ASSUME NEW k \in 0 .. N
      PROVE  Bytes(SubSeq(t, 1, k)) = SubSeq(Bytes(t), 1, Size(t, k))
  <2> DEFINE m == Len(f[k])
  <2>1. m \in Nat /\ m <= Len(f[N]) /\ \A p \in 1 .. m : f[N][p] = f[k][p]
    BY <1>1, <1>3, <1>4, <1>8
  <2>2. f[k] \in Seq(ByteSet) /\ Size(t, k) = m /\ f[N] \in Seq(ByteSet)
    BY <1>3, <1>4
  <2> HIDE DEF m
  <2>3. \A p \in 1 .. m : f[N][p] \in ByteSet
    BY <2>1, <2>2
  <2>4. /\ SubSeq(f[N], 1, m) \in Seq(ByteSet) /\ Len(SubSeq(f[N], 1, m)) = m
        /\ \A p \in 1 .. m : SubSeq(f[N], 1, m)[p] = f[N][p]
    BY <2>1, <2>3, SubSeqProperties
  <2>5. SubSeq(f[N], 1, m) = f[k]
    BY <2>1, <2>2, <2>4, SeqEqual DEF m
  <2> QED
    BY <1>2, <1>5, <2>2, <2>5
<1>10. ASSUME NEW k \in 1 .. N
       PROVE  /\ Size(t, k) = Size(t, k - 1) + Width(t[k])
              /\ Bytes(t)[Size(t, k - 1) + 1] = t[k]
              /\ \A j \in 2 .. Width(t[k]) : Bytes(t)[Size(t, k - 1) + j] = Continuation
  <2>1. /\ Size(t, k) = Len(f[k]) /\ Size(t, k - 1) = Len(f[k - 1])
        /\ Len(f[k]) \in Nat /\ Len(f[k - 1]) \in Nat
    BY <1>3, <1>4
  <2>2. \A p \in 1 .. Len(f[k]) : f[N][p] = f[k][p]
    BY <1>1, <1>4, <1>8
  <2>3. /\ Width(t[k]) \in 1 .. 4
        /\ Len(f[k]) = Len(f[k - 1]) + Width(t[k])
        /\ f[k][Len(f[k - 1]) + 1] = t[k]
        /\ \A j \in 2 .. Width(t[k]) : f[k][Len(f[k - 1]) + j] = Continuation
    BY <1>6
  <2>4. ASSUME NEW j \in 1 .. Width(t[k])
        PROVE  f[N][Len(f[k - 1]) + j] = f[k][Len(f[k - 1]) + j]
    <3>1. Width(t[k]) \in 1 .. 4 /\ Len(f[k]) = Len(f[k - 1]) + Width(t[k])
      BY <2>3, Zenon
    <3>2. Len(f[k - 1]) + j \in 1 .. Len(f[k])
      <4> DEFINE m == Len(f[k - 1])
                 w == Width(t[k])
      <4>1. m \in Nat /\ w \in 1 .. 4 /\ Len(f[k]) = m + w
        BY <2>1, <3>1, Zenon
      <4>2. j \in 1 .. w
        OBVIOUS
      <4> HIDE DEF m, w
      <4>3. m + j \in 1 .. Len(f[k])
        BY <4>1, <4>2
      <4> QED
        BY <4>3 DEF m
    <3> QED
      BY <2>2, <3>2
  <2>5. f[N][Len(f[k - 1]) + 1] = t[k]
    <3>1. 1 \in 1 .. Width(t[k])
      BY <2>3
    <3> QED
      BY <2>3, <2>4, <3>1
  <2>6. ASSUME NEW j \in 2 .. Width(t[k])
        PROVE  f[N][Len(f[k - 1]) + j] = Continuation
    <3>1. j \in 1 .. Width(t[k])
      BY <2>3
    <3> QED
      BY <2>3, <2>4, <3>1
  <2> QED
    BY <1>5, <2>1, <2>3, <2>5, <2>6
<1>11. \A i, j \in 0 .. N : i < j => Size(t, i) < Size(t, j)
  BY <1>3, <1>8
<1>12. Bytes(t) \in Seq(ByteSet) /\ Size(t, 0) = 0 /\ Size(t, N) = Len(Bytes(t))
  BY <1>2, <1>3, <1>4, <1>5
<1> QED
  BY <1>3, <1>9, <1>10, <1>11, <1>12 DEF N

(* The first m bytes of a text. *)
LEMMA FirstBytes ==
    ASSUME NEW t \in Seq(Chars), NEW m \in 0 .. Len(Bytes(t))
    PROVE  /\ SubSeq(Bytes(t), 1, m) \in Seq(ByteSet)
           /\ Len(SubSeq(Bytes(t), 1, m)) = m
           /\ \A p \in 1 .. m : SubSeq(Bytes(t), 1, m)[p] = Bytes(t)[p]
           /\ m > 0 => SubSeq(SubSeq(Bytes(t), 1, m), 1, m - 1) = SubSeq(Bytes(t), 1, m - 1)
<1> DEFINE b == SubSeq(Bytes(t), 1, m)
<1>1. Bytes(t) \in Seq(ByteSet) /\ Len(Bytes(t)) \in Nat
  BY BytesLayout
<1>2. \A p \in 1 .. m : Bytes(t)[p] \in ByteSet
  BY <1>1
<1>3. b \in Seq(ByteSet) /\ Len(b) = m /\ \A p \in 1 .. m : b[p] = Bytes(t)[p]
  BY <1>1, <1>2, SubSeqProperties
<1> HIDE DEF b
<1>4. ASSUME m > 0
      PROVE  SubSeq(b, 1, m - 1) = SubSeq(Bytes(t), 1, m - 1)
  <2>1. /\ SubSeq(b, 1, m - 1) \in Seq(ByteSet) /\ Len(SubSeq(b, 1, m - 1)) = m - 1
        /\ \A p \in 1 .. m - 1 : SubSeq(b, 1, m - 1)[p] = b[p]
    <3>1. \A p \in 1 .. m - 1 : b[p] \in ByteSet
      BY <1>1, <1>3
    <3> QED
      BY <1>1, <1>4, <3>1, SubSeqProperties
  <2>2. /\ SubSeq(Bytes(t), 1, m - 1) \in Seq(ByteSet) /\ Len(SubSeq(Bytes(t), 1, m - 1)) = m - 1
        /\ \A p \in 1 .. m - 1 : SubSeq(Bytes(t), 1, m - 1)[p] = Bytes(t)[p]
    <3>1. \A p \in 1 .. m - 1 : Bytes(t)[p] \in ByteSet
      BY <1>1, <1>2
    <3> QED
      BY <1>1, <1>4, <3>1, SubSeqProperties
  <2>3. \A p \in 1 .. m - 1 : b[p] = Bytes(t)[p]
    BY <1>1, <1>3
  <2> QED
    BY <2>1, <2>2, <2>3, SeqEqual
<1> QED
  BY <1>3, <1>4 DEF b

(* Decoding the last rune of bytes that end within a character tells       *)
(* whether they hold all of it, U+FFFD included.                           *)
LEMMA LastRune ==
    ASSUME NEW t \in Seq(Chars), NEW k \in 0 .. Len(t) - 1,
           NEW m \in Nat, Size(t, k) < m, m <= Size(t, k + 1)
    PROVE  Broken(DecodeLastRune(SubSeq(Bytes(t), 1, m))) <=> m < Size(t, k + 1)
<1> DEFINE b == SubSeq(Bytes(t), 1, m)
           c == t[k + 1]
           s == Size(t, k) + 1
<1>1. k + 1 \in 1 .. Len(t) /\ (k + 1) - 1 = k /\ Len(t) \in 0 .. Len(t) /\ k + 1 \in 0 .. Len(t)
  OBVIOUS
<1>2. c \in Chars
  BY <1>1
<1>3. Width(c) \in 1 .. 4 /\ c # Continuation
  BY <1>2, RuneBytes
<1>4. /\ Size(t, k) \in Nat
      /\ Size(t, k + 1) = Size(t, k) + Width(c)
      /\ Bytes(t)[Size(t, k) + 1] = c
      /\ \A j \in 2 .. Width(c) : Bytes(t)[Size(t, k) + j] = Continuation
  <2> DEFINE n == k + 1
  <2>1. n \in 1 .. Len(t) /\ k \in 0 .. Len(t) /\ n - 1 = k
    BY <1>1
  <2> HIDE DEF n
  <2>2. /\ Size(t, n - 1) \in Nat
        /\ Size(t, n) = Size(t, n - 1) + Width(t[n])
        /\ Bytes(t)[Size(t, n - 1) + 1] = t[n]
        /\ \A j \in 2 .. Width(t[n]) : Bytes(t)[Size(t, n - 1) + j] = Continuation
    BY <2>1, BytesLayout
  <2> QED
    BY <2>1, <2>2 DEF n
<1>5. m \in 0 .. Len(Bytes(t))
  <2>1. /\ k + 1 = Len(t) \/ k + 1 < Len(t)
        /\ Size(t, k + 1) \in Nat /\ Size(t, Len(t)) = Len(Bytes(t)) /\ Len(Bytes(t)) \in Nat
        /\ k + 1 < Len(t) => Size(t, k + 1) < Size(t, Len(t))
    BY <1>1, BytesLayout
  <2> QED
    BY <2>1
<1>6. b \in Seq(ByteSet) /\ Len(b) = m /\ \A p \in 1 .. m : b[p] = Bytes(t)[p]
  BY <1>5, FirstBytes
<1> HIDE DEF b, c
<1>7. s \in 1 .. m /\ b[s] = c
  BY <1>4, <1>6
<1>8. ASSUME NEW p \in 1 .. m, p > s
      PROVE  b[p] = Continuation
  <2>1. /\ Size(t, k) \in Nat /\ Width(c) \in 1 .. 4
        /\ p > Size(t, k) + 1 /\ p <= Size(t, k) + Width(c)
    BY <1>3, <1>4, <1>8
  <2> DEFINE j == p - Size(t, k)
  <2>2. j \in 2 .. Width(c) /\ Size(t, k) + j = p
    BY <2>1
  <2>3. Bytes(t)[Size(t, k) + j] = Continuation
    BY <1>4, <2>2
  <2> QED
    BY <1>6, <2>2, <2>3
<1> HIDE DEF s
<1> DEFINE starts == {i \in DOMAIN b : b[i] # Continuation}
           last   == CHOOSE i \in starts : \A j \in starts : j <= i
<1>9. last = s
  <2>1. DOMAIN b = 1 .. m
    BY <1>6
  <2>2. s \in starts
    BY <1>3, <1>7, <2>1
  <2>3. \A j \in starts : j <= s
    BY <1>7, <1>8, <2>1
  <2>4. \A i \in starts : i \in Nat
    BY <2>1
  <2> HIDE DEF starts
  <2>5. last \in starts /\ \A j \in starts : j <= last
    BY <2>2, <2>3
  <2> QED
    BY <2>2, <2>3, <2>4, <2>5
<1>10. b # << >>
  BY <1>6, <1>7
<1>11. DecodeLastRune(b) = IF Len(b) - s + 1 = Width(c)
                           THEN [error |-> c = "FFFD", size |-> Width(c)]
                           ELSE [error |-> TRUE, size |-> 1]
  BY <1>7, <1>9, <1>10 DEF DecodeLastRune
<1>12. Len(b) - s + 1 = Width(c) <=> m = Size(t, k + 1)
  BY <1>3, <1>4, <1>6 DEF s
<1>13. CASE m = Size(t, k + 1)
  <2>1. DecodeLastRune(b) = [error |-> c = "FFFD", size |-> Width(c)]
    BY <1>11, <1>12, <1>13
  <2>2. c = "FFFD" => Width(c) = 3
    BY DEF Width
  <2>3. ~Broken([error |-> c = "FFFD", size |-> Width(c)])
    <3>1. CASE c = "FFFD"
      BY <2>2, <3>1 DEF Broken
    <3>2. CASE c # "FFFD"
      BY <3>2, Zenon DEF Broken
    <3> QED
      BY <3>1, <3>2
  <2> QED
    BY <1>13, <2>1, <2>3 DEF b
<1>14. CASE m # Size(t, k + 1)
  <2>1. DecodeLastRune(b) = [error |-> TRUE, size |-> 1]
    BY <1>11, <1>12, <1>14
  <2>2. Broken([error |-> TRUE, size |-> 1])
    BY DEF Broken
  <2>3. Size(t, k + 1) \in Nat
    BY <1>3, <1>4
  <2>4. m < Size(t, k + 1)
    BY <1>14, <2>3
  <2> QED
    BY <2>1, <2>2, <2>4 DEF b
<1> QED
  BY <1>13, <1>14

(* A text that is too long has a first character that does not fit. *)
LEMMA CutPoint ==
    ASSUME NEW t \in Seq(Chars), NEW l \in Nat, Len(Bytes(t)) > l
    PROVE  \E k \in 0 .. Len(t) - 1 : Size(t, k) <= l /\ l < Size(t, k + 1)
<1> DEFINE Over == {j \in 0 .. Len(t) : Size(t, j) > l}
<1>1. Len(t) \in Nat
  OBVIOUS
<1>2. Over \in SUBSET Nat
  BY <1>1
<1>3. Len(t) \in Over
  BY <1>1, BytesLayout
<1>4. PICK j \in Over : \A i \in Over : j <= i
  <2> HIDE DEF Over
  <2> QED
    BY <1>2, <1>3, LeastElement
<1>5. j \in 0 .. Len(t) /\ Size(t, j) > l
  BY <1>4
<1>6. j # 0
  BY <1>5, BytesLayout
<1>7. j - 1 \in 0 .. Len(t) - 1 /\ (j - 1) + 1 = j /\ j - 1 \in 0 .. Len(t) /\ ~(j <= j - 1)
  BY <1>1, <1>5, <1>6
<1>8. Size(t, j - 1) \in Nat
  BY <1>7, BytesLayout
<1>9. ~(Size(t, j - 1) > l)
  <2> HIDE DEF Over
  <2>1. j - 1 \notin Over
    BY <1>4, <1>7
  <2> QED
    BY <1>7, <2>1 DEF Over
<1>10. Size(t, j - 1) <= l
  BY <1>8, <1>9
<1> QED
  BY <1>5, <1>7, <1>10

-----------------------------------------------------------------------------
(* CallData: the invariant.                                                *)

(* The days of the request, and the arrays of a reply. *)
ReplyInv ==
    /\ pc = "input" => days \in Int
    /\ pc = "replied" =>
           \E n \in 0 .. MaxLength, temp \in Temperatures, code \in WeatherCodes :
               upstream = [time |-> [i \in 1 .. n |-> i], temp |-> temp, code |-> code]

(* The first k characters of the text fit, and no more. *)
Longest(k) ==
    /\ Size(text, k) <= limit
    /\ k < Len(text) => Size(text, k + 1) > limit

(* While bytes are stripped, what is left ends within the first character  *)
(* that does not fit, or at its beginning.                                 *)
CutInv ==
    /\ limit \in Int
    /\ pc \in {"cutting", "encoded", "recorded"} => text \in Seq(Chars) /\ limit \in Nat
    /\ pc = "cutting" =>
           \E k \in 0 .. Len(text) - 1, m \in 0 .. limit :
               /\ cut = SubSeq(Bytes(text), 1, m)
               /\ Size(text, k) <= m /\ limit < Size(text, k + 1)
    /\ (pc = "encoded" /\ ~failed) =>
           \E k \in 0 .. Len(text) : Longest(k) /\ cut = Bytes(SubSeq(text, 1, k))

DataInv == ReplyInv /\ ForecastIsUpstreams /\ CutInv /\ PreviewIsLongestPrefix

LEMMA DataInvInit == DataInit => DataInv
<1> SUFFICES ASSUME DataInit PROVE DataInv
  OBVIOUS
<1>1. ReplyInv /\ ForecastIsUpstreams
  BY DaysAssumption DEF DaysAssumption, DataInit, ReplyInv, ForecastIsUpstreams
<1>2. CutInv /\ PreviewIsLongestPrefix
  BY PreviewAssumption DEF PreviewAssumption, DataInit, CutInv, PreviewIsLongestPrefix
<1> QED
  BY <1>1, <1>2 DEF DataInv

-----------------------------------------------------------------------------
(* CallData: the forecast.                                                 *)

LEMMA ClampInRange == ASSUME NEW d \in Int PROVE Clamp(d) \in 1 .. MaxDays
BY DaysAssumption DEF DaysAssumption, Clamp

LEMMA RowsOfReply ==
    ASSUME ReplyInv, Assemble
    PROVE  ForecastIsUpstreams'
<1>1. PICK n \in 0 .. MaxLength, temp \in Temperatures, code \in WeatherCodes :
          upstream = [time |-> [i \in 1 .. n |-> i], temp |-> temp, code |-> code]
  BY DEF ReplyInv, Assemble
<1> DEFINE time == [i \in 1 .. n |-> i]
<1>2. n \in Nat /\ time \in Seq(Nat) /\ Len(time) = n /\ \A i \in 1 .. n : time[i] = i
  BY BoundAssumption DEF BoundAssumption
<1>3. /\ Len(temp) \in Nat /\ DOMAIN temp = 1 .. Len(temp)
      /\ \A i \in 1 .. Len(temp) : temp[i] \in {0, i}
  BY BoundAssumption DEF BoundAssumption, Temperatures
<1>4. Len(code) \in Nat /\ DOMAIN code = 1 .. Len(code)
  BY BoundAssumption DEF BoundAssumption, WeatherCodes
<1>5. upstream.time = time /\ upstream.temp = temp /\ upstream.code = code
  BY <1>1
<1> HIDE DEF time
<1>6. /\ pc' = "returned" /\ upstream' = upstream
      /\ rows' = [i \in 1 .. n |->
                     [date    |-> SafeSlice(time, i),
                      temp    |-> SafeSlice(temp, i),
                      code    |-> SafeSlice(code, i),
                      weather |-> DescribeWeatherCode(SafeSlice(code, i))]]
  BY <1>2, <1>5 DEF Assemble
<1>7. DOMAIN rows' = 1 .. n
  BY <1>6
<1>8. [i \in 1 .. n |-> rows'[i].date] = time
  <2>1. \A i \in 1 .. n : rows'[i].date = i
    BY <1>2, <1>6 DEF SafeSlice
  <2> QED
    BY <2>1 DEF time
<1>9. ASSUME NEW i \in 1 .. n
      PROVE  /\ rows'[i].temp \in {i, 0}
             /\ rows'[i].temp = i <=> \E k \in DOMAIN temp : k = i /\ temp[k] # 0
             /\ rows'[i].code = IF i \in DOMAIN code THEN code[i] ELSE 0
             /\ rows'[i].weather \in {rows'[i].code, Unknown}
  <2>1. /\ rows'[i].temp = SafeSlice(temp, i)
        /\ rows'[i].code = SafeSlice(code, i)
        /\ rows'[i].weather = DescribeWeatherCode(SafeSlice(code, i))
    BY <1>6
  <2>2. i \in Nat /\ i > 0
    BY <1>2
  <2>3. /\ rows'[i].temp \in {i, 0}
        /\ rows'[i].temp = i <=> \E k \in DOMAIN temp : k = i /\ temp[k] # 0
    BY <1>3, <2>1, <2>2 DEF SafeSlice
  <2>4. rows'[i].code = IF i \in DOMAIN code THEN code[i] ELSE 0
    BY <1>4, <2>1, <2>2 DEF SafeSlice
  <2>5. rows'[i].weather \in {rows'[i].code, Unknown}
    BY <2>1 DEF DescribeWeatherCode
  <2> QED
    BY <2>3, <2>4, <2>5
<1>10. upstream'.time = time /\ upstream'.temp = temp /\ upstream'.code = code
  BY <1>5, <1>6
<1>11. pc' \notin {"asked", "replied"}
  BY <1>6
<1>12. [i \in DOMAIN rows' |-> rows'[i].date] = upstream'.time
  BY <1>7, <1>8, <1>10, Zenon
<1>13. ASSUME NEW i \in DOMAIN rows'
       PROVE  /\ rows'[i].temp \in {i, 0}
              /\ rows'[i].temp = i <=> \E k \in DOMAIN upstream'.temp :
                                         k = i /\ upstream'.temp[k] # 0
              /\ rows'[i].code = IF i \in DOMAIN upstream'.code
                                THEN upstream'.code[i] ELSE 0
              /\ rows'[i].weather \in {rows'[i].code, Unknown}
  <2>1. i \in 1 .. n
    BY <1>7
  <2> QED
    BY <1>9, <1>10, <2>1, Zenon
<1> QED
  BY <1>11, <1>12, <1>13, Zenon DEF ForecastIsUpstreams

LEMMA ForecastStep ==
    ASSUME DataInv, [DataNext]_dataVars
    PROVE  ReplyInv' /\ ForecastIsUpstreams'
<1>1. CASE UNCHANGED dataVars
  BY <1>1 DEF dataVars, DataInv, ReplyInv, ForecastIsUpstreams
<1>2. CASE Ask
  <2>1. pc = "input" /\ days' = Clamp(days) /\ pc' = "asked"
    BY <1>2 DEF Ask
  <2>2. days' \in 1 .. MaxDays
    BY <2>1, ClampInRange DEF DataInv, ReplyInv
  <2> QED
    BY <2>1, <2>2 DEF ReplyInv, ForecastIsUpstreams
<1>3. CASE Reply
  BY <1>3 DEF Reply, DataInv, ReplyInv, ForecastIsUpstreams
<1>4. CASE Reject \/ NoReply
  BY <1>4 DEF Reject, NoReply, ReplyInv, ForecastIsUpstreams
<1>5. CASE Assemble
  <2>1. pc' = "returned"
    BY <1>5 DEF Assemble
  <2> QED
    BY <1>5, <2>1, RowsOfReply DEF DataInv, ReplyInv
<1>6. ASSUME pc' \notin {"input", "asked", "replied", "returned"}
      PROVE  ReplyInv' /\ ForecastIsUpstreams'
  BY <1>6 DEF ReplyInv, ForecastIsUpstreams
<1>7. CASE Record \/ (\E t \in Texts : Encode(t)) \/ Strip \/ CutFound \/ RecordToolCall
  <2>1. pc' \notin {"input", "asked", "replied", "returned"}
    BY <1>7 DEF Record, Encode, Strip, CutFound, RecordToolCall
  <2> QED
    BY <1>6, <2>1
<1> QED
  BY <1>1, <1>2, <1>3, <1>4, <1>5, <1>7 DEF DataNext

-----------------------------------------------------------------------------
(* CallData: the preview.                                                  *)

LEMMA EncodeStep ==
    ASSUME CutInv, NEW t \in Texts, Encode(t)
    PROVE  CutInv' /\ PreviewIsLongestPrefix'
<1>1. t \in Seq(Chars) /\ Len(t) \in Nat
  BY BoundAssumption DEF BoundAssumption, Texts
<1>2. PreviewLimit \in Nat
  BY PreviewAssumption DEF PreviewAssumption, PreviewLimit, CutInv
<1>3. text' = t /\ limit' = PreviewLimit /\ (failed' <=> failed)
  BY DEF Encode
<1>4. Len(Bytes(t)) \in Nat
  BY <1>1, BytesLayout
<1>5. CASE failed
  <2>1. pc' = "encoded" /\ failed'
    BY <1>3, <1>5 DEF Encode
  <2> QED
    BY <1>1, <1>2, <1>3, <2>1 DEF CutInv, PreviewIsLongestPrefix
<1>6. CASE ~failed /\ Len(Bytes(t)) <= PreviewLimit
  <2>1. pc' = "encoded" /\ cut' = Bytes(t)
    BY <1>6 DEF Encode
  <2>2. SubSeq(t, 1, Len(t)) = t
    BY <1>1
  <2>3. Len(t) \in 0 .. Len(t) /\ Size(t, Len(t)) <= PreviewLimit
    BY <1>1, <1>6, BytesLayout
  <2>4. Longest(Len(t))'
    BY <1>3, <2>3 DEF Longest, Size
  <2>5. \E k \in 0 .. Len(text') : Longest(k)' /\ cut' = Bytes(SubSeq(text', 1, k))
    BY <1>3, <2>1, <2>2, <2>3, <2>4
  <2> QED
    BY <1>1, <1>2, <1>3, <2>1, <2>5 DEF CutInv, PreviewIsLongestPrefix
<1>7. CASE ~failed /\ ~(Len(Bytes(t)) <= PreviewLimit)
  <2>1. pc' = "cutting" /\ cut' = SubSeq(Bytes(t), 1, PreviewLimit)
    BY <1>7 DEF Encode
  <2>2. PICK k \in 0 .. Len(t) - 1 : Size(t, k) <= PreviewLimit /\ PreviewLimit < Size(t, k + 1)
    BY <1>1, <1>2, <1>4, <1>7, CutPoint
  <2>3. PreviewLimit \in 0 .. PreviewLimit
    BY <1>2
  <2>4. \E j \in 0 .. Len(text') - 1, m \in 0 .. limit' :
            /\ cut' = SubSeq(Bytes(text'), 1, m)
            /\ Size(text', j) <= m /\ limit' < Size(text', j + 1)
    BY <1>3, <2>1, <2>2, <2>3
  <2> QED
    BY <1>1, <1>2, <1>3, <2>1, <2>4 DEF CutInv, PreviewIsLongestPrefix, Size
<1> QED
  BY <1>5, <1>6, <1>7

(* What is left of the text, and where it ends. *)
LEMMA Left ==
    ASSUME CutInv, pc = "cutting"
    PROVE  /\ text \in Seq(Chars) /\ limit \in Nat
           /\ \E k \in 0 .. Len(text) - 1, m \in 0 .. limit :
                 /\ cut = SubSeq(Bytes(text), 1, m) /\ Len(cut) = m
                 /\ m \in 0 .. Len(Bytes(text))
                 /\ Size(text, k) <= m /\ limit < Size(text, k + 1)
                 /\ m > Size(text, k) => Broken(DecodeLastRune(cut))
                 /\ m = Size(text, k) /\ m > 0 => ~Broken(DecodeLastRune(cut))
<1>1. text \in Seq(Chars) /\ limit \in Nat
  BY DEF CutInv
<1>2. PICK k \in 0 .. Len(text) - 1, m \in 0 .. limit :
          /\ cut = SubSeq(Bytes(text), 1, m)
          /\ Size(text, k) <= m /\ limit < Size(text, k + 1)
  BY DEF CutInv
<1>3. /\ Len(text) \in Nat /\ m \in Nat /\ m < Size(text, k + 1) /\ m <= Size(text, k + 1)
      /\ Size(text, k) \in Nat /\ Size(text, k + 1) \in Nat /\ Len(Bytes(text)) \in Nat
  <2>1. Len(text) \in Nat /\ k \in 0 .. Len(text) /\ k + 1 \in 0 .. Len(text)
    BY <1>1
  <2>2. Size(text, k) \in Nat /\ Size(text, k + 1) \in Nat /\ Len(Bytes(text)) \in Nat
    BY <1>1, <2>1, BytesLayout
  <2> QED
    BY <1>1, <1>2, <2>1, <2>2
<1>4. Size(text, k + 1) <= Len(Bytes(text))
  <2>1. k + 1 \in 0 .. Len(text) /\ Len(text) \in 0 .. Len(text)
        /\ (k + 1 = Len(text) \/ k + 1 < Len(text))
    BY <1>3
  <2>2. /\ Size(text, Len(text)) = Len(Bytes(text))
        /\ k + 1 < Len(text) => Size(text, k + 1) < Size(text, Len(text))
    BY <1>1, <2>1, BytesLayout
  <2> QED
    BY <1>3, <2>1, <2>2
<1>5. m \in 0 .. Len(Bytes(text))
  BY <1>3, <1>4
<1>6. Len(cut) = m
  BY <1>1, <1>2, <1>5, FirstBytes
<1>7. ASSUME m > Size(text, k)
      PROVE  Broken(DecodeLastRune(cut))
  BY <1>1, <1>2, <1>3, <1>7, LastRune
<1>8. ASSUME m = Size(text, k), m > 0
      PROVE  ~Broken(DecodeLastRune(cut))
  <2>1. k # 0
    BY <1>1, <1>8, BytesLayout
  <2>2. k - 1 \in 0 .. Len(text) - 1 /\ (k - 1) + 1 = k
        /\ k - 1 \in 0 .. Len(text) /\ k \in 0 .. Len(text) /\ k - 1 < k
    BY <1>3, <2>1
  <2>3. Size(text, k - 1) < m
    BY <1>1, <1>8, <2>2, BytesLayout
  <2>4. m <= Size(text, (k - 1) + 1)
    BY <1>3, <1>8, <2>2
  <2>5. Broken(DecodeLastRune(SubSeq(Bytes(text), 1, m))) <=> m < Size(text, (k - 1) + 1)
    BY <1>1, <1>3, <2>2, <2>3, <2>4, LastRune
  <2>6. ~(m < Size(text, (k - 1) + 1))
    BY <1>3, <1>8, <2>2
  <2> QED
    BY <1>2, <2>5, <2>6
<1> QED
  BY <1>1, <1>2, <1>5, <1>6, <1>7, <1>8

LEMMA StripStep ==
    ASSUME CutInv, Strip
    PROVE  CutInv' /\ PreviewIsLongestPrefix'
<1>1. /\ pc = "cutting" /\ pc' = "cutting"
      /\ cut # << >> /\ Broken(DecodeLastRune(cut))
      /\ cut' = SubSeq(cut, 1, Len(cut) - 1)
      /\ text' = text /\ limit' = limit
  BY DEF Strip
<1>2. text \in Seq(Chars) /\ limit \in Nat
  BY <1>1, Left
<1>3. PICK k \in 0 .. Len(text) - 1, m \in 0 .. limit :
          /\ cut = SubSeq(Bytes(text), 1, m) /\ Len(cut) = m
          /\ m \in 0 .. Len(Bytes(text))
          /\ Size(text, k) <= m /\ limit < Size(text, k + 1)
          /\ m > Size(text, k) => Broken(DecodeLastRune(cut))
          /\ m = Size(text, k) /\ m > 0 => ~Broken(DecodeLastRune(cut))
  BY <1>1, Left
<1>4. m > 0
  <2>1. cut \in Seq(ByteSet)
    BY <1>2, <1>3, FirstBytes
  <2> QED
    BY <1>1, <1>2, <1>3, <2>1
<1>5. Size(text, k) \in Nat
  BY <1>2, BytesLayout
<1>6. m - 1 \in 0 .. limit /\ Size(text, k) <= m - 1
  BY <1>1, <1>2, <1>3, <1>4, <1>5
<1>7. cut' = SubSeq(Bytes(text), 1, m - 1)
  <2>1. SubSeq(SubSeq(Bytes(text), 1, m), 1, m - 1) = SubSeq(Bytes(text), 1, m - 1)
    BY <1>2, <1>3, <1>4, FirstBytes
  <2> QED
    BY <1>1, <1>3, <2>1
<1>8. \E j \in 0 .. Len(text') - 1, n \in 0 .. limit' :
          /\ cut' = SubSeq(Bytes(text'), 1, n)
          /\ Size(text', j) <= n /\ limit' < Size(text', j + 1)
  BY <1>1, <1>3, <1>6, <1>7
<1> QED
  BY <1>1, <1>2, <1>8 DEF CutInv, PreviewIsLongestPrefix, Size

LEMMA FoundStep ==
    ASSUME CutInv, CutFound
    PROVE  CutInv' /\ PreviewIsLongestPrefix'
<1>1. /\ pc = "cutting" /\ pc' = "encoded"
      /\ cut = << >> \/ ~Broken(DecodeLastRune(cut))
      /\ cut' = cut /\ text' = text /\ limit' = limit
  BY DEF CutFound
<1>2. text \in Seq(Chars) /\ limit \in Nat
  BY <1>1, Left
<1>3. PICK k \in 0 .. Len(text) - 1, m \in 0 .. limit :
          /\ cut = SubSeq(Bytes(text), 1, m) /\ Len(cut) = m
          /\ m \in 0 .. Len(Bytes(text))
          /\ Size(text, k) <= m /\ limit < Size(text, k + 1)
          /\ m > Size(text, k) => Broken(DecodeLastRune(cut))
          /\ m = Size(text, k) /\ m > 0 => ~Broken(DecodeLastRune(cut))
  BY <1>1, Left
<1>4. k \in 0 .. Len(text) /\ Size(text, k) \in Nat
  BY <1>2, BytesLayout
<1>5. m = Size(text, k)
  <2>1. CASE cut = << >>
    BY <1>3, <1>4, <2>1
  <2>2. CASE ~Broken(DecodeLastRune(cut))
    BY <1>3, <1>4, <2>2
  <2> QED
    BY <1>1, <2>1, <2>2
<1>6. cut = Bytes(SubSeq(text, 1, k))
  BY <1>2, <1>3, <1>4, <1>5, BytesLayout
<1>7. Longest(k)
  BY <1>2, <1>3, <1>4, <1>5 DEF Longest
<1>8. \E j \in 0 .. Len(text') : Longest(j)' /\ cut' = Bytes(SubSeq(text', 1, j))
  BY <1>1, <1>4, <1>6, <1>7 DEF Longest, Size
<1> QED
  BY <1>1, <1>2, <1>8 DEF CutInv, PreviewIsLongestPrefix, Size

LEMMA RecordStep ==
    ASSUME CutInv, RecordToolCall
    PROVE  CutInv' /\ PreviewIsLongestPrefix'
<1>1. /\ pc = "encoded" /\ pc' = "recorded"
      /\ failed' = failed /\ limit' = limit /\ text' = text /\ cut' = cut
      /\ call' = [is_error    |-> failed,
                  output_json |-> cut,
                  output_size |-> IF failed THEN 0 ELSE Len(Bytes(text)),
                  truncated   |-> ~failed /\ Len(Bytes(text)) > limit]
  BY DEF RecordToolCall
<1>2. text \in Seq(Chars) /\ limit \in Nat
  BY <1>1 DEF CutInv
<1>3. CutInv'
  BY <1>1, <1>2 DEF CutInv
<1>4. CASE failed
  <2>1. failed'
    BY <1>1, <1>4, Zenon
  <2> QED
    BY <1>3, <2>1, Zenon DEF PreviewIsLongestPrefix
<1>5. CASE ~failed
  <2>1. PICK k \in 0 .. Len(text) : Longest(k) /\ cut = Bytes(SubSeq(text, 1, k))
    BY <1>1, <1>5 DEF CutInv
  <2>2. /\ Len(text) \in Nat /\ Size(text, Len(text)) = Len(Bytes(text))
        /\ Len(Bytes(text)) \in Nat
    BY <1>2, BytesLayout
  <2>3. Len(Bytes(text)) > limit <=> k < Len(text)
    <3>1. CASE k = Len(text)
      BY <1>2, <2>1, <2>2, <3>1 DEF Longest
    <3>2. CASE k < Len(text)
      <4>1. k + 1 \in 0 .. Len(text) /\ Len(text) \in 0 .. Len(text)
            /\ (k + 1 = Len(text) \/ k + 1 < Len(text))
        BY <2>2, <3>2
      <4>2. /\ Size(text, k + 1) \in Nat
            /\ k + 1 < Len(text) => Size(text, k + 1) < Size(text, Len(text))
        BY <1>2, <4>1, BytesLayout
      <4>3. Size(text, k + 1) > limit
        BY <2>1, <3>2 DEF Longest
      <4> QED
        BY <1>2, <2>2, <3>2, <4>1, <4>2, <4>3
    <3> QED
      BY <2>2, <3>1, <3>2
  <2>4. /\ call'.output_json = cut /\ call'.output_size = Len(Bytes(text))
        /\ call'.truncated <=> Len(Bytes(text)) > limit
    BY <1>1, <1>5
  <2>5. /\ Len(Bytes(SubSeq(text, 1, k))) <= limit
        /\ k < Len(text) => ~(Len(Bytes(SubSeq(text, 1, k + 1))) <= limit)
    <3>1. k < Len(text) => Size(text, k + 1) \in Nat /\ Size(text, k + 1) > limit
      <4>1. k < Len(text) => k + 1 \in 0 .. Len(text)
        BY <2>2
      <4> QED
        BY <1>2, <2>1, <4>1, BytesLayout DEF Longest
    <3> QED
      BY <1>2, <2>1, <3>1 DEF Longest, Size
  <2> QED
    BY <1>1, <1>3, <2>1, <2>3, <2>4, <2>5 DEF PreviewIsLongestPrefix
<1> QED
  BY <1>3, <1>4, <1>5

LEMMA PreviewStep ==
    ASSUME DataInv, [DataNext]_dataVars
    PROVE  CutInv' /\ PreviewIsLongestPrefix'
<1>1. CASE UNCHANGED dataVars
  BY <1>1 DEF dataVars, DataInv, CutInv, PreviewIsLongestPrefix, Longest
<1>2. CASE Reject \/ Ask \/ Reply \/ NoReply \/ Assemble \/ Record
  <2>1. pc' \in {"asked", "replied", "returned", "record"} /\ limit' = limit
    BY <1>2 DEF Reject, Ask, Reply, NoReply, Assemble, Record
  <2> QED
    BY <2>1 DEF DataInv, CutInv, PreviewIsLongestPrefix
<1> QED
  BY <1>1, <1>2, EncodeStep, StripStep, FoundStep, RecordStep DEF DataInv, DataNext

LEMMA DataInvariance == DataSpec => []DataInv
<1>1. DataInv /\ [DataNext]_dataVars => DataInv'
  BY ForecastStep, PreviewStep DEF DataInv
<1> QED
  BY DataInvInit, <1>1, PTL DEF DataSpec

-----------------------------------------------------------------------------
(* ForecastIsUpstreams holds, whatever arrays Open-Meteo sends: a day that *)
(* an array does not reach has a zero, never the value of another day.     *)
THEOREM RowsAreUpstreams == DataSpec => []ForecastIsUpstreams
<1>1. DataInv => ForecastIsUpstreams
  BY DEF DataInv
<1> QED
  BY <1>1, DataInvariance, PTL

(* PreviewIsLongestPrefix holds, for any text and any limit: the last rune *)
(* that is left decodes as broken exactly while its character is cut, and  *)
(* a character U+FFFD of the text itself is not mistaken for a broken one. *)
THEOREM PreviewLongest == DataSpec => []PreviewIsLongestPrefix
<1>1. DataInv => PreviewIsLongestPrefix
  BY DEF DataInv
<1> QED
  BY <1>1, DataInvariance, PTL
=============================================================================
