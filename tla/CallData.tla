------------------------------ MODULE CallData ------------------------------
(***************************************************************************)
(* The data of one get_forecast call: what is asked of Open-Meteo, how its *)
(* parallel arrays become rows (internal/tools/weather/client.go,          *)
(* tool_forecast.go), and what of the output the recorder keeps            *)
(* (internal/mcpserver/recorder.go).                                       *)
(*                                                                         *)
(* Of the five arrays of values two are modelled: temperatures, where the  *)
(* value of day i is i and a null is decoded to 0, and weather codes.      *)
(* A text is a sequence of characters; a byte is the first byte of a       *)
(* character, which tells its width, or a continuation byte.  json.Marshal *)
(* gives well-formed UTF-8, whatever it is given.                          *)
(***************************************************************************)
EXTENDS Integers, Sequences, SequencesExt

CONSTANTS
    Days,                   \* values of the input's days, 0 when absent
    DefaultDays, MaxDays,   \* 7 and 16
    Codes,                  \* weather codes that Open-Meteo may send
    wmoDescriptions,        \* the codes that have a description
    MaxLength,              \* bound on the arrays of Open-Meteo
    PreviewBytes,           \* values of Recorder.PreviewBytes
    DefaultPreviewBytes,
    MaxText                 \* bound on the characters of an output

VARIABLES
    pc,        \* where the call stands
    days,      \* the input's days; later, forecast_days of the request
    units,     \* the input's units
    upstream,  \* the reply of Open-Meteo
    rows,      \* ForecastOutput.days
    failed,    \* the handler returned an error
    limit,     \* Recorder.PreviewBytes
    text,      \* the encoded output
    cut,       \* its preview, byte by byte
    call       \* the row of tool_calls

dataVars == <<pc, days, units, upstream, rows, failed, limit, text, cut, call>>

ASSUME DaysAssumption == Days \subseteq Int /\ DefaultDays \in 1 .. MaxDays /\ MaxDays \in Nat
ASSUME PreviewAssumption == DefaultPreviewBytes \in Nat \ {0} /\ PreviewBytes \subseteq Int
ASSUME BoundAssumption == MaxLength \in Nat /\ MaxText \in Nat

Nothing == << >>

DataInit ==
    /\ pc       = "input"
    /\ days     \in Days
    /\ units    \in {"", "metric", "imperial", "other"}
    /\ upstream = Nothing
    /\ rows     = Nothing
    /\ failed   = FALSE
    /\ limit    \in PreviewBytes
    /\ text     = Nothing
    /\ cut      = Nothing
    /\ call     = Nothing

-----------------------------------------------------------------------------
(* Faulty variants of definitions below, not part of DataNext. *)

(* Only negative numbers are replaced. *)
Faulty_Clamp(d) == IF d < 0 THEN DefaultDays ELSE IF d > MaxDays THEN MaxDays ELSE d

(* A short array gives its last value for the days it does not have. *)
Faulty_SafeSlice(ss, i) == IF ss = << >> THEN 0 ELSE ss[IF i < Len(ss) THEN i ELSE Len(ss)]

(* The size that comes with the decoded rune is not looked at. *)
Faulty_Broken(rune) == rune.error

(* Only one byte is stripped. *)
Faulty_BrokenOnce(rune) == rune.error /\ rune.size <= 1 /\ Len(cut) = limit

-----------------------------------------------------------------------------
(* The forecast.                                                           *)

Clamp(d) == IF d <= 0 THEN DefaultDays ELSE IF d > MaxDays THEN MaxDays ELSE d

(* Units that are none of the three are rejected; a location may not be    *)
(* found (see WeatherCalls for what is sent before that is known).         *)
Reject ==
    /\ pc = "input"
    /\ pc' = "returned"
    /\ failed' = TRUE
    /\ UNCHANGED <<days, units, upstream, rows, limit, text, cut, call>>

Ask ==
    /\ pc = "input"
    /\ units # "other"
    /\ pc' = "asked"
    /\ days' = Clamp(days)
    /\ UNCHANGED <<units, upstream, rows, failed, limit, text, cut, call>>

(* Arrays of values of which each may be null. *)
Temperatures == {temp \in UNION {[1 .. n -> 0 .. n] : n \in 0 .. MaxLength} :
                    \A i \in DOMAIN temp : temp[i] \in {0, i}}
WeatherCodes == UNION {[1 .. n -> Codes \cup {0}] : n \in 0 .. MaxLength}

(* Open-Meteo (external) answers; nothing says that its arrays are as long *)
(* as the number of days asked for, or equally long.                       *)
Reply ==
    /\ pc = "asked"
    /\ pc' = "replied"
    /\ \E n \in 0 .. MaxLength, temp \in Temperatures, code \in WeatherCodes :
           upstream' = [time |-> [i \in 1 .. n |-> i], temp |-> temp, code |-> code]
    /\ UNCHANGED <<days, units, rows, failed, limit, text, cut, call>>

NoReply ==
    /\ pc = "asked"
    /\ pc' = "returned"
    /\ failed' = TRUE
    /\ UNCHANGED <<days, units, upstream, rows, limit, text, cut, call>>

(* The zero value when the array is too short. *)
SafeSlice(ss, i) == IF i <= Len(ss) THEN ss[i] ELSE 0

(* A description is named by its code. *)
Unknown == -1

DescribeWeatherCode(code) == IF code \in wmoDescriptions THEN code ELSE Unknown

Assemble ==
    /\ pc = "replied"
    /\ pc' = "returned"
    /\ rows' = [i \in 1 .. Len(upstream.time) |->
                   [date    |-> SafeSlice(upstream.time, i),
                    temp    |-> SafeSlice(upstream.temp, i),
                    code    |-> SafeSlice(upstream.code, i),
                    weather |-> DescribeWeatherCode(SafeSlice(upstream.code, i))]]
    /\ UNCHANGED <<days, units, upstream, failed, limit, text, cut, call>>

-----------------------------------------------------------------------------
(* The record.                                                             *)

(* Characters of one to four bytes, and U+FFFD, which is what decoding a   *)
(* broken sequence gives too.                                              *)
Chars        == {"one", "two", "three", "four", "FFFD"}
Width(c)     == CASE c = "one" -> 1 [] c = "two" -> 2 [] c = "four" -> 4 [] OTHER -> 3
Continuation == "continuation"
Bytes(t)     == FlattenSeq([i \in DOMAIN t |->
                    <<t[i]>> \o [j \in 1 .. Width(t[i]) - 1 |-> Continuation]])

PreviewLimit == IF limit <= 0 THEN DefaultPreviewBytes ELSE limit

(* The handler has returned: its data are of no further use. *)
Record ==
    /\ pc = "returned"
    /\ pc' = "record"
    /\ days' = 0 /\ units' = "" /\ upstream' = Nothing /\ rows' = Nothing
    /\ UNCHANGED <<failed, limit, text, cut, call>>

(* An error is kept whole, whatever its length; its size is not noted. *)
Encode(t) ==
    /\ pc = "record"
    /\ text'  = t
    /\ limit' = PreviewLimit
    /\ IF failed \/ Len(Bytes(t)) <= PreviewLimit
       THEN cut' = Bytes(t) /\ pc' = "encoded"
       ELSE cut' = SubSeq(Bytes(t), 1, PreviewLimit) /\ pc' = "cutting"
    /\ UNCHANGED <<days, units, upstream, rows, failed, call>>

(* utf8.DecodeLastRuneInString: the last character if it is whole, and     *)
(* otherwise an error of size 1, or of size 0 when nothing is left.        *)
DecodeLastRune(b) ==
    LET starts == {i \in DOMAIN b : b[i] # Continuation}
        last   == CHOOSE i \in starts : \A j \in starts : j <= i
    IN  IF b = << >> THEN [error |-> TRUE, size |-> 0]
        ELSE IF Len(b) - last + 1 = Width(b[last])
             THEN [error |-> b[last] = "FFFD", size |-> Width(b[last])]
             ELSE [error |-> TRUE, size |-> 1]

Broken(rune) == rune.error /\ rune.size <= 1

Strip ==
    /\ pc = "cutting"
    /\ cut # << >>
    /\ Broken(DecodeLastRune(cut))
    /\ cut' = SubSeq(cut, 1, Len(cut) - 1)
    /\ UNCHANGED <<pc, days, units, upstream, rows, failed, limit, text, call>>

CutFound ==
    /\ pc = "cutting"
    /\ cut = << >> \/ ~Broken(DecodeLastRune(cut))
    /\ pc' = "encoded"
    /\ UNCHANGED <<days, units, upstream, rows, failed, limit, text, cut, call>>

RecordToolCall ==
    /\ pc = "encoded"
    /\ pc' = "recorded"
    /\ call' = [is_error    |-> failed,
                output_json |-> cut,
                output_size |-> IF failed THEN 0 ELSE Len(Bytes(text)),
                truncated   |-> ~failed /\ Len(Bytes(text)) > limit]
    /\ UNCHANGED <<days, units, upstream, rows, failed, limit, text, cut>>

-----------------------------------------------------------------------------
(* An encoded output has at least its braces. *)
Texts == UNION {[1 .. n -> Chars] : n \in 1 .. MaxText}

DataNext ==
    \/ Reject \/ Ask \/ Reply \/ NoReply \/ Assemble \/ Record
    \/ \E t \in Texts : Encode(t)
    \/ Strip \/ CutFound \/ RecordToolCall

DataSpec == DataInit /\ [][DataNext]_dataVars

-----------------------------------------------------------------------------
(* The number of days asked of Open-Meteo is one it accepts, whatever the  *)
(* agent asked for, and the rows are aligned with the dates that came      *)
(* back: one row per date, holding the values of that very day, or zero    *)
(* where the array is too short or has a null, so that a missing code      *)
(* reads as code 0.                                                        *)
ForecastIsUpstreams ==
    /\ pc \in {"asked", "replied"} => days \in 1 .. MaxDays
    /\ (pc = "returned" /\ ~failed) =>
           /\ [i \in DOMAIN rows |-> rows[i].date] = upstream.time
           /\ \A i \in DOMAIN rows :
                  /\ rows[i].temp \in {i, 0}
                  /\ rows[i].temp = i <=> \E k \in DOMAIN upstream.temp :
                                              k = i /\ upstream.temp[k] # 0
                  /\ rows[i].code = IF i \in DOMAIN upstream.code
                                    THEN upstream.code[i] ELSE 0
                  /\ rows[i].weather \in {rows[i].code, Unknown}

(* The preview of an output is the longest run of whole characters from    *)
(* its beginning that fits into the limit, and the row says whether that   *)
(* is all and how long the output was.                                     *)
PreviewIsLongestPrefix ==
    (pc = "recorded" /\ ~failed) =>
        LET fits(k) == Len(Bytes(SubSeq(text, 1, k))) <= limit IN
        /\ \E k \in 0 .. Len(text) :
               /\ call.output_json = Bytes(SubSeq(text, 1, k))
               /\ fits(k)
               /\ k < Len(text) => ~fits(k + 1)
               /\ call.truncated <=> k < Len(text)
        /\ call.output_size = Len(Bytes(text))
=============================================================================
