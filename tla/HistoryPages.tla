---------------------------- MODULE HistoryPages ----------------------------
(***************************************************************************)
(* Paging through the history: ListToolCalls                               *)
(* (internal/storage/history_repo.go) read page after page by one client,  *)
(* while tool calls go on being recorded.                                  *)
(*                                                                         *)
(* RecordToolCall takes the time before its INSERT, so rows may appear out *)
(* of the order of called_at, and several may carry the same called_at.    *)
(* Ids are random: a call is named by its id, and ids are compared as      *)
(* numbers.  A cursor is the id of a row, and rows never change, so that   *)
(* reading the cursor's row and then the page is one step.                 *)
(***************************************************************************)
EXTENDS Naturals, Sequences, FiniteSets, SequencesExt

CONSTANTS
    Calls,                   \* ids of the calls recorded in a behaviour
    NoCursor,                \* the empty string
    Limits,                  \* values of the limit parameter, 0 when absent
    DefaultHistoryPageSize,
    MaxHistoryPageSize,
    MaxClock                 \* bound on the wall clock of a behaviour

ASSUME CallsAssumption == Calls \subseteq Nat /\ IsFiniteSet(Calls) /\ NoCursor \notin Calls
ASSUME LimitAssumption ==
    /\ Limits \subseteq Nat
    /\ DefaultHistoryPageSize \in 1 .. MaxHistoryPageSize
    /\ MaxHistoryPageSize \in Nat
ASSUME ClockAssumption == MaxClock \in Nat

VARIABLES
    clock,      \* time.Now()
    calledAt,   \* calledAt[c]: the stamp of call c
    matches,    \* matches[c]: actor, tool and status of c are those asked for
    writer,     \* writer[c]: where RecordToolCall stands for c
    filtered,   \* the client filters
    reading,    \* "start", "more" or "done"
    cursor,     \* the next_cursor the client holds
    seen,       \* the calls it was sent, in order
    overtaken   \* history: rows inserted in the part already read

vars == <<clock, calledAt, matches, writer, filtered, reading, cursor, seen, overtaken>>

Times == 0 .. MaxClock

TypeOK ==
    /\ clock     \in Times
    /\ calledAt  \in [Calls -> Times]
    /\ matches   \in [Calls -> BOOLEAN]
    /\ writer    \in [Calls -> {"before", "stamped", "inserted", "failed"}]
    /\ filtered  \in BOOLEAN
    /\ reading   \in {"start", "more", "done"}
    /\ cursor    \in Calls \cup {NoCursor}
    /\ seen      \in Seq(Calls)
    /\ overtaken \subseteq Calls

Init ==
    /\ clock     = 0
    /\ calledAt  = [c \in Calls |-> 0]
    /\ matches   \in [Calls -> BOOLEAN]
    /\ writer    = [c \in Calls |-> "before"]
    /\ filtered  \in BOOLEAN
    /\ reading   = "start"
    /\ cursor    = NoCursor
    /\ seen      = << >>
    /\ overtaken = {}

-----------------------------------------------------------------------------
(* Recording.                                                              *)

(* called_at DESC, id DESC *)
Newer(c, d) == calledAt[c] > calledAt[d] \/ (calledAt[c] = calledAt[d] /\ c > d)

Stamp(c) ==
    /\ writer[c] = "before"
    /\ calledAt' = [calledAt EXCEPT ![c] = clock]
    /\ writer'   = [writer EXCEPT ![c] = "stamped"]
    /\ UNCHANGED <<clock, matches, filtered, reading, cursor, seen, overtaken>>

(* The client has read the place where c belongs. *)
PlaceIsRead(c) == reading = "done" \/ (reading = "more" /\ Newer(c, cursor))

Insert(c) ==
    /\ writer[c] = "stamped"
    /\ writer'    = [writer EXCEPT ![c] = "inserted"]
    /\ overtaken' = IF PlaceIsRead(c) THEN overtaken \cup {c} ELSE overtaken
    /\ UNCHANGED <<clock, calledAt, matches, filtered, reading, cursor, seen>>

InsertFails(c) ==
    /\ writer[c] = "stamped"
    /\ writer' = [writer EXCEPT ![c] = "failed"]
    /\ UNCHANGED <<clock, calledAt, matches, filtered, reading, cursor, seen, overtaken>>

Tick ==
    /\ clock < MaxClock
    /\ clock' = clock + 1
    /\ UNCHANGED <<calledAt, matches, writer, filtered, reading, cursor, seen, overtaken>>

-----------------------------------------------------------------------------
(* Reading a page.                                                         *)

Table     == {c \in Calls : writer[c] = "inserted"}
Wanted(c) == filtered => matches[c]

PageSize(limit) ==
    IF limit <= 0 \/ limit > MaxHistoryPageSize THEN DefaultHistoryPageSize ELSE limit

(* Faulty variants of definitions below: the id tie-break forgotten, not   *)
(* bracketed against the filter, sorted the wrong way.                     *)
Faulty_AfterByTime(cur) ==
    {c \in Table : Wanted(c) /\ (cur # NoCursor => calledAt[c] < calledAt[cur])}
Faulty_AfterUnbracketed(cur) ==
    {c \in Table : IF cur = NoCursor THEN Wanted(c)
                   ELSE \/ Wanted(c) /\ calledAt[c] < calledAt[cur]
                        \/ calledAt[c] = calledAt[cur] /\ c < cur}
Faulty_InOrderById(S) == SetToSortSeq(S, LAMBDA c, d : c > d)

(* Faulty: the cursor is the position in time, not the id. *)
Faulty_NextCursorIsTime(page, limit) ==
    IF Len(page) = limit THEN calledAt[page[Len(page)]] ELSE NoCursor

(* Faulty: every page has a cursor, an empty one the cursor it was asked with. *)
Faulty_NextCursorAlways(page, limit) ==
    IF page = << >> THEN cursor ELSE page[Len(page)]

(* WHERE filter AND (called_at < ? OR (called_at = ? AND id < ?)) *)
After(cur) == {c \in Table : Wanted(c) /\ (cur # NoCursor => Newer(cur, c))}

(* ORDER BY called_at DESC, id DESC: as many rows are newer than one as    *)
(* come before it.  (SetToSortSeq rests on SortSeq, a built-in of TLC that *)
(* TLAPS does not define.)                                                 *)
InOrder(S) ==
    [i \in 1 .. Cardinality(S) |->
        CHOOSE c \in S : Cardinality({d \in S : Newer(d, c)}) = i - 1]

NextCursor(page, limit) == IF Len(page) = limit THEN page[Len(page)] ELSE NoCursor

ReadPage(limit) ==
    LET size == PageSize(limit)
        rest == InOrder(After(cursor))
        page == SubSeq(rest, 1, IF Len(rest) < size THEN Len(rest) ELSE size)
    IN  /\ reading # "done"
        /\ seen'    = seen \o page
        /\ cursor'  = NextCursor(page, size)
        /\ reading' = IF cursor' = NoCursor THEN "done" ELSE "more"
        /\ UNCHANGED <<clock, calledAt, matches, writer, filtered, overtaken>>

-----------------------------------------------------------------------------
Next ==
    \/ \E c \in Calls : Stamp(c) \/ Insert(c) \/ InsertFails(c)
    \/ Tick
    \/ \E limit \in Limits : ReadPage(limit)

(* A client that has a cursor goes on reading; one that has not begun may  *)
(* never do so.                                                            *)
Fairness == WF_vars(reading = "more" /\ \E limit \in Limits : ReadPage(limit))

Spec == Init /\ [][Next]_vars /\ Fairness

-----------------------------------------------------------------------------
(* The pages make one list: no call twice, newest first across the page    *)
(* boundaries, and only calls that pass the filter, whatever is recorded   *)
(* between two pages and however page sizes vary.                          *)
PagesAreOneList ==
    /\ \A i, j \in 1 .. Len(seen) : i < j => Newer(seen[i], seen[j])
    /\ \A i \in 1 .. Len(seen) : Wanted(seen[i])

(* "keyset so it stays stable under concurrent appends"                    *)
(* (internal/storage/history_repo.go:42): of the part read so far nothing  *)
(* is passed over but calls inserted there after it was read.              *)
NothingIsPassedOver ==
    \A c \in Table :
        (Wanted(c) /\ PlaceIsRead(c) /\ c \notin overtaken)
            => \E i \in 1 .. Len(seen) : seen[i] = c

(* A client that keeps asking reaches the end of the history. *)
ReadersFinish == reading = "more" ~> reading = "done"
=============================================================================
