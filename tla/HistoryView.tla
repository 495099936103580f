---------------------------- MODULE HistoryView ----------------------------
(***************************************************************************)
(* The history page of the web interface (web/src/pages/History.jsx) over  *)
(* listToolCallsHandler (internal/restapi/history.go): a list that a       *)
(* reader filters and extends page by page, from answers that come in any  *)
(* order or not at all, while calls go on being recorded.                  *)
(*                                                                         *)
(* Filters by tool, status and actor are one filter here, by actor.  The   *)
(* page of an answer is HistoryPages' query, on rows ordered by their ids. *)
(* The error message is left out: it is shown beside the list.             *)
(***************************************************************************)
EXTENDS Naturals, Sequences, FiniteSets

CONSTANTS
    Calls, NoCursor, DefaultHistoryPageSize,   \* as in HistoryPages
    ActorIds,
    Everyone,   \* no filter
    Filters,    \* the filters the reader tries
    Null,
    MaxLoads    \* bound on the requests of a behaviour

ASSUME ViewAssumption ==
    /\ Calls \subseteq Nat /\ IsFiniteSet(Calls) /\ NoCursor \notin Calls
    /\ DefaultHistoryPageSize \in Nat \ {0}

VARIABLES
    actorOf,    \* actorOf[c]: the actor of call c
    writer,     \* writer[c]: "stamped" or "inserted"
    (* the state of the page *)
    filter,     \* tool, status and actor of the address bar
    calls,      \* the list, in order
    actorMap,   \* the actors whose names the page knows
    nextCursor,
    loading,
    (* the network *)
    sent,       \* number of requests sent so far
    requests,   \* requests whose promises are not settled
    (* history *)
    careless    \* the reader did what may mix up the list, and it is not mended

vars == <<actorOf, writer, filter, calls, actorMap, nextCursor, loading,
          sent, requests, careless>>

(* HistoryPages as a query, with the page size of the server: the          *)
(* interface never sends a limit.  The filter is Passes.                   *)
Server == INSTANCE HistoryPages WITH
    Limits <- {0}, MaxHistoryPageSize <- DefaultHistoryPageSize, MaxClock <- 0,
    clock <- 0, calledAt <- [c \in Calls |-> 0],
    matches <- [c \in Calls |-> TRUE], filtered <- FALSE,
    reading <- "start", cursor <- NoCursor, seen <- << >>, overtaken <- {}

(* An answer not given yet is Null. *)
Request(i, kind, f, cursor) ==
    [id |-> i, kind |-> kind, filter |-> f, cursor |-> cursor,
     cancelled |-> FALSE, answer |-> Null]

More == {q \in requests : q.kind = "more"}

Passes(c, f) == f # Everyone => actorOf[c] = f

(* The page is opened with any filter in its address. *)
Init ==
    /\ actorOf    \in [Calls -> ActorIds]
    /\ writer     = [c \in Calls |-> "stamped"]
    /\ filter     \in Filters
    /\ calls      = << >>
    /\ actorMap   = {}
    /\ nextCursor = NoCursor
    /\ loading    = TRUE
    /\ sent       = 1
    /\ requests   = {Request(1, "first", filter, NoCursor)}
    /\ careless   = FALSE

-----------------------------------------------------------------------------
(* Faulty variants of definitions below, not part of Next. *)

(* The answer to a first page is taken, whatever was asked since. *)
Faulty_Ignored(q) == FALSE

(* The names that come with a further page replace those of the list. *)
Faulty_NamesWith(q) == q.answer.actors

(* The spinner is taken down by an answer only. *)
Faulty_LoadingAfterError(q) == loading

(* A further page is asked with the filter but from the top. *)
Faulty_LoadMoreFromTop ==
    /\ ~loading /\ calls # << >> /\ nextCursor # NoCursor
    /\ sent < MaxLoads
    /\ sent'     = sent + 1
    /\ requests' = requests \cup {Request(sent', "more", filter, NoCursor)}
    /\ careless' = (careless \/ More # {})
    /\ UNCHANGED <<actorOf, writer, filter, calls, actorMap, nextCursor, loading>>

-----------------------------------------------------------------------------
(* The server.                                                             *)

Record(c) ==
    /\ writer[c] = "stamped"
    /\ writer' = [writer EXCEPT ![c] = "inserted"]
    /\ UNCHANGED <<actorOf, filter, calls, actorMap, nextCursor, loading,
                   sent, requests, careless>>

(* One page of the filtered history, and the names of its actors: actors   *)
(* are never deleted, so that the second query finds every one of them.    *)
Page(q) ==
    LET query == Server!InOrder({c \in Server!After(q.cursor) : Passes(c, q.filter)})
        size  == Server!PageSize(0)
        page  == SubSeq(query, 1, IF Len(query) < size THEN Len(query) ELSE size)
    IN  [calls  |-> page,
         next   |-> Server!NextCursor(page, size),
         actors |-> {actorOf[page[i]] : i \in DOMAIN page}]

ListToolCalls(q) ==
    /\ q.answer = Null
    /\ requests' = (requests \ {q}) \cup {[q EXCEPT !.answer = Page(q)]}
    /\ UNCHANGED <<actorOf, writer, filter, calls, actorMap, nextCursor, loading,
                   sent, careless>>

-----------------------------------------------------------------------------
(* The reader.                                                             *)

(* A changed filter cancels what the effect had under way and runs it      *)
(* again; further pages under way are not cancelled.                       *)
SetFilter(f) ==
    /\ f # filter
    /\ sent < MaxLoads
    /\ filter'   = f
    /\ loading'  = TRUE
    /\ sent'     = sent + 1
    /\ requests' = {[q EXCEPT !.cancelled = (q.kind = "first")] : q \in requests}
                       \cup {Request(sent', "first", f, NoCursor)}
    /\ careless' = (careless \/ More # {})
    /\ UNCHANGED <<actorOf, writer, calls, actorMap, nextCursor>>

(* "Load more" stays where it is while its answer is under way. *)
LoadMore ==
    /\ ~loading /\ calls # << >> /\ nextCursor # NoCursor
    /\ sent < MaxLoads
    /\ sent'     = sent + 1
    /\ requests' = requests \cup {Request(sent', "more", filter, nextCursor)}
    /\ careless' = (careless \/ More # {})
    /\ UNCHANGED <<actorOf, writer, filter, calls, actorMap, nextCursor, loading>>

-----------------------------------------------------------------------------
(* Promises.                                                               *)

Ignored(q) == q.cancelled

NamesWith(q) == actorMap \cup q.answer.actors

(* A first page takes the spinner down by its error too. *)
LoadingAfterError(q) == loading /\ q.kind = "more"

ShowFirst(q) ==
    /\ q.kind = "first" /\ q.answer # Null
    /\ requests' = requests \ {q}
    /\ IF Ignored(q) THEN UNCHANGED <<calls, actorMap, nextCursor, loading, careless>>
       ELSE /\ calls'      = q.answer.calls
            /\ actorMap'   = q.answer.actors
            /\ nextCursor' = q.answer.next
            /\ loading'    = FALSE
            /\ careless'   = (careless /\ More # {})
    /\ UNCHANGED <<actorOf, writer, filter, sent>>

ShowMore(q) ==
    /\ q.kind = "more" /\ q.answer # Null
    /\ requests'   = requests \ {q}
    /\ calls'      = calls \o q.answer.calls
    /\ actorMap'   = NamesWith(q)
    /\ nextCursor' = q.answer.next
    /\ UNCHANGED <<actorOf, writer, filter, loading, sent, careless>>

(* The request or its answer is lost, or the server answers with an error: *)
(* the list, its cursor and its names stay what they were.                 *)
Fail(q) ==
    /\ requests' = requests \ {q}
    /\ IF q.kind = "first" /\ Ignored(q) THEN UNCHANGED <<loading, careless>>
       ELSE /\ loading'  = LoadingAfterError(q)
            /\ careless' = (careless \/ q.kind = "first")
    /\ UNCHANGED <<actorOf, writer, filter, calls, actorMap, nextCursor, sent>>

Progress(q) == ListToolCalls(q) \/ ShowFirst(q) \/ ShowMore(q) \/ Fail(q)

-----------------------------------------------------------------------------
Next ==
    \/ \E c \in Calls : Record(c)
    \/ \E f \in Filters : SetFilter(f)
    \/ LoadMore
    \/ \E q \in requests : Progress(q)

(* The server answers, or the browser gives the connection up. *)
Fairness ==
    \A i \in 1 .. MaxLoads : WF_vars(\E q \in requests : q.id = i /\ Progress(q))

Spec == Init /\ [][Next]_vars /\ Fairness

-----------------------------------------------------------------------------
(* What is shown under a filter is one list: newest first, no call twice,  *)
(* nothing the filter excludes, in whatever order the answers come, unless *)
(* the reader asked for a further page before the last one had come,       *)
(* changed the filter with a further page under way, or the first page of  *)
(* the filter failed.  The next first page that is shown mends it.  "Load  *)
(* more" goes on after the last call of the list.                          *)
ShownCallsAreOneList ==
    (~careless /\ ~loading) =>
        /\ \A i \in DOMAIN calls : Passes(calls[i], filter)
        /\ \A i, j \in DOMAIN calls : i < j => calls[i] > calls[j]
        /\ nextCursor # NoCursor => calls # << >> /\ nextCursor = calls[Len(calls)]

(* Every call on the page has a name to show, after errors, repeated and   *)
(* overtaken requests too: a page replaces or extends calls and names      *)
(* together.                                                               *)
EveryCallHasAName ==
    \A i \in DOMAIN calls : actorOf[calls[i]] \in actorMap

(* The spinner goes away when the reader stops changing the filter: the    *)
(* request of the last filter takes it down, with an answer or an error.   *)
LoadingEnds == []<>(~loading)
=============================================================================
