------------------------- MODULE HistoryViewProofs -------------------------
(***************************************************************************)
(* Proofs about HistoryView, for any finite set of calls, any page size,   *)
(* any filters and any number of requests.                                 *)
(*                                                                         *)
(* What the page shows follows from what is known of the requests under    *)
(* way: what an answer holds (AnswerInv), that at most one first page is   *)
(* still wanted, and only while the spinner turns (FirstInv), and that a   *)
(* careful reader has at most one further page under way, which goes on    *)
(* where the list ends (MoreInv).                                          *)
(***************************************************************************)
EXTENDS HistoryView, SequenceTheorems, TLAPS

(* The order of the server's rows does not depend on the filter. *)
P == INSTANCE HistoryPagesProofs WITH
    Limits <- {0}, MaxHistoryPageSize <- DefaultHistoryPageSize, MaxClock <- 0,
    clock <- 0, calledAt <- [c \in Calls |-> 0],
    matches <- [c \in Calls |-> TRUE], filtered <- FALSE,
    reading <- "start", cursor <- NoCursor, seen <- << >>, overtaken <- {}

Cursors == Calls \cup {NoCursor}

(* Answers, and the requests they belong to. *)
Answers == [calls : Seq(Calls), next : Cursors, actors : SUBSET ActorIds]

RequestRecords ==
    [id : Nat, kind : {"first", "more"}, filter : Filters, cursor : Cursors,
     cancelled : BOOLEAN, answer : Answers \cup {Null}]

TypeOK ==
    /\ actorOf \in [Calls -> ActorIds]
    /\ filter \in Filters
    /\ calls \in Seq(Calls)
    /\ actorMap \subseteq ActorIds
    /\ nextCursor \in Cursors
    /\ loading \in BOOLEAN
    /\ sent \in Nat
    /\ requests \subseteq RequestRecords
    /\ careless \in BOOLEAN

(* An answer holds calls that the filter passes, newest first, after the   *)
(* cursor, with the names of their actors, and leads on from its last one. *)
Fits(answer, f, cur) ==
    /\ \A i \in DOMAIN answer.calls :
          /\ Passes(answer.calls[i], f)
          /\ cur # NoCursor => cur > answer.calls[i]
          /\ actorOf[answer.calls[i]] \in answer.actors
    /\ \A i, j \in DOMAIN answer.calls : i < j => answer.calls[i] > answer.calls[j]
    /\ answer.next # NoCursor =>
          answer.calls # << >> /\ answer.next = answer.calls[Len(answer.calls)]

AnswerInv == \A q \in requests : q.answer # Null => Fits(q.answer, q.filter, q.cursor)

(* The first pages that will be shown when they come. *)
Awaited == {q \in requests : q.kind = "first" /\ ~q.cancelled}

FirstInv ==
    /\ \A q \in Awaited : loading /\ q.filter = filter /\ q.cursor = NoCursor
    /\ \A p, q \in Awaited : p = q

MoreInv ==
    ~careless =>
        /\ \A q \in More :
              ~loading /\ q.filter = filter /\ q.cursor = nextCursor /\ nextCursor # NoCursor
        /\ \A p, q \in More : p = q

IInv ==
    /\ TypeOK
    /\ AnswerInv
    /\ FirstInv
    /\ MoreInv
    /\ ShownCallsAreOneList
    /\ EveryCallHasAName

-----------------------------------------------------------------------------
(* An answer of the server.                                                *)

(* The rows of a query, by the order of ids: HistoryPagesProofs for rows   *)
(* that all carry the same called_at.                                      *)
LEMMA QueryIsOrdered ==
    ASSUME NEW S \in SUBSET Calls
    PROVE  LET query == Server!InOrder(S) IN
           /\ query \in Seq(S)
           /\ \A i, j \in 1 .. Len(query) : i < j => query[i] > query[j]
<1> DEFINE query == Server!InOrder(S)
<1>1. query = P!InOrder(S)
  BY DEF Server!InOrder, P!InOrder, Server!Newer, P!Newer,
         Server!Cardinality, P!Cardinality
<1>2. P!Stamped
  BY DEF P!Stamped
<1>3. P!CallsAssumption /\ P!LimitAssumption /\ P!ClockAssumption
  BY ViewAssumption DEF P!CallsAssumption, P!LimitAssumption, P!ClockAssumption,
                        IsFiniteSet, P!IsFiniteSet
<1>4. /\ P!InOrder(S) \in Seq(S)
      /\ \A i, j \in 1 .. Len(P!InOrder(S)) :
            i < j => P!Newer(P!InOrder(S)[i], P!InOrder(S)[j])
  BY <1>2, <1>3, P!OrderedRows DEF P!OrderedRows, P!CallsAssumption, P!LimitAssumption, P!ClockAssumption
<1> HIDE DEF query
<1>5. ASSUME NEW i \in 1 .. Len(query), NEW j \in 1 .. Len(query), i < j
      PROVE  query[i] > query[j]
  <2>1. P!Newer(query[i], query[j])
    BY <1>1, <1>4, <1>5
  <2>2. query[i] \in Calls /\ query[j] \in Calls
    BY <1>1, <1>4
  <2> QED
    BY <2>1, <2>2, ViewAssumption DEF P!Newer
<1> QED
  BY <1>1, <1>4, <1>5 DEF query

(* What the server answers is an answer to what was asked. *)
LEMMA PageFits ==
    ASSUME TypeOK, NEW q \in requests
    PROVE  Page(q) \in Answers /\ Fits(Page(q), q.filter, q.cursor)
<1> DEFINE S     == {c \in Server!After(q.cursor) : Passes(c, q.filter)}
           query == Server!InOrder(S)
           size  == Server!PageSize(0)
           n     == IF Len(query) < size THEN Len(query) ELSE size
           page  == SubSeq(query, 1, n)
           names == {actorOf[page[i]] : i \in DOMAIN page}
<1>1. q.cursor \in Cursors
  BY DEF TypeOK, RequestRecords
<1>2. /\ S \in SUBSET Calls
      /\ \A c \in S : Passes(c, q.filter) /\ (q.cursor # NoCursor => q.cursor > c)
  <2>1. ASSUME NEW c \in S
        PROVE  /\ c \in Calls
               /\ q.cursor # NoCursor => Server!Newer(q.cursor, c)
               /\ Passes(c, q.filter)
    BY DEF Server!After, Server!Table
  <2> HIDE DEF S
  <2>2. ASSUME NEW c \in S, q.cursor # NoCursor
        PROVE  q.cursor > c
    BY <1>1, <2>1, <2>2, ViewAssumption DEF Server!Newer, Cursors
  <2> QED
    BY <2>1, <2>2
<1> HIDE DEF S
<1>3. /\ query \in Seq(S)
      /\ \A i, j \in 1 .. Len(query) : i < j => query[i] > query[j]
  BY <1>2, QueryIsOrdered
<1>4. size \in Nat \ {0}
  BY ViewAssumption DEF Server!PageSize
<1> HIDE DEF query, size
<1>5. n \in 0 .. Len(query)
  BY <1>3, <1>4
<1>6. \A i \in 1 .. n : query[i] \in S
  BY <1>3, <1>5
<1> HIDE DEF n
<1>7. page \in Seq(S) /\ Len(page) = n /\ \A i \in 1 .. n : page[i] = query[i]
  BY <1>5, <1>6, SubSeqProperties
<1> HIDE DEF page
<1>8. \A i, j \in 1 .. n : i < j => page[i] > page[j]
  BY <1>3, <1>5, <1>7
<1>9. /\ page \in Seq(Calls) /\ Len(page) \in Nat /\ DOMAIN page = 1 .. n
      /\ \A i \in 1 .. n : page[i] \in S
  BY <1>2, <1>7
<1>10. names \subseteq ActorIds /\ \A i \in DOMAIN page : actorOf[page[i]] \in names
  <2>1. \A i \in DOMAIN page : actorOf[page[i]] \in ActorIds
    BY <1>2, <1>9 DEF TypeOK
  <2> QED
    BY <2>1
<1>11. /\ Server!NextCursor(page, size) \in Cursors
       /\ Server!NextCursor(page, size) # NoCursor =>
             page # << >> /\ Server!NextCursor(page, size) = page[Len(page)]
  <2>1. CASE Len(page) = size
    <3>1. Len(page) \in 1 .. n /\ page # << >>
      BY <1>4, <1>7, <1>9, <2>1
    <3>2. page[Len(page)] \in Calls
      BY <1>2, <1>9, <3>1
    <3> QED
      BY <2>1, <3>1, <3>2 DEF Server!NextCursor, Cursors
  <2>2. CASE Len(page) # size
    BY <2>2 DEF Server!NextCursor, Cursors
  <2> QED
    BY <2>1, <2>2
<1>12. Page(q) = [calls |-> page, next |-> Server!NextCursor(page, size), actors |-> names]
  BY DEF Page, page, n, query, S, size
<1> HIDE DEF names
<1>13. Page(q) \in Answers
  BY <1>9, <1>10, <1>11, <1>12 DEF Answers
<1>14. Fits(Page(q), q.filter, q.cursor)
  BY <1>2, <1>8, <1>9, <1>10, <1>11, <1>12 DEF Fits
<1> QED
  BY <1>13, <1>14

-----------------------------------------------------------------------------
(* What happens to the requests.                                           *)

(* An answer is all that the server adds to a request. *)
LEMMA RequestAnswered ==
    ASSUME TypeOK, NEW q \in requests, ListToolCalls(q)
    PROVE  \E r \in RequestRecords :
              /\ requests' = (requests \ {q}) \cup {r}
              /\ r.kind = q.kind /\ r.filter = q.filter /\ r.cursor = q.cursor
              /\ r.cancelled = q.cancelled
              /\ Fits(r.answer, r.filter, r.cursor)
<1> DEFINE r == [q EXCEPT !.answer = Page(q)]
<1>1. q \in RequestRecords
  BY DEF TypeOK
<1>2. Page(q) \in Answers /\ Fits(Page(q), q.filter, q.cursor)
  BY PageFits
<1>3. /\ r \in RequestRecords
      /\ r.kind = q.kind /\ r.filter = q.filter /\ r.cursor = q.cursor
      /\ r.cancelled = q.cancelled /\ r.answer = Page(q)
  BY <1>1, <1>2 DEF RequestRecords
<1>4. requests' = (requests \ {q}) \cup {r}
  BY DEF ListToolCalls
<1> HIDE DEF r
<1> QED
  BY <1>2, <1>3, <1>4

(* A changed filter cancels every first page but its own. *)
LEMMA RequestsCancelled ==
    ASSUME TypeOK, NEW f \in Filters, SetFilter(f)
    PROVE  \E new \in RequestRecords :
              /\ new.kind = "first" /\ new.filter = f /\ new.cursor = NoCursor
              /\ new.answer = Null
              /\ \A r \in requests' \ {new} :
                    \E q \in requests :
                        /\ r \in RequestRecords
                        /\ r.kind = q.kind /\ r.filter = q.filter /\ r.cursor = q.cursor
                        /\ r.answer = q.answer
                        /\ r.cancelled = (r.kind = "first")
<1> DEFINE new == Request(sent + 1, "first", f, NoCursor)
           old(q) == [q EXCEPT !.cancelled = (q.kind = "first")]
<1>1. requests' = {old(q) : q \in requests} \cup {new}
  BY DEF SetFilter
<1>2. /\ new \in RequestRecords
      /\ new.kind = "first" /\ new.filter = f /\ new.cursor = NoCursor /\ new.answer = Null
  <2>1. sent + 1 \in Nat /\ NoCursor \in Cursors
    BY DEF TypeOK, Cursors
  <2> QED
    BY <2>1 DEF Request, RequestRecords
<1> HIDE DEF new
<1>3. ASSUME NEW q \in requests
      PROVE  /\ old(q) \in RequestRecords
             /\ old(q).kind = q.kind /\ old(q).filter = q.filter /\ old(q).cursor = q.cursor
             /\ old(q).answer = q.answer /\ old(q).cancelled = (old(q).kind = "first")
  BY DEF TypeOK, RequestRecords
<1> HIDE DEF old
<1> QED
  BY <1>1, <1>2, <1>3

(* A further page is asked where the list ends. *)
LEMMA MoreAsked ==
    ASSUME TypeOK, LoadMore
    PROVE  \E new \in RequestRecords :
              /\ requests' = requests \cup {new}
              /\ new.kind = "more" /\ new.filter = filter /\ new.cursor = nextCursor
              /\ new.answer = Null
<1> DEFINE new == Request(sent + 1, "more", filter, nextCursor)
<1>1. sent + 1 \in Nat /\ filter \in Filters /\ nextCursor \in Cursors
  BY DEF TypeOK
<1>2. /\ new \in RequestRecords
      /\ new.kind = "more" /\ new.filter = filter /\ new.cursor = nextCursor
      /\ new.answer = Null
  BY <1>1 DEF Request, RequestRecords
<1>3. requests' = requests \cup {new}
  BY DEF LoadMore
<1> HIDE DEF new
<1> QED
  BY <1>2, <1>3

(* The calls, their actors and the answers keep. *)
LEMMA AnswerStep ==
    ASSUME TypeOK, AnswerInv, [Next]_vars
    PROVE  /\ actorOf' = actorOf
           /\ requests' \subseteq RequestRecords
           /\ AnswerInv'
<1>1. actorOf' = actorOf
  BY DEF Next, Record, SetFilter, LoadMore, Progress, ListToolCalls, ShowFirst, ShowMore, Fail, vars
<1>2. \A a, f, c : Fits(a, f, c) => Fits(a, f, c)'
  BY <1>1 DEF Fits, Passes
<1> DEFINE OK(r) == r \in RequestRecords /\ (r.answer # Null => Fits(r.answer, r.filter, r.cursor))
<1>3. \A r \in requests : OK(r)
  BY DEF TypeOK, AnswerInv
<1>4. \A r \in requests' : OK(r)
  <2>1. ASSUME NEW f \in Filters, SetFilter(f)
        PROVE  \A r \in requests' : OK(r)
    BY <1>3, <2>1, RequestsCancelled
  <2>2. ASSUME LoadMore
        PROVE  \A r \in requests' : OK(r)
    BY <1>3, <2>2, MoreAsked
  <2>3. ASSUME NEW q \in requests, ListToolCalls(q)
        PROVE  \A r \in requests' : OK(r)
    BY <1>3, <2>3, RequestAnswered
  <2>4. CASE requests' \subseteq requests
    BY <1>3, <2>4
  <2> QED
    BY <2>1, <2>2, <2>3, <2>4 DEF Next, Record, Progress, ShowFirst, ShowMore, Fail, vars
<1> QED
  BY <1>1, <1>2, <1>4 DEF AnswerInv

LEMMA TypeStep == TypeOK /\ AnswerInv /\ [Next]_vars => TypeOK'
<1> SUFFICES ASSUME TypeOK, AnswerInv, [Next]_vars
             PROVE  TypeOK'
  OBVIOUS
<1>1. actorOf' = actorOf /\ requests' \subseteq RequestRecords
  BY AnswerStep
<1>2. filter' \in Filters /\ sent' \in Nat /\ loading' \in BOOLEAN
  <2>1. ASSUME NEW f \in Filters, SetFilter(f)
        PROVE  filter' \in Filters /\ sent' \in Nat /\ loading' \in BOOLEAN
    BY <2>1 DEF TypeOK, SetFilter
  <2>2. ASSUME LoadMore
        PROVE  filter' \in Filters /\ sent' \in Nat /\ loading' \in BOOLEAN
    BY <2>2 DEF TypeOK, LoadMore
  <2>3. ASSUME NEW q \in requests, Progress(q)
        PROVE  filter' \in Filters /\ sent' \in Nat /\ loading' \in BOOLEAN
    BY <2>3 DEF TypeOK, Progress, ListToolCalls, ShowFirst, ShowMore, Fail, LoadingAfterError
  <2>4. CASE UNCHANGED <<filter, sent, loading>>
    BY <2>4 DEF TypeOK
  <2> QED
    BY <2>1, <2>2, <2>3, <2>4 DEF Next, Record, vars
<1>3. careless' \in BOOLEAN
  BY Zenon DEF TypeOK, Next, Record, SetFilter, LoadMore, Progress, ListToolCalls, ShowFirst,
               ShowMore, Fail, vars
<1>4. calls' \in Seq(Calls) /\ actorMap' \subseteq ActorIds /\ nextCursor' \in Cursors
  <2>1. ASSUME NEW q \in requests, ShowFirst(q) \/ ShowMore(q)
        PROVE  q.answer \in Answers
    BY <2>1 DEF TypeOK, RequestRecords, ShowFirst, ShowMore
  <2>2. ASSUME NEW q \in requests, ShowFirst(q)
        PROVE  calls' \in Seq(Calls) /\ actorMap' \subseteq ActorIds /\ nextCursor' \in Cursors
    BY <2>1, <2>2 DEF TypeOK, Answers, ShowFirst
  <2>3. ASSUME NEW q \in requests, ShowMore(q)
        PROVE  calls' \in Seq(Calls) /\ actorMap' \subseteq ActorIds /\ nextCursor' \in Cursors
    <3>1. q.answer \in Answers
      BY <2>1, <2>3
    <3>2. calls' \in Seq(Calls)
      BY <2>3, <3>1, ConcatProperties DEF TypeOK, Answers, ShowMore
    <3> QED
      BY <2>3, <3>1, <3>2 DEF TypeOK, Answers, ShowMore, NamesWith
  <2>4. CASE UNCHANGED <<calls, actorMap, nextCursor>>
    BY <2>4 DEF TypeOK
  <2> QED
    BY <2>2, <2>3, <2>4
       DEF Next, Record, SetFilter, LoadMore, Progress, ListToolCalls, Fail, vars
<1> QED
  BY <1>1, <1>2, <1>3, <1>4 DEF TypeOK

(* At most one first page is awaited, under the spinner. *)
LEMMA FirstStep == TypeOK /\ FirstInv /\ [Next]_vars => FirstInv'
<1> SUFFICES ASSUME TypeOK, FirstInv, [Next]_vars
             PROVE  FirstInv'
  OBVIOUS
<1>1. ASSUME NEW f \in Filters, SetFilter(f)
      PROVE  FirstInv'
  <2>1. PICK new \in RequestRecords :
          /\ new.filter = f /\ new.cursor = NoCursor
          /\ \A r \in requests' \ {new} : r.cancelled = (r.kind = "first")
    BY <1>1, RequestsCancelled
  <2>2. Awaited' \subseteq {new}
    BY <2>1 DEF Awaited
  <2>3. loading' /\ filter' = f
    BY <1>1 DEF SetFilter
  <2> QED
    BY <2>1, <2>2, <2>3 DEF FirstInv
<1>2. ASSUME Awaited' \subseteq Awaited, UNCHANGED <<loading, filter>>
      PROVE  FirstInv'
  BY <1>2 DEF FirstInv
<1>3. ASSUME LoadMore
      PROVE  FirstInv'
  <2>1. Awaited' \subseteq Awaited
    BY <1>3, MoreAsked DEF Awaited
  <2> QED
    BY <1>2, <1>3, <2>1 DEF LoadMore
<1>4. ASSUME NEW q \in requests, ListToolCalls(q)
      PROVE  FirstInv'
  <2>1. PICK r \in RequestRecords :
          /\ requests' = (requests \ {q}) \cup {r}
          /\ r.kind = q.kind /\ r.filter = q.filter /\ r.cursor = q.cursor
          /\ r.cancelled = q.cancelled
    BY <1>4, RequestAnswered
  <2>2. UNCHANGED <<loading, filter>>
    BY <1>4 DEF ListToolCalls
  <2>3. CASE q \in Awaited
    <3>1. Awaited' \subseteq {r}
      BY <2>1, <2>3 DEF FirstInv, Awaited
    <3> QED
      BY <2>1, <2>2, <2>3, <3>1 DEF FirstInv
  <2>4. CASE q \notin Awaited
    <3>1. Awaited' \subseteq Awaited
      BY <2>1, <2>4 DEF Awaited
    <3> QED
      BY <1>2, <2>2, <3>1
  <2> QED
    BY <2>3, <2>4
<1>5. ASSUME NEW q \in requests, ShowFirst(q) \/ ShowMore(q) \/ Fail(q)
      PROVE  FirstInv'
  <2>1. requests' = requests \ {q} /\ filter' = filter
    BY <1>5 DEF ShowFirst, ShowMore, Fail
  <2>2. CASE q \in Awaited
    <3>1. Awaited' = {}
      BY <2>1, <2>2 DEF FirstInv, Awaited
    <3> QED
      BY <3>1 DEF FirstInv
  <2>3. CASE q \notin Awaited
    <3>1. loading' = loading
      BY <1>5, <2>3 DEF ShowFirst, ShowMore, Fail, Awaited, Ignored, LoadingAfterError,
                        TypeOK, RequestRecords
    <3> QED
      BY <1>2, <2>1, <3>1 DEF Awaited
  <2> QED
    BY <2>2, <2>3
<1>6. CASE UNCHANGED <<requests, loading, filter>>
  BY <1>2, <1>6 DEF Awaited
<1> QED
  BY <1>1, <1>3, <1>4, <1>5, <1>6 DEF Next, Progress, Record, vars

(* A careful reader has one further page under way, asked where the list   *)
(* ends.                                                                   *)
LEMMA MoreStep == TypeOK /\ FirstInv /\ MoreInv /\ [Next]_vars => MoreInv'
<1> SUFFICES ASSUME TypeOK, FirstInv, MoreInv, [Next]_vars, ~careless'
             PROVE  /\ \A q \in More' : /\ ~loading' /\ q.filter = filter'
                                       /\ q.cursor = nextCursor' /\ nextCursor' # NoCursor
                    /\ \A p, q \in More' : p = q
  BY DEF MoreInv
<1>1. ASSUME NEW f \in Filters, SetFilter(f)
      PROVE  More' = {}
  <2>1. PICK new \in RequestRecords :
          /\ new.kind = "first"
          /\ \A r \in requests' \ {new} : \E q \in requests : r.kind = q.kind
    BY <1>1, RequestsCancelled
  <2>2. More = {}
    BY <1>1 DEF SetFilter
  <2> QED
    BY <2>1, <2>2 DEF More
<1>2. ASSUME LoadMore
      PROVE  /\ \A q \in More' : /\ ~loading' /\ q.filter = filter'
                                /\ q.cursor = nextCursor' /\ nextCursor' # NoCursor
             /\ \A p, q \in More' : p = q
  <2>1. PICK new \in RequestRecords :
          /\ requests' = requests \cup {new}
          /\ new.filter = filter /\ new.cursor = nextCursor
    BY <1>2, MoreAsked
  <2>2. More = {}
    BY <1>2 DEF LoadMore
  <2>3. More' \subseteq {new}
    BY <2>1, <2>2 DEF More
  <2> QED
    BY <1>2, <2>1, <2>3 DEF LoadMore
<1>3. ASSUME More' \subseteq More, ~careless, UNCHANGED <<loading, filter, nextCursor>>
      PROVE  /\ \A q \in More' : /\ ~loading' /\ q.filter = filter'
                                /\ q.cursor = nextCursor' /\ nextCursor' # NoCursor
             /\ \A p, q \in More' : p = q
  BY <1>3 DEF MoreInv
<1>4. ASSUME NEW q \in requests, ListToolCalls(q)
      PROVE  /\ \A r \in More' : /\ ~loading' /\ r.filter = filter'
                                /\ r.cursor = nextCursor' /\ nextCursor' # NoCursor
             /\ \A p, r \in More' : p = r
  <2>1. PICK r \in RequestRecords :
          /\ requests' = (requests \ {q}) \cup {r}
          /\ r.kind = q.kind /\ r.filter = q.filter /\ r.cursor = q.cursor
    BY <1>4, RequestAnswered
  <2>2. ~careless /\ UNCHANGED <<loading, filter, nextCursor>>
    BY <1>4 DEF ListToolCalls
  <2>3. CASE q \in More
    <3>1. More' \subseteq {r}
      BY <2>1, <2>2, <2>3 DEF MoreInv, More
    <3> QED
      BY <2>1, <2>2, <2>3, <3>1 DEF MoreInv
  <2>4. CASE q \notin More
    <3>1. More' \subseteq More
      BY <2>1, <2>4 DEF More
    <3> QED
      BY <1>3, <2>2, <3>1
  <2> QED
    BY <2>3, <2>4
<1>5. ASSUME NEW q \in requests, ShowFirst(q)
      PROVE  /\ \A r \in More' : /\ ~loading' /\ r.filter = filter'
                                /\ r.cursor = nextCursor' /\ nextCursor' # NoCursor
             /\ \A p, r \in More' : p = r
  <2>1. More' \subseteq More
    BY <1>5 DEF ShowFirst, More
  <2>2. CASE q \in Awaited
    <3>1. loading
      BY <2>2 DEF FirstInv
    <3>2. careless => More = {}
      BY <1>5, <2>2 DEF ShowFirst, Ignored, Awaited
    <3>3. More = {}
      BY <3>1, <3>2 DEF MoreInv
    <3> QED
      BY <2>1, <3>3
  <2>3. CASE q \notin Awaited
    <3>1. ~careless /\ UNCHANGED <<loading, filter, nextCursor>>
      BY <1>5, <2>3 DEF ShowFirst, Ignored, Awaited
    <3> QED
      BY <1>3, <2>1, <3>1
  <2> QED
    BY <2>2, <2>3
<1>6. ASSUME NEW q \in requests, ShowMore(q)
      PROVE  More' = {}
  <2>1. ~careless /\ q \in More /\ More' = More \ {q}
    BY <1>6 DEF ShowMore, More
  <2> QED
    BY <2>1 DEF MoreInv
<1>7. ASSUME NEW q \in requests, Fail(q)
      PROVE  /\ \A r \in More' : /\ ~loading' /\ r.filter = filter'
                                /\ r.cursor = nextCursor' /\ nextCursor' # NoCursor
             /\ \A p, r \in More' : p = r
  <2>1. More' \subseteq More
    BY <1>7 DEF Fail, More
  <2>2. ~careless /\ UNCHANGED <<filter, nextCursor>>
    BY <1>7 DEF Fail
  <2>3. loading' = loading
    BY <1>7 DEF Fail, LoadingAfterError, TypeOK, RequestRecords
  <2> QED
    BY <1>3, <2>1, <2>2, <2>3
<1>8. CASE UNCHANGED <<requests, loading, filter, nextCursor, careless>>
  BY <1>3, <1>8 DEF More
<1> QED
  BY <1>1, <1>2, <1>4, <1>5, <1>6, <1>7, <1>8 DEF Next, Progress, Record, vars

-----------------------------------------------------------------------------
(* What is shown.                                                          *)

(* A further page extends the list at its end. *)
LEMMA MoreExtends ==
    ASSUME TypeOK, AnswerInv, MoreInv, ShownCallsAreOneList, ~careless,
           NEW q \in requests, ShowMore(q)
    PROVE  /\ \A i \in DOMAIN calls' : Passes(calls'[i], filter)
           /\ \A i, j \in DOMAIN calls' : i < j => calls'[i] > calls'[j]
           /\ nextCursor' # NoCursor => calls' # << >> /\ nextCursor' = calls'[Len(calls')]
<1> DEFINE more == q.answer.calls
           m    == Len(calls)
           n    == Len(more)
<1>1. q \in More
  BY DEF ShowMore, More
<1>2. ~loading /\ q.filter = filter /\ q.cursor = nextCursor /\ nextCursor # NoCursor
  BY <1>1 DEF MoreInv
<1>3. /\ \A i \in DOMAIN calls : Passes(calls[i], filter)
      /\ \A i, j \in DOMAIN calls : i < j => calls[i] > calls[j]
      /\ calls # << >> /\ nextCursor = calls[m]
  BY <1>2 DEF ShownCallsAreOneList
<1>4. q.answer \in Answers /\ Fits(q.answer, filter, nextCursor)
  BY <1>2 DEF ShowMore, TypeOK, RequestRecords, AnswerInv
<1>5. /\ more \in Seq(Calls)
      /\ \A i \in DOMAIN more : Passes(more[i], filter) /\ nextCursor > more[i]
      /\ \A i, j \in DOMAIN more : i < j => more[i] > more[j]
      /\ q.answer.next # NoCursor => more # << >> /\ q.answer.next = more[n]
  BY <1>2, <1>4 DEF Answers, Fits
<1>6. calls' = calls \o more /\ nextCursor' = q.answer.next
  BY DEF ShowMore
<1> HIDE DEF more
<1>7. /\ m \in Nat /\ n \in Nat /\ DOMAIN calls = 1 .. m /\ DOMAIN more = 1 .. n
      /\ \A i \in 1 .. m : calls[i] \in Nat
      /\ \A i \in 1 .. n : more[i] \in Nat
  <2>1. calls \in Seq(Calls) /\ more \in Seq(Calls) /\ Calls \subseteq Nat
    BY <1>5, ViewAssumption DEF TypeOK
  <2>2. m \in Nat /\ n \in Nat /\ DOMAIN calls = 1 .. m /\ DOMAIN more = 1 .. n
    BY <2>1
  <2>3. \A i \in 1 .. m : calls[i] \in Calls
    BY <2>1
  <2>4. \A i \in 1 .. n : more[i] \in Calls
    BY <2>1
  <2> QED
    BY <2>1, <2>2, <2>3, <2>4
<1>8. /\ calls' \in Seq(Calls) /\ Len(calls') = m + n
      /\ \A i \in 1 .. m + n : calls'[i] = IF i <= m THEN calls[i] ELSE more[i - m]
  BY <1>5, <1>6, ConcatProperties DEF TypeOK
<1>9. DOMAIN calls' = 1 .. m + n
  BY <1>8
<1> HIDE DEF m, n
<1>10. ASSUME NEW i \in 1 .. m + n
       PROVE  /\ i <= m => i \in 1 .. m /\ calls'[i] = calls[i]
              /\ i > m => i - m \in 1 .. n /\ calls'[i] = more[i - m]
  BY <1>7, <1>8, <1>10
<1>11. ASSUME NEW i \in 1 .. m + n
       PROVE  Passes(calls'[i], filter)
  <2>1. CASE i <= m
    BY <1>3, <1>7, <1>10, <2>1
  <2>2. CASE i > m
    BY <1>5, <1>7, <1>10, <2>2
  <2> QED
    BY <1>7, <2>1, <2>2
<1>12. \A i \in 1 .. m : m \in 1 .. m /\ (i = m \/ calls[i] > nextCursor)
  BY <1>3, <1>7
<1>13. ASSUME NEW i \in 1 .. m + n, NEW j \in 1 .. m + n, i < j
       PROVE  calls'[i] > calls'[j]
  <2>1. CASE j <= m
    <3>1. i \in 1 .. m /\ j \in 1 .. m /\ calls'[i] = calls[i] /\ calls'[j] = calls[j]
      BY <1>7, <1>10, <1>13, <2>1
    <3> QED
      BY <1>3, <1>7, <1>13, <3>1
  <2>2. CASE i <= m /\ j > m
    <3>1. i \in 1 .. m /\ j - m \in 1 .. n /\ calls'[i] = calls[i] /\ calls'[j] = more[j - m]
      BY <1>10, <2>2
    <3>2. nextCursor > more[j - m] /\ (calls[i] = nextCursor \/ calls[i] > nextCursor)
      BY <1>3, <1>5, <1>7, <1>12, <3>1
    <3>3. nextCursor \in Nat /\ calls[i] \in Nat /\ more[j - m] \in Nat
      BY <1>3, <1>7, <1>12, <3>1
    <3> QED
      BY <3>1, <3>2, <3>3
  <2>3. CASE i > m
    <3>1. /\ i - m \in 1 .. n /\ j - m \in 1 .. n /\ i - m < j - m
          /\ calls'[i] = more[i - m] /\ calls'[j] = more[j - m]
      BY <1>7, <1>10, <1>13, <2>3
    <3> QED
      BY <1>5, <1>7, <3>1
  <2> QED
    BY <1>7, <2>1, <2>2, <2>3
<1>14. ASSUME nextCursor' # NoCursor
       PROVE  calls' # << >> /\ nextCursor' = calls'[Len(calls')]
  <2>1. n \in 1 .. n /\ nextCursor' = more[n]
    BY <1>5, <1>6, <1>7, <1>14 DEF n
  <2>2. m + n \in 1 .. m + n /\ m + n > m
    BY <1>7, <2>1
  <2>3. calls'[m + n] = more[n]
    BY <1>7, <1>8, <2>2
  <2> QED
    BY <1>8, <1>9, <2>1, <2>2, <2>3
<1> QED
  BY <1>9, <1>11, <1>13, <1>14

LEMMA ShownStep ==
    ASSUME TypeOK, AnswerInv, FirstInv, MoreInv, ShownCallsAreOneList, [Next]_vars
    PROVE  ShownCallsAreOneList'
<1> SUFFICES ASSUME ~careless', ~loading'
             PROVE  /\ \A i \in DOMAIN calls' : Passes(calls'[i], filter')
                    /\ \A i, j \in DOMAIN calls' : i < j => calls'[i] > calls'[j]
                    /\ nextCursor' # NoCursor => calls' # << >> /\ nextCursor' = calls'[Len(calls')]
  <2>1. actorOf' = actorOf
    BY AnswerStep
  <2> QED
    BY <2>1 DEF ShownCallsAreOneList, Passes
<1>1. ASSUME NEW q \in requests, ShowMore(q)
      PROVE  /\ \A i \in DOMAIN calls' : Passes(calls'[i], filter')
             /\ \A i, j \in DOMAIN calls' : i < j => calls'[i] > calls'[j]
             /\ nextCursor' # NoCursor => calls' # << >> /\ nextCursor' = calls'[Len(calls')]
  <2>1. ~careless /\ filter' = filter
    BY <1>1 DEF ShowMore
  <2> QED
    BY <1>1, <2>1, MoreExtends
<1>2. ASSUME NEW q \in requests, ShowFirst(q), q \in Awaited
      PROVE  /\ \A i \in DOMAIN calls' : Passes(calls'[i], filter')
             /\ \A i, j \in DOMAIN calls' : i < j => calls'[i] > calls'[j]
             /\ nextCursor' # NoCursor => calls' # << >> /\ nextCursor' = calls'[Len(calls')]
  <2>1. calls' = q.answer.calls /\ nextCursor' = q.answer.next /\ filter' = filter /\ q.answer # Null
    BY <1>2 DEF ShowFirst, Awaited, Ignored
  <2>2. Fits(q.answer, filter, NoCursor)
    BY <1>2, <2>1 DEF FirstInv, AnswerInv
  <2> QED
    BY <2>1, <2>2 DEF Fits
<1>3. ASSUME ~careless, ~loading, UNCHANGED <<calls, filter, nextCursor>>
      PROVE  /\ \A i \in DOMAIN calls' : Passes(calls'[i], filter')
             /\ \A i, j \in DOMAIN calls' : i < j => calls'[i] > calls'[j]
             /\ nextCursor' # NoCursor => calls' # << >> /\ nextCursor' = calls'[Len(calls')]
  BY <1>3 DEF ShownCallsAreOneList
<1>4. ASSUME NEW q \in requests, ShowFirst(q), q \notin Awaited
      PROVE  ~careless /\ ~loading /\ UNCHANGED <<calls, filter, nextCursor>>
  BY <1>4 DEF ShowFirst, Awaited, Ignored
<1>5. ASSUME NEW q \in requests, Fail(q)
      PROVE  ~careless /\ ~loading /\ UNCHANGED <<calls, filter, nextCursor>>
  BY <1>5 DEF Fail, LoadingAfterError, TypeOK, RequestRecords
<1>6. ASSUME \/ LoadMore
             \/ \E q \in requests : ListToolCalls(q)
             \/ \E c \in Calls : Record(c)
             \/ UNCHANGED vars
      PROVE  ~careless /\ ~loading /\ UNCHANGED <<calls, filter, nextCursor>>
  <2>1. CASE LoadMore
    BY <2>1 DEF LoadMore
  <2>2. CASE \E q \in requests : ListToolCalls(q)
    BY <2>2 DEF ListToolCalls
  <2>3. CASE \E c \in Calls : Record(c)
    BY <2>3 DEF Record
  <2>4. CASE UNCHANGED vars
    BY <2>4 DEF vars
  <2> QED
    BY <1>6, <2>1, <2>2, <2>3, <2>4
<1>7. \A f \in Filters : ~SetFilter(f)
  BY DEF SetFilter
<1> QED
  BY <1>1, <1>2, <1>3, <1>4, <1>5, <1>6, <1>7 DEF Next, Progress

(* Names come and go with the calls they belong to. *)
LEMMA NamesStep ==
    ASSUME TypeOK, AnswerInv, EveryCallHasAName, [Next]_vars
    PROVE  EveryCallHasAName'
<1>1. actorOf' = actorOf
  BY AnswerStep
<1>2. ASSUME NEW q \in requests, ShowFirst(q) \/ ShowMore(q)
      PROVE  /\ q.answer.calls \in Seq(Calls)
             /\ \A i \in DOMAIN q.answer.calls : actorOf[q.answer.calls[i]] \in q.answer.actors
  BY <1>2 DEF ShowFirst, ShowMore, TypeOK, RequestRecords, Answers, AnswerInv, Fits
<1>3. ASSUME UNCHANGED <<calls, actorMap>>
      PROVE  EveryCallHasAName'
  BY <1>1, <1>3 DEF EveryCallHasAName
<1>4. ASSUME NEW q \in requests, ShowFirst(q)
      PROVE  EveryCallHasAName'
  <2>1. CASE UNCHANGED <<calls, actorMap>>
    BY <1>3, <2>1
  <2>2. CASE calls' = q.answer.calls /\ actorMap' = q.answer.actors
    BY <1>1, <1>2, <1>4, <2>2 DEF EveryCallHasAName
  <2> QED
    BY <1>4, <2>1, <2>2 DEF ShowFirst
<1>5. ASSUME NEW q \in requests, ShowMore(q)
      PROVE  EveryCallHasAName'
  <2> DEFINE more == q.answer.calls
  <2>1. calls' = calls \o more /\ actorMap' = actorMap \cup q.answer.actors
    BY <1>5 DEF ShowMore, NamesWith
  <2>2. more \in Seq(Calls) /\ \A i \in DOMAIN more : actorOf[more[i]] \in actorMap'
    BY <1>2, <1>5, <2>1
  <2> HIDE DEF more
  <2>3. calls \in Seq(Calls) /\ \A i \in DOMAIN calls : actorOf[calls[i]] \in actorMap'
    BY <2>1 DEF TypeOK, EveryCallHasAName
  <2>4. /\ calls' \in Seq(Calls) /\ Len(calls') = Len(calls) + Len(more)
        /\ \A i \in 1 .. Len(calls) + Len(more) :
              calls'[i] = IF i <= Len(calls) THEN calls[i] ELSE more[i - Len(calls)]
    BY <2>1, <2>2, <2>3, ConcatProperties
  <2>5. ASSUME NEW i \in DOMAIN calls'
        PROVE  actorOf[calls'[i]] \in actorMap'
    <3>1. CASE i <= Len(calls)
      <4>1. i \in DOMAIN calls /\ calls'[i] = calls[i]
        BY <2>3, <2>4, <3>1
      <4> QED
        BY <2>3, <4>1
    <3>2. CASE i > Len(calls)
      <4>1. i - Len(calls) \in DOMAIN more /\ calls'[i] = more[i - Len(calls)]
        BY <2>2, <2>3, <2>4, <3>2
      <4> QED
        BY <2>2, <4>1
    <3> QED
      BY <2>3, <2>4, <3>1, <3>2
  <2> QED
    BY <1>1, <2>5 DEF EveryCallHasAName
<1> QED
  BY <1>3, <1>4, <1>5 DEF Next, Progress, Record, SetFilter, LoadMore, ListToolCalls, Fail, vars

LEMMA InvInit == Init => IInv
<1> SUFFICES ASSUME Init
             PROVE  IInv
  OBVIOUS
<1> DEFINE first == Request(1, "first", filter, NoCursor)
<1>1. /\ requests = {first} /\ loading /\ ~careless /\ calls = << >>
      /\ filter \in Filters
  BY DEF Init
<1>2. /\ first \in RequestRecords
      /\ first.kind = "first" /\ first.filter = filter /\ first.cursor = NoCursor
      /\ first.answer = Null
  BY <1>1 DEF Request, RequestRecords, Cursors
<1> HIDE DEF first
<1>3. TypeOK
  <2>1. /\ actorOf \in [Calls -> ActorIds] /\ calls \in Seq(Calls) /\ actorMap \subseteq ActorIds
        /\ nextCursor \in Cursors /\ sent \in Nat /\ requests \subseteq RequestRecords
    BY <1>1, <1>2 DEF Init, Cursors
  <2>2. filter \in Filters /\ loading \in BOOLEAN /\ careless \in BOOLEAN
    BY <1>1, Zenon DEF Init
  <2> QED
    BY <2>1, <2>2, Zenon DEF TypeOK
<1>4. AnswerInv /\ FirstInv /\ MoreInv
  BY <1>1, <1>2 DEF AnswerInv, FirstInv, MoreInv, Awaited, More
<1>5. ShownCallsAreOneList /\ EveryCallHasAName
  BY <1>1 DEF ShownCallsAreOneList, EveryCallHasAName
<1> QED
  BY <1>3, <1>4, <1>5 DEF IInv

LEMMA InvStep == IInv /\ [Next]_vars => IInv'
BY TypeStep, AnswerStep, FirstStep, MoreStep, ShownStep, NamesStep DEF IInv

LEMMA Invariance == Spec => []IInv
BY InvInit, InvStep, PTL DEF Spec

-----------------------------------------------------------------------------
(* A careful reader sees one list: newest first, no call twice, nothing    *)
(* the filter excludes, in whatever order answers come.                    *)
THEOREM OneListShown == Spec => []ShownCallsAreOneList
<1>1. IInv => ShownCallsAreOneList
  BY DEF IInv
<1> QED
  BY <1>1, Invariance, PTL

(* Every call on the page has a name, however careless the reader is.      *)
THEOREM CallsHaveNames == Spec => []EveryCallHasAName
<1>1. IInv => EveryCallHasAName
  BY DEF IInv
<1> QED
  BY <1>1, Invariance, PTL
=============================================================================
