------------------------- MODULE HistoryPagesProofs -------------------------
(***************************************************************************)
(* Proofs about HistoryPages, for any finite set of calls, any page sizes  *)
(* and any bound on the clock.                                             *)
(*                                                                         *)
(* That the rows of a set can be put in order at all is proved without     *)
(* induction: the number of newer rows tells the rows of a finite set      *)
(* apart, and so takes every value below the number of rows.               *)
(***************************************************************************)
EXTENDS HistoryPages, FiniteSetTheorems, SequenceTheorems, TLAPS

-----------------------------------------------------------------------------
(* The order of rows.                                                      *)

Stamped == calledAt \in [Calls -> Nat]

(* called_at DESC, id DESC is a strict total order. *)
LEMMA NewerIsAnOrder ==
    ASSUME Stamped
    PROVE  /\ \A c \in Calls : ~Newer(c, c)
           /\ \A c, d, e \in Calls : Newer(c, d) /\ Newer(d, e) => Newer(c, e)
           /\ \A c, d \in Calls : Newer(c, d) \/ c = d \/ Newer(d, c)
BY CallsAssumption DEF Stamped, Newer

(* The number of rows of S before c. *)
Rank(S, c) == Cardinality({d \in S : Newer(d, c)})

(* Ranks are below the number of rows, and grow along the order. *)
LEMMA RankGrows ==
    ASSUME Stamped, NEW S \in SUBSET Calls
    PROVE  /\ IsFiniteSet(S) /\ Cardinality(S) \in Nat
           /\ \A c \in S : Rank(S, c) \in 0 .. Cardinality(S) - 1
           /\ \A c, d \in S : Newer(c, d) => Rank(S, c) < Rank(S, d)
<1>1. IsFiniteSet(S) /\ Cardinality(S) \in Nat
  BY CallsAssumption, FS_Subset, FS_CardinalityType
<1>2. ASSUME NEW c \in S
      PROVE  Rank(S, c) \in 0 .. Cardinality(S) - 1
  <2> DEFINE T == {d \in S : Newer(d, c)}
  <2>1. T \in SUBSET S /\ T # S
    BY NewerIsAnOrder
  <2> HIDE DEF T
  <2>2. IsFiniteSet(T) /\ Cardinality(T) <= Cardinality(S) /\ Cardinality(S) # Cardinality(T)
    BY <1>1, <2>1, FS_Subset
  <2>3. Cardinality(T) \in Nat
    BY <2>2, FS_CardinalityType
  <2>4. Rank(S, c) = Cardinality(T)
    BY DEF Rank, T
  <2> QED
    BY <1>1, <2>2, <2>3, <2>4
<1>3. ASSUME NEW c \in S, NEW d \in S, Newer(c, d)
      PROVE  Rank(S, c) < Rank(S, d)
  <2> DEFINE T == {e \in S : Newer(e, c)}
             U == {e \in S : Newer(e, d)}
  <2>1. T \in SUBSET U /\ T # U
    BY <1>3, NewerIsAnOrder
  <2>2. U \in SUBSET S
    OBVIOUS
  <2>3. Rank(S, c) = Cardinality(T) /\ Rank(S, d) = Cardinality(U)
    BY DEF Rank
  <2> HIDE DEF T, U
  <2>4. IsFiniteSet(U)
    BY <1>1, <2>2, FS_Subset
  <2>5. IsFiniteSet(T) /\ Cardinality(T) <= Cardinality(U) /\ Cardinality(U) # Cardinality(T)
    BY <2>1, <2>4, FS_Subset
  <2>6. Cardinality(T) \in Nat /\ Cardinality(U) \in Nat
    BY <2>4, <2>5, FS_CardinalityType
  <2> QED
    BY <2>3, <2>5, <2>6
<1> QED
  BY <1>1, <1>2, <1>3

(* Ranks tell rows apart, and take every value below the number of rows. *)
LEMMA RankIsAPosition ==
    ASSUME Stamped, NEW S \in SUBSET Calls, NEW i \in 1 .. Cardinality(S)
    PROVE  \E c \in S : Rank(S, c) = i - 1
<1> DEFINE n == Cardinality(S)
           f == [c \in S |-> Rank(S, c) + 1]
<1>1. n \in Nat /\ \A c \in S : Rank(S, c) \in 0 .. n - 1
  BY RankGrows
<1>2. \A c, d \in S : Rank(S, c) = Rank(S, d) => c = d
  BY <1>1, NewerIsAnOrder, RankGrows
<1>3. IsFiniteSet(1 .. n) /\ Cardinality(1 .. n) = n
  BY <1>1, FS_Interval
<1>4. \A c \in S : f[c] = Rank(S, c) + 1
  OBVIOUS
<1>5. f \in [S -> 1 .. n]
  BY <1>1
<1>6. \A c, d \in S : f[c] = f[d] => c = d
  BY <1>1, <1>2, <1>4
<1> HIDE DEF f
<1>7. f \in Injection(S, 1 .. n)
  BY <1>5, <1>6 DEF Injection, IsInjective
<1>8. f \in Surjection(S, 1 .. n)
  BY <1>3, <1>7, FS_Injection
<1>9. PICK c \in S : f[c] = i
  BY <1>8 DEF Surjection
<1> QED
  BY <1>1, <1>4, <1>9

(* A query gives every row of the set once, newest first. *)
LEMMA OrderedRows ==
    ASSUME Stamped, NEW S \in SUBSET Calls
    PROVE  /\ InOrder(S) \in Seq(S)
           /\ \A i, j \in 1 .. Len(InOrder(S)) :
                  i < j => Newer(InOrder(S)[i], InOrder(S)[j])
           /\ \A c \in S : \E i \in 1 .. Len(InOrder(S)) : InOrder(S)[i] = c
<1> DEFINE n == Cardinality(S)
           s == InOrder(S)
<1>1. n \in Nat /\ \A c \in S : Rank(S, c) \in 0 .. n - 1
  BY RankGrows
<1>2. s = [i \in 1 .. n |-> CHOOSE c \in S : Rank(S, c) = i - 1]
  BY DEF InOrder, Rank
<1>3. \A i \in 1 .. n : s[i] \in S /\ Rank(S, s[i]) = i - 1
  BY <1>2, RankIsAPosition
<1> HIDE DEF s
<1>4. s \in Seq(S) /\ Len(s) = n
  BY <1>1, <1>2, <1>3
<1>5. ASSUME NEW i \in 1 .. n, NEW j \in 1 .. n, i < j
      PROVE  Newer(s[i], s[j])
  <2>1. s[i] \in S /\ s[j] \in S /\ Rank(S, s[i]) < Rank(S, s[j])
    BY <1>1, <1>3, <1>5
  <2> QED
    BY <1>1, <2>1, NewerIsAnOrder, RankGrows
<1>6. ASSUME NEW c \in S
      PROVE  \E i \in 1 .. n : s[i] = c
  <2>1. Rank(S, c) + 1 \in 1 .. n
    BY <1>1
  <2>2. s[Rank(S, c) + 1] \in S /\ Rank(S, s[Rank(S, c) + 1]) = Rank(S, c)
    BY <1>1, <1>3, <2>1
  <2>3. s[Rank(S, c) + 1] = c
    BY <1>1, <2>2, NewerIsAnOrder, RankGrows
  <2> QED
    BY <2>1, <2>3
<1> QED
  BY <1>4, <1>5, <1>6 DEF s

-----------------------------------------------------------------------------
(* A page.                                                                 *)

(* The page that ReadPage reads, by its size. *)
PageOf(cur, size) ==
    LET rest == InOrder(After(cur))
    IN  SubSeq(rest, 1, IF Len(rest) < size THEN Len(rest) ELSE size)

(* No page is empty by its size. *)
LEMMA PageSizeIsPositive ==
    ASSUME NEW limit \in Limits
    PROVE  PageSize(limit) \in Nat \ {0}
BY LimitAssumption DEF PageSize

(* The rows of a page are in order, and newer than those it leaves out;    *)
(* a page that is not full leaves nothing out.                             *)
LEMMA PageIsNewest ==
    ASSUME Stamped, NEW cur, NEW size \in Nat \ {0}
    PROVE  LET page == PageOf(cur, size) IN
           /\ page \in Seq(After(cur))
           /\ Len(page) <= size
           /\ \A i, j \in 1 .. Len(page) : i < j => Newer(page[i], page[j])
           /\ \A c \in After(cur) :
                 \/ \E i \in 1 .. Len(page) : page[i] = c
                 \/ Len(page) = size /\ Newer(page[Len(page)], c)
<1> DEFINE S    == After(cur)
           rest == InOrder(S)
           n    == IF Len(rest) < size THEN Len(rest) ELSE size
           page == SubSeq(rest, 1, n)
<1>1. S \in SUBSET Calls
  BY DEF After, Table
<1> HIDE DEF S
<1>2. /\ rest \in Seq(S)
      /\ \A i, j \in 1 .. Len(rest) : i < j => Newer(rest[i], rest[j])
      /\ \A c \in S : \E i \in 1 .. Len(rest) : rest[i] = c
  BY <1>1, OrderedRows
<1> HIDE DEF rest
<1>3. Len(rest) \in Nat /\ n \in 0 .. Len(rest) /\ n <= size
  BY <1>2
<1>4. n = Len(rest) \/ (n = size /\ size < Len(rest))
  BY <1>2, <1>3
<1>5. \A i \in 1 .. n : rest[i] \in S
  BY <1>2, <1>3
<1> HIDE DEF n
<1>6. page \in Seq(S) /\ Len(page) = n /\ \A i \in 1 .. n : page[i] = rest[i]
  BY <1>3, <1>5, SubSeqProperties
<1> HIDE DEF page
<1>7. ASSUME NEW c \in S
      PROVE  \/ \E i \in 1 .. n : page[i] = c
             \/ n = size /\ Newer(page[n], c)
  <2>1. PICK k \in 1 .. Len(rest) : rest[k] = c
    BY <1>2
  <2>2. CASE k <= n
    BY <1>3, <1>6, <2>1, <2>2
  <2>3. CASE k > n
    <3>1. n = size /\ n \in 1 .. Len(rest)
      BY <1>3, <1>4, <2>3
    <3>2. Newer(rest[n], rest[k])
      BY <1>2, <2>3, <3>1
    <3> QED
      BY <1>6, <2>1, <3>1, <3>2
  <2> QED
    BY <1>3, <2>2, <2>3
<1>8. ASSUME NEW i \in 1 .. n, NEW j \in 1 .. n, i < j
      PROVE  Newer(page[i], page[j])
  <2>1. i \in 1 .. Len(rest) /\ j \in 1 .. Len(rest)
    BY <1>3
  <2>2. Newer(rest[i], rest[j])
    BY <1>2, <1>8, <2>1
  <2>3. page[i] = rest[i] /\ page[j] = rest[j]
    BY <1>6
  <2> QED
    BY <2>2, <2>3
<1>9. PageOf(cur, size) = page
  BY DEF PageOf, page, n, rest, S
<1> QED
  BY <1>3, <1>6, <1>7, <1>8, <1>9 DEF S

(* ReadPage, by its page. *)
LEMMA ReadPageCases ==
    ASSUME TypeOK, NEW limit \in Limits, ReadPage(limit)
    PROVE  LET size == PageSize(limit)
               page == PageOf(cursor, size)
           IN  /\ page \in Seq(Calls)
               /\ seen' = seen \o page
               /\ \/ Len(page) = size /\ reading' = "more" /\ cursor' = page[Len(page)]
                  \/ Len(page) < size /\ reading' = "done" /\ cursor' = NoCursor
<1> DEFINE size == PageSize(limit)
           page == PageOf(cursor, size)
<1>1. size \in Nat \ {0}
  BY PageSizeIsPositive
<1>2. Stamped
  BY ClockAssumption DEF TypeOK, Times, Stamped
<1>3. page \in Seq(After(cursor)) /\ Len(page) <= size
  BY <1>1, <1>2, PageIsNewest
<1>4. After(cursor) \subseteq Calls
  BY DEF After, Table
<1>5. /\ seen' = seen \o page
      /\ cursor' = NextCursor(page, size)
      /\ reading' = IF cursor' = NoCursor THEN "done" ELSE "more"
  BY DEF ReadPage, PageOf
<1> HIDE DEF page, size
<1>6. page \in Seq(Calls) /\ Len(page) \in Nat
  BY <1>3, <1>4
<1>7. CASE Len(page) = size
  <2>1. page[Len(page)] \in Calls
    BY <1>1, <1>6, <1>7
  <2> QED
    BY <1>5, <1>6, <1>7, <2>1, CallsAssumption DEF NextCursor, page, size
<1>8. CASE Len(page) # size
  BY <1>1, <1>3, <1>5, <1>6, <1>8 DEF NextCursor, page, size
<1> QED
  BY <1>7, <1>8

-----------------------------------------------------------------------------
(* The invariant.                                                          *)

(* What was sent is one list of wanted rows, and the cursor its last row.  *)
ReadInv ==
    /\ PagesAreOneList
    /\ \A i \in 1 .. Len(seen) : seen[i] \in Table
    /\ reading = "start" => seen = << >> /\ cursor = NoCursor
    /\ reading = "more" => seen # << >> /\ cursor = seen[Len(seen)]

Inv == TypeOK /\ ReadInv /\ NothingIsPassedOver

LEMMA InvInit == Init => Inv
BY ClockAssumption, CallsAssumption
   DEF Init, Inv, TypeOK, Times, ReadInv, PagesAreOneList, NothingIsPassedOver, Table

LEMMA TypeStep == TypeOK /\ [Next]_vars => TypeOK'
<1> SUFFICES ASSUME TypeOK, [Next]_vars
             PROVE  TypeOK'
  OBVIOUS
<1> USE DEF TypeOK, Times
<1>1. ASSUME NEW c \in Calls, Stamp(c) \/ Insert(c) \/ InsertFails(c)
      PROVE  TypeOK'
  BY <1>1 DEF Stamp, Insert, InsertFails
<1>2. ASSUME Tick
      PROVE  TypeOK'
  BY <1>2, ClockAssumption DEF Tick
<1>3. ASSUME NEW limit \in Limits, ReadPage(limit)
      PROVE  TypeOK'
  <2>1. UNCHANGED <<clock, calledAt, matches, writer, filtered, overtaken>>
    BY <1>3 DEF ReadPage
  <2>2. PICK page \in Seq(Calls) :
          /\ seen' = seen \o page
          /\ \/ reading' = "more" /\ cursor' = page[Len(page)] /\ Len(page) = PageSize(limit)
             \/ reading' = "done" /\ cursor' = NoCursor
    BY <1>3, ReadPageCases
  <2>3. seen' \in Seq(Calls)
    BY <2>2, ConcatProperties
  <2>4. reading' \in {"start", "more", "done"} /\ cursor' \in Calls \cup {NoCursor}
    BY <2>2, PageSizeIsPositive
  <2> QED
    BY <2>1, <2>3, <2>4
<1>4. CASE UNCHANGED vars
  BY <1>4 DEF vars
<1> QED
  BY <1>1, <1>2, <1>3, <1>4 DEF Next

(* Rows keep their places while others are recorded. *)
LEMMA RowsStay ==
    ASSUME TypeOK, [Next]_vars
    PROVE  /\ \A c \in Table : c \in Table' /\ calledAt'[c] = calledAt[c]
           /\ UNCHANGED <<matches, filtered>>
<1>1. ASSUME NEW c \in Calls, Stamp(c) \/ Insert(c) \/ InsertFails(c)
      PROVE  \A d \in Table : d \in Table' /\ calledAt'[d] = calledAt[d]
  BY <1>1 DEF Stamp, Insert, InsertFails, TypeOK, Table
<1>2. ASSUME UNCHANGED <<calledAt, writer>>
      PROVE  \A d \in Table : d \in Table' /\ calledAt'[d] = calledAt[d]
  BY <1>2 DEF Table
<1>3. UNCHANGED <<matches, filtered>>
  BY DEF Next, Tick, ReadPage, Stamp, Insert, InsertFails, vars
<1>4. \/ \E c \in Calls : Stamp(c) \/ Insert(c) \/ InsertFails(c)
      \/ UNCHANGED <<calledAt, writer>>
  BY DEF Next, Tick, ReadPage, vars
<1>5. \A c \in Table : c \in Table' /\ calledAt'[c] = calledAt[c]
  BY <1>1, <1>2, <1>4
<1> QED
  BY <1>3, <1>5

LEMMA OrderStays ==
    ASSUME TypeOK, [Next]_vars
    PROVE  /\ \A c, d \in Table : Newer(c, d) => Newer(c, d)'
           /\ \A c, d \in Table : Newer(c, d)' => Newer(c, d)
           /\ \A c \in Calls : Wanted(c) => Wanted(c)'
           /\ \A c \in Calls : Wanted(c)' => Wanted(c)
<1>1. \A c \in Table : calledAt'[c] = calledAt[c]
  BY RowsStay
<1> QED
  BY <1>1, RowsStay DEF Newer, Wanted

(* Recording, a tick and stuttering leave what was read as it is. *)
LEMMA ReadStays ==
    ASSUME TypeOK, ReadInv, [Next]_vars, UNCHANGED <<reading, cursor, seen>>
    PROVE  ReadInv'
<1>1. \A i \in 1 .. Len(seen) : seen[i] \in Table /\ seen[i] \in Calls
  BY DEF ReadInv, Table
<1>2. \A i \in 1 .. Len(seen) : seen[i] \in Table'
  BY <1>1, RowsStay
<1>3. \A i \in 1 .. Len(seen) : Wanted(seen[i])'
  BY <1>1, OrderStays DEF ReadInv, PagesAreOneList
<1>4. ASSUME NEW i \in 1 .. Len(seen), NEW j \in 1 .. Len(seen), i < j
      PROVE  Newer(seen[i], seen[j])'
  <2>1. Newer(seen[i], seen[j])
    BY <1>4 DEF ReadInv, PagesAreOneList
  <2> QED
    BY <1>1, <2>1, OrderStays
<1>5. PagesAreOneList'
  BY <1>3, <1>4 DEF PagesAreOneList
<1> QED
  BY <1>2, <1>5 DEF ReadInv

(* ... and pass nothing over: a row of the part already read is noted. *)
LEMMA NothingPassedStays ==
    ASSUME TypeOK, ReadInv, NothingIsPassedOver,
           [Next]_vars, UNCHANGED <<reading, cursor, seen>>
    PROVE  NothingIsPassedOver'
<1> SUFFICES ASSUME NEW c \in Calls, c \in Table', Wanted(c)', PlaceIsRead(c)', c \notin overtaken'
             PROVE  \E i \in 1 .. Len(seen) : seen[i] = c
  BY DEF NothingIsPassedOver, Table
<1>1. Wanted(c)
  BY OrderStays
<1>2. reading = "more" => cursor \in Table
  BY DEF ReadInv, TypeOK
<1>3. overtaken \subseteq overtaken'
  BY DEF Next, Stamp, Insert, InsertFails, Tick, ReadPage, vars
<1>4. CASE c \in Table
  <2>1. reading = "more" => Newer(c, cursor)
    BY <1>2, <1>4, OrderStays DEF PlaceIsRead
  <2>2. PlaceIsRead(c)
    BY <2>1 DEF PlaceIsRead
  <2> QED
    BY <1>1, <1>3, <1>4, <2>2 DEF NothingIsPassedOver
<1>5. CASE c \notin Table
  <2>1. Insert(c)
    BY <1>5 DEF Next, Stamp, Insert, InsertFails, Tick, ReadPage, vars, Table, TypeOK
  <2>2. PlaceIsRead(c)
    BY <2>1 DEF PlaceIsRead, Insert, Newer
  <2> QED
    BY <2>1, <2>2 DEF Insert
<1> QED
  BY <1>4, <1>5

(* The rows of the next page are wanted, and come after all that was sent. *)
LEMMA PageGoesOn ==
    ASSUME TypeOK, ReadInv, reading # "done", NEW c \in After(cursor)
    PROVE  /\ c \in Table /\ Wanted(c)
           /\ \A i \in 1 .. Len(seen) : Newer(seen[i], c)
<1>1. c \in Table /\ Wanted(c) /\ (cursor # NoCursor => Newer(cursor, c))
  BY DEF After
<1>2. ASSUME NEW i \in 1 .. Len(seen)
      PROVE  Newer(seen[i], c)
  <2>1. reading = "more"
    BY <1>2 DEF ReadInv, TypeOK
  <2>2. Len(seen) \in 1 .. Len(seen) /\ cursor = seen[Len(seen)] /\ i \in Nat
    BY <1>2, <2>1 DEF ReadInv, TypeOK
  <2>3. cursor \in Calls /\ seen[i] \in Calls /\ c \in Calls
    BY <1>1, <2>2 DEF ReadInv, Table
  <2>4. Newer(cursor, c)
    BY <1>1, <2>3, CallsAssumption
  <2>5. i = Len(seen) \/ Newer(seen[i], cursor)
    BY <1>2, <2>2 DEF ReadInv, PagesAreOneList
  <2>6. Stamped
    BY ClockAssumption DEF TypeOK, Times, Stamped
  <2> QED
    BY <2>2, <2>3, <2>4, <2>5, <2>6, NewerIsAnOrder
<1> QED
  BY <1>1, <1>2

(* A page extends the list. *)
LEMMA ReadPageKeepsOrder ==
    ASSUME TypeOK, ReadInv, NEW limit \in Limits, ReadPage(limit)
    PROVE  ReadInv'
<1> DEFINE size == PageSize(limit)
           page == PageOf(cursor, size)
<1>1. reading # "done" /\ UNCHANGED <<calledAt, matches, writer, filtered>>
  BY DEF ReadPage
<1>2. /\ page \in Seq(Calls)
      /\ seen' = seen \o page
      /\ \/ Len(page) = size /\ reading' = "more" /\ cursor' = page[Len(page)]
         \/ Len(page) < size /\ reading' = "done" /\ cursor' = NoCursor
  BY ReadPageCases
<1>3. size \in Nat \ {0}
  BY PageSizeIsPositive
<1>4. /\ \A i \in 1 .. Len(page) : page[i] \in After(cursor)
      /\ \A i, j \in 1 .. Len(page) : i < j => Newer(page[i], page[j])
  <2>1. Stamped
    BY ClockAssumption DEF TypeOK, Times, Stamped
  <2>2. /\ page \in Seq(After(cursor))
        /\ \A i, j \in 1 .. Len(page) : i < j => Newer(page[i], page[j])
    BY <1>3, <2>1, PageIsNewest
  <2> QED
    BY <2>2
<1> HIDE DEF page, size
<1> DEFINE m == Len(seen)
           n == Len(page)
<1>5. /\ m \in Nat /\ n \in Nat /\ Len(seen') = m + n
      /\ \A i \in 1 .. m + n : seen'[i] = IF i <= m THEN seen[i] ELSE page[i - m]
  BY <1>2, ConcatProperties DEF TypeOK
<1> HIDE DEF m, n
<1>6. ASSUME NEW i \in 1 .. m + n
      PROVE  /\ i <= m => i \in 1 .. m /\ seen'[i] = seen[i]
             /\ i > m => i - m \in 1 .. n /\ seen'[i] = page[i - m]
  BY <1>5, <1>6
<1>7. ASSUME NEW i \in 1 .. m + n
      PROVE  seen'[i] \in Table /\ Wanted(seen'[i])
  <2>1. CASE i <= m
    BY <1>6, <2>1 DEF ReadInv, PagesAreOneList, m
  <2>2. CASE i > m
    BY <1>1, <1>4, <1>6, <2>2, PageGoesOn DEF n
  <2> QED
    BY <1>5, <2>1, <2>2
<1>8. ASSUME NEW i \in 1 .. m + n, NEW j \in 1 .. m + n, i < j
      PROVE  Newer(seen'[i], seen'[j])
  <2>1. CASE j <= m
    <3>1. i \in 1 .. m /\ j \in 1 .. m /\ seen'[i] = seen[i] /\ seen'[j] = seen[j]
      BY <1>5, <1>6, <1>8, <2>1
    <3>2. Newer(seen[i], seen[j])
      BY <1>8, <3>1 DEF ReadInv, PagesAreOneList, m
    <3> QED
      BY <3>1, <3>2
  <2>2. CASE i <= m /\ j > m
    <3>1. i \in 1 .. m /\ j - m \in 1 .. n /\ seen'[i] = seen[i] /\ seen'[j] = page[j - m]
      BY <1>6, <2>2
    <3>2. Newer(seen[i], page[j - m])
      BY <1>1, <1>4, <3>1, PageGoesOn DEF m, n
    <3> QED
      BY <3>1, <3>2
  <2>3. CASE i > m
    <3>1. /\ i - m \in 1 .. n /\ j - m \in 1 .. n /\ i - m < j - m
          /\ seen'[i] = page[i - m] /\ seen'[j] = page[j - m]
      BY <1>5, <1>6, <1>8, <2>3
    <3>2. Newer(page[i - m], page[j - m])
      BY <1>4, <3>1 DEF n
    <3> QED
      BY <3>1, <3>2
  <2> QED
    BY <1>5, <2>1, <2>2, <2>3
<1>9. /\ \A c : c \in Table' <=> c \in Table
      /\ \A c : Wanted(c)' <=> Wanted(c)
      /\ \A c, d : Newer(c, d)' <=> Newer(c, d)
  BY <1>1 DEF Table, Wanted, Newer
<1>10. reading' # "start" /\ (reading' = "more" => seen' # << >> /\ cursor' = seen'[Len(seen')])
  <2>1. SUFFICES ASSUME reading' = "more"
                 PROVE  seen' # << >> /\ cursor' = seen'[Len(seen')]
    BY <1>2
  <2>2. n = size /\ cursor' = page[n]
    BY <1>2, <2>1 DEF n
  <2>3. m + n \in 1 .. m + n /\ m + n > m
    BY <1>3, <1>5, <2>2
  <2>4. seen'[m + n] = page[n]
    BY <1>5, <2>3
  <2> QED
    BY <1>5, <2>2, <2>3, <2>4
<1>11. PagesAreOneList'
  BY <1>5, <1>7, <1>8, <1>9 DEF PagesAreOneList
<1> QED
  BY <1>5, <1>7, <1>9, <1>10, <1>11 DEF ReadInv

(* A page takes up every row between its cursor and its end. *)
LEMMA ReadPagePassesNothing ==
    ASSUME TypeOK, ReadInv, NothingIsPassedOver, NEW limit \in Limits, ReadPage(limit)
    PROVE  NothingIsPassedOver'
<1> DEFINE size == PageSize(limit)
           page == PageOf(cursor, size)
<1>1. reading # "done" /\ UNCHANGED <<calledAt, matches, writer, filtered, overtaken>>
  BY DEF ReadPage
<1>2. /\ page \in Seq(Calls)
      /\ seen' = seen \o page
      /\ \/ Len(page) = size /\ reading' = "more" /\ cursor' = page[Len(page)]
         \/ Len(page) < size /\ reading' = "done" /\ cursor' = NoCursor
  BY ReadPageCases
<1>3. Stamped
  BY ClockAssumption DEF TypeOK, Times, Stamped
<1>4. size \in Nat \ {0}
  BY PageSizeIsPositive
<1>5. \A c \in After(cursor) :
         \/ \E i \in 1 .. Len(page) : page[i] = c
         \/ Len(page) = size /\ Newer(page[Len(page)], c)
  BY <1>3, <1>4, PageIsNewest
<1> HIDE DEF page, size
<1>6. /\ Len(seen) \in Nat /\ Len(page) \in Nat /\ Len(seen') = Len(seen) + Len(page)
      /\ \A i \in 1 .. Len(seen) + Len(page) :
            seen'[i] = IF i <= Len(seen) THEN seen[i] ELSE page[i - Len(seen)]
  BY <1>2, ConcatProperties DEF TypeOK
<1> SUFFICES ASSUME NEW c \in Calls, c \in Table', Wanted(c)', PlaceIsRead(c)', c \notin overtaken'
             PROVE  \E i \in 1 .. Len(seen') : seen'[i] = c
  BY DEF NothingIsPassedOver, Table
<1>7. c \in Table /\ Wanted(c) /\ c \notin overtaken
  BY <1>1 DEF Table, Wanted
<1>8. ASSUME NEW i \in 1 .. Len(seen), seen[i] = c
      PROVE  \E k \in 1 .. Len(seen') : seen'[k] = c
  BY <1>6, <1>8
<1>9. CASE c \in After(cursor)
  <2>1. ASSUME Len(page) = size, Newer(page[Len(page)], c)
        PROVE  FALSE
    <3>1. reading' = "more" /\ cursor' = page[Len(page)] /\ cursor' \in Calls
      BY <1>2, <1>4, <2>1
    <3>2. Newer(c, cursor')
      BY <1>1, <3>1 DEF PlaceIsRead, Newer
    <3> QED
      BY <1>3, <2>1, <3>1, <3>2, NewerIsAnOrder
  <2>2. PICK i \in 1 .. Len(page) : page[i] = c
    BY <1>5, <1>9, <2>1
  <2>3. Len(seen) + i \in 1 .. Len(seen') /\ seen'[Len(seen) + i] = c
    BY <1>6, <2>2
  <2> QED
    BY <2>3
<1>10. CASE c \notin After(cursor)
  <2>1. cursor # NoCursor /\ ~Newer(cursor, c)
    BY <1>7, <1>10 DEF After
  <2>2. reading = "more" /\ cursor \in Calls /\ Len(seen) \in 1 .. Len(seen) /\ cursor = seen[Len(seen)]
    BY <1>1, <2>1 DEF ReadInv, TypeOK
  <2>3. c = cursor \/ Newer(c, cursor)
    BY <1>3, <2>1, <2>2, NewerIsAnOrder
  <2>4. \E i \in 1 .. Len(seen) : seen[i] = c
    BY <1>7, <2>2, <2>3 DEF NothingIsPassedOver, PlaceIsRead
  <2> QED
    BY <1>8, <2>4
<1> QED
  BY <1>9, <1>10

LEMMA InvStep == Inv /\ [Next]_vars => Inv'
<1> SUFFICES ASSUME Inv, [Next]_vars
             PROVE  Inv'
  OBVIOUS
<1>1. TypeOK'
  BY TypeStep DEF Inv
<1>2. CASE UNCHANGED <<reading, cursor, seen>>
  BY <1>1, <1>2, ReadStays, NothingPassedStays DEF Inv
<1>3. ASSUME NEW limit \in Limits, ReadPage(limit)
      PROVE  Inv'
  BY <1>1, <1>3, ReadPageKeepsOrder, ReadPagePassesNothing DEF Inv
<1> QED
  BY <1>2, <1>3 DEF Next, Stamp, Insert, InsertFails, Tick, vars

LEMMA Invariance == Spec => []Inv
BY InvInit, InvStep, PTL DEF Spec

-----------------------------------------------------------------------------
(* Cursors, pages and rows are what the declarations say. *)
THEOREM TypeCorrect == Spec => []TypeOK
<1>1. Inv => TypeOK
  BY DEF Inv
<1> QED
  BY <1>1, Invariance, PTL

(* The pages make one list, newest first and without repetition, of        *)
(* wanted rows only, whatever is recorded between two of them.             *)
THEOREM OneList == Spec => []PagesAreOneList
<1>1. Inv => PagesAreOneList
  BY DEF Inv, ReadInv
<1> QED
  BY <1>1, Invariance, PTL

(* Keyset paging is stable under concurrent appends: the part read so far  *)
(* lacks only rows that were inserted into it after it was read.           *)
THEOREM NothingPassedOver == Spec => []NothingIsPassedOver
<1>1. Inv => NothingIsPassedOver
  BY DEF Inv
<1> QED
  BY <1>1, Invariance, PTL
=============================================================================
