-------------------------- MODULE ChatTimelineProofs --------------------------
(***************************************************************************)
(* What the message list of an open chat keeps for any page size, any      *)
(* number of messages, deletions, outages and failures: that it is what    *)
(* the server holds once everything has arrived, and that a deletion the   *)
(* channel delivered is never undone by a page read before it.             *)
(***************************************************************************)
EXTENDS ChatTimeline, WellFoundedInduction, TLAPS

-----------------------------------------------------------------------------
(* The inductive invariant *)

\* A list shows no row and no deletion the server does not hold.
Exact(rows) == \A i \in DOMAIN rows : i \in DOMAIN server /\ (rows[i] => server[i])

\* An event tells of what was committed, after the chat was opened.
Kept(events) ==
  \A k \in DOMAIN events :
    /\ events[k].id \in DOMAIN server
    /\ events[k].kind = "INSERT" => events[k].id > Initially
    /\ events[k].kind = "UPDATE" => server[events[k].id]

\* The types TypeOK leaves open.
RecordsTyped ==
  /\ DOMAIN load = {"pc", "page", "more"} /\ load.more \in BOOLEAN
  /\ DOMAIN older = {"pc", "cursor", "page", "outrun"} /\ older.outrun \in BOOLEAN

RowsExact ==
  /\ Initially <= Len(server)
  /\ Exact(list) /\ Exact(load.page) /\ Exact(older.page)
  /\ \A i \in told : i \in DOMAIN server /\ server[i]
  /\ sending # 0 => sending \in DOMAIN server /\ sending > Initially
  /\ erasing # 0 => erasing \in DOMAIN server /\ server[erasing]

\* An event waits only where somebody will come for it.
EventsKept ==
  /\ Kept(wire) /\ Kept(pending) /\ Kept(pendingOlder)
  /\ wire # <<>> => channel = "on"
  /\ pending # <<>> => load.pc # "idle" \/ failed
  /\ failed => load.pc = "idle"

\* There are older pages only of what the chat held when it was opened.
OpenedWith ==
  /\ hasMore \/ load.more => Initially > 0
  /\ load.pc = "page" /\ Initially > 0 => DOMAIN load.page # {}

\* An older page reaches up to its cursor, which the list still holds unless it was
\* loaded again; only updates are held back by it.
OlderTyped ==
  /\ older.pc # "idle" =>
       /\ Initially > 0 /\ DOMAIN list # {} /\ older.cursor \in DOMAIN server
       /\ ~older.outrun => older.cursor \in DOMAIN list
  /\ older.pc = "page" =>
       \A j \in DOMAIN older.page :
         /\ j < older.cursor
         /\ \A i \in DOMAIN server : j <= i /\ i < older.cursor => i \in DOMAIN older.page
  /\ \A i : ~Has(pendingOlder, "INSERT", i)

\* No UPDATE of a message is ahead of its INSERT, and none comes twice.
InOrder(events) ==
  \A j, k \in DOMAIN events :
    events[j].kind = "INSERT" /\ events[k].kind = "UPDATE" /\ events[j].id = events[k].id
    => j < k

EventsOrdered ==
  /\ \A j, k \in DOMAIN wire : wire[j] = wire[k] => j = k
  /\ InOrder(wire) /\ InOrder(pending)
  /\ \A i : Has(wire, "INSERT", i) =>
       i \notin Ids(pending) /\ (server[i] => Has(wire, "UPDATE", i))
  /\ \A i \in told : ~Has(wire, "UPDATE", i)

\* What lies above a row of these, and every message that came in since the chat was
\* opened, is among them, on its way, or was never told.
Complete(rows, lapsed) ==
  \A i \in DOMAIN server :
    i > Initially \/ (\E j \in DOMAIN rows : j <= i) =>
      i \in DOMAIN rows \cup lapsed \/ Has(wire, "INSERT", i) \/ Has(pending, "INSERT", i)

\* The page the load has read, with the events held back, lacks only what is told
\* later or never.
PageKept ==
  load.pc = "page" =>
    /\ Complete(load.page, missedSince)
    /\ \A i \in DOMAIN server :
         /\ server[i] /\ (i \in DOMAIN load.page \/ Has(pending, "INSERT", i))
         /\ ~(i \in DOMAIN load.page /\ load.page[i])
         => i \in missedSince \/ Has(wire, "UPDATE", i) \/ Has(pending, "UPDATE", i)

\* The deletion of a message is on its way, held back, or was never told.
Heard(i) ==
  i \in missed \/ Has(wire, "UPDATE", i) \/ i \in Ids(pending) \/ i \in Ids(pendingOlder)

ListKept ==
  /\ Complete(list, missed)
  /\ \A i \in DOMAIN list : server[i] /\ ~list[i] => Heard(i)

OlderKept ==
  older.pc = "page" /\ ~older.outrun =>
    \A i \in DOMAIN older.page \ DOMAIN list : server[i] /\ ~older.page[i] => Heard(i)

TimelineInv ==
  /\ TypeOK /\ RecordsTyped /\ RowsExact /\ EventsKept /\ OpenedWith /\ OlderTyped
  /\ EventsOrdered /\ PageKept /\ ListKept /\ OlderKept

-----------------------------------------------------------------------------
(* The operators of the model *)

\* A set of natural numbers that is not empty has a least one, which Min chooses.
LEMMA MinIsLeast ==
  ASSUME NEW T \in SUBSET Nat, T # {}
  PROVE  Min(T) \in T /\ \A y \in T : Min(T) <= y
  <1>1. IsWellFoundedOn(OpToRel(<, Nat), Nat)
    BY NatLessThanWellFounded
  <1>2. PICK x \in T : \A y \in T : <<y, x>> \notin OpToRel(<, Nat)
    BY <1>1, WFMin
  <1>3. \A y \in T : ~(y < x)
    BY <1>2 DEF OpToRel
  <1>4. \A y \in T : x <= y
    BY <1>3
  <1>5. QED
    BY <1>4 DEF Min

\* The events after one more.
LEMMA AppendHas ==
  ASSUME NEW q \in Seq(Events), NEW e \in Events
  PROVE  /\ Append(q, e) \in Seq(Events) /\ Append(q, e) # <<>>
         /\ \A kind, id : Has(Append(q, e), kind, id)
                            <=> Has(q, kind, id) \/ (e.kind = kind /\ e.id = id)
         /\ \A k \in DOMAIN Append(q, e) :
              \/ k \in DOMAIN q /\ Append(q, e)[k] = q[k]
              \/ k = Len(q) + 1 /\ k \notin DOMAIN q /\ Append(q, e)[k] = e
  <1> DEFINE t == Append(q, e)
  <1>1. t \in Seq(Events) /\ Len(t) = Len(q) + 1
    OBVIOUS
  <1>2. \A k \in 1 .. Len(q) : t[k] = q[k]
    OBVIOUS
  <1>3. t[Len(q) + 1] = e
    OBVIOUS
  <1>4. DOMAIN t = 1 .. Len(q) + 1 /\ DOMAIN q = 1 .. Len(q) /\ Len(q) \in Nat
    BY <1>1
  <1>5. \A k \in DOMAIN t :
          \/ k \in DOMAIN q /\ t[k] = q[k]
          \/ k = Len(q) + 1 /\ k \notin DOMAIN q /\ t[k] = e
    BY <1>2, <1>3, <1>4
  <1>6. ASSUME NEW kind, NEW id
        PROVE  Has(t, kind, id) <=> Has(q, kind, id) \/ (e.kind = kind /\ e.id = id)
    <2>1. Has(t, kind, id) => Has(q, kind, id) \/ (e.kind = kind /\ e.id = id)
      BY <1>5 DEF Has
    <2>2. Has(q, kind, id) => Has(t, kind, id)
      BY <1>2, <1>4 DEF Has
    <2>3. e.kind = kind /\ e.id = id => Has(t, kind, id)
      BY <1>3, <1>4 DEF Has
    <2>4. QED
      BY <2>1, <2>2, <2>3
  <1>7. QED
    BY <1>1, <1>4, <1>5, <1>6

\* The events without the first one.
LEMMA TailHas ==
  ASSUME NEW q \in Seq(Events), q # <<>>
  PROVE  /\ Head(q) \in Events /\ Tail(q) \in Seq(Events)
         /\ 1 \in DOMAIN q /\ q[1] = Head(q)
         /\ \A k \in DOMAIN Tail(q) : k + 1 \in DOMAIN q /\ k \in Nat \ {0} /\ Tail(q)[k] = q[k + 1]
         /\ \A kind, id : Has(q, kind, id)
              <=> Has(Tail(q), kind, id) \/ (Head(q).kind = kind /\ Head(q).id = id)
  <1> DEFINE t == Tail(q)
  <1>1. t \in Seq(Events) /\ Len(t) = Len(q) - 1 /\ Len(q) \in Nat \ {0} /\ Head(q) \in Events
    OBVIOUS
  <1>2. Head(q) = q[1]
    OBVIOUS
  <1>3. \A k \in 1 .. Len(t) : t[k] = q[k + 1]
    BY <1>1
  <1>4. DOMAIN t = 1 .. Len(q) - 1 /\ DOMAIN q = 1 .. Len(q)
    BY <1>1
  <1>5. \A k \in DOMAIN t : k + 1 \in DOMAIN q /\ k \in Nat \ {0} /\ t[k] = q[k + 1]
    BY <1>1, <1>3, <1>4
  <1>6. ASSUME NEW kind, NEW id
        PROVE  Has(q, kind, id) <=> Has(t, kind, id) \/ (Head(q).kind = kind /\ Head(q).id = id)
    <2>1. ASSUME Has(q, kind, id)
          PROVE  Has(t, kind, id) \/ (Head(q).kind = kind /\ Head(q).id = id)
      <3>1. PICK k \in DOMAIN q : q[k].kind = kind /\ q[k].id = id
        BY <2>1 DEF Has
      <3>2. CASE k = 1
        BY <1>2, <3>1, <3>2
      <3>3. CASE k # 1
        <4>1. k - 1 \in DOMAIN t /\ t[k - 1] = q[k]
          BY <1>1, <1>3, <1>4, <3>3
        <4>2. QED
          BY <3>1, <4>1 DEF Has
      <3>4. QED
        BY <3>2, <3>3
    <2>2. Has(t, kind, id) => Has(q, kind, id)
      BY <1>5 DEF Has
    <2>3. Head(q).kind = kind /\ Head(q).id = id => Has(q, kind, id)
      BY <1>1, <1>2, <1>4 DEF Has
    <2>4. QED
      BY <2>1, <2>2, <2>3
  <1>7. 1 \in DOMAIN q
    BY <1>1, <1>4
  <1>8. QED
    BY <1>1, <1>2, <1>5, <1>6, <1>7

\* A message is named by the events that insert or update it.
LEMMA IdsHas ==
  ASSUME NEW q \in Seq(Events)
  PROVE  /\ \A i : i \in Ids(q) <=> Has(q, "INSERT", i) \/ Has(q, "UPDATE", i)
         /\ Ids(q) \subseteq Messages
  <1>1. \A k \in DOMAIN q : q[k] \in Events
    OBVIOUS
  <1>2. \A k \in DOMAIN q : q[k].kind \in {"INSERT", "UPDATE"} /\ q[k].id \in Messages
    BY <1>1 DEF Events
  <1>3. QED
    BY <1>2 DEF Ids, Has

\* No event names nothing.
LEMMA NoneHas ==
  /\ \A kind, id : ~Has(<<>>, kind, id)
  /\ Ids(<<>>) = {}
  BY DEF Has, Ids

\* A queue that captures an event keeps it or holds one that says as much.
LEMMA CaptureIs ==
  ASSUME NEW q \in Seq(Events), NEW e \in Events
  PROVE  \/ /\ captureRealtimeRow(q, e) = Append(q, e)
            /\ e.kind = "UPDATE" \/ e.id \notin Ids(q)
         \/ /\ captureRealtimeRow(q, e) = q
            /\ e.id \in Ids(q)
            /\ e.kind = "UPDATE" => Has(q, "UPDATE", e.id)
  <1> DEFINE K == {k \in 1 .. Len(q) : q[k].id = e.id}
             c == SelectInSeq(q, LAMBDA x : x.id = e.id)
  <1>1. DOMAIN q = 1 .. Len(q) /\ Len(q) \in Nat /\ \A k \in DOMAIN q : q[k] \in Events
    OBVIOUS
  <1>2. c = IF K # {} THEN Min(K) ELSE 0
    BY DEF SelectInSeq
  <1>3. CASE K = {}
    <2>1. c = 0
      BY <1>2, <1>3
    <2>2. e.id \notin Ids(q)
      BY <1>1, <1>3 DEF Ids
    <2>3. QED
      BY <2>1, <2>2 DEF captureRealtimeRow
  <1>4. CASE K # {}
    <2>1. K \in SUBSET Nat
      BY <1>1
    <2>2. Min(K) \in K
      BY <1>4, <2>1, MinIsLeast
    <2>3. c \in DOMAIN q /\ q[c].id = e.id /\ c # 0
      BY <1>1, <1>2, <1>4, <2>2
    <2> HIDE DEF c
    <2>4. e.id \in Ids(q)
      BY <2>3 DEF Ids
    <2>5. captureRealtimeRow(q, e) =
            IF e.kind = "INSERT" THEN q
            ELSE IF q[c].kind = "INSERT" THEN Append(q, e) ELSE [q EXCEPT ![c] = e]
      BY <2>3 DEF captureRealtimeRow, c
    <2>6. e.kind \in {"INSERT", "UPDATE"} /\ q[c].kind \in {"INSERT", "UPDATE"}
      BY <1>1, <2>3 DEF Events
    <2>7. CASE e.kind = "INSERT"
      BY <2>4, <2>5, <2>7
    <2>8. CASE e.kind = "UPDATE" /\ q[c].kind = "INSERT"
      BY <2>5, <2>8
    <2>9. CASE e.kind = "UPDATE" /\ q[c].kind = "UPDATE"
      <3>1. q[c] = e
        BY <1>1, <2>3, <2>9 DEF Events
      <3>2. [q EXCEPT ![c] = e] = q
        BY <1>1, <2>3, <3>1
      <3>3. captureRealtimeRow(q, e) = q
        BY <2>5, <2>9, <3>2
      <3>4. Has(q, "UPDATE", e.id)
        BY <2>3, <2>9 DEF Has
      <3>5. QED
        BY <2>4, <3>3, <3>4
    <2>10. QED
      BY <2>6, <2>7, <2>8, <2>9
  <1>5. QED
    BY <1>3, <1>4

\* What the events held back make of a page.
LEMMA MergeIs ==
  ASSUME NEW page, RowsOf(page), NEW q \in Seq(Events), InOrder(q)
  PROVE  LET m == mergeLoadedPage(page, q) IN
           /\ RowsOf(m)
           /\ \A i : i \in DOMAIN m <=> i \in DOMAIN page \/ Has(q, "INSERT", i)
           /\ \A i \in DOMAIN m :
                m[i] <=> (i \in DOMAIN page /\ page[i]) \/ Has(q, "UPDATE", i)
  <1> DEFINE m == mergeLoadedPage(page, q)
             set(i) == \/ i \in DOMAIN page /\ page[i]
                       \/ \E k \in DOMAIN q :
                            /\ q[k].kind = "UPDATE" /\ q[k].id = i
                            /\ \/ i \in DOMAIN page
                               \/ \E l \in 1 .. k : q[l].kind = "INSERT" /\ q[l].id = i
  <1>1. DOMAIN q = 1 .. Len(q) /\ Len(q) \in Nat
    OBVIOUS
  <1>2. m = [i \in DOMAIN page \cup {i \in Ids(q) : Has(q, "INSERT", i)} |-> set(i)]
    BY DEF mergeLoadedPage
  <1>3. \A i : i \in DOMAIN m <=> i \in DOMAIN page \/ Has(q, "INSERT", i)
    <2>1. \A i : Has(q, "INSERT", i) => i \in Ids(q)
      BY IdsHas
    <2>2. DOMAIN m = DOMAIN page \cup {i \in Ids(q) : Has(q, "INSERT", i)}
      BY <1>2
    <2>3. QED
      BY <2>1, <2>2
  <1>4. DOMAIN m \subseteq Messages
    BY <1>3, IdsHas DEF RowsOf
  <1>5. \A i \in DOMAIN m : m[i] = set(i)
    BY <1>2
  <1>6. ASSUME NEW i \in DOMAIN m
        PROVE  set(i) <=> (i \in DOMAIN page /\ page[i]) \/ Has(q, "UPDATE", i)
    <2>1. set(i) => (i \in DOMAIN page /\ page[i]) \/ Has(q, "UPDATE", i)
      BY DEF Has
    <2>2. ASSUME Has(q, "UPDATE", i)
          PROVE  set(i)
      <3>1. PICK k \in DOMAIN q : q[k].kind = "UPDATE" /\ q[k].id = i
        BY <2>2 DEF Has
      <3>2. CASE i \in DOMAIN page
        BY <3>1, <3>2
      <3>3. CASE i \notin DOMAIN page
        <4>1. PICK l \in DOMAIN q : q[l].kind = "INSERT" /\ q[l].id = i
          BY <1>3, <3>3 DEF Has
        <4>2. l < k
          BY <3>1, <4>1 DEF InOrder
        <4>3. l \in 1 .. k
          BY <1>1, <4>2
        <4>4. QED
          BY <3>1, <4>1, <4>3
      <3>4. QED
        BY <3>2, <3>3
    <2>3. QED
      BY <2>1, <2>2
  <1>7. \A i \in DOMAIN m : set(i) \in BOOLEAN
    OBVIOUS
  <1>8. \A i \in DOMAIN m : m[i] \in BOOLEAN
    BY <1>5, <1>7, Zenon
  <1>9. \A i \in DOMAIN m : m[i] <=> (i \in DOMAIN page /\ page[i]) \/ Has(q, "UPDATE", i)
    BY <1>5, <1>6, Zenon
  <1>10. QED
    BY <1>3, <1>4, <1>8, <1>9 DEF RowsOf

\* The list with an older page and the updates held back by it.
LEMMA MergeOlderIs ==
  ASSUME NEW page, RowsOf(page), TypeOK, OlderTyped
  PROVE  LET m == mergeOlderPage(list, page, pendingOlder) IN
           /\ RowsOf(m)
           /\ DOMAIN m = DOMAIN list \cup DOMAIN page
           /\ \A i \in DOMAIN list : m[i] <=> list[i] \/ Has(pendingOlder, "UPDATE", i)
           /\ \A i \in DOMAIN page \ DOMAIN list :
                m[i] <=> page[i] \/ Has(pendingOlder, "UPDATE", i)
  <1> DEFINE b == [i \in DOMAIN list \cup DOMAIN page |->
                     IF i \in DOMAIN list THEN list[i] ELSE page[i]]
             m == mergeOlderPage(list, page, pendingOlder)
  <1>1. pendingOlder \in Seq(Events) /\ RowsOf(list)
    BY DEF TypeOK
  <1>2. InOrder(pendingOlder)
    BY DEF OlderTyped, InOrder, Has
  <1>3. DOMAIN b = DOMAIN list \cup DOMAIN page
    OBVIOUS
  <1>4. (\A i \in DOMAIN list : b[i] = list[i]) /\ (\A i \in DOMAIN page \ DOMAIN list : b[i] = page[i])
    OBVIOUS
  <1>5. RowsOf(b)
    <2>1. \A i \in DOMAIN b : b[i] \in BOOLEAN
      <3>1. \A i \in DOMAIN list : list[i] \in BOOLEAN
        BY <1>1 DEF RowsOf
      <3>2. \A i \in DOMAIN page : page[i] \in BOOLEAN
        BY DEF RowsOf
      <3> HIDE DEF b
      <3>3. QED
        BY <1>3, <1>4, <3>1, <3>2, Zenon
    <2>2. QED
      BY <1>1, <1>3, <2>1 DEF RowsOf
  <1>6. m = mergeLoadedPage(b, pendingOlder)
    BY DEF mergeOlderPage
  <1> HIDE DEF b, m
  <1>7. /\ RowsOf(m)
        /\ \A i : i \in DOMAIN m <=> i \in DOMAIN b \/ Has(pendingOlder, "INSERT", i)
        /\ \A i \in DOMAIN m : m[i] <=> (i \in DOMAIN b /\ b[i]) \/ Has(pendingOlder, "UPDATE", i)
    BY <1>1, <1>2, <1>5, <1>6, MergeIs
  <1>8. DOMAIN m = DOMAIN list \cup DOMAIN page
    BY <1>3, <1>7 DEF OlderTyped
  <1>9. \A i \in DOMAIN list : m[i] <=> list[i] \/ Has(pendingOlder, "UPDATE", i)
    BY <1>3, <1>4, <1>7, <1>8, Zenon
  <1>10. \A i \in DOMAIN page \ DOMAIN list : m[i] <=> page[i] \/ Has(pendingOlder, "UPDATE", i)
    BY <1>3, <1>4, <1>7, <1>8, Zenon
  <1>11. QED
    BY <1>7, <1>8, <1>9, <1>10 DEF m

\* One event, taken as it comes.
LEMMA MergeOneIs ==
  ASSUME TypeOK, NEW e \in Events
  PROVE  LET m == mergeLoadedPage(list, <<e>>) IN
           /\ RowsOf(m)
           /\ \A i : i \in DOMAIN m <=> i \in DOMAIN list \/ (e.kind = "INSERT" /\ e.id = i)
           /\ \A i \in DOMAIN m :
                m[i] <=> (i \in DOMAIN list /\ list[i]) \/ (e.kind = "UPDATE" /\ e.id = i)
  <1> DEFINE q == <<e>>
  <1>1. q \in Seq(Events) /\ DOMAIN q = {1} /\ q[1] = e
    OBVIOUS
  <1> HIDE DEF q
  <1>2. \A kind, id : Has(q, kind, id) <=> e.kind = kind /\ e.id = id
    BY <1>1 DEF Has
  <1>3. InOrder(q)
    BY <1>1 DEF InOrder
  <1>4. RowsOf(list)
    BY DEF TypeOK
  <1>5. LET m == mergeLoadedPage(list, q) IN
           /\ RowsOf(m)
           /\ \A i : i \in DOMAIN m <=> i \in DOMAIN list \/ Has(q, "INSERT", i)
           /\ \A i \in DOMAIN m :
                m[i] <=> (i \in DOMAIN list /\ list[i]) \/ Has(q, "UPDATE", i)
    BY <1>1, <1>3, <1>4, MergeIs
  <1>6. QED
    BY <1>2, <1>5 DEF q

\* The first row of a page.
LEMMA MaxOfTwo ==
  ASSUME NEW a \in Int
  PROVE  /\ Max({1, a}) \in {1, a}
         /\ Max({1, a}) >= 1 /\ Max({1, a}) >= a
  <1>1. \E x \in {1, a} : \A y \in {1, a} : x >= y
    <2>1. CASE a >= 1
      BY <2>1
    <2>2. CASE ~(a >= 1)
      BY <2>2
    <2>3. QED
      BY <2>1, <2>2
  <1>2. Max({1, a}) \in {1, a} /\ \A y \in {1, a} : Max({1, a}) >= y
    BY <1>1 DEF Max
  <1>3. QED
    BY <1>2

\* A page has the newest rows below its cursor, without a gap.
LEMMA PageIs ==
  ASSUME TypeOK, NEW i \in 1 .. Len(server) + 1
  PROVE  LET p == PageBefore(i) IN
           /\ RowsOf(p)
           /\ \A j \in DOMAIN p : j \in DOMAIN server /\ j < i /\ p[j] = server[j]
           /\ \A k \in DOMAIN server :
                k < i /\ (k >= i - PageSize \/ \E j \in DOMAIN p : j <= k) => k \in DOMAIN p
           /\ i > 1 => DOMAIN p # {}
  <1> DEFINE from == Max({1, i - PageSize})
             p == PageBefore(i)
  <1>1. PageSize \in Nat /\ PageSize # 0 /\ MaxMessages \in Nat
    BY TimelineAssumption
  <1>2. server \in Seq(BOOLEAN) /\ Len(server) <= MaxMessages
    BY DEF TypeOK
  <1>3. DOMAIN server = 1 .. Len(server) /\ Len(server) \in Nat /\ \A j \in DOMAIN server : server[j] \in BOOLEAN
    BY <1>2
  <1>4. from \in {1, i - PageSize} /\ from >= 1 /\ from >= i - PageSize
    <2>1. i - PageSize \in Int
      BY <1>1, <1>3
    <2>2. QED
      BY <2>1, MaxOfTwo
  <1>5. p = [j \in from .. (i - 1) |-> server[j]]
    BY DEF PageBefore
  <1> HIDE DEF from, p
  <1>6. from \in Int /\ i \in Int
    BY <1>1, <1>3, <1>4
  <1>7. \A j : j \in DOMAIN p <=> j \in Int /\ from <= j /\ j < i
    BY <1>5, <1>6
  <1>8. \A j \in DOMAIN p : j \in DOMAIN server /\ j < i
    BY <1>3, <1>4, <1>6, <1>7
  <1>9. \A j \in DOMAIN p : p[j] = server[j]
    BY <1>5
  <1>10. RowsOf(p)
    <2>1. DOMAIN p \subseteq Messages
      BY <1>1, <1>2, <1>3, <1>8 DEF Messages
    <2>2. \A j \in DOMAIN p : p[j] \in BOOLEAN
      BY <1>3, <1>8, <1>9, Zenon
    <2>3. QED
      BY <2>1, <2>2 DEF RowsOf
  <1>11. ASSUME NEW k \in DOMAIN server, k < i, k >= i - PageSize \/ \E j \in DOMAIN p : j <= k
         PROVE  k \in DOMAIN p
    <2>1. k \in Int /\ k >= 1
      BY <1>3
    <2>2. from <= k
      <3>1. CASE k >= i - PageSize
        BY <1>1, <1>4, <1>6, <2>1, <3>1
      <3>2. CASE \E j \in DOMAIN p : j <= k
        BY <1>6, <1>7, <2>1, <3>2
      <3>3. QED
        BY <1>11, <3>1, <3>2
    <2>3. QED
      BY <1>7, <1>11, <2>1, <2>2
  <1>12. i > 1 => i - 1 \in DOMAIN p
    BY <1>1, <1>4, <1>6, <1>7
  <1>13. QED
    BY <1>8, <1>9, <1>10, <1>11, <1>12 DEF p

-----------------------------------------------------------------------------
(* The start *)

\* The chat is opened on an empty list, with nothing in flight.
LEMMA TimelineStart == Init => TimelineInv
  <1> SUFFICES ASSUME Init PROVE TimelineInv
    OBVIOUS
  <1>1. Initially \in Nat /\ MaxMessages \in Nat /\ Initially <= MaxMessages
    BY TimelineAssumption
  <1>2. /\ server = [i \in 1 .. Initially |-> FALSE]
        /\ channel = "joining" /\ wire = <<>> /\ online = TRUE
        /\ list = NoRows
        /\ load = [pc |-> "fetch", page |-> NoRows, more |-> FALSE]
        /\ failed = FALSE /\ pending = <<>>
        /\ older = [pc |-> "idle", cursor |-> 0, page |-> NoRows, outrun |-> FALSE]
        /\ pendingOlder = <<>> /\ hasMore = FALSE /\ latch = FALSE
        /\ sending = 0 /\ erasing = 0
        /\ missed = {} /\ missedSince = {} /\ told = {}
    BY DEF Init
  <1>3. /\ server \in Seq(BOOLEAN) /\ Len(server) = Initially /\ DOMAIN server = 1 .. Initially
        /\ \A i \in DOMAIN server : server[i] = FALSE
    BY <1>1, <1>2
  <1>4. DOMAIN NoRows = {}
    BY DEF NoRows
  <1>5. RowsOf(NoRows) /\ Exact(NoRows)
    BY <1>4 DEF RowsOf, Exact
  <1>6. <<>> \in Seq(Events) /\ DOMAIN <<>> = {}
    OBVIOUS
  <1>7. TypeOK
    BY <1>1, <1>2, <1>3, <1>5, <1>6 DEF TypeOK
  <1>8. RecordsTyped /\ RowsExact /\ OpenedWith
    BY <1>1, <1>2, <1>3, <1>5 DEF RecordsTyped, RowsExact, OpenedWith
  <1>9. EventsKept /\ EventsOrdered
    BY <1>2, <1>6, NoneHas DEF EventsKept, EventsOrdered, Kept, InOrder
  <1>10. OlderTyped /\ PageKept /\ OlderKept
    BY <1>2, NoneHas DEF OlderTyped, PageKept, OlderKept
  <1>11. ListKept
    BY <1>1, <1>2, <1>3, <1>4 DEF ListKept, Complete
  <1>12. QED
    BY <1>7, <1>8, <1>9, <1>10, <1>11 DEF TimelineInv

-----------------------------------------------------------------------------
(* What is committed *)

\* A change is on the wire, or the tab is not told.
LEMMA PublishIs ==
  ASSUME TimelineInv, NEW e \in Events, Publish(e.kind, e.id)
  PROVE  /\ wire' \in Seq(Events)
         /\ \/ /\ channel = "on" /\ wire' = Append(wire, e)
               /\ missed' = missed /\ missedSince' = missedSince
            \/ /\ wire = <<>> /\ wire' = <<>>
               /\ missed' = missed \cup {e.id} /\ missedSince' = missedSince \cup {e.id}
  <1>1. wire \in Seq(Events) /\ (wire # <<>> => channel = "on")
    BY DEF TimelineInv, TypeOK, EventsKept
  <1>2. e = [kind |-> e.kind, id |-> e.id]
    BY DEF Events
  <1>3. Append(wire, e) \in Seq(Events)
    BY <1>1
  <1>4. QED
    BY <1>1, <1>2, <1>3 DEF Publish

\* What a change does not touch.
Around ==
  UNCHANGED <<channel, online, list, load, failed, pending, older, pendingOlder, hasMore,
              latch, told>>

\* A sequence with one more.
LEMMA AppendIs ==
  ASSUME NEW S, NEW s \in Seq(S), NEW x \in S
  PROVE  LET t == Append(s, x) IN
           /\ t \in Seq(S) /\ Len(t) = Len(s) + 1 /\ Len(s) \in Nat
           /\ DOMAIN s = 1 .. Len(s) /\ DOMAIN t = 1 .. Len(s) + 1
           /\ \A i \in DOMAIN s : t[i] = s[i]
           /\ t[Len(s) + 1] = x
  OBVIOUS

\* A new message is on the wire, or the tab is not told of it.
LEMMA InsertKeeps ==
  ASSUME TimelineInv, Insert, Around, erasing' = erasing,
         sending' = sending \/ sending' = Len(server) + 1
  PROVE  TimelineInv'
  <1> DEFINE n == Len(server) + 1
             e == [kind |-> "INSERT", id |-> n]
  <1>1. MaxMessages \in Nat /\ Initially \in Nat
    BY TimelineAssumption
  <1>2. server \in Seq(BOOLEAN) /\ wire \in Seq(Events) /\ pending \in Seq(Events) /\ Len(server) <= MaxMessages
    BY DEF TimelineInv, TypeOK
  <1>3. Len(server) < MaxMessages /\ server' = Append(server, FALSE)
    BY DEF Insert
  <1>4. /\ server' \in Seq(BOOLEAN) /\ Len(server') = n /\ n \in Nat /\ n >= 1
        /\ DOMAIN server = 1 .. Len(server) /\ DOMAIN server' = 1 .. n
        /\ \A i \in DOMAIN server : i \in DOMAIN server' /\ server'[i] = server[i]
        /\ server'[n] = FALSE
    <2>1. FALSE \in BOOLEAN
      OBVIOUS
    <2>2. LET t == Append(server, FALSE) IN
            /\ t \in Seq(BOOLEAN) /\ Len(t) = Len(server) + 1 /\ Len(server) \in Nat
            /\ DOMAIN server = 1 .. Len(server) /\ DOMAIN t = 1 .. Len(server) + 1
            /\ \A i \in DOMAIN server : t[i] = server[i]
            /\ t[Len(server) + 1] = FALSE
      BY <1>2, <2>1, AppendIs, Zenon
    <2>3. QED
      BY <1>3, <2>2
  <1>5. e \in Events /\ e.kind = "INSERT" /\ e.id = n
    BY <1>1, <1>2, <1>3, <1>4 DEF Events, Messages
  <1>6. \A i \in DOMAIN server' : i \in DOMAIN server \/ i = n
    BY <1>4
  <1>7. n \notin DOMAIN server /\ \A i \in DOMAIN server : i < n
    BY <1>4
  <1> HIDE DEF n
  <1>8. Publish(e.kind, e.id)
    BY <1>5 DEF Insert, n
  <1> HIDE DEF e
  <1>9. /\ wire' \in Seq(Events)
        /\ \/ /\ channel = "on" /\ wire' = Append(wire, e)
              /\ missed' = missed /\ missedSince' = missedSince
           \/ /\ wire = <<>> /\ wire' = <<>>
              /\ missed' = missed \cup {n} /\ missedSince' = missedSince \cup {n}
    BY <1>5, <1>8, PublishIs
  \* the events on the wire
  <1>10. /\ \A k \in DOMAIN wire' :
              \/ k \in DOMAIN wire /\ wire'[k] = wire[k]
              \/ k = Len(wire) + 1 /\ k \notin DOMAIN wire /\ wire'[k] = e
         /\ \A kind, id : Has(wire, kind, id) => Has(wire', kind, id)
         /\ \A kind, id : Has(wire', kind, id) => Has(wire, kind, id) \/ (kind = "INSERT" /\ id = n)
         /\ (n \in missed' /\ n \in missedSince') \/ Has(wire', "INSERT", n)
    <2>1. CASE wire' = Append(wire, e)
      BY <1>2, <1>5, <2>1, AppendHas
    <2>2. CASE wire = <<>> /\ wire' = <<>> /\ missed' = missed \cup {n} /\ missedSince' = missedSince \cup {n}
      BY <2>2, NoneHas
    <2>3. QED
      BY <1>9, <2>1, <2>2
  <1>11. missed \subseteq missed' /\ missedSince \subseteq missedSince'
    BY <1>9
  <1>12. \A k \in DOMAIN wire : wire[k].id \in DOMAIN server
    BY DEF TimelineInv, EventsKept, Kept
  <1>13. \A i \in Ids(wire) \cup Ids(pending) : i \in DOMAIN server
    BY DEF TimelineInv, EventsKept, Kept, Ids
  <1>14. TypeOK'
    <2>1. n \in Messages /\ n <= MaxMessages
      BY <1>1, <1>3, <1>4 DEF Messages, n
    <2>2. missed' \subseteq Messages /\ missedSince' \subseteq Messages
      BY <1>9, <2>1 DEF TimelineInv, TypeOK
    <2>3. {sending', erasing'} \subseteq Messages \cup {0}
      BY <2>1 DEF TimelineInv, TypeOK, n
    <2>4. QED
      BY <1>4, <1>9, <2>1, <2>2, <2>3 DEF TimelineInv, TypeOK, Around
  <1>15. RecordsTyped'
    BY DEF TimelineInv, RecordsTyped, Around
  <1>16. RowsExact'
    <2>1. Initially <= Len(server')
      BY <1>1, <1>2, <1>4 DEF TimelineInv, RowsExact, n
    <2>2. Exact(list)' /\ Exact(load.page)' /\ Exact(older.page)'
      BY <1>4 DEF TimelineInv, RowsExact, Exact, Around
    <2>3. n > Initially
      BY <1>1, <1>4 DEF TimelineInv, RowsExact, n
    <2>4. sending' # 0 => sending' \in DOMAIN server' /\ sending' > Initially
      BY <1>4, <2>3 DEF TimelineInv, RowsExact, n
    <2>5. erasing' # 0 => erasing' \in DOMAIN server' /\ server'[erasing']
      BY <1>4 DEF TimelineInv, RowsExact
    <2>6. \A i \in told' : i \in DOMAIN server' /\ server'[i]
      BY <1>4 DEF TimelineInv, RowsExact, Around
    <2>7. QED
      BY <2>1, <2>2, <2>4, <2>5, <2>6 DEF RowsExact
  <1>17. EventsKept'
    <2>1. n > Initially
      BY <1>1, <1>4 DEF TimelineInv, RowsExact, n
    <2>2. Kept(wire)'
      <3> SUFFICES ASSUME NEW k \in DOMAIN wire'
                   PROVE  /\ wire'[k].id \in DOMAIN server'
                          /\ wire'[k].kind = "INSERT" => wire'[k].id > Initially
                          /\ wire'[k].kind = "UPDATE" => server'[wire'[k].id]
        BY DEF Kept
      <3>1. CASE k \in DOMAIN wire /\ wire'[k] = wire[k]
        BY <1>4, <3>1 DEF TimelineInv, EventsKept, Kept
      <3>2. CASE wire'[k] = e
        BY <1>4, <1>5, <2>1, <3>2
      <3>3. QED
        BY <1>10, <3>1, <3>2
    <2>3. Kept(pending)' /\ Kept(pendingOlder)'
      BY <1>4 DEF TimelineInv, EventsKept, Kept, Around
    <2>4. QED
      BY <1>9, <2>2, <2>3 DEF TimelineInv, EventsKept, Around
  <1>18. OpenedWith'
    BY DEF TimelineInv, OpenedWith, Around
  <1>19. OlderTyped'
    <2>1. older.pc # "idle" => older.cursor \in DOMAIN server
      BY DEF TimelineInv, OlderTyped
    <2>2. older.pc # "idle" => \A i \in DOMAIN server' : i < older.cursor => i \in DOMAIN server
      BY <1>4, <1>6, <1>7, <2>1
    <2>3. QED
      BY <1>4, <2>1, <2>2 DEF TimelineInv, OlderTyped, Around, Has
  <1>20. EventsOrdered'
    <2>1. \A j, k \in DOMAIN wire' : wire'[j] = wire'[k] => j = k
      BY <1>5, <1>7, <1>10, <1>12 DEF TimelineInv, EventsOrdered
    <2>2. InOrder(wire)'
      BY <1>2, <1>5, <1>7, <1>10, <1>12 DEF TimelineInv, EventsOrdered, InOrder
    <2>3. \A i : Has(wire', "INSERT", i) =>
            i \notin Ids(pending) /\ (server'[i] => Has(wire', "UPDATE", i))
      <3> SUFFICES ASSUME NEW i, Has(wire', "INSERT", i)
                   PROVE  i \notin Ids(pending) /\ (server'[i] => Has(wire', "UPDATE", i))
        OBVIOUS
      <3>1. CASE i = n
        BY <1>4, <1>7, <1>13, <3>1
      <3>2. CASE i # n
        <4>1. Has(wire, "INSERT", i)
          BY <1>10, <3>2
        <4>2. i \in DOMAIN server
          BY <1>13, <4>1, <1>2, IdsHas
        <4>3. server'[i] = server[i]
          BY <1>4, <4>2
        <4>4. i \notin Ids(pending) /\ (server[i] => Has(wire, "UPDATE", i))
          BY <4>1 DEF TimelineInv, EventsOrdered
        <4>5. QED
          BY <1>10, <4>3, <4>4
      <3>3. QED
        BY <3>1, <3>2
    <2>4. \A i \in told : ~Has(wire', "UPDATE", i)
      BY <1>10 DEF TimelineInv, EventsOrdered
    <2>5. QED
      BY <2>1, <2>2, <2>3, <2>4 DEF TimelineInv, EventsOrdered, Around, InOrder, Ids
  <1>21. ASSUME NEW rows, NEW lapsed, NEW lapsed2, Complete(rows, lapsed), lapsed \subseteq lapsed2,
                n \in lapsed2 \/ Has(wire', "INSERT", n)
         PROVE  \A i \in DOMAIN server' :
                  i > Initially \/ (\E j \in DOMAIN rows : j <= i) =>
                    i \in DOMAIN rows \cup lapsed2 \/ Has(wire', "INSERT", i) \/ Has(pending, "INSERT", i)
    BY <1>6, <1>10, <1>21 DEF Complete
  <1>22. PageKept'
    <2> SUFFICES ASSUME load.pc = "page" PROVE PageKept'
      BY DEF PageKept, Around
    <2>1. Complete(load.page, missedSince)
      BY DEF TimelineInv, PageKept
    <2>2. \A i \in DOMAIN server' :
            i > Initially \/ (\E j \in DOMAIN load.page : j <= i) =>
              i \in DOMAIN load.page \cup missedSince' \/ Has(wire', "INSERT", i) \/ Has(pending, "INSERT", i)
      BY <1>10, <1>11, <1>21, <2>1
    <2>3. \A i \in DOMAIN server' :
            /\ server'[i] /\ (i \in DOMAIN load.page \/ Has(pending, "INSERT", i))
            /\ ~(i \in DOMAIN load.page /\ load.page[i])
            => i \in missedSince' \/ Has(wire', "UPDATE", i) \/ Has(pending, "UPDATE", i)
      BY <1>4, <1>6, <1>10, <1>11 DEF TimelineInv, PageKept
    <2>4. load' = load /\ pending' = pending
      BY DEF Around
    <2>5. QED
      BY <2>2, <2>3, <2>4 DEF PageKept, Complete
  <1>23. \A i : Heard(i) => Heard(i)'
    BY <1>10, <1>11 DEF Heard, Around
  <1>24. ListKept'
    <2>1. \A i \in DOMAIN server' :
            i > Initially \/ (\E j \in DOMAIN list : j <= i) =>
              i \in DOMAIN list \cup missed' \/ Has(wire', "INSERT", i) \/ Has(pending, "INSERT", i)
      BY <1>10, <1>11, <1>21 DEF TimelineInv, ListKept
    <2>2. \A i \in DOMAIN list : server'[i] /\ ~list[i] => Heard(i)
      BY <1>4 DEF TimelineInv, ListKept, RowsExact, Exact
    <2>3. list' = list /\ pending' = pending
      BY DEF Around
    <2>4. QED
      BY <1>23, <2>1, <2>2, <2>3 DEF ListKept, Complete
  <1>25. OlderKept'
    <2>1. \A i \in DOMAIN older.page : i \in DOMAIN server
      BY DEF TimelineInv, RowsExact, Exact
    <2>2. older' = older /\ list' = list
      BY DEF Around
    <2>3. QED
      BY <1>4, <1>23, <2>1, <2>2 DEF TimelineInv, OlderKept
  <1>26. QED
    BY <1>14, <1>15, <1>16, <1>17, <1>18, <1>19, <1>20, <1>22, <1>24, <1>25 DEF TimelineInv

\* So is a deletion, and it is behind the message it deletes.
LEMMA EraseKeeps ==
  ASSUME TimelineInv, NEW n \in DOMAIN server, Erase(n), Around, sending' = sending,
         erasing' = erasing \/ erasing' = n
  PROVE  TimelineInv'
  <1> DEFINE e == [kind |-> "UPDATE", id |-> n]
  <1>1. MaxMessages \in Nat /\ Initially \in Nat
    BY TimelineAssumption
  <1>2. server \in Seq(BOOLEAN) /\ wire \in Seq(Events) /\ pending \in Seq(Events) /\ Len(server) <= MaxMessages
    BY DEF TimelineInv, TypeOK
  <1>3. ~server[n] /\ server' = [server EXCEPT ![n] = TRUE]
    BY DEF Erase
  <1>4. /\ server' \in Seq(BOOLEAN) /\ Len(server') = Len(server) /\ DOMAIN server' = DOMAIN server
        /\ \A i \in DOMAIN server : i # n => server'[i] = server[i]
        /\ server'[n] = TRUE
    <2>1. TRUE \in BOOLEAN
      OBVIOUS
    <2>2. server' \in Seq(BOOLEAN) /\ Len(server') = Len(server) /\ DOMAIN server' = DOMAIN server
      BY <1>2, <1>3, <2>1
    <2>3. QED
      BY <1>3, <2>2
  <1>5. e \in Events /\ e.kind = "UPDATE" /\ e.id = n
    <2>1. n \in Messages
      BY <1>1, <1>2 DEF Messages
    <2>2. QED
      BY <2>1 DEF Events
  <1>6. Publish(e.kind, e.id)
    BY <1>5 DEF Erase
  <1> HIDE DEF e
  <1>7. \A i \in DOMAIN server : server[i] => server'[i]
    BY <1>4
  <1>8. \A i \in DOMAIN server : server'[i] => server[i] \/ i = n
    BY <1>4
  <1>9. /\ wire' \in Seq(Events)
        /\ \/ /\ channel = "on" /\ wire' = Append(wire, e)
              /\ missed' = missed /\ missedSince' = missedSince
           \/ /\ wire = <<>> /\ wire' = <<>>
              /\ missed' = missed \cup {n} /\ missedSince' = missedSince \cup {n}
    BY <1>5, <1>6, PublishIs
  <1>10. /\ \A k \in DOMAIN wire' :
              \/ k \in DOMAIN wire /\ wire'[k] = wire[k]
              \/ k = Len(wire) + 1 /\ k \notin DOMAIN wire /\ wire'[k] = e
         /\ \A kind, id : Has(wire, kind, id) => Has(wire', kind, id)
         /\ \A kind, id : Has(wire', kind, id) => Has(wire, kind, id) \/ (kind = "UPDATE" /\ id = n)
         /\ (n \in missed' /\ n \in missedSince') \/ Has(wire', "UPDATE", n)
    <2>1. CASE wire' = Append(wire, e)
      BY <1>2, <1>5, <2>1, AppendHas
    <2>2. CASE wire = <<>> /\ wire' = <<>> /\ missed' = missed \cup {n} /\ missedSince' = missedSince \cup {n}
      BY <2>2, NoneHas
    <2>3. QED
      BY <1>9, <2>1, <2>2
  <1>11. missed \subseteq missed' /\ missedSince \subseteq missedSince'
    BY <1>9
  <1>12. \A k \in DOMAIN wire : wire[k].kind = "UPDATE" => wire[k].id # n
    BY <1>3 DEF TimelineInv, EventsKept, Kept
  <1>13. Has(wire, "INSERT", n) => Has(wire', "UPDATE", n)
    <2>1. Has(wire, "INSERT", n) => wire # <<>>
      BY NoneHas
    <2>2. wire # <<>> => wire' = Append(wire, e)
      BY <1>9
    <2>3. Has(Append(wire, e), "UPDATE", n)
      BY <1>2, <1>5, AppendHas
    <2>4. QED
      BY <2>1, <2>2, <2>3
  <1>14. TypeOK'
    <2>1. n \in Messages
      BY <1>1, <1>2 DEF Messages
    <2>2. missed' \subseteq Messages /\ missedSince' \subseteq Messages
      BY <1>9, <2>1 DEF TimelineInv, TypeOK
    <2>3. {sending', erasing'} \subseteq Messages \cup {0}
      BY <2>1 DEF TimelineInv, TypeOK
    <2>4. QED
      BY <1>4, <1>9, <2>2, <2>3 DEF TimelineInv, TypeOK, Around
  <1>15. RecordsTyped'
    BY DEF TimelineInv, RecordsTyped, Around
  <1>16. RowsExact'
    <2>1. Exact(list)' /\ Exact(load.page)' /\ Exact(older.page)'
      BY <1>4, <1>7 DEF TimelineInv, RowsExact, Exact, Around
    <2>2. sending' # 0 => sending' \in DOMAIN server' /\ sending' > Initially
      BY <1>4 DEF TimelineInv, RowsExact
    <2>3. erasing' # 0 => erasing' \in DOMAIN server' /\ server'[erasing']
      BY <1>4, <1>7 DEF TimelineInv, RowsExact
    <2>4. \A i \in told' : i \in DOMAIN server' /\ server'[i]
      BY <1>4, <1>7 DEF TimelineInv, RowsExact, Around
    <2>5. QED
      BY <1>4, <2>1, <2>2, <2>3, <2>4 DEF TimelineInv, RowsExact
  <1>17. EventsKept'
    <2>1. Kept(wire)'
      <3> SUFFICES ASSUME NEW k \in DOMAIN wire'
                   PROVE  /\ wire'[k].id \in DOMAIN server'
                          /\ wire'[k].kind = "INSERT" => wire'[k].id > Initially
                          /\ wire'[k].kind = "UPDATE" => server'[wire'[k].id]
        BY DEF Kept
      <3>1. CASE k \in DOMAIN wire /\ wire'[k] = wire[k]
        BY <1>4, <1>7, <3>1 DEF TimelineInv, EventsKept, Kept
      <3>2. CASE wire'[k] = e
        BY <1>4, <1>5, <3>2
      <3>3. QED
        BY <1>10, <3>1, <3>2
    <2>2. Kept(pending)' /\ Kept(pendingOlder)'
      BY <1>4, <1>7 DEF TimelineInv, EventsKept, Kept, Around
    <2>3. QED
      BY <1>9, <2>1, <2>2 DEF TimelineInv, EventsKept, Around
  <1>18. OpenedWith'
    BY DEF TimelineInv, OpenedWith, Around
  <1>19. OlderTyped'
    BY <1>4 DEF TimelineInv, OlderTyped, Around, Has
  <1>20. EventsOrdered'
    <2>1. \A j, k \in DOMAIN wire' : wire'[j] = wire'[k] => j = k
      BY <1>5, <1>10, <1>12 DEF TimelineInv, EventsOrdered
    <2>2. InOrder(wire)'
      <3>1. \A k \in DOMAIN wire : k < Len(wire) + 1
        BY <1>2
      <3>2. QED
        BY <1>5, <1>10, <3>1 DEF TimelineInv, EventsOrdered, InOrder
    <2>3. ASSUME NEW i, Has(wire', "INSERT", i)
          PROVE  i \notin Ids(pending) /\ (server'[i] => Has(wire', "UPDATE", i))
      <3>1. Has(wire, "INSERT", i)
        BY <1>10, <2>3
      <3>2. i \notin Ids(pending) /\ (server[i] => Has(wire, "UPDATE", i))
        BY <3>1 DEF TimelineInv, EventsOrdered
      <3>3. i \in DOMAIN server
        BY <3>1 DEF Has, TimelineInv, EventsKept, Kept
      <3>4. QED
        BY <1>8, <1>10, <1>13, <3>1, <3>2, <3>3
    <2>4. \A i \in told : ~Has(wire', "UPDATE", i)
      BY <1>3, <1>10 DEF TimelineInv, EventsOrdered, RowsExact
    <2>5. QED
      BY <2>1, <2>2, <2>3, <2>4 DEF TimelineInv, EventsOrdered, Around, InOrder, Ids
  <1>21. PageKept'
    <2> SUFFICES ASSUME load.pc = "page" PROVE PageKept'
      BY DEF PageKept, Around
    <2>1. Complete(load.page, missedSince)'
      BY <1>4, <1>10, <1>11 DEF TimelineInv, PageKept, Complete, Around
    <2>2. \A i \in DOMAIN server :
            /\ server'[i] /\ (i \in DOMAIN load.page \/ Has(pending, "INSERT", i))
            /\ ~(i \in DOMAIN load.page /\ load.page[i])
            => i \in missedSince' \/ Has(wire', "UPDATE", i) \/ Has(pending, "UPDATE", i)
      BY <1>8, <1>10, <1>11 DEF TimelineInv, PageKept
    <2>3. load' = load /\ pending' = pending
      BY DEF Around
    <2>4. QED
      BY <1>4, <2>1, <2>2, <2>3 DEF PageKept
  <1>22. Heard(n)' /\ \A i : Heard(i) => Heard(i)'
    BY <1>10, <1>11 DEF Heard, Around
  <1>23. ListKept'
    <2>1. Complete(list, missed)'
      BY <1>4, <1>10, <1>11 DEF TimelineInv, ListKept, Complete, Around
    <2>2. \A i \in DOMAIN list : server'[i] /\ ~list[i] => server[i] \/ i = n
      BY <1>8 DEF TimelineInv, RowsExact, Exact
    <2>3. list' = list
      BY DEF Around
    <2>4. QED
      BY <1>22, <2>1, <2>2, <2>3 DEF TimelineInv, ListKept
  <1>24. OlderKept'
    <2>1. \A i \in DOMAIN older.page : i \in DOMAIN server
      BY DEF TimelineInv, RowsExact, Exact
    <2>2. older' = older /\ list' = list
      BY DEF Around
    <2>3. QED
      BY <1>8, <1>22, <2>1, <2>2 DEF TimelineInv, OlderKept
  <1>25. QED
    BY <1>14, <1>15, <1>16, <1>17, <1>18, <1>19, <1>20, <1>21, <1>23, <1>24 DEF TimelineInv

-----------------------------------------------------------------------------
(* The subscription *)

\* What is dropped with a subscription counts as not told.
LEMMA ResubscribeKeeps ==
  ASSUME TimelineInv, NEW state \in {"off", "joining"}, Resubscribe(state), online' \in BOOLEAN,
         UNCHANGED <<server, list, pending, older, pendingOlder, hasMore, latch, sending,
                     erasing, told>>,
         \/ load' = load /\ failed' = failed
         \/ /\ load'.pc \in {"fetch", "peer"} /\ DOMAIN load' = {"pc", "page", "more"}
            /\ load'.page = load.page \/ load'.page = NoRows
            /\ load'.more = load.more \/ load'.more = FALSE
            /\ failed' = FALSE
  PROVE  TimelineInv'
  <1>1. wire \in Seq(Events)
    BY DEF TimelineInv, TypeOK
  <1>2. /\ wire' = <<>> /\ channel' = state
        /\ missed' = missed \cup Ids(wire) /\ missedSince' = missedSince \cup Ids(wire)
    BY DEF Resubscribe
  <1>3. Ids(wire) \subseteq Messages /\ \A kind, i : Has(wire, kind, i) => i \in Ids(wire)
    BY <1>1, IdsHas DEF Ids, Has
  <1>4. DOMAIN NoRows = {} /\ RowsOf(NoRows) /\ Exact(NoRows)
    BY DEF NoRows, RowsOf, Exact
  <1>5. load'.page = load.page \/ load'.page = NoRows
    OBVIOUS
  <1>6. load'.more = load.more \/ load'.more = FALSE
    OBVIOUS
  <1>7. load'.pc = "page" => load' = load
    OBVIOUS
  <1>8. TypeOK'
    <2>1. RowsOf(load.page)'
      BY <1>4, <1>5 DEF TimelineInv, TypeOK, RowsOf
    <2>2. load'.pc \in {"idle", "fetch", "peer", "page"}
      BY DEF TimelineInv, TypeOK
    <2>3. failed' \in BOOLEAN
      BY DEF TimelineInv, TypeOK
    <2>4. {online', failed', hasMore', latch'} \subseteq BOOLEAN
      BY <2>3 DEF TimelineInv, TypeOK
    <2>5. wire' \in Seq(Events)
      BY <1>2
    <2>6. QED
      BY <1>2, <1>3, <2>1, <2>2, <2>4, <2>5 DEF TimelineInv, TypeOK
  <1>9. RecordsTyped'
    BY <1>6 DEF TimelineInv, RecordsTyped
  <1>10. RowsExact'
    BY <1>4, <1>5 DEF TimelineInv, RowsExact, Exact
  <1>11. EventsKept'
    <2>1. Kept(wire)'
      BY <1>2 DEF Kept
    <2>2. failed' => load'.pc = "idle"
      BY DEF TimelineInv, EventsKept
    <2>3. pending' # <<>> => load'.pc # "idle" \/ failed'
      BY DEF TimelineInv, EventsKept
    <2>4. QED
      BY <1>2, <2>1, <2>2, <2>3 DEF TimelineInv, EventsKept, Kept
  <1>12. OpenedWith'
    BY <1>6, <1>7 DEF TimelineInv, OpenedWith
  <1>13. OlderTyped'
    BY DEF TimelineInv, OlderTyped, Has
  <1>14. EventsOrdered'
    BY <1>2, NoneHas DEF TimelineInv, EventsOrdered, InOrder
  <1>15. PageKept'
    BY <1>2, <1>3, <1>7 DEF TimelineInv, PageKept, Complete
  <1>16. \A i : Heard(i) => Heard(i)'
    BY <1>2, <1>3 DEF Heard
  <1>17. ListKept'
    <2>1. Complete(list, missed)'
      BY <1>2, <1>3 DEF TimelineInv, ListKept, Complete
    <2>2. QED
      BY <1>16, <2>1 DEF TimelineInv, ListKept
  <1>18. OlderKept'
    BY <1>16 DEF TimelineInv, OlderKept
  <1>19. QED
    BY <1>8, <1>9, <1>10, <1>11, <1>12, <1>13, <1>14, <1>15, <1>17, <1>18 DEF TimelineInv

\* The steps that subscribe again.
LEMMA ResubscriptionsKeep ==
  ASSUME TimelineInv, LoadPeer \/ Disconnect("off") \/ Disconnect("joining") \/ Reconnect
  PROVE  TimelineInv'
  <1>1. DOMAIN load = {"pc", "page", "more"} /\ (failed => load.pc = "idle") /\ failed \in BOOLEAN
    BY DEF TimelineInv, RecordsTyped, EventsKept, TypeOK
  <1>2. CASE LoadPeer
    <2>1. load' = [load EXCEPT !.pc = "peer"] /\ load.pc = "fetch" /\ failed' = failed
      BY <1>2 DEF LoadPeer
    <2>2. /\ load'.pc \in {"fetch", "peer"} /\ DOMAIN load' = {"pc", "page", "more"}
          /\ load'.page = load.page /\ load'.more = load.more /\ failed' = FALSE
      BY <1>1, <2>1
    <2>3. online' \in BOOLEAN
      BY <1>2 DEF LoadPeer, TimelineInv, TypeOK
    <2>4. QED
      BY <1>2, <2>2, <2>3, ResubscribeKeeps DEF LoadPeer
  <1>3. ASSUME NEW state \in {"off", "joining"}, Disconnect(state) PROVE TimelineInv'
    <2>1. online' \in BOOLEAN /\ load' = load /\ failed' = failed
      BY <1>3 DEF Disconnect
    <2>2. QED
      BY <1>3, <2>1, ResubscribeKeeps DEF Disconnect
  <1>4. CASE Reconnect
    <2>1. /\ load'.pc \in {"fetch", "peer"} /\ DOMAIN load' = {"pc", "page", "more"}
          /\ load'.page = NoRows /\ load'.more = FALSE /\ failed' = FALSE
      BY <1>4 DEF Reconnect, StartedLoad
    <2>2. online' \in BOOLEAN
      BY <1>4 DEF Reconnect
    <2>3. QED
      BY <1>4, <2>1, <2>2, ResubscribeKeeps DEF Reconnect
  <1>5. QED
    BY <1>2, <1>3, <1>4

\* A subscription that is joined has nothing on its wire yet.
LEMMA JoinedKeeps == TimelineInv /\ Joined => TimelineInv'
  <1> SUFFICES ASSUME TimelineInv, Joined PROVE TimelineInv'
    OBVIOUS
  <1>1. TypeOK' /\ RecordsTyped' /\ RowsExact' /\ EventsKept' /\ OpenedWith'
    BY DEF TimelineInv, Joined, TypeOK, RecordsTyped, RowsExact, Exact, EventsKept, Kept, OpenedWith
  <1>2. OlderTyped' /\ EventsOrdered'
    BY DEF TimelineInv, Joined, OlderTyped, EventsOrdered, InOrder, Has, Ids
  <1>3. PageKept' /\ ListKept' /\ OlderKept'
    BY DEF TimelineInv, Joined, PageKept, ListKept, OlderKept, Complete, Heard, Has, Ids
  <1>4. QED
    BY <1>1, <1>2, <1>3 DEF TimelineInv

-----------------------------------------------------------------------------
(* The load *)

\* The load has stopped, or starts over.
LEMMA LoadLeft ==
  ASSUME TimelineInv,
         UNCHANGED <<server, channel, wire, online, list, pending, older, pendingOlder,
                     hasMore, latch, sending, erasing, missed, missedSince, told>>,
         RowsOf(load'.page), Exact(load'.page), DOMAIN load' = {"pc", "page", "more"},
         load'.more = load.more \/ load'.more = FALSE,
         \/ load'.pc = "fetch" /\ failed' = FALSE
         \/ load'.pc = "idle" /\ failed' = TRUE
  PROVE  TimelineInv'
  <1>1. load'.more = load.more \/ load'.more = FALSE
    OBVIOUS
  <1>2. load'.pc # "page"
    OBVIOUS
  <1>3. TypeOK'
    <2>1. load'.pc \in {"idle", "fetch", "peer", "page"}
      OBVIOUS
    <2>2. {online', failed', hasMore', latch'} \subseteq BOOLEAN
      BY DEF TimelineInv, TypeOK
    <2>3. QED
      BY <2>1, <2>2 DEF TimelineInv, TypeOK, RowsOf
  <1>4. RecordsTyped' /\ OpenedWith'
    BY <1>1, <1>2 DEF TimelineInv, RecordsTyped, OpenedWith
  <1>5. RowsExact'
    BY DEF TimelineInv, RowsExact, Exact
  <1>6. EventsKept'
    BY DEF TimelineInv, EventsKept, Kept
  <1>7. OlderTyped' /\ EventsOrdered'
    BY DEF TimelineInv, OlderTyped, EventsOrdered, InOrder, Has, Ids
  <1>8. PageKept'
    BY <1>2 DEF PageKept
  <1>9. ListKept' /\ OlderKept'
    BY DEF TimelineInv, ListKept, OlderKept, Complete, Heard, Has, Ids
  <1>10. QED
    BY <1>3, <1>4, <1>5, <1>6, <1>7, <1>8, <1>9 DEF TimelineInv

\* A load that fails keeps what it held back for the next one.
LEMMA LoadLeavesKeep == TimelineInv /\ (LoadFails \/ Retry) => TimelineInv'
  <1> SUFFICES ASSUME TimelineInv, LoadFails \/ Retry PROVE TimelineInv'
    OBVIOUS
  <1>1. DOMAIN load = {"pc", "page", "more"}
    BY DEF TimelineInv, RecordsTyped
  <1>2. RowsOf(NoRows) /\ Exact(NoRows)
    BY DEF NoRows, RowsOf, Exact
  <1>3. CASE LoadFails
    <2>1. load' = [load EXCEPT !.pc = "idle", !.page = NoRows] /\ failed' = TRUE
      BY <1>3 DEF LoadFails
    <2>2. load'.pc = "idle" /\ load'.page = NoRows /\ load'.more = load.more /\ DOMAIN load' = {"pc", "page", "more"}
      BY <1>1, <2>1
    <2>3. QED
      BY <1>2, <1>3, <2>1, <2>2, LoadLeft DEF LoadFails
  <1>4. CASE Retry
    <2>1. load' = StartedLoad /\ failed' = FALSE
      BY <1>4 DEF Retry
    <2>2. load'.pc = "fetch" /\ load'.page = NoRows /\ load'.more = FALSE /\ DOMAIN load' = {"pc", "page", "more"}
      BY <2>1 DEF StartedLoad
    <2>3. QED
      BY <1>2, <1>4, <2>1, <2>2, LoadLeft DEF Retry
  <1>5. QED
    BY <1>3, <1>4

\* The page has every message that came in since the chat was opened.
LEMMA LoadPageKeeps == TimelineInv /\ LoadPage => TimelineInv'
  <1> SUFFICES ASSUME TimelineInv, LoadPage PROVE TimelineInv'
    OBVIOUS
  <1> DEFINE n == Len(server)
             c == Len(server) + 1
             p == PageBefore(c)
  <1>1. /\ PageSize \in Nat /\ PageSize # 0 /\ Initially \in Nat /\ MaxMessages \in Nat
        /\ MaxMessages <= Initially + PageSize
    BY TimelineAssumption
  <1>2. server \in Seq(BOOLEAN) /\ n <= MaxMessages
    BY DEF TimelineInv, TypeOK
  <1>3. n \in Nat /\ DOMAIN server = 1 .. n /\ c = n + 1 /\ c \in 1 .. Len(server) + 1
    BY <1>2
  <1>4. /\ load.pc = "peer"
        /\ load' = [pc |-> "page", page |-> p, more |-> MoreBefore(c)]
        /\ missedSince' = {}
        /\ UNCHANGED <<server, channel, wire, online, list, failed, pending, older,
                       pendingOlder, hasMore, latch, sending, erasing, missed, told>>
    BY DEF LoadPage
  <1> HIDE DEF c
  <1>5. /\ RowsOf(p)
        /\ \A j \in DOMAIN p : j \in DOMAIN server /\ j < c /\ p[j] = server[j]
        /\ \A k \in DOMAIN server :
             k < c /\ (k >= c - PageSize \/ \E j \in DOMAIN p : j <= k) => k \in DOMAIN p
        /\ c > 1 => DOMAIN p # {}
    <2>1. TypeOK
      BY DEF TimelineInv
    <2>2. QED
      BY <1>3, <2>1, PageIs
  <1>6. MoreBefore(c) \in BOOLEAN /\ (MoreBefore(c) => Initially > 0)
    BY <1>1, <1>2, <1>3 DEF MoreBefore
  <1> HIDE DEF p
  <1>7. load'.pc = "page" /\ load'.page = p /\ load'.more = MoreBefore(c) /\ DOMAIN load' = {"pc", "page", "more"}
    BY <1>4
  <1> HIDE DEF n
  <1>8. TypeOK'
    <2>1. RowsOf(load.page)'
      BY <1>5, <1>7 DEF RowsOf
    <2>2. QED
      BY <1>4, <1>7, <2>1 DEF TimelineInv, TypeOK
  <1>9. RecordsTyped'
    BY <1>4, <1>6, <1>7 DEF TimelineInv, RecordsTyped
  <1>10. RowsExact'
    BY <1>4, <1>5, <1>7 DEF TimelineInv, RowsExact, Exact
  <1>11. EventsKept'
    <2>1. ~failed
      BY <1>4 DEF TimelineInv, EventsKept
    <2>2. QED
      BY <1>4, <1>7, <2>1 DEF TimelineInv, EventsKept, Kept
  <1>12. OpenedWith'
    <2>1. Initially > 0 => c > 1
      BY <1>1, <1>3 DEF TimelineInv, RowsExact, n
    <2>2. QED
      BY <1>4, <1>5, <1>6, <1>7, <2>1 DEF TimelineInv, OpenedWith
  <1>13. OlderTyped' /\ EventsOrdered'
    BY <1>4 DEF TimelineInv, OlderTyped, EventsOrdered, InOrder, Has, Ids
  <1>14. ASSUME NEW i \in DOMAIN server, i > Initially \/ \E j \in DOMAIN p : j <= i
         PROVE  i \in DOMAIN p
    <2>1. i < c
      BY <1>3
    <2>2. CASE i > Initially
      <3>1. i >= c - PageSize
        BY <1>1, <1>2, <1>3, <2>2
      <3>2. QED
        BY <1>5, <2>1, <3>1
    <2>3. CASE \E j \in DOMAIN p : j <= i
      BY <1>5, <2>1, <2>3
    <2>4. QED
      BY <1>14, <2>2, <2>3
  <1>15. PageKept'
    <2>1. Complete(load.page, missedSince)'
      BY <1>4, <1>7, <1>14 DEF Complete
    <2>2. \A i : Has(pending, "INSERT", i) => i \in DOMAIN server /\ i > Initially
      BY DEF TimelineInv, EventsKept, Kept, Has
    <2>3. \A i \in DOMAIN server : i \in DOMAIN p \/ Has(pending, "INSERT", i) => i \in DOMAIN p
      BY <1>14, <2>2
    <2>4. QED
      BY <1>4, <1>5, <1>7, <2>1, <2>3 DEF PageKept
  <1>16. ListKept' /\ OlderKept'
    BY <1>4 DEF TimelineInv, ListKept, OlderKept, Complete, Heard, Has, Ids
  <1>17. QED
    BY <1>8, <1>9, <1>10, <1>11, <1>12, <1>13, <1>15, <1>16 DEF TimelineInv

\* With what was held back the page is as true as the list has to be.
LEMMA LoadCommitKeeps == TimelineInv /\ LoadCommit => TimelineInv'
  <1> SUFFICES ASSUME TimelineInv, LoadCommit PROVE TimelineInv'
    OBVIOUS
  <1> DEFINE m == mergeLoadedPage(load.page, pending)
  <1>1. /\ load.pc = "page" /\ list' = m /\ pending' = <<>> /\ hasMore' = load.more
        /\ load' = [load EXCEPT !.pc = "idle", !.page = NoRows]
        /\ older' = [older EXCEPT !.outrun = (older.pc # "idle")]
        /\ missed' = missedSince
        /\ UNCHANGED <<server, channel, wire, online, failed, pendingOlder, latch,
                       sending, erasing, missedSince, told>>
    BY DEF LoadCommit
  <1>2. /\ load'.pc = "idle" /\ load'.page = NoRows /\ load'.more = load.more
        /\ DOMAIN load' = {"pc", "page", "more"}
    BY <1>1 DEF TimelineInv, RecordsTyped
  <1>3. /\ older'.pc = older.pc /\ older'.cursor = older.cursor /\ older'.page = older.page
        /\ DOMAIN older' = {"pc", "cursor", "page", "outrun"}
        /\ older'.outrun = (older.pc # "idle")
    BY <1>1 DEF TimelineInv, RecordsTyped
  <1>4. DOMAIN NoRows = {} /\ RowsOf(NoRows) /\ Exact(NoRows)
    BY DEF NoRows, RowsOf, Exact
  <1>5. RowsOf(load.page) /\ pending \in Seq(Events)
    BY DEF TimelineInv, TypeOK
  <1>6. InOrder(pending)
    BY DEF TimelineInv, EventsOrdered
  <1>7. /\ RowsOf(m)
        /\ \A i : i \in DOMAIN m <=> i \in DOMAIN load.page \/ Has(pending, "INSERT", i)
        /\ \A i \in DOMAIN m :
             m[i] <=> (i \in DOMAIN load.page /\ load.page[i]) \/ Has(pending, "UPDATE", i)
    BY <1>5, <1>6, MergeIs
  <1> HIDE DEF m
  <1>8. \A i : Has(pending, "INSERT", i) => i \in DOMAIN server /\ i > Initially
    BY DEF TimelineInv, EventsKept, Kept, Has
  <1>9. \A i : Has(pending, "UPDATE", i) => i \in DOMAIN server /\ server[i]
    BY DEF TimelineInv, EventsKept, Kept, Has
  <1>10. TypeOK'
    <2>1. RowsOf(list)' /\ RowsOf(load.page)'
      BY <1>1, <1>2, <1>4, <1>7 DEF RowsOf
    <2>2. hasMore' \in BOOLEAN
      BY <1>1 DEF TimelineInv, RecordsTyped
    <2>3. {online', failed', hasMore', latch'} \subseteq BOOLEAN
      BY <1>1, <2>2 DEF TimelineInv, TypeOK
    <2>4. pending' \in Seq(Events)
      BY <1>1
    <2>5. QED
      BY <1>1, <1>2, <1>3, <2>1, <2>3, <2>4 DEF TimelineInv, TypeOK, RowsOf
  <1>11. RecordsTyped'
    BY <1>2, <1>3 DEF TimelineInv, RecordsTyped
  <1>12. RowsExact'
    <2>1. Exact(list)'
      BY <1>1, <1>7, <1>8, <1>9 DEF TimelineInv, RowsExact, Exact
    <2>2. QED
      BY <1>1, <1>2, <1>3, <1>4, <2>1 DEF TimelineInv, RowsExact, Exact
  <1>13. EventsKept'
    BY <1>1, <1>2 DEF TimelineInv, EventsKept, Kept
  <1>14. OpenedWith'
    BY <1>1, <1>2 DEF TimelineInv, OpenedWith
  <1>15. OlderTyped'
    <2>1. Initially > 0 => DOMAIN list' # {}
      BY <1>1, <1>7 DEF TimelineInv, OpenedWith
    <2>2. QED
      BY <1>1, <1>3, <2>1 DEF TimelineInv, OlderTyped, Has
  <1>16. EventsOrdered'
    BY <1>1, NoneHas DEF TimelineInv, EventsOrdered, InOrder, Has, Ids
  <1>17. PageKept'
    BY <1>2 DEF PageKept
  <1>18. ListKept'
    <2>1. Complete(list, missed)'
      <3>1. ASSUME NEW i \in DOMAIN server, i > Initially \/ \E j \in DOMAIN m : j <= i
            PROVE  i \in DOMAIN m \cup missedSince \/ Has(wire, "INSERT", i)
        <4>1. i > Initially \/ \E j \in DOMAIN load.page : j <= i
          <5>1. CASE i > Initially
            BY <5>1
          <5>2. ASSUME NEW j \in DOMAIN m, j <= i
                PROVE  i > Initially \/ \E k \in DOMAIN load.page : k <= i
            <6>1. CASE j \in DOMAIN load.page
              BY <5>2, <6>1
            <6>2. CASE Has(pending, "INSERT", j)
              <7>1. j > Initially /\ j \in DOMAIN server
                BY <1>8, <6>2
              <7>2. i \in Int /\ j \in Int /\ Initially \in Int
                BY <7>1, TimelineAssumption DEF TimelineInv, TypeOK
              <7>3. QED
                BY <5>2, <7>1, <7>2
            <6>3. QED
              BY <1>7, <5>2, <6>1, <6>2
          <5>3. QED
            BY <3>1, <5>1, <5>2
        <4>2. i \in DOMAIN load.page \cup missedSince \/ Has(wire, "INSERT", i) \/ Has(pending, "INSERT", i)
          BY <1>1, <4>1 DEF TimelineInv, PageKept, Complete
        <4>3. QED
          BY <1>7, <4>2
      <3>2. QED
        BY <1>1, <3>1 DEF Complete
    <2>2. ASSUME NEW i \in DOMAIN m, server[i], ~m[i]
          PROVE  i \in missedSince \/ Has(wire, "UPDATE", i)
      <3>1. ~(i \in DOMAIN load.page /\ load.page[i]) /\ ~Has(pending, "UPDATE", i)
        BY <1>7, <2>2
      <3>2. i \in DOMAIN load.page \/ Has(pending, "INSERT", i)
        BY <1>7
      <3>3. i \in DOMAIN server
        BY <1>8, <3>2 DEF TimelineInv, RowsExact, Exact
      <3>4. QED
        BY <1>1, <2>2, <3>1, <3>2, <3>3 DEF TimelineInv, PageKept
    <2>3. QED
      BY <1>1, <2>1, <2>2 DEF ListKept, Heard
  <1>19. OlderKept'
    BY <1>3 DEF OlderKept
  <1>20. QED
    BY <1>10, <1>11, <1>12, <1>13, <1>14, <1>15, <1>16, <1>17, <1>18, <1>19 DEF TimelineInv

-----------------------------------------------------------------------------
(* Older pages *)

\* The cursor is the first row of the list.
LEMMA StartOlderKeeps == TimelineInv /\ StartOlder => TimelineInv'
  <1> SUFFICES ASSUME TimelineInv, StartOlder PROVE TimelineInv'
    OBVIOUS
  <1>1. /\ hasMore /\ ~latch /\ DOMAIN list # {} /\ latch' = TRUE
        /\ older' = [pc |-> "fetch", cursor |-> Min(DOMAIN list), page |-> NoRows, outrun |-> FALSE]
        /\ UNCHANGED <<server, channel, wire, online, list, load, failed, pending,
                       pendingOlder, hasMore, sending, erasing, missed, missedSince, told>>
    BY DEF StartOlder
  <1>2. /\ older'.pc = "fetch" /\ older'.cursor = Min(DOMAIN list) /\ older'.page = NoRows
        /\ older'.outrun = FALSE /\ DOMAIN older' = {"pc", "cursor", "page", "outrun"}
    BY <1>1
  <1>3. DOMAIN NoRows = {} /\ RowsOf(NoRows) /\ Exact(NoRows)
    BY DEF NoRows, RowsOf, Exact
  <1>4. Min(DOMAIN list) \in DOMAIN list
    <2>1. DOMAIN list \in SUBSET Nat
      BY TimelineAssumption DEF TimelineInv, TypeOK, RowsOf, Messages
    <2>2. QED
      BY <1>1, <2>1, MinIsLeast
  <1>5. older.pc = "idle"
    BY <1>1 DEF TimelineInv, TypeOK
  <1>6. TypeOK'
    <2>1. RowsOf(older.page)'
      BY <1>2, <1>3 DEF RowsOf
    <2>2. {online', failed', hasMore', latch'} \subseteq BOOLEAN
      BY <1>1 DEF TimelineInv, TypeOK
    <2>3. QED
      BY <1>1, <1>2, <2>1, <2>2 DEF TimelineInv, TypeOK, RowsOf
  <1>7. RecordsTyped' /\ OpenedWith'
    BY <1>1, <1>2 DEF TimelineInv, RecordsTyped, OpenedWith
  <1>8. RowsExact'
    BY <1>1, <1>2, <1>3 DEF TimelineInv, RowsExact, Exact
  <1>9. EventsKept' /\ EventsOrdered'
    BY <1>1 DEF TimelineInv, EventsKept, Kept, EventsOrdered, InOrder, Has, Ids
  <1>10. OlderTyped'
    <2>1. Initially > 0
      BY <1>1 DEF TimelineInv, OpenedWith
    <2>2. Min(DOMAIN list) \in DOMAIN server
      BY <1>4 DEF TimelineInv, RowsExact, Exact
    <2>3. QED
      BY <1>1, <1>2, <1>4, <2>1, <2>2 DEF TimelineInv, OlderTyped, Has
  <1>11. PageKept'
    BY <1>1 DEF TimelineInv, PageKept, Complete, Has
  <1>12. ListKept'
    BY <1>1 DEF TimelineInv, ListKept, Complete, Heard, Has, Ids
  <1>13. OlderKept'
    BY <1>2 DEF OlderKept
  <1>14. QED
    BY <1>6, <1>7, <1>8, <1>9, <1>10, <1>11, <1>12, <1>13 DEF TimelineInv

\* The older page reaches up to the cursor without a gap.
LEMMA OlderPageKeeps == TimelineInv /\ OlderPage => TimelineInv'
  <1> SUFFICES ASSUME TimelineInv, OlderPage PROVE TimelineInv'
    OBVIOUS
  <1> DEFINE c == older.cursor
             p == PageBefore(c)
  <1>1. /\ older.pc = "fetch"
        /\ older' = [older EXCEPT !.pc = "page", !.page = p]
        /\ UNCHANGED <<server, channel, wire, online, list, load, failed, pending,
                       pendingOlder, hasMore, latch, sending, erasing, missed, missedSince, told>>
    BY DEF OlderPage
  <1>2. /\ older'.pc = "page" /\ older'.cursor = c /\ older'.page = p
        /\ older'.outrun = older.outrun /\ DOMAIN older' = {"pc", "cursor", "page", "outrun"}
    BY <1>1 DEF TimelineInv, RecordsTyped
  <1>3. c \in DOMAIN server /\ server \in Seq(BOOLEAN)
    BY <1>1 DEF TimelineInv, OlderTyped, TypeOK
  <1>4. /\ RowsOf(p)
        /\ \A j \in DOMAIN p : j \in DOMAIN server /\ j < c /\ p[j] = server[j]
        /\ \A k \in DOMAIN server :
             k < c /\ (k >= c - PageSize \/ \E j \in DOMAIN p : j <= k) => k \in DOMAIN p
    <2>1. TypeOK
      BY DEF TimelineInv
    <2>2. c \in 1 .. Len(server) + 1
      BY <1>3
    <2>3. QED
      BY <2>1, <2>2, PageIs
  <1> HIDE DEF p, c
  <1>5. TypeOK'
    <2>1. RowsOf(older.page)'
      BY <1>2, <1>4 DEF RowsOf
    <2>2. QED
      BY <1>1, <1>2, <2>1 DEF TimelineInv, TypeOK, RowsOf
  <1>6. RecordsTyped' /\ OpenedWith'
    BY <1>1, <1>2 DEF TimelineInv, RecordsTyped, OpenedWith
  <1>7. RowsExact'
    BY <1>1, <1>2, <1>4 DEF TimelineInv, RowsExact, Exact
  <1>8. EventsKept' /\ EventsOrdered'
    BY <1>1 DEF TimelineInv, EventsKept, Kept, EventsOrdered, InOrder, Has, Ids
  <1>9. OlderTyped'
    <2>1. /\ Initially > 0 /\ DOMAIN list # {}
          /\ ~older.outrun => c \in DOMAIN list
      BY <1>1 DEF TimelineInv, OlderTyped, c
    <2>2. QED
      BY <1>1, <1>2, <1>3, <1>4, <2>1 DEF TimelineInv, OlderTyped, Has
  <1>10. PageKept'
    BY <1>1 DEF TimelineInv, PageKept, Complete, Has
  <1>11. ListKept'
    BY <1>1 DEF TimelineInv, ListKept, Complete, Heard, Has, Ids
  <1>12. OlderKept'
    BY <1>1, <1>2, <1>4 DEF OlderKept
  <1>13. QED
    BY <1>5, <1>6, <1>7, <1>8, <1>9, <1>10, <1>11, <1>12 DEF TimelineInv

\* An older page is taken into the list, or only what was held back for it.
LEMMA OlderEnds ==
  ASSUME TimelineInv, NEW page,
         older.pc # "idle",
         \/ page = NoRows /\ missed' = missed
         \/ /\ older.pc = "page" /\ page = older.page
            /\ missed' = IF older.outrun THEN missed \cup Skipped \cup DOMAIN page ELSE missed,
         list' = mergeOlderPage(list, page, pendingOlder), pendingOlder' = <<>>,
         latch' \in BOOLEAN, hasMore' \in BOOLEAN,
         older' = [older EXCEPT !.pc = "idle", !.page = NoRows, !.outrun = FALSE],
         UNCHANGED <<server, channel, wire, online, load, failed, pending, sending, erasing,
                     missedSince, told>>
  PROVE  TimelineInv'
  <1> DEFINE m == mergeOlderPage(list, page, pendingOlder)
  <1>1. DOMAIN NoRows = {} /\ RowsOf(NoRows) /\ Exact(NoRows)
    BY DEF NoRows, RowsOf, Exact
  <1>2. /\ older'.pc = "idle" /\ older'.page = NoRows /\ older'.outrun = FALSE
        /\ DOMAIN older' = {"pc", "cursor", "page", "outrun"}
    BY DEF TimelineInv, RecordsTyped
  <1>3. RowsOf(page) /\ Exact(page)
    BY <1>1 DEF TimelineInv, TypeOK, RowsExact
  <1>4. /\ RowsOf(m)
        /\ DOMAIN m = DOMAIN list \cup DOMAIN page
        /\ \A i \in DOMAIN list : m[i] <=> list[i] \/ Has(pendingOlder, "UPDATE", i)
        /\ \A i \in DOMAIN page \ DOMAIN list : m[i] <=> page[i] \/ Has(pendingOlder, "UPDATE", i)
    <2>1. TypeOK /\ OlderTyped
      BY DEF TimelineInv
    <2>2. QED
      BY <1>3, <2>1, MergeOlderIs
  <1>5. list' = m
    OBVIOUS
  <1> HIDE DEF m
  <1>6. \A i : Has(pendingOlder, "UPDATE", i) => i \in DOMAIN server /\ server[i]
    BY DEF TimelineInv, EventsKept, Kept, Has
  <1>7. \A i : i \in Ids(pendingOlder) => Has(pendingOlder, "UPDATE", i)
    <2>1. pendingOlder \in Seq(Events)
      BY DEF TimelineInv, TypeOK
    <2>2. QED
      BY <2>1, IdsHas DEF TimelineInv, OlderTyped
  <1>8. server \in Seq(BOOLEAN) /\ DOMAIN server = 1 .. Len(server) /\ Len(server) \in Nat
    BY DEF TimelineInv, TypeOK
  <1>9. /\ Initially > 0 /\ DOMAIN list # {} /\ older.cursor \in DOMAIN server
        /\ ~older.outrun => older.cursor \in DOMAIN list
    BY DEF TimelineInv, OlderTyped
  <1>10. Min(DOMAIN list) \in DOMAIN list /\ \A y \in DOMAIN list : Min(DOMAIN list) <= y
    <2>1. DOMAIN list \in SUBSET Nat
      BY TimelineAssumption DEF TimelineInv, TypeOK, RowsOf, Messages
    <2>2. QED
      BY <1>9, <2>1, MinIsLeast
  <1>11. \A i \in DOMAIN list : i \in DOMAIN server
    BY DEF TimelineInv, RowsExact, Exact
  <1>12. \A i \in DOMAIN page : i \in DOMAIN server
    BY <1>3 DEF Exact
  <1>13. \A i \in DOMAIN server : i \in Messages
    BY <1>8, TimelineAssumption DEF TimelineInv, TypeOK, Messages
  <1>14. missed \subseteq missed' /\ \A i \in missed' : i \in missed \/ i \in DOMAIN server
    <2>1. \A i \in Skipped : i \in DOMAIN server
      BY DEF Skipped
    <2>2. QED
      BY <1>12, <2>1
  <1>15. TypeOK'
    <2>1. RowsOf(list)' /\ RowsOf(older.page)'
      BY <1>1, <1>2, <1>4, <1>5 DEF RowsOf
    <2>2. {online', failed', hasMore', latch'} \subseteq BOOLEAN
      BY DEF TimelineInv, TypeOK
    <2>3. pendingOlder' \in Seq(Events)
      OBVIOUS
    <2>4. missed' \subseteq Messages
      BY <1>13, <1>14 DEF TimelineInv, TypeOK
    <2>5. QED
      BY <1>2, <2>1, <2>2, <2>3, <2>4 DEF TimelineInv, TypeOK, RowsOf
  <1>16. RecordsTyped' /\ OpenedWith'
    BY <1>2, <1>9 DEF TimelineInv, RecordsTyped, OpenedWith
  <1>17. RowsExact'
    <2>1. \A i \in DOMAIN m : i \in DOMAIN server /\ (m[i] => server[i])
      BY <1>3, <1>4, <1>6, <1>11 DEF TimelineInv, RowsExact, Exact
    <2>2. Exact(list)' /\ Exact(older.page)'
      BY <1>1, <1>2, <1>5, <2>1 DEF Exact
    <2>3. QED
      BY <2>2 DEF TimelineInv, RowsExact, Exact
  <1>18. EventsKept' /\ EventsOrdered'
    BY DEF TimelineInv, EventsKept, Kept, EventsOrdered, InOrder, Has, Ids
  <1>19. OlderTyped'
    BY <1>2, NoneHas DEF OlderTyped
  <1>20. PageKept'
    BY DEF TimelineInv, PageKept, Complete, Has
  <1>21. ListKept'
    <2>1. ASSUME NEW i \in DOMAIN server, i > Initially \/ \E j \in DOMAIN m : j <= i
          PROVE  i \in DOMAIN m \cup missed' \/ Has(wire, "INSERT", i) \/ Has(pending, "INSERT", i)
      <3>1. CASE i > Initially \/ \E j \in DOMAIN list : j <= i
        BY <1>4, <1>14, <3>1 DEF TimelineInv, ListKept, Complete
      <3>2. ASSUME NEW j \in DOMAIN page, j <= i, ~\E k \in DOMAIN list : k <= i
            PROVE  i \in DOMAIN m \cup missed'
        <4>1. /\ page = older.page /\ older.pc = "page"
              /\ missed' = IF older.outrun THEN missed \cup Skipped \cup DOMAIN page ELSE missed
          BY <1>1, <3>2
        <4>2. CASE i < older.cursor
          BY <1>4, <3>2, <4>1, <4>2 DEF TimelineInv, OlderTyped
        <4>3. CASE ~(i < older.cursor)
          <5>1. i \in Int /\ older.cursor \in Int /\ Min(DOMAIN list) \in Int
            BY <1>8, <1>9, <1>10, <1>11
          <5>2. older.outrun
            BY <1>9, <3>2, <4>3, <5>1
          <5>3. i < Min(DOMAIN list)
            BY <1>10, <3>2, <5>1
          <5>4. i \in Skipped
            BY <1>9, <4>3, <5>1, <5>3 DEF Skipped
          <5>5. QED
            BY <4>1, <5>2, <5>4
        <4>4. QED
          BY <4>2, <4>3
      <3>3. QED
        BY <1>4, <2>1, <3>1, <3>2
    <2>2. ASSUME NEW i \in DOMAIN m, server[i], ~m[i]
          PROVE  i \in missed' \/ Has(wire, "UPDATE", i) \/ i \in Ids(pending)
      <3>1. ~Has(pendingOlder, "UPDATE", i)
        BY <1>4, <2>2
      <3>2. CASE i \in DOMAIN list
        <4>1. ~list[i]
          BY <1>4, <2>2, <3>2
        <4>2. Heard(i)
          BY <2>2, <3>2, <4>1 DEF TimelineInv, ListKept
        <4>3. QED
          BY <1>7, <1>14, <3>1, <4>2 DEF Heard
      <3>3. CASE i \in DOMAIN page \ DOMAIN list
        <4>1. /\ page = older.page /\ older.pc = "page"
              /\ missed' = IF older.outrun THEN missed \cup Skipped \cup DOMAIN page ELSE missed
          BY <1>1, <3>3
        <4>2. ~page[i]
          BY <1>4, <2>2, <3>3
        <4>3. CASE older.outrun
          BY <3>3, <4>1, <4>3
        <4>4. CASE ~older.outrun
          <5>1. Heard(i)
            BY <2>2, <3>3, <4>1, <4>2, <4>4 DEF TimelineInv, OlderKept
          <5>2. QED
            BY <1>7, <1>14, <3>1, <5>1 DEF Heard
        <4>5. QED
          BY <4>3, <4>4
      <3>4. QED
        BY <1>4, <3>2, <3>3
    <2>3. QED
      BY <1>5, <2>1, <2>2 DEF ListKept, Complete, Heard
  <1>22. OlderKept'
    BY <1>2 DEF OlderKept
  <1>23. QED
    BY <1>15, <1>16, <1>17, <1>18, <1>19, <1>20, <1>21, <1>22 DEF TimelineInv

\* An older page that arrives, and one that fails.
LEMMA OlderEndsKeep == TimelineInv /\ (OlderCommit \/ OlderFails) => TimelineInv'
  <1> SUFFICES ASSUME TimelineInv, OlderCommit \/ OlderFails PROVE TimelineInv'
    OBVIOUS
  <1>1. CASE OlderCommit
    <2>1. /\ older.pc = "page" /\ list' = mergeOlderPage(list, older.page, pendingOlder)
          /\ pendingOlder' = <<>>
          /\ missed' = IF older.outrun THEN missed \cup Skipped \cup DOMAIN older.page ELSE missed
          /\ older' = [older EXCEPT !.pc = "idle", !.page = NoRows, !.outrun = FALSE]
          /\ UNCHANGED <<server, channel, wire, online, load, failed, pending, sending, erasing,
                         missedSince, told>>
      BY <1>1 DEF OlderCommit
    <2>2. latch' \in BOOLEAN /\ hasMore' \in BOOLEAN
      BY <1>1 DEF OlderCommit, MoreBefore
    <2>3. QED
      BY <2>1, <2>2, OlderEnds
  <1>2. CASE OlderFails
    <2>1. /\ older.pc # "idle" /\ list' = mergeOlderPage(list, NoRows, pendingOlder)
          /\ pendingOlder' = <<>> /\ missed' = missed
          /\ older' = [older EXCEPT !.pc = "idle", !.page = NoRows, !.outrun = FALSE]
          /\ UNCHANGED <<server, channel, wire, online, load, failed, pending, sending, erasing,
                         missedSince, told>>
      BY <1>2 DEF OlderFails
    <2>2. latch' \in BOOLEAN /\ hasMore' \in BOOLEAN
      BY <1>2 DEF OlderFails, TimelineInv, TypeOK
    <2>3. QED
      BY <2>1, <2>2, OlderEnds
  <1>3. QED
    BY <1>1, <1>2

-----------------------------------------------------------------------------
(* The answers to own calls *)

\* The answer to a send may bring the row back to before its deletion, which is then
\* still to come.
LEMMA SendDoneKeeps == TimelineInv /\ SendDone => TimelineInv'
  <1> SUFFICES ASSUME TimelineInv, SendDone PROVE TimelineInv'
    OBVIOUS
  <1>1. /\ sending # 0 /\ list' = mergeIncomingMessage(list, sending, FALSE) /\ sending' = 0
        /\ UNCHANGED <<server, channel, wire, online, load, failed, pending, older,
                       pendingOlder, hasMore, latch, erasing, missed, missedSince, told>>
    BY DEF SendDone
  <1>2. sending \in DOMAIN server /\ sending > Initially /\ sending \in Messages
    BY <1>1 DEF TimelineInv, RowsExact, TypeOK
  <1>3. /\ DOMAIN list' = DOMAIN list \cup {sending}
        /\ \A i \in DOMAIN list : list'[i] = list[i]
        /\ sending \notin DOMAIN list => list'[sending] = FALSE
    BY <1>1 DEF mergeIncomingMessage
  <1>4. \A i \in DOMAIN list' : i \in DOMAIN list \/ (i = sending /\ i \notin DOMAIN list)
    BY <1>3
  <1>5. TypeOK'
    <2>1. RowsOf(list)'
      BY <1>2, <1>3, <1>4 DEF TimelineInv, TypeOK, RowsOf
    <2>2. QED
      BY <1>1, <2>1 DEF TimelineInv, TypeOK, RowsOf
  <1>6. RecordsTyped' /\ OpenedWith'
    BY <1>1 DEF TimelineInv, RecordsTyped, OpenedWith
  <1>7. RowsExact'
    <2>1. Exact(list)'
      BY <1>1, <1>2, <1>3, <1>4 DEF TimelineInv, RowsExact, Exact
    <2>2. QED
      BY <1>1, <2>1 DEF TimelineInv, RowsExact, Exact
  <1>8. EventsKept' /\ EventsOrdered'
    BY <1>1 DEF TimelineInv, EventsKept, Kept, EventsOrdered, InOrder, Has, Ids
  <1>9. OlderTyped'
    BY <1>1, <1>3 DEF TimelineInv, OlderTyped, Has
  <1>10. PageKept'
    BY <1>1 DEF TimelineInv, PageKept, Complete, Has
  <1>11. \A i : Heard(i) => Heard(i)'
    BY <1>1 DEF Heard, Has, Ids
  \* a message that is not in the list is still to come, with its deletion behind it
  <1>12. sending \notin DOMAIN list /\ server[sending] => Heard(sending)
    <2> SUFFICES ASSUME sending \notin DOMAIN list, server[sending] PROVE Heard(sending)
      OBVIOUS
    <2>1. sending \in missed \/ Has(wire, "INSERT", sending) \/ Has(pending, "INSERT", sending)
      BY <1>2 DEF TimelineInv, ListKept, Complete
    <2>2. Has(wire, "INSERT", sending) => Has(wire, "UPDATE", sending)
      BY DEF TimelineInv, EventsOrdered
    <2>3. Has(pending, "INSERT", sending) => sending \in Ids(pending)
      BY DEF Has, Ids
    <2>4. QED
      BY <2>1, <2>2, <2>3 DEF Heard
  <1>13. ListKept'
    <2>1. ASSUME NEW i \in DOMAIN server, i > Initially \/ \E j \in DOMAIN list' : j <= i
          PROVE  i \in DOMAIN list' \cup missed \/ Has(wire, "INSERT", i) \/ Has(pending, "INSERT", i)
      <3>1. i \in Int /\ sending \in Int /\ Initially \in Int
        BY <1>2, TimelineAssumption DEF TimelineInv, TypeOK
      <3>2. i > Initially \/ \E j \in DOMAIN list : j <= i
        BY <1>2, <1>4, <2>1, <3>1
      <3>3. QED
        BY <1>3, <3>2 DEF TimelineInv, ListKept, Complete
    <2>2. Complete(list, missed)'
      BY <1>1, <2>1 DEF Complete
    <2>3. \A i \in DOMAIN list' : server[i] /\ ~list'[i] => Heard(i)
      BY <1>3, <1>4, <1>12 DEF TimelineInv, ListKept
    <2>4. QED
      BY <1>1, <1>11, <2>2, <2>3 DEF ListKept
  <1>14. OlderKept'
    BY <1>1, <1>3, <1>11 DEF TimelineInv, OlderKept
  <1>15. QED
    BY <1>5, <1>6, <1>7, <1>8, <1>9, <1>10, <1>13, <1>14 DEF TimelineInv

\* The answer to a deletion only repeats what is on the server.
LEMMA EraseDoneKeeps == TimelineInv /\ EraseDone => TimelineInv'
  <1> SUFFICES ASSUME TimelineInv, EraseDone PROVE TimelineInv'
    OBVIOUS
  <1>1. /\ erasing # 0 /\ list' = applyMessageUpdate(list, erasing, TRUE) /\ erasing' = 0
        /\ UNCHANGED <<server, channel, wire, online, load, failed, pending, older,
                       pendingOlder, hasMore, latch, sending, missed, missedSince, told>>
    BY DEF EraseDone
  <1>2. erasing \in DOMAIN server /\ server[erasing]
    BY <1>1 DEF TimelineInv, RowsExact
  <1>3. /\ DOMAIN list' = DOMAIN list
        /\ \A i \in DOMAIN list : i # erasing => list'[i] = list[i]
        /\ erasing \in DOMAIN list => list'[erasing] = TRUE
    BY <1>1 DEF applyMessageUpdate
  <1>4. TypeOK'
    <2>1. RowsOf(list)'
      BY <1>3 DEF TimelineInv, TypeOK, RowsOf
    <2>2. QED
      BY <1>1, <2>1 DEF TimelineInv, TypeOK, RowsOf
  <1>5. RecordsTyped' /\ OpenedWith'
    BY <1>1 DEF TimelineInv, RecordsTyped, OpenedWith
  <1>6. RowsExact'
    <2>1. Exact(list)'
      BY <1>1, <1>2, <1>3 DEF TimelineInv, RowsExact, Exact
    <2>2. QED
      BY <1>1, <2>1 DEF TimelineInv, RowsExact, Exact
  <1>7. EventsKept' /\ EventsOrdered'
    BY <1>1 DEF TimelineInv, EventsKept, Kept, EventsOrdered, InOrder, Has, Ids
  <1>8. OlderTyped'
    BY <1>1, <1>3 DEF TimelineInv, OlderTyped, Has
  <1>9. PageKept'
    BY <1>1 DEF TimelineInv, PageKept, Complete, Has
  <1>10. \A i : Heard(i) => Heard(i)'
    BY <1>1 DEF Heard, Has, Ids
  <1>11. ListKept'
    <2>1. Complete(list, missed)'
      BY <1>1, <1>3 DEF TimelineInv, ListKept, Complete, Has
    <2>2. \A i \in DOMAIN list' : server[i] /\ ~list'[i] => Heard(i)
      BY <1>3 DEF TimelineInv, ListKept
    <2>3. QED
      BY <1>1, <1>10, <2>1, <2>2 DEF ListKept
  <1>12. OlderKept'
    BY <1>1, <1>3, <1>10 DEF TimelineInv, OlderKept
  <1>13. QED
    BY <1>4, <1>5, <1>6, <1>7, <1>8, <1>9, <1>11, <1>12 DEF TimelineInv

-----------------------------------------------------------------------------
(* The realtime handlers *)

\* What an event tells of, and what is still on the wire behind it.
Delivered(e) ==
  /\ e \in Events
  /\ wire' \in Seq(Events)
  /\ \A kind, i : Has(wire, kind, i) <=> Has(wire', kind, i) \/ (e.kind = kind /\ e.id = i)
  /\ e.id \in DOMAIN server
  /\ e.kind = "INSERT" => e.id > Initially /\ e.id \notin Ids(pending)
  /\ e.kind = "INSERT" => (server[e.id] => Has(wire', "UPDATE", e.id))
  /\ e.kind = "UPDATE" => server[e.id] /\ ~Has(wire', "UPDATE", e.id)
  /\ ~Has(wire', "INSERT", e.id)

\* The first event of the wire, and the order of those behind it.
LEMMA HeadDelivered ==
  ASSUME TimelineInv, wire # <<>>, wire' = Tail(wire), server' = server
  PROVE  /\ Delivered(Head(wire))
         /\ Kept(wire)'
         /\ \A j, k \in DOMAIN wire' : wire'[j] = wire'[k] => j = k
         /\ InOrder(wire)'
  <1> DEFINE e == Head(wire)
  <1>1. wire \in Seq(Events)
    BY DEF TimelineInv, TypeOK
  <1>2. /\ e \in Events /\ wire' \in Seq(Events)
        /\ 1 \in DOMAIN wire /\ wire[1] = e
        /\ \A k \in DOMAIN wire' : k + 1 \in DOMAIN wire /\ k \in Nat \ {0} /\ wire'[k] = wire[k + 1]
        /\ \A kind, i : Has(wire, kind, i) <=> Has(wire', kind, i) \/ (e.kind = kind /\ e.id = i)
    BY <1>1, TailHas
  <1> HIDE DEF e
  <1>3. \A j, k \in DOMAIN wire : wire[j] = wire[k] => j = k
    BY DEF TimelineInv, EventsOrdered
  <1>4. \A j, k \in DOMAIN wire :
          wire[j].kind = "INSERT" /\ wire[k].kind = "UPDATE" /\ wire[j].id = wire[k].id => j < k
    BY DEF TimelineInv, EventsOrdered, InOrder
  <1>5. \A k \in DOMAIN wire :
          /\ wire[k].id \in DOMAIN server
          /\ wire[k].kind = "INSERT" => wire[k].id > Initially
          /\ wire[k].kind = "UPDATE" => server[wire[k].id]
    BY DEF TimelineInv, EventsKept, Kept
  <1>6. e.kind \in {"INSERT", "UPDATE"}
    BY <1>2 DEF Events
  <1>7. \A k \in DOMAIN wire' : wire'[k] # e
    BY <1>2, <1>3
  <1>8. ~Has(wire', e.kind, e.id)
    <2> SUFFICES ASSUME NEW k \in DOMAIN wire', wire'[k].kind = e.kind, wire'[k].id = e.id
                 PROVE  FALSE
      BY DEF Has
    <2>1. wire'[k] \in Events
      BY <1>2
    <2>2. wire'[k] = e
      BY <1>2, <2>1 DEF Events
    <2>3. QED
      BY <1>7, <2>2
  <1>9. e.kind = "UPDATE" => ~Has(wire', "INSERT", e.id)
    <2> SUFFICES ASSUME e.kind = "UPDATE",
                        NEW k \in DOMAIN wire', wire'[k].kind = "INSERT", wire'[k].id = e.id
                 PROVE  FALSE
      BY DEF Has
    <2>1. k + 1 < 1
      BY <1>2, <1>4
    <2>2. QED
      BY <1>2, <2>1
  <1>10. Has(wire, e.kind, e.id)
    BY <1>2
  <1>11. e.kind = "INSERT" => e.id \notin Ids(pending) /\ (server[e.id] => Has(wire', "UPDATE", e.id))
    BY <1>2, <1>10 DEF TimelineInv, EventsOrdered
  <1>12. Delivered(e)
    BY <1>2, <1>5, <1>6, <1>8, <1>9, <1>11 DEF Delivered
  <1>13. Kept(wire)'
    BY <1>2, <1>5 DEF Kept
  <1>14. \A j, k \in DOMAIN wire' : wire'[j] = wire'[k] => j = k
    BY <1>2, <1>3
  <1>15. InOrder(wire)'
    BY <1>2, <1>4 DEF InOrder
  <1>16. QED
    BY <1>12, <1>13, <1>14, <1>15 DEF e

\* The events, and what was told, whichever queue the event went to.
LEMMA DeliverEvents ==
  ASSUME TimelineInv, NEW e, Delivered(e), wire' # <<>> => channel = "on",
         UNCHANGED <<server, channel, load, failed>>,
         Kept(wire)', InOrder(wire)', \A j, k \in DOMAIN wire' : wire'[j] = wire'[k] => j = k,
         told' = IF e.kind = "UPDATE" THEN told \cup {e.id} ELSE told,
         \/ pending' = pending /\ load.pc = "idle"
         \/ pending' = captureRealtimeRow(pending, e) /\ load.pc # "idle",
         pendingOlder' = pendingOlder \/ (pendingOlder' = captureRealtimeRow(pendingOlder, e) /\ e.kind = "UPDATE")
  PROVE  /\ EventsKept' /\ EventsOrdered'
         /\ pending' \in Seq(Events) /\ pendingOlder' \in Seq(Events)
         /\ \A kind, i : Has(pending, kind, i) => Has(pending', kind, i)
         /\ \A kind, i : Has(pending', kind, i) => Has(pending, kind, i) \/ (e.kind = kind /\ e.id = i)
         /\ \A kind, i : Has(pendingOlder, kind, i) => Has(pendingOlder', kind, i)
         /\ \A kind, i : Has(pendingOlder', kind, i) => Has(pendingOlder, kind, i) \/ (e.kind = kind /\ e.id = i)
         /\ pending' # pending => Has(pending', e.kind, e.id)
         /\ load.pc # "idle" => Has(pending', e.kind, e.id)
         /\ pendingOlder' = captureRealtimeRow(pendingOlder, e) /\ e.kind = "UPDATE" => Has(pendingOlder', e.kind, e.id)
         /\ told' \subseteq Messages /\ \A i \in told' : i \in DOMAIN server /\ server[i]
  <1>1. pending \in Seq(Events) /\ pendingOlder \in Seq(Events) /\ e \in Events
    BY DEF TimelineInv, TypeOK, Delivered
  <1>2. e.kind \in {"INSERT", "UPDATE"} /\ e.id \in Messages
    BY <1>1 DEF Events
  <1>3. InOrder(pending) /\ Kept(pending) /\ Kept(pendingOlder)
    BY DEF TimelineInv, EventsOrdered, EventsKept
  <1>4. ASSUME NEW q \in Seq(Events), NEW c, c = captureRealtimeRow(q, e), Kept(q)
        PROVE  /\ c \in Seq(Events)
               /\ \A kind, i : Has(q, kind, i) => Has(c, kind, i)
               /\ \A kind, i : Has(c, kind, i) => Has(q, kind, i) \/ (e.kind = kind /\ e.id = i)
               /\ Has(c, e.kind, e.id) \/ (e.kind = "INSERT" /\ e.id \in Ids(q))
               /\ Kept(c)
               /\ InOrder(q) => InOrder(c)
    <2>1. CASE c = Append(q, e) /\ (e.kind = "UPDATE" \/ e.id \notin Ids(q))
      <3>1. /\ c \in Seq(Events)
            /\ \A kind, i : Has(c, kind, i) <=> Has(q, kind, i) \/ (e.kind = kind /\ e.id = i)
            /\ \A k \in DOMAIN c :
                 \/ k \in DOMAIN q /\ c[k] = q[k]
                 \/ k = Len(q) + 1 /\ k \notin DOMAIN q /\ c[k] = e
        BY <1>1, <2>1, AppendHas
      <3>2. Kept(c)
        BY <1>4, <3>1 DEF Kept, Delivered
      <3>3. \A k \in DOMAIN q : k < Len(q) + 1 /\ q[k].id \in Ids(q)
        BY DEF Ids
      <3>4. ASSUME InOrder(q), NEW j \in DOMAIN c, NEW k \in DOMAIN c,
                   c[j].kind = "INSERT", c[k].kind = "UPDATE", c[j].id = c[k].id
            PROVE  j < k
        <4>1. CASE j \in DOMAIN q /\ c[j] = q[j] /\ k \in DOMAIN q /\ c[k] = q[k]
          BY <3>4, <4>1 DEF InOrder
        <4>2. CASE j \in DOMAIN q /\ k = Len(q) + 1
          BY <3>3, <4>2
        <4>3. CASE c[j] = e /\ k \in DOMAIN q /\ c[k] = q[k]
          BY <2>1, <3>3, <3>4, <4>3
        <4>4. CASE c[j] = e /\ c[k] = e
          BY <3>4, <4>4
        <4>5. QED
          BY <3>1, <4>1, <4>2, <4>3, <4>4
      <3>5. QED
        BY <3>1, <3>2, <3>4 DEF InOrder
    <2>2. CASE c = q /\ e.id \in Ids(q) /\ (e.kind = "UPDATE" => Has(q, "UPDATE", e.id))
      BY <1>2, <1>4, <2>2
    <2>3. QED
      BY <1>1, <1>4, <2>1, <2>2, CaptureIs
  <1>5. /\ pending' \in Seq(Events)
        /\ \A kind, i : Has(pending, kind, i) => Has(pending', kind, i)
        /\ \A kind, i : Has(pending', kind, i) => Has(pending, kind, i) \/ (e.kind = kind /\ e.id = i)
        /\ load.pc # "idle" => Has(pending', e.kind, e.id)
        /\ Kept(pending') /\ InOrder(pending')
    <2>1. CASE pending' = pending /\ load.pc = "idle"
      BY <1>1, <1>3, <2>1
    <2>2. CASE pending' = captureRealtimeRow(pending, e)
      BY <1>1, <1>3, <1>4, <2>2 DEF Delivered
    <2>3. QED
      BY <2>1, <2>2
  <1>6. /\ pendingOlder' \in Seq(Events)
        /\ \A kind, i : Has(pendingOlder, kind, i) => Has(pendingOlder', kind, i)
        /\ \A kind, i : Has(pendingOlder', kind, i) => Has(pendingOlder, kind, i) \/ (e.kind = kind /\ e.id = i)
        /\ pendingOlder' = captureRealtimeRow(pendingOlder, e) /\ e.kind = "UPDATE"
             => Has(pendingOlder', e.kind, e.id)
        /\ Kept(pendingOlder')
    <2>1. CASE pendingOlder' = captureRealtimeRow(pendingOlder, e) /\ e.kind = "UPDATE"
      BY <1>1, <1>3, <1>4, <2>1
    <2>2. CASE pendingOlder' = pendingOlder /\ ~(pendingOlder' = captureRealtimeRow(pendingOlder, e) /\ e.kind = "UPDATE")
      BY <1>1, <1>3, <2>2
    <2>3. QED
      BY <2>1, <2>2
  <1>7. pending' # pending => load.pc # "idle"
    OBVIOUS
  <1>8. \A i \in told' : i \in DOMAIN server /\ server[i]
    BY DEF TimelineInv, RowsExact, Delivered
  <1>9. told' \subseteq Messages
    BY <1>2 DEF TimelineInv, TypeOK
  <1>10. EventsKept'
    <2>1. Kept(pending)' /\ Kept(pendingOlder)'
      BY <1>5, <1>6 DEF Kept
    <2>2. pending' # <<>> => load.pc # "idle" \/ failed
      BY <1>7 DEF TimelineInv, EventsKept
    <2>3. QED
      BY <2>1, <2>2 DEF TimelineInv, EventsKept
  <1>11. \A i : Has(wire', "INSERT", i) =>
           i \notin Ids(pending') /\ (server[i] => Has(wire', "UPDATE", i))
    <2> SUFFICES ASSUME NEW i, Has(wire', "INSERT", i)
                 PROVE  i \notin Ids(pending') /\ (server[i] => Has(wire', "UPDATE", i))
      OBVIOUS
    <2>1. i # e.id /\ Has(wire, "INSERT", i)
      BY DEF Delivered
    <2>2. i \notin Ids(pending) /\ (server[i] => Has(wire, "UPDATE", i))
      BY <2>1 DEF TimelineInv, EventsOrdered
    <2>3. i \notin Ids(pending')
      BY <1>1, <1>5, <2>1, <2>2, IdsHas
    <2>4. server[i] => Has(wire', "UPDATE", i)
      BY <2>1, <2>2 DEF Delivered
    <2>5. QED
      BY <2>3, <2>4
  <1>12. \A i \in told' : ~Has(wire', "UPDATE", i)
    BY DEF TimelineInv, EventsOrdered, Delivered
  <1>13. EventsOrdered'
    <2>1. InOrder(pending)'
      BY <1>5 DEF InOrder
    <2>2. QED
      BY <1>11, <1>12, <2>1 DEF EventsOrdered, Ids, Has
  <1>14. QED
    BY <1>5, <1>6, <1>7, <1>8, <1>9, <1>10, <1>13

\* Held back by the load.
LEMMA DeliverToLoad ==
  ASSUME TimelineInv, NEW e, Delivered(e), EventsKept', EventsOrdered',
         load.pc # "idle", pending' = captureRealtimeRow(pending, e),
         pending' \in Seq(Events), told' \subseteq Messages,
         \A i \in told' : i \in DOMAIN server /\ server[i],
         \A kind, i : Has(pending, kind, i) => Has(pending', kind, i),
         \A kind, i : Has(pending', kind, i) => Has(pending, kind, i) \/ (e.kind = kind /\ e.id = i),
         Has(pending', e.kind, e.id),
         UNCHANGED <<server, channel, online, list, load, failed, older, pendingOlder, hasMore,
                     latch, sending, erasing, missed, missedSince>>
  PROVE  TimelineInv'
  <1>1. /\ wire' \in Seq(Events) /\ wire \in Seq(Events) /\ pending \in Seq(Events)
        /\ \A kind, i : Has(wire, kind, i) => Has(wire', kind, i) \/ Has(pending', kind, i)
    BY DEF Delivered, TimelineInv, TypeOK
  <1>2. \A kind, i : Has(wire', kind, i) => Has(wire, kind, i)
    BY DEF Delivered
  <1>3. TypeOK'
    BY <1>1 DEF TimelineInv, TypeOK, RowsOf
  <1>4. RecordsTyped' /\ OpenedWith'
    BY DEF TimelineInv, RecordsTyped, OpenedWith
  <1>5. RowsExact'
    BY DEF TimelineInv, RowsExact, Exact
  <1>6. OlderTyped'
    BY DEF TimelineInv, OlderTyped, Has
  <1>7. ASSUME NEW rows, NEW lapsed, Complete(rows, lapsed)
        PROVE  \A i \in DOMAIN server :
                 i > Initially \/ (\E j \in DOMAIN rows : j <= i) =>
                   i \in DOMAIN rows \cup lapsed \/ Has(wire', "INSERT", i) \/ Has(pending', "INSERT", i)
    BY <1>1, <1>7 DEF Complete
  <1>8. PageKept'
    <2> SUFFICES ASSUME load.pc = "page" PROVE PageKept'
      BY DEF PageKept
    <2>1. Complete(load.page, missedSince)'
      <3>1. Complete(load.page, missedSince)
        BY DEF TimelineInv, PageKept
      <3>2. QED
        BY <1>7, <3>1 DEF Complete
    <2>2. ASSUME NEW i \in DOMAIN server, server[i],
                 i \in DOMAIN load.page \/ Has(pending', "INSERT", i),
                 ~(i \in DOMAIN load.page /\ load.page[i])
          PROVE  i \in missedSince \/ Has(wire', "UPDATE", i) \/ Has(pending', "UPDATE", i)
      <3>1. CASE i \in DOMAIN load.page \/ Has(pending, "INSERT", i)
        BY <1>1, <2>2, <3>1 DEF TimelineInv, PageKept
      <3>2. CASE e.kind = "INSERT" /\ e.id = i
        BY <2>2, <3>2 DEF Delivered
      <3>3. QED
        BY <2>2, <3>1, <3>2
    <2>3. QED
      BY <2>1, <2>2 DEF PageKept
  <1>9. \A i : Heard(i) => Heard(i)'
    <2>1. \A i : Has(wire, "UPDATE", i) => Has(wire', "UPDATE", i) \/ i \in Ids(pending')
      BY <1>1, IdsHas
    <2>2. \A i : i \in Ids(pending) => i \in Ids(pending')
      BY <1>1, IdsHas
    <2>3. QED
      BY <2>1, <2>2 DEF Heard, Ids
  <1>10. ListKept'
    <2>1. Complete(list, missed)'
      <3>1. Complete(list, missed)
        BY DEF TimelineInv, ListKept
      <3>2. QED
        BY <1>7, <3>1 DEF Complete
    <2>2. QED
      BY <1>9, <2>1 DEF TimelineInv, ListKept
  <1>11. OlderKept'
    BY <1>9 DEF TimelineInv, OlderKept
  <1>12. QED
    BY <1>3, <1>4, <1>5, <1>6, <1>8, <1>10, <1>11 DEF TimelineInv

\* Held back by an older page.
LEMMA DeliverToOlder ==
  ASSUME TimelineInv, NEW e, Delivered(e), EventsKept', EventsOrdered',
         load.pc = "idle", older.pc # "idle", e.kind = "UPDATE",
         pendingOlder' \in Seq(Events), told' \subseteq Messages,
         \A i \in told' : i \in DOMAIN server /\ server[i],
         \A kind, i : Has(pendingOlder, kind, i) => Has(pendingOlder', kind, i),
         \A kind, i : Has(pendingOlder', kind, i) => Has(pendingOlder, kind, i) \/ (e.kind = kind /\ e.id = i),
         Has(pendingOlder', e.kind, e.id),
         UNCHANGED <<server, channel, online, list, load, failed, older, pending, hasMore,
                     latch, sending, erasing, missed, missedSince>>
  PROVE  TimelineInv'
  <1>1. /\ wire' \in Seq(Events) /\ wire \in Seq(Events) /\ pendingOlder \in Seq(Events)
        /\ \A i : Has(wire, "INSERT", i) => Has(wire', "INSERT", i)
        /\ \A i : Has(wire, "UPDATE", i) => Has(wire', "UPDATE", i) \/ Has(pendingOlder', "UPDATE", i)
    BY DEF Delivered, TimelineInv, TypeOK
  <1>2. TypeOK'
    BY <1>1 DEF TimelineInv, TypeOK, RowsOf
  <1>3. RecordsTyped' /\ OpenedWith'
    BY DEF TimelineInv, RecordsTyped, OpenedWith
  <1>4. RowsExact'
    BY DEF TimelineInv, RowsExact, Exact
  <1>5. OlderTyped'
    BY DEF TimelineInv, OlderTyped
  <1>6. PageKept'
    BY DEF PageKept
  <1>7. \A i : Heard(i) => Heard(i)'
    <2>1. \A i : Has(wire, "UPDATE", i) => Has(wire', "UPDATE", i) \/ i \in Ids(pendingOlder')
      BY <1>1, IdsHas
    <2>2. \A i : i \in Ids(pendingOlder) => i \in Ids(pendingOlder')
      BY <1>1, IdsHas
    <2>3. QED
      BY <2>1, <2>2 DEF Heard, Ids
  <1>8. ListKept'
    <2>1. Complete(list, missed)'
      <3>1. ASSUME NEW i \in DOMAIN server, i > Initially \/ \E j \in DOMAIN list : j <= i
            PROVE  i \in DOMAIN list \cup missed \/ Has(wire', "INSERT", i) \/ Has(pending, "INSERT", i)
        BY <1>1, <3>1 DEF TimelineInv, ListKept, Complete
      <3>2. QED
        BY <3>1 DEF Complete
    <2>2. QED
      BY <1>7, <2>1 DEF TimelineInv, ListKept
  <1>9. OlderKept'
    BY <1>7 DEF TimelineInv, OlderKept
  <1>10. QED
    BY <1>2, <1>3, <1>4, <1>5, <1>6, <1>8, <1>9 DEF TimelineInv

\* Taken into the list.
LEMMA DeliverToList ==
  ASSUME TimelineInv, NEW e, Delivered(e), EventsKept', EventsOrdered',
         load.pc = "idle", ~Held(e), list' = mergeLoadedPage(list, <<e>>),
         told' \subseteq Messages,
         \A i \in told' : i \in DOMAIN server /\ server[i],
         UNCHANGED <<server, channel, online, load, failed, older, pending, pendingOlder, hasMore,
                     latch, sending, erasing, missed, missedSince>>
  PROVE  TimelineInv'
  <1> DEFINE m == mergeLoadedPage(list, <<e>>)
  <1>1. /\ RowsOf(m)
        /\ \A i : i \in DOMAIN m <=> i \in DOMAIN list \/ (e.kind = "INSERT" /\ e.id = i)
        /\ \A i \in DOMAIN m :
             m[i] <=> (i \in DOMAIN list /\ list[i]) \/ (e.kind = "UPDATE" /\ e.id = i)
    <2>1. TypeOK /\ e \in Events
      BY DEF TimelineInv, Delivered
    <2>2. QED
      BY <2>1, MergeOneIs
  <1>2. list' = m
    OBVIOUS
  <1> HIDE DEF m
  <1>3. e.kind = "INSERT" => e.kind # "UPDATE"
    OBVIOUS
  <1>4. TypeOK'
    <2>1. RowsOf(list)'
      BY <1>1, <1>2 DEF RowsOf
    <2>2. wire' \in Seq(Events)
      BY DEF Delivered
    <2>3. QED
      BY <2>1, <2>2 DEF TimelineInv, TypeOK, RowsOf
  <1>5. RecordsTyped' /\ OpenedWith'
    BY DEF TimelineInv, RecordsTyped, OpenedWith
  <1>6. RowsExact'
    <2>1. \A i \in DOMAIN m : i \in DOMAIN server /\ (m[i] => server[i])
      BY <1>1 DEF TimelineInv, RowsExact, Exact, Delivered
    <2>2. Exact(list)'
      BY <1>2, <2>1 DEF Exact
    <2>3. QED
      BY <2>2 DEF TimelineInv, RowsExact, Exact
  <1>7. OlderTyped'
    <2>1. \A i \in DOMAIN list : i \in DOMAIN list'
      BY <1>1, <1>2
    <2>2. QED
      BY <2>1 DEF TimelineInv, OlderTyped, Has
  <1>8. PageKept'
    BY DEF PageKept
  <1>9. ListKept'
    <2>1. ASSUME NEW i \in DOMAIN server, i > Initially \/ \E j \in DOMAIN m : j <= i
          PROVE  i \in DOMAIN m \cup missed \/ Has(wire', "INSERT", i) \/ Has(pending, "INSERT", i)
      <3>1. i \in Int /\ Initially \in Int /\ e.id \in Int
        BY TimelineAssumption DEF TimelineInv, TypeOK, Delivered
      <3>2. i > Initially \/ \E j \in DOMAIN list : j <= i
        BY <1>1, <2>1, <3>1 DEF Delivered
      <3>3. i \in DOMAIN list \cup missed \/ Has(wire, "INSERT", i) \/ Has(pending, "INSERT", i)
        BY <3>2 DEF TimelineInv, ListKept, Complete
      <3>4. QED
        BY <1>1, <3>3 DEF Delivered
    <2>2. Complete(list, missed)'
      BY <1>2, <2>1 DEF Complete
    <2>3. ASSUME NEW i \in DOMAIN m, server[i], ~m[i]
          PROVE  Heard(i)'
      <3>1. CASE i \in DOMAIN list
        <4>1. ~list[i] /\ ~(e.kind = "UPDATE" /\ e.id = i)
          BY <1>1, <2>3, <3>1
        <4>2. Heard(i)
          BY <2>3, <3>1, <4>1 DEF TimelineInv, ListKept
        <4>3. QED
          BY <4>1, <4>2 DEF Heard, Ids, Delivered
      <3>2. CASE e.kind = "INSERT" /\ e.id = i
        BY <2>3, <3>2 DEF Delivered, Heard
      <3>3. QED
        BY <1>1, <3>1, <3>2
    <2>4. QED
      BY <1>2, <2>2, <2>3 DEF ListKept
  <1>10. OlderKept'
    <2> SUFFICES ASSUME older.pc = "page", ~older.outrun, NEW i \in DOMAIN older.page \ DOMAIN m,
                        server[i], ~older.page[i]
                 PROVE  Heard(i)'
      BY <1>2 DEF OlderKept
    <2>1. i \notin DOMAIN list
      BY <1>1
    <2>2. Heard(i)
      BY <2>1 DEF TimelineInv, OlderKept
    <2>3. ~(e.kind = "UPDATE" /\ e.id = i)
      BY <2>1 DEF Held
    <2>4. QED
      BY <2>2, <2>3 DEF Heard, Ids, Delivered
  <1>11. QED
    BY <1>4, <1>5, <1>6, <1>7, <1>8, <1>9, <1>10 DEF TimelineInv

\* An event is held back by the load, by an older page, or taken into the list.
LEMMA DeliverKeeps == TimelineInv /\ Deliver => TimelineInv'
  <1> SUFFICES ASSUME TimelineInv, Deliver PROVE TimelineInv'
    OBVIOUS
  <1> DEFINE e == Head(wire)
  <1>1. /\ wire # <<>> /\ wire' = Tail(wire)
        /\ told' = IF e.kind = "UPDATE" THEN told \cup {e.id} ELSE told
        /\ \/ /\ load.pc # "idle"
              /\ pending' = captureRealtimeRow(pending, e)
              /\ pendingOlder' = pendingOlder /\ list' = list
           \/ /\ load.pc = "idle" /\ Held(e)
              /\ pendingOlder' = captureRealtimeRow(pendingOlder, e)
              /\ pending' = pending /\ list' = list
           \/ /\ load.pc = "idle" /\ ~Held(e)
              /\ list' = mergeLoadedPage(list, <<e>>)
              /\ pending' = pending /\ pendingOlder' = pendingOlder
        /\ UNCHANGED <<server, channel, online, load, failed, older, hasMore, latch,
                       sending, erasing, missed, missedSince, budget>>
    BY DEF Deliver
  <1>2. /\ Delivered(e)
        /\ Kept(wire)' /\ InOrder(wire)'
        /\ \A j, k \in DOMAIN wire' : wire'[j] = wire'[k] => j = k
    BY <1>1, HeadDelivered
  <1> HIDE DEF e
  <1>3. wire' # <<>> => channel = "on"
    BY <1>1 DEF TimelineInv, EventsKept
  <1>4. CASE load.pc # "idle"
    <2>1. pending' = captureRealtimeRow(pending, e) /\ pendingOlder' = pendingOlder /\ list' = list
      BY <1>1, <1>4
    <2>2. /\ EventsKept' /\ EventsOrdered'
          /\ pending' \in Seq(Events)
          /\ \A kind, i : Has(pending, kind, i) => Has(pending', kind, i)
          /\ \A kind, i : Has(pending', kind, i) => Has(pending, kind, i) \/ (e.kind = kind /\ e.id = i)
          /\ Has(pending', e.kind, e.id)
          /\ told' \subseteq Messages /\ \A i \in told' : i \in DOMAIN server /\ server[i]
      BY <1>1, <1>2, <1>3, <1>4, <2>1, DeliverEvents
    <2>3. QED
      BY <1>1, <1>2, <1>4, <2>1, <2>2, DeliverToLoad
  <1>5. CASE load.pc = "idle" /\ Held(e)
    <2>1. pendingOlder' = captureRealtimeRow(pendingOlder, e) /\ pending' = pending /\ list' = list
      BY <1>1, <1>5
    <2>2. e.kind = "UPDATE" /\ older.pc # "idle"
      BY <1>5 DEF Held
    <2>3. /\ EventsKept' /\ EventsOrdered'
          /\ pendingOlder' \in Seq(Events)
          /\ \A kind, i : Has(pendingOlder, kind, i) => Has(pendingOlder', kind, i)
          /\ \A kind, i : Has(pendingOlder', kind, i) => Has(pendingOlder, kind, i) \/ (e.kind = kind /\ e.id = i)
          /\ Has(pendingOlder', e.kind, e.id)
          /\ told' \subseteq Messages /\ \A i \in told' : i \in DOMAIN server /\ server[i]
      BY <1>1, <1>2, <1>3, <1>5, <2>1, <2>2, DeliverEvents
    <2>4. QED
      BY <1>1, <1>2, <1>5, <2>1, <2>2, <2>3, DeliverToOlder
  <1>6. CASE load.pc = "idle" /\ ~Held(e)
    <2>1. list' = mergeLoadedPage(list, <<e>>) /\ pending' = pending /\ pendingOlder' = pendingOlder
      BY <1>1, <1>6
    <2>2. /\ EventsKept' /\ EventsOrdered'
          /\ told' \subseteq Messages /\ \A i \in told' : i \in DOMAIN server /\ server[i]
      BY <1>1, <1>2, <1>3, <1>6, <2>1, DeliverEvents
    <2>3. QED
      BY <1>1, <1>2, <1>6, <2>1, <2>2, DeliverToList
  <1>7. QED
    BY <1>4, <1>5, <1>6

-----------------------------------------------------------------------------
(* The step, and what follows *)

\* Every step keeps the invariant.
LEMMA TimelineStep == TimelineInv /\ [Next]_vars => TimelineInv'
  <1> SUFFICES ASSUME TimelineInv, [Next]_vars PROVE TimelineInv'
    OBVIOUS
  <1>1. CASE PostElsewhere
    BY <1>1, InsertKeeps DEF PostElsewhere, Around
  <1>2. CASE Send
    BY <1>2, InsertKeeps DEF Send, Around
  <1>3. ASSUME NEW i \in DOMAIN server, EraseElsewhere(i) PROVE TimelineInv'
    BY <1>3, EraseKeeps DEF EraseElsewhere, Around
  <1>4. ASSUME NEW i \in DOMAIN server, EraseHere(i) PROVE TimelineInv'
    BY <1>4, EraseKeeps DEF EraseHere, Around
  <1>5. CASE LoadPeer \/ Disconnect("off") \/ Disconnect("joining") \/ Reconnect
    BY <1>5, ResubscriptionsKeep
  <1>6. CASE Joined \/ Deliver
    BY <1>6, JoinedKeeps, DeliverKeeps
  <1>7. CASE LoadPage \/ LoadCommit
    BY <1>7, LoadPageKeeps, LoadCommitKeeps
  <1>8. CASE LoadFails \/ Retry
    BY <1>8, LoadLeavesKeep
  <1>9. CASE StartOlder \/ OlderPage
    BY <1>9, StartOlderKeeps, OlderPageKeeps
  <1>10. CASE OlderCommit \/ OlderFails
    BY <1>10, OlderEndsKeep
  <1>11. CASE SendDone \/ EraseDone
    BY <1>11, SendDoneKeeps, EraseDoneKeeps
  <1>12. CASE UNCHANGED vars
    <2> USE <1>12 DEF vars
    <2>1. TypeOK' /\ RecordsTyped' /\ RowsExact' /\ EventsKept' /\ OpenedWith'
      BY DEF TimelineInv, TypeOK, RowsOf, RecordsTyped, RowsExact, Exact, EventsKept, Kept, OpenedWith
    <2>2. OlderTyped' /\ EventsOrdered'
      BY DEF TimelineInv, OlderTyped, EventsOrdered, InOrder, Has, Ids
    <2>3. PageKept' /\ ListKept' /\ OlderKept'
      BY DEF TimelineInv, PageKept, ListKept, OlderKept, Complete, Heard, Has, Ids
    <2>4. QED
      BY <2>1, <2>2, <2>3 DEF TimelineInv
  <1>13. QED
    BY <1>1, <1>2, <1>3, <1>4, <1>5, <1>6, <1>7, <1>8, <1>9, <1>10, <1>11, <1>12 DEF Next

\* Whatever is in flight - a load, an older page, own calls - and in whatever order it
\* comes in, what the list lacks of the server is on its way, held back, or was never
\* told.
THEOREM TimelineInductive == Spec => []TimelineInv
  BY TimelineStart, TimelineStep, PTL DEF Spec

\* Every variable of the chat has its type, for any page size and any bounds.
THEOREM TimelineTypeCorrect == Spec => []TypeOK
  <1>1. TimelineInv => TypeOK
    BY DEF TimelineInv
  <1>2. QED
    BY <1>1, TimelineInductive, PTL

\* With nothing in flight there is nothing the list could lack.
LEMMA SettledFromInv == TimelineInv => SettledIsTrue
  <1> SUFFICES ASSUME TimelineInv, Quiet, DOMAIN list # {},
                      NEW i \in Min(DOMAIN list) .. Len(server), i \notin missed
               PROVE  i \in DOMAIN list /\ list[i] = server[i]
    BY DEF SettledIsTrue
  <1>1. load.pc = "idle" /\ ~failed /\ older.pc = "idle" /\ wire = <<>>
    BY DEF Quiet, Shown
  <1>2. pending = <<>> /\ pendingOlder = <<>>
    BY <1>1 DEF TimelineInv, EventsKept, TypeOK
  <1>3. \A j : ~Has(wire, "INSERT", j) /\ ~Has(pending, "INSERT", j)
    BY <1>1, <1>2, NoneHas
  <1>4. \A j : Heard(j) => j \in missed
    BY <1>1, <1>2, NoneHas DEF Heard
  <1>5. DOMAIN list \in SUBSET Nat
    BY TimelineAssumption DEF TimelineInv, TypeOK, RowsOf, Messages
  <1>6. Min(DOMAIN list) \in DOMAIN list
    BY <1>5, MinIsLeast
  <1>7. Min(DOMAIN list) \in DOMAIN server /\ server \in Seq(BOOLEAN)
    BY <1>6 DEF TimelineInv, RowsExact, Exact, TypeOK
  <1>8. i \in DOMAIN server /\ Min(DOMAIN list) <= i
    BY <1>7
  <1>9. i \in DOMAIN list
    BY <1>3, <1>6, <1>8 DEF TimelineInv, ListKept, Complete
  <1>10. list[i] <=> server[i]
    BY <1>4, <1>8, <1>9 DEF TimelineInv, ListKept, RowsExact, Exact
  <1>11. list[i] \in BOOLEAN /\ server[i] \in BOOLEAN
    <2>1. list[i] \in BOOLEAN
      BY <1>9 DEF TimelineInv, TypeOK, RowsOf
    <2>2. server[i] \in BOOLEAN
      BY <1>7, <1>8
    <2>3. QED
      BY <2>1, <2>2
  <1>12. list[i] = server[i]
    <2>1. \A a, b \in BOOLEAN : (a <=> b) => a = b
      OBVIOUS
    <2>2. QED
      BY <1>10, <1>11, <2>1
  <1>13. QED
    BY <1>9, <1>12

\* When nothing is on its way, the list is what the server holds, from its first row on:
\* no gap and no deletion undone, for any page size and any number of messages.
THEOREM SettledListIsTrue == Spec => []SettledIsTrue
  BY TimelineInductive, SettledFromInv, PTL

\* No page read before a deletion was delivered shows the message again.
THEOREM NoDeletionUndone == Spec => []NoResurrection
  <1>1. TimelineInv => NoResurrection
    <2> SUFFICES ASSUME TimelineInv, NEW i \in told \cap DOMAIN list, ~list[i]
                 PROVE  i \in Ids(pending) \cup Ids(pendingOlder) \/ i \in missed
      BY DEF NoResurrection
    <2>1. server[i] /\ ~Has(wire, "UPDATE", i)
      BY DEF TimelineInv, RowsExact, EventsOrdered
    <2>2. Heard(i)
      BY <2>1 DEF TimelineInv, ListKept
    <2>3. QED
      BY <2>1, <2>2 DEF Heard
  <1>2. QED
    BY <1>1, TimelineInductive, PTL
=============================================================================
