----------------------------- MODULE OutboxProofs -----------------------------
(***************************************************************************)
(* What the offline queue keeps for any number of messages, drains and     *)
(* mishaps: a message whose enqueue returned is in the record or on the    *)
(* server, and is inserted twice only after a send in doubt.               *)
(***************************************************************************)
EXTENDS Outbox, FiniteSetTheorems, SequenceTheorems, TLAPS

-----------------------------------------------------------------------------
(* Lists *)

\* What is appended is an element, and a new one keeps a list free of repetitions.
LEMMA Appended ==
  ASSUME NEW S, NEW s \in Seq(S), NEW m \in S
  PROVE  /\ Append(s, m) \in Seq(S) /\ Len(Append(s, m)) = Len(s) + 1
         /\ ToSet(Append(s, m)) = ToSet(s) \cup {m}
         /\ IsInjective(s) /\ m \notin ToSet(s) => IsInjective(Append(s, m))
  <1>1. /\ DOMAIN s = 1..Len(s) /\ Len(s) \in Nat
        /\ DOMAIN Append(s, m) = 1..(Len(s) + 1)
        /\ \A i \in 1..Len(s) : Append(s, m)[i] = s[i]
        /\ Append(s, m)[Len(s) + 1] = m
    OBVIOUS
  <1>2. ToSet(Append(s, m)) = ToSet(s) \cup {m}
    <2>1. \A x \in ToSet(Append(s, m)) : x \in ToSet(s) \cup {m}
      BY <1>1 DEF ToSet
    <2>2. \A x \in ToSet(s) \cup {m} : \E i \in 1..(Len(s) + 1) : Append(s, m)[i] = x
      BY <1>1 DEF ToSet
    <2>3. QED
      BY <1>1, <2>1, <2>2 DEF ToSet
  <1>3. ASSUME IsInjective(s), m \notin ToSet(s) PROVE IsInjective(Append(s, m))
    <2>1. \A i \in 1..Len(s) : s[i] # m
      BY <1>1, <1>3 DEF ToSet
    <2>2. QED
      BY <1>1, <1>3, <2>1 DEF IsInjective
  <1>4. QED
    BY <1>2, <1>3

\* The head and the tail of a list, and of one free of repetitions.
LEMMA Headed ==
  ASSUME NEW S, NEW s \in Seq(S), s # <<>>
  PROVE  /\ Head(s) \in S /\ Head(s) \in ToSet(s) /\ Tail(s) \in Seq(S)
         /\ ToSet(Tail(s)) \subseteq ToSet(s)
         /\ IsInjective(s) => /\ IsInjective(Tail(s))
                              /\ Head(s) \notin ToSet(Tail(s))
                              /\ ToSet(s) = ToSet(Tail(s)) \cup {Head(s)}
  <1>1. /\ DOMAIN s = 1..Len(s) /\ Len(s) \in Nat /\ Len(s) # 0
        /\ Tail(s) \in Seq(S) /\ Len(Tail(s)) = Len(s) - 1
        /\ DOMAIN Tail(s) = 1..(Len(s) - 1)
        /\ \A i \in 1..(Len(s) - 1) : Tail(s)[i] = s[i + 1]
        /\ Head(s) = s[1]
    BY HeadTailProperties, IsASeq
  <1>2. Head(s) \in S /\ Head(s) \in ToSet(s)
    BY <1>1 DEF ToSet
  <1>3. ToSet(Tail(s)) \subseteq ToSet(s)
    BY <1>1 DEF ToSet
  <1>4. ASSUME IsInjective(s)
        PROVE  IsInjective(Tail(s)) /\ Head(s) \notin ToSet(Tail(s))
    BY <1>1, <1>4 DEF IsInjective, ToSet
  <1>5. ToSet(s) \subseteq ToSet(Tail(s)) \cup {Head(s)}
    <2>1. ASSUME NEW i \in 1..Len(s), s[i] # s[1]
          PROVE  \E j \in 1..(Len(s) - 1) : Tail(s)[j] = s[i]
      <3>1. i - 1 \in 1..(Len(s) - 1) /\ i = (i - 1) + 1
        BY <1>1, <2>1
      <3>2. QED
        BY <1>1, <3>1
    <2>2. ASSUME NEW x \in ToSet(s), x # s[1] PROVE x \in ToSet(Tail(s))
      <3>1. PICK i \in 1..Len(s) : x = s[i]
        BY <1>1 DEF ToSet
      <3>2. PICK j \in 1..(Len(s) - 1) : Tail(s)[j] = s[i]
        BY <2>1, <2>2, <3>1
      <3>3. QED
        BY <1>1, <3>1, <3>2 DEF ToSet
    <2>3. QED
      BY <1>1, <2>2
  <1>6. QED
    BY <1>1, <1>2, <1>3, <1>4, <1>5

\* An element is removed from a list free of repetitions, which it stays.
LEMMA Removed ==
  ASSUME NEW S, NEW s \in Seq(S), NEW e, IsInjective(s)
  PROVE  /\ RemoveFirst(s, e) \in Seq(S)
         /\ ToSet(RemoveFirst(s, e)) = ToSet(s) \ {e}
         /\ IsInjective(RemoveFirst(s, e))
         /\ \A i \in DOMAIN RemoveFirst(s, e) : \E p \in DOMAIN s :
              /\ s[p] = RemoveFirst(s, e)[i]
              /\ \A q \in 1..(p - 1) :
                   s[q] = e \/ \E j \in 1..(i - 1) : RemoveFirst(s, e)[j] = s[q]
  <1>1. /\ DOMAIN s = 1..Len(s) /\ Len(s) \in Nat
    OBVIOUS
  <1>2. CASE e \notin ToSet(s)
    <2>1. RemoveFirst(s, e) = s
      BY <1>1, <1>2 DEF RemoveFirst, ToSet
    <2>2. \A i \in DOMAIN s : \A q \in 1..(i - 1) : \E j \in 1..(i - 1) : s[j] = s[q]
      OBVIOUS
    <2>3. QED
      BY <1>2, <2>1, <2>2
  <1>3. CASE e \in ToSet(s)
    <2>1. PICK k \in 1..Len(s) : s[k] = e
      BY <1>1, <1>3 DEF ToSet
    <2>2. \A i \in 1..Len(s) : s[i] = e => i = k
      BY <1>1, <2>1 DEF IsInjective
    <2>3. SelectInSeq(s, LAMBDA v : v = e) = k
      <3>1. {i \in 1..Len(s) : s[i] = e} = {k}
        BY <2>1, <2>2
      <3>2. Min({k}) = k
        BY <1>1 DEF Min
      <3>3. QED
        BY <3>1, <3>2 DEF SelectInSeq
    <2>4. RemoveFirst(s, e) = SubSeq(s, 1, k - 1) \o SubSeq(s, k + 1, Len(s))
      BY <2>1, <2>3 DEF RemoveFirst, RemoveAt
    <2> DEFINE a == SubSeq(s, 1, k - 1)
               b == SubSeq(s, k + 1, Len(s))
               r == a \o b
    <2>5. /\ a \in Seq(S) /\ Len(a) = k - 1 /\ \A i \in 1..(k - 1) : a[i] = s[i]
          /\ b \in Seq(S) /\ Len(b) = Len(s) - k /\ \A i \in 1..(Len(s) - k) : b[i] = s[k + i]
      <3>1. /\ a \in Seq(S) /\ Len(a) = k - 1 /\ \A i \in 1..(k - 1) : a[i] = s[i]
        BY <1>1, <2>1, SubSeqProperties
      <3>2. /\ b \in Seq(S) /\ Len(b) = Len(s) - k /\ \A i \in 1..(Len(s) - k) : b[i] = s[k + i]
        <4> DEFINE m == k + 1
                   n == Len(s)
        <4>1. m \in Int /\ n \in Int /\ (\A i \in m..n : s[i] \in S) /\ m = k + 1 /\ n = Len(s)
          BY <1>1, <2>1
        <4>2. b = SubSeq(s, m, n)
          OBVIOUS
        <4> HIDE DEF m, n, b
        <4>3. /\ b \in Seq(S) /\ Len(b) = IF m <= n THEN n - m + 1 ELSE 0
              /\ \A i \in 1..(n - m + 1) : b[i] = s[m + i - 1]
          BY <4>1, <4>2, SubSeqProperties
        <4>4. Len(b) = Len(s) - k
          <5>1. CASE k < Len(s)
            <6>1. m <= n /\ n - m + 1 = Len(s) - k
              BY <1>1, <2>1, <4>1, <5>1
            <6>2. QED
              BY <4>3, <6>1
          <5>2. CASE k = Len(s)
            <6>1. ~(m <= n) /\ Len(s) - k = 0
              BY <1>1, <2>1, <4>1, <5>2
            <6>2. QED
              BY <4>3, <6>1
          <5>3. \A c \in Nat : \A d \in 1..c : d < c \/ d = c
            OBVIOUS
          <5>4. k < Len(s) \/ k = Len(s)
            BY <1>1, <5>3
          <5>5. QED
            BY <5>1, <5>2, <5>4
        <4>5. \A i \in 1..(Len(s) - k) : i \in 1..(n - m + 1) /\ m + i - 1 = k + i
          BY <1>1, <2>1, <4>1
        <4>6. \A i \in 1..(Len(s) - k) : b[i] = s[k + i]
          BY <4>3, <4>5
        <4>7. QED
          BY <4>3, <4>4, <4>6
      <3>3. QED
        BY <3>1, <3>2
    <2> HIDE DEF a, b
    <2>6. /\ r \in Seq(S) /\ Len(r) = Len(s) - 1
          /\ \A i \in 1..(Len(s) - 1) : r[i] = IF i < k THEN s[i] ELSE s[i + 1]
      <3>1. /\ a \o b \in Seq(S) /\ Len(a \o b) = Len(a) + Len(b)
            /\ \A i \in 1..(Len(a) + Len(b)) :
                 (a \o b)[i] = IF i <= Len(a) THEN a[i] ELSE b[i - Len(a)]
        BY <2>5, ConcatProperties
      <3>2. Len(r) = Len(s) - 1 /\ r \in Seq(S)
        BY <1>1, <2>1, <2>5, <3>1
      <3>3. \A i \in 1..(Len(s) - 1) : r[i] = IF i <= k - 1 THEN a[i] ELSE b[i - (k - 1)]
        BY <1>1, <2>1, <2>5, <3>1
      <3> HIDE DEF r
      <3>4. ASSUME NEW i \in 1..(Len(s) - 1) PROVE r[i] = IF i < k THEN s[i] ELSE s[i + 1]
        <4>1. CASE i < k
          BY <1>1, <2>1, <2>5, <3>3, <4>1
        <4>2. CASE ~(i < k)
          <5>1. r[i] = b[i - (k - 1)] /\ i - (k - 1) \in 1..(Len(s) - k)
            BY <1>1, <2>1, <3>3, <4>2
          <5>2. k + (i - (k - 1)) = i + 1
            BY <2>1
          <5>3. QED
            BY <2>5, <4>2, <5>1, <5>2
        <4>3. QED
          BY <4>1, <4>2
      <3>5. QED
        BY <3>2, <3>4
    <2> HIDE DEF r
    <2>7. DOMAIN r = 1..(Len(s) - 1)
      BY <2>6
    <2>8. ToSet(r) \subseteq ToSet(s) \ {e}
      BY <1>1, <2>1, <2>2, <2>6, <2>7 DEF ToSet
    <2>9. ASSUME NEW i \in 1..Len(s), i # k PROVE s[i] \in ToSet(r)
      <3>1. CASE i < k
        BY <1>1, <2>1, <2>6, <2>7, <3>1 DEF ToSet
      <3>2. CASE i > k
        <4>1. i - 1 \in 1..(Len(s) - 1) /\ r[i - 1] = s[i]
          BY <1>1, <2>1, <2>6, <2>9, <3>2
        <4>2. QED
          BY <2>7, <4>1 DEF ToSet
      <3>3. QED
        BY <2>1, <2>9, <3>1, <3>2
    <2>10. ToSet(s) \ {e} \subseteq ToSet(r)
      BY <1>1, <2>1, <2>9 DEF ToSet
    <2>11. IsInjective(r)
      <3>1. SUFFICES ASSUME NEW i \in 1..(Len(s) - 1), NEW j \in 1..(Len(s) - 1), r[i] = r[j]
                     PROVE  i = j
        BY <2>7 DEF IsInjective
      <3> DEFINE at(x) == IF x < k THEN x ELSE x + 1
      <3>2. at(i) \in 1..Len(s) /\ at(j) \in 1..Len(s) /\ r[i] = s[at(i)] /\ r[j] = s[at(j)]
        BY <1>1, <2>1, <2>6
      <3>3. at(i) = at(j)
        BY <1>1, <3>1, <3>2 DEF IsInjective
      <3>4. QED
        BY <2>1, <3>3
    <2>12. RemoveFirst(s, e) = r
      BY <2>4 DEF r, a, b
    <2>13. ASSUME NEW i \in 1..(Len(s) - 1)
           PROVE  \E p \in DOMAIN s :
                    /\ s[p] = r[i]
                    /\ \A q \in 1..(p - 1) : s[q] = e \/ \E j \in 1..(i - 1) : r[j] = s[q]
      <3>1. CASE i < k
        <4>1. i \in DOMAIN s /\ s[i] = r[i]
          BY <1>1, <2>6, <3>1
        <4>2. ASSUME NEW q \in 1..(i - 1) PROVE r[q] = s[q]
          BY <1>1, <2>1, <2>6, <3>1
        <4>3. QED
          BY <4>1, <4>2
      <3>2. CASE ~(i < k)
        <4>1. i + 1 \in DOMAIN s /\ s[i + 1] = r[i]
          BY <1>1, <2>6, <3>2
        <4>2. ASSUME NEW q \in 1..((i + 1) - 1)
              PROVE  s[q] = e \/ \E j \in 1..(i - 1) : r[j] = s[q]
          <5>1. CASE q = k
            BY <2>1, <5>1
          <5>2. CASE q < k
            <6>1. q \in 1..(i - 1) /\ r[q] = s[q]
              BY <1>1, <2>1, <2>6, <3>2, <5>2
            <6>2. QED
              BY <6>1
          <5>3. CASE q > k
            <6>1. q - 1 \in 1..(i - 1) /\ r[q - 1] = s[(q - 1) + 1] /\ (q - 1) + 1 = q
              BY <1>1, <2>1, <2>6, <5>3
            <6>2. QED
              BY <6>1
          <5>4. QED
            BY <2>1, <5>1, <5>2, <5>3
        <4>3. QED
          BY <4>1, <4>2
      <3>3. QED
        BY <3>1, <3>2
    <2>14. r \in Seq(S) /\ ToSet(r) = ToSet(s) \ {e} /\ IsInjective(r)
      BY <2>6, <2>8, <2>10, <2>11
    <2>15. \A i \in DOMAIN r : \E p \in DOMAIN s :
             /\ s[p] = r[i]
             /\ \A q \in 1..(p - 1) : s[q] = e \/ \E j \in 1..(i - 1) : r[j] = s[q]
      BY <2>7, <2>13
    <2>16. QED
      BY <2>12, <2>14, <2>15
  <1>4. QED
    BY <1>2, <1>3

\* A list has finitely many elements.
LEMMA ElementsFinite ==
  ASSUME NEW S, NEW s \in Seq(S)
  PROVE  IsFiniteSet(ToSet(s))
  <1>1. IsFiniteSet(1..Len(s)) /\ DOMAIN s = 1..Len(s)
    BY FS_Interval
  <1> DEFINE f == [i \in 1..Len(s) |-> s[i]]
  <1>2. f \in Surjection(1..Len(s), ToSet(s))
    BY <1>1 DEF ToSet, Surjection
  <1>3. QED
    BY <1>1, <1>2, FS_Surjection

-----------------------------------------------------------------------------

(* The types *)

DrainLabels == {"idle", "loading", "next", "posting", "answered", "removing", "failed", "noting"}

DrainRecords == [pc : DrainLabels, todo : Seq(Messages), copy : Seq(Messages), live : BOOLEAN]

DraftRecords ==
  [copy : Seq(Messages),
   pc : {"draft", "loaded", "queued", "sending", "left", "sent", "gone"}]

HasHead(d) == d.pc \notin {"idle", "loading", "next"} => d.todo # <<>>

\* What was accepted stays queued, so it is accepted once.
AcceptedQueued == \A m \in ToSet(accepted) : drafts[m].pc = "queued"

ListsTyped ==
  /\ record \in Seq(Messages) /\ posted \in Seq(Messages)
  /\ accepted \in Seq(Messages) /\ IsInjective(accepted)

DraftsTyped == drafts \in [Messages -> DraftRecords] /\ AcceptedQueued

DrainsTyped == drains \in [Slots -> DrainRecords] /\ \A s \in Slots : HasHead(drains[s])

SignalsTyped ==
  /\ browser \in BOOLEAN /\ failed \in BOOLEAN
  /\ shown \in {"closed", "offline", "unreachable", "online"} /\ direct \subseteq Messages
  /\ stopped \in {"never", "paused", "resumed"} /\ late \in BOOLEAN /\ raced \in BOOLEAN
  /\ unreadable \in BOOLEAN /\ doubtful \in Nat /\ mishaps \in Nat

OutboxTyped == ListsTyped /\ DraftsTyped /\ DrainsTyped /\ SignalsTyped

\* A drain that moves on.
LEMMA Relabelled ==
  ASSUME NEW d \in DrainRecords, NEW label
  PROVE  [d EXCEPT !.pc = label] =
           [pc |-> label, todo |-> d.todo, copy |-> d.copy, live |-> d.live]
  BY DEF DrainRecords

WithList(d, label, todo) == [d EXCEPT !.pc = label, !.todo = todo]

WithCopy(d, label, copy) == [d EXCEPT !.pc = label, !.copy = copy]

WithBoth(d, label, todo, copy) == [d EXCEPT !.pc = label, !.todo = todo, !.copy = copy]

\* A drain that moves on with another list to send.
LEMMA Listed ==
  ASSUME NEW d \in DrainRecords, NEW label, NEW todo
  PROVE  WithList(d, label, todo) =
           [pc |-> label, todo |-> todo, copy |-> d.copy, live |-> d.live]
  <1> DEFINE u == [d EXCEPT !.pc = label]
             v == [d EXCEPT !.pc = label, !.todo = todo]
  <1>1. u = [pc |-> label, todo |-> d.todo, copy |-> d.copy, live |-> d.live]
    BY Relabelled
  <1>2. v = [u EXCEPT !.todo = todo]
    BY DEF DrainRecords
  <1> HIDE DEF u, v
  <1>3. v = [pc |-> label, todo |-> todo, copy |-> d.copy, live |-> d.live]
    BY <1>1, <1>2
  <1>4. QED
    BY <1>3 DEF v, WithList

\* A drain that moves on with another copy of the record.
LEMMA Copied ==
  ASSUME NEW d \in DrainRecords, NEW label, NEW copy
  PROVE  WithCopy(d, label, copy) =
           [pc |-> label, todo |-> d.todo, copy |-> copy, live |-> d.live]
  <1> DEFINE u == [d EXCEPT !.pc = label]
             v == [d EXCEPT !.pc = label, !.copy = copy]
  <1>1. u = [pc |-> label, todo |-> d.todo, copy |-> d.copy, live |-> d.live]
    BY Relabelled
  <1>2. v = [u EXCEPT !.copy = copy]
    BY DEF DrainRecords
  <1> HIDE DEF u, v
  <1>3. v = [pc |-> label, todo |-> d.todo, copy |-> copy, live |-> d.live]
    BY <1>1, <1>2
  <1>4. QED
    BY <1>3 DEF v, WithCopy

\* A drain that moves on with both.
LEMMA Advanced ==
  ASSUME NEW d \in DrainRecords, NEW label, NEW todo, NEW copy
  PROVE  WithBoth(d, label, todo, copy) =
           [pc |-> label, todo |-> todo, copy |-> copy, live |-> d.live]
  <1> DEFINE v == [d EXCEPT !.pc = label, !.todo = todo]
             x == [d EXCEPT !.pc = label, !.todo = todo, !.copy = copy]
  <1>1. v = [pc |-> label, todo |-> todo, copy |-> d.copy, live |-> d.live]
    BY Listed DEF WithList
  <1>2. x = [v EXCEPT !.copy = copy]
    BY DEF DrainRecords
  <1> HIDE DEF v, x
  <1>3. x = [pc |-> label, todo |-> todo, copy |-> copy, live |-> d.live]
    <2>1. x = [[pc |-> label, todo |-> todo, copy |-> d.copy, live |-> d.live] EXCEPT !.copy = copy]
      BY <1>1, <1>2
    <2>2. QED
      BY <2>1
  <1>4. QED
    BY <1>3 DEF x, WithBoth

\* A drain that is cancelled.
LEMMA Detached ==
  ASSUME NEW d \in DrainRecords, NEW live \in BOOLEAN
  PROVE  [d EXCEPT !.live = live] =
           [pc |-> d.pc, todo |-> d.todo, copy |-> d.copy, live |-> live]
  BY DEF DrainRecords

\* A list that was read is one of messages.
LEMMA ReadsTyped ==
  ASSUME OutboxTyped, NEW list, Reads(list)
  PROVE  /\ list \in Seq(Messages) /\ mishaps' \in Nat /\ unreadable' \in BOOLEAN
         /\ unreadable' = FALSE => unreadable = FALSE /\ list = record
  <1>1. <<>> \in Seq(Messages) /\ record \in Seq(Messages) /\ mishaps \in Nat /\ unreadable \in BOOLEAN
    BY DEF OutboxTyped, ListsTyped, SignalsTyped
  <1>2. \/ list = record /\ mishaps' = mishaps /\ unreadable' = unreadable
        \/ list = <<>> /\ mishaps' = mishaps + 1 /\ unreadable' = TRUE
    BY DEF Reads, Mishap
  <1>3. CASE list = record /\ mishaps' = mishaps /\ unreadable' = unreadable
    BY <1>1, <1>3
  <1>4. CASE list = <<>> /\ mishaps' = mishaps + 1 /\ unreadable' = TRUE
    <2>1. list \in Seq(Messages) /\ mishaps' \in Nat
      BY <1>1, <1>4
    <2>2. QED
      BY <1>4, <2>1
  <1>5. QED
    BY <1>2, <1>3, <1>4

\* What is stored is the list, over what it was computed from if nobody raced.
LEMMA StoresTyped ==
  ASSUME OutboxTyped, NEW list \in Seq(Messages), NEW copy, Stores(list, copy)
  PROVE  /\ record' \in Seq(Messages) /\ mishaps' \in Nat
         /\ raced' \in BOOLEAN /\ unreadable' \in BOOLEAN
         /\ Undisturbed' => Undisturbed /\ record' = list /\ record = copy
  <1>1. record \in Seq(Messages) /\ mishaps \in Nat /\ raced \in BOOLEAN /\ unreadable \in BOOLEAN
    BY DEF OutboxTyped, ListsTyped, SignalsTyped
  <1>2. CASE record' = list /\ raced' = (raced \/ record # copy) /\ UNCHANGED <<mishaps, unreadable>>
    <2>1. record' \in Seq(Messages) /\ mishaps' \in Nat /\ unreadable' = unreadable
      BY <1>1, <1>2
    <2>2. raced' \in BOOLEAN
      BY <1>2
    <2>3. Undisturbed' => Undisturbed /\ record' = list /\ record = copy
      BY <1>2 DEF Undisturbed
    <2>4. QED
      BY <1>1, <2>1, <2>2, <2>3
  <1>3. CASE Mishap /\ unreadable' = TRUE /\ UNCHANGED <<record, raced>>
    <2>1. record' \in Seq(Messages) /\ mishaps' \in Nat
      BY <1>1, <1>3 DEF Mishap
    <2>2. raced' \in BOOLEAN /\ unreadable' \in BOOLEAN /\ ~Undisturbed'
      BY <1>1, <1>3 DEF Undisturbed
    <2>3. QED
      BY <2>1, <2>2
  <1>4. QED
    BY <1>2, <1>3 DEF Stores

Become(s, pc, todo, copy) ==
  drains' = [drains EXCEPT ![s] =
    [pc |-> pc, todo |-> todo, copy |-> copy, live |-> drains[s].live]]

\* What each step makes of its drain.
LEMMA DrainBecomes ==
  ASSUME OutboxTyped, NEW s \in Slots, NEW d \in DrainRecords, d = drains[s]
  PROVE  /\ DrainLoad(s) => \/ drains' = [drains EXCEPT ![s] = Idle]
                            \/ \E list \in Seq(Messages) :
                                 /\ Reads(list) /\ list # <<>>
                                 /\ Become(s, "next", list, d.copy)
         /\ DrainNext(s) => \/ Finish(s)
                            \/ /\ d.live /\ d.todo # <<>> /\ UNCHANGED failed
                               /\ Become(s, "posting", d.todo, d.copy)
         /\ DrainPost(s) => \/ Become(s, "answered", d.todo, d.copy)
                            \/ Become(s, "failed", d.todo, d.copy)
         /\ DrainAnswered(s) => \/ ~d.live /\ Finish(s)
                                \/ /\ d.live
                                   /\ \E list \in Seq(Messages) :
                                        Reads(list) /\ Become(s, "removing", d.todo, list)
                                \/ d.live /\ Become(s, "failed", d.todo, d.copy)
         /\ DrainRemove(s) /\ d.todo # <<>> => Become(s, "next", Tail(d.todo), <<>>)
         /\ DrainFailed(s) => \/ Finish(s)
                              \/ \E list \in Seq(Messages) :
                                   Reads(list) /\ Become(s, "noting", d.todo, list)
  <1>1. drains \in [Slots -> DrainRecords] /\ <<>> \in Seq(Messages)
    BY DEF OutboxTyped, DrainsTyped
  <1> HIDE DEF DrainRecords
  <1>2. /\ {"next", "posting", "answered", "removing", "failed", "noting"} \subseteq DrainLabels
        /\ d.todo \in Seq(Messages) /\ d.copy \in Seq(Messages)
    BY DEF DrainRecords, DrainLabels
  <1>3. ASSUME DrainLoad(s)
        PROVE  \/ drains' = [drains EXCEPT ![s] = Idle]
               \/ \E list \in Seq(Messages) :
                    /\ Reads(list) /\ list # <<>>
                    /\ Become(s, "next", list, d.copy)
    <2>1. PICK list \in {record, <<>>} :
            /\ Reads(list)
            /\ drains' = [drains EXCEPT ![s] =
                 IF list = <<>> THEN Idle ELSE [drains[s] EXCEPT !.pc = "next", !.todo = list]]
      BY <1>3 DEF DrainLoad
    <2>2. list \in Seq(Messages)
      BY <2>1, ReadsTyped
    <2>3. WithList(d, "next", list) =
              [pc |-> "next", todo |-> list, copy |-> d.copy, live |-> d.live]
      BY Listed
    <2>4. drains' = [drains EXCEPT ![s] = IF list = <<>> THEN Idle ELSE WithList(d, "next", list)]
      BY <2>1 DEF WithList
    <2>5. QED
      BY <2>1, <2>2, <2>3, <2>4 DEF Become
  <1>4. ASSUME DrainNext(s)
        PROVE  \/ Finish(s)
               \/ /\ d.live /\ d.todo # <<>> /\ UNCHANGED failed
                  /\ Become(s, "posting", d.todo, d.copy)
    <2>1. [d EXCEPT !.pc = "posting"] =
              [pc |-> "posting", todo |-> d.todo, copy |-> d.copy, live |-> d.live]
      BY Relabelled
    <2>2. QED
      BY <1>1, <1>4, <2>1 DEF DrainNext, Become, Move
  <1>5. ASSUME DrainPost(s)
        PROVE  \/ Become(s, "answered", d.todo, d.copy)
               \/ Become(s, "failed", d.todo, d.copy)
    <2>1. /\ [d EXCEPT !.pc = "answered"] =
              [pc |-> "answered", todo |-> d.todo, copy |-> d.copy, live |-> d.live]
          /\ [d EXCEPT !.pc = "failed"] =
              [pc |-> "failed", todo |-> d.todo, copy |-> d.copy, live |-> d.live]
      BY Relabelled
    <2>2. Move(s, "answered") \/ Move(s, "failed")
      BY <1>5 DEF DrainPost
    <2>3. QED
      BY <1>1, <2>1, <2>2 DEF Become, Move
  <1>6. ASSUME DrainAnswered(s)
        PROVE  \/ ~d.live /\ Finish(s)
               \/ /\ d.live
                  /\ \E list \in Seq(Messages) :
                       Reads(list) /\ Become(s, "removing", d.todo, list)
               \/ d.live /\ Become(s, "failed", d.todo, d.copy)
    <2>1. \/ ~d.live /\ Finish(s)
          \/ d.live /\ Move(s, "failed")
          \/ /\ d.live
             /\ \E list \in {record, <<>>} :
                  Reads(list) /\ drains' = [drains EXCEPT ![s].pc = "removing", ![s].copy = list]
      BY <1>6 DEF DrainAnswered
    <2>2. CASE d.live /\ Move(s, "failed")
      <3>1. [d EXCEPT !.pc = "failed"] =
              [pc |-> "failed", todo |-> d.todo, copy |-> d.copy, live |-> d.live]
        BY Relabelled
      <3>2. QED
        BY <1>1, <2>2, <3>1 DEF Become, Move
    <2>3. CASE /\ d.live
               /\ \E list \in {record, <<>>} :
                    Reads(list) /\ drains' = [drains EXCEPT ![s].pc = "removing", ![s].copy = list]
      <3>1. PICK list \in {record, <<>>} :
              Reads(list) /\ drains' = [drains EXCEPT ![s].pc = "removing", ![s].copy = list]
        BY <2>3
      <3>2. list \in Seq(Messages)
        BY <3>1, ReadsTyped
      <3>3. WithCopy(d, "removing", list) =
              [pc |-> "removing", todo |-> d.todo, copy |-> list, live |-> d.live]
        BY Copied
      <3>4. drains' = [drains EXCEPT ![s] = WithCopy(d, "removing", list)]
        BY <1>1, <3>1 DEF WithCopy
      <3>5. Become(s, "removing", d.todo, list)
        BY <3>3, <3>4 DEF Become
      <3>6. QED
        BY <2>3, <3>1, <3>2, <3>5
    <2>4. QED
      BY <2>1, <2>2, <2>3
  <1>7. ASSUME DrainRemove(s), d.todo # <<>> PROVE Become(s, "next", Tail(d.todo), <<>>)
    <2>1. Tail(d.todo) \in Seq(Messages)
      BY <1>2, <1>7, Headed
    <2>2. \A todo, copy : WithBoth(d, "next", todo, copy) =
              [pc |-> "next", todo |-> todo, copy |-> copy, live |-> d.live]
      BY Advanced
    <2>3. drains' = [drains EXCEPT ![s].pc = "next", ![s].todo = Tail(@), ![s].copy = <<>>]
      BY <1>7 DEF DrainRemove
    <2>4. drains' = [drains EXCEPT ![s] = WithBoth(d, "next", Tail(d.todo), <<>>)]
      BY <1>1, <2>3 DEF DrainRecords, WithBoth
    <2>5. QED
      BY <2>2, <2>4 DEF Become
  <1>8. ASSUME DrainFailed(s)
        PROVE  \/ Finish(s)
               \/ \E list \in Seq(Messages) :
                    Reads(list) /\ Become(s, "noting", d.todo, list)
    <2>1. CASE \E list \in {record, <<>>} :
                 Reads(list) /\ drains' = [drains EXCEPT ![s].pc = "noting", ![s].copy = list]
      <3>1. PICK list \in {record, <<>>} :
              Reads(list) /\ drains' = [drains EXCEPT ![s].pc = "noting", ![s].copy = list]
        BY <2>1
      <3>2. list \in Seq(Messages)
        BY <3>1, ReadsTyped
      <3>3. WithCopy(d, "noting", list) =
              [pc |-> "noting", todo |-> d.todo, copy |-> list, live |-> d.live]
        BY Copied
      <3>4. drains' = [drains EXCEPT ![s] = WithCopy(d, "noting", list)]
        BY <1>1, <3>1 DEF WithCopy
      <3>5. Become(s, "noting", d.todo, list)
        BY <3>3, <3>4 DEF Become
      <3>6. QED
        BY <3>1, <3>2, <3>5
    <2>2. QED
      BY <1>8, <2>1 DEF DrainFailed
  <1>9. QED
    BY <1>3, <1>4, <1>5, <1>6, <1>7, <1>8

\* A step of a drain leaves the drains well formed, and the others as they were.
LEMMA DrainStepTyped ==
  ASSUME OutboxTyped, NEW s \in Slots, DrainStep(s)
  PROVE  DrainsTyped' /\ \A t \in Slots \ {s} : drains'[t] = drains[t]
  <1>1. /\ drains \in [Slots -> DrainRecords] /\ \A t \in Slots : HasHead(drains[t])
        /\ <<>> \in Seq(Messages)
    BY DEF OutboxTyped, DrainsTyped
  <1>2. PICK d \in DrainRecords : d = drains[s]
    BY <1>1
  <1>3. /\ d.todo \in Seq(Messages) /\ d.copy \in Seq(Messages) /\ d.live \in BOOLEAN
        /\ HasHead(d)
    BY <1>1, <1>2 DEF DrainRecords
  <1>4. ASSUME NEW e \in DrainRecords, HasHead(e), drains' = [drains EXCEPT ![s] = e]
        PROVE  DrainsTyped' /\ \A t \in Slots \ {s} : drains'[t] = drains[t]
    BY <1>1, <1>4 DEF DrainsTyped
  <1>5. Idle \in DrainRecords /\ HasHead(Idle)
    BY <1>1 DEF Idle, DrainRecords, DrainLabels, HasHead
  <1>6. ASSUME NEW pc \in DrainLabels, NEW todo \in Seq(Messages), NEW copy \in Seq(Messages),
               Become(s, pc, todo, copy), pc = "next" \/ todo # <<>>
        PROVE  DrainsTyped' /\ \A t \in Slots \ {s} : drains'[t] = drains[t]
    <2> DEFINE e == [pc |-> pc, todo |-> todo, copy |-> copy, live |-> d.live]
    <2>1. e \in DrainRecords
      BY <1>3 DEF DrainRecords
    <2>2. HasHead(e)
      BY <1>6 DEF HasHead
    <2>3. drains' = [drains EXCEPT ![s] = e]
      BY <1>2, <1>6 DEF Become
    <2> HIDE DEF e
    <2>4. QED
      BY <1>4, <2>1, <2>2, <2>3
  <1>7. {"next", "posting", "answered", "removing", "failed", "noting"} \subseteq DrainLabels
    BY DEF DrainLabels
  <1>8. ASSUME Finish(s) PROVE DrainsTyped' /\ \A t \in Slots \ {s} : drains'[t] = drains[t]
    BY <1>4, <1>5, <1>8 DEF Finish
  <1>9. CASE DrainLoad(s)
    <2>1. \/ drains' = [drains EXCEPT ![s] = Idle]
          \/ \E list \in Seq(Messages) : Become(s, "next", list, d.copy)
      BY <1>2, <1>9, DrainBecomes
    <2>2. QED
      BY <1>3, <1>4, <1>5, <1>6, <1>7, <2>1
  <1>10. CASE DrainNext(s)
    <2>1. Finish(s) \/ (d.todo # <<>> /\ Become(s, "posting", d.todo, d.copy))
      BY <1>2, <1>10, DrainBecomes
    <2>2. QED
      BY <1>3, <1>6, <1>7, <1>8, <2>1
  <1>11. CASE DrainPost(s)
    <2>1. Become(s, "answered", d.todo, d.copy) \/ Become(s, "failed", d.todo, d.copy)
      BY <1>2, <1>11, DrainBecomes
    <2>2. d.todo # <<>>
      BY <1>2, <1>3, <1>11 DEF DrainPost, HasHead
    <2>3. QED
      BY <1>3, <1>6, <1>7, <2>1, <2>2
  <1>12. CASE DrainAnswered(s)
    <2>1. \/ Finish(s)
          \/ \E list \in Seq(Messages) : Become(s, "removing", d.todo, list)
          \/ Become(s, "failed", d.todo, d.copy)
      BY <1>2, <1>12, DrainBecomes
    <2>2. d.todo # <<>>
      BY <1>2, <1>3, <1>12 DEF DrainAnswered, HasHead
    <2>3. QED
      BY <1>3, <1>6, <1>7, <1>8, <2>1, <2>2
  <1>13. CASE DrainRemove(s)
    <2>1. d.todo # <<>>
      BY <1>2, <1>3, <1>13 DEF DrainRemove, HasHead
    <2>2. Become(s, "next", Tail(d.todo), <<>>) /\ Tail(d.todo) \in Seq(Messages)
      BY <1>2, <1>3, <1>13, <2>1, DrainBecomes, Headed
    <2>3. QED
      BY <1>1, <1>6, <1>7, <2>2
  <1>14. CASE DrainFailed(s)
    <2>1. Finish(s) \/ \E list \in Seq(Messages) : Become(s, "noting", d.todo, list)
      BY <1>2, <1>14, DrainBecomes
    <2>2. d.todo # <<>>
      BY <1>2, <1>3, <1>14 DEF DrainFailed, HasHead
    <2>3. QED
      BY <1>3, <1>6, <1>7, <1>8, <2>1, <2>2
  <1>15. CASE DrainNote(s)
    BY <1>8, <1>15 DEF DrainNote
  <1>16. QED
    BY <1>9, <1>10, <1>11, <1>12, <1>13, <1>14, <1>15 DEF DrainStep

\* A cancelled drain.
Left(d) == [pc |-> d.pc, todo |-> d.todo, copy |-> d.copy, live |-> FALSE]

Loading == [pc |-> "loading", todo |-> <<>>, copy |-> <<>>, live |-> TRUE]

\* Every drain is cancelled when the chat is left.
LEMMA Cancelling ==
  ASSUME DrainsTyped
  PROVE  /\ Cancelled \in [Slots -> DrainRecords]
         /\ \A t \in Slots : Cancelled[t] = Left(drains[t]) /\ HasHead(Cancelled[t])
  <1>1. /\ drains \in [Slots -> DrainRecords] /\ \A t \in Slots : HasHead(drains[t])
    BY DEF DrainsTyped
  <1>2. ASSUME NEW t \in Slots
        PROVE  Cancelled[t] = Left(drains[t]) /\ Left(drains[t]) \in DrainRecords
               /\ HasHead(Left(drains[t]))
    <2>1. PICK d \in DrainRecords : d = drains[t]
      BY <1>1
    <2>2. [d EXCEPT !.live = FALSE] = Left(d)
      BY Detached DEF Left
    <2>3. Cancelled[t] = [d EXCEPT !.live = FALSE]
      BY <2>1 DEF Cancelled
    <2>4. Left(d) \in DrainRecords
      BY DEF Left, DrainRecords
    <2>5. HasHead(Left(d))
      BY <1>1, <2>1 DEF HasHead, Left
    <2>6. QED
      BY <2>1, <2>2, <2>3, <2>4, <2>5
  <1>3. Cancelled = [t \in Slots |-> Cancelled[t]]
    BY DEF Cancelled
  <1>4. QED
    BY <1>2, <1>3

\* A run of the effect cancels every drain, and may start one in an idle slot.
LEMMA Restarting ==
  ASSUME DrainsTyped, Effect
  PROVE  /\ DrainsTyped'
         /\ \E new : \A t \in Slots :
              IF t = new THEN drains[t].pc = "idle" /\ drains'[t] = Loading
                         ELSE drains'[t] = Left(drains[t])
  <1>1. /\ Cancelled \in [Slots -> DrainRecords]
        /\ \A t \in Slots : Cancelled[t] = Left(drains[t]) /\ HasHead(Cancelled[t])
    BY Cancelling
  <1>2. CASE drains' = Cancelled
    <2>1. DrainsTyped'
      BY <1>1, <1>2 DEF DrainsTyped
    <2>2. PICK new : new \notin Slots
      <3>1. \E new : new \notin Slots
        BY NoSetContainsEverything
      <3>2. QED
        BY <3>1
    <2>3. QED
      BY <1>1, <1>2, <2>1, <2>2
  <1>3. CASE /\ Busy # Slots
             /\ LET s == CHOOSE s \in Slots \ Busy : TRUE IN
                  drains' = [Cancelled EXCEPT ![s] = [Idle EXCEPT !.pc = "loading", !.live = TRUE]]
    <2> DEFINE s == CHOOSE s \in Slots \ Busy : TRUE
    <2>1. s \in Slots /\ drains[s].pc = "idle"
      <3>1. \E t \in Slots \ Busy : TRUE
        BY <1>3 DEF Busy
      <3>2. s \in Slots \ Busy
        BY <3>1
      <3>3. QED
        BY <3>2 DEF Busy
    <2>2. [Idle EXCEPT !.pc = "loading", !.live = TRUE] = Loading
      <3> DEFINE u == [Idle EXCEPT !.pc = "loading"]
                 v == [Idle EXCEPT !.pc = "loading", !.live = TRUE]
      <3>1. Idle \in DrainRecords /\ Idle.todo = <<>> /\ Idle.copy = <<>>
        BY DEF Idle, DrainRecords, DrainLabels
      <3>2. u = [pc |-> "loading", todo |-> Idle.todo, copy |-> Idle.copy, live |-> Idle.live]
        BY <3>1, Relabelled
      <3>3. v = [u EXCEPT !.live = TRUE]
        BY <3>1 DEF DrainRecords
      <3>4. u \in DrainRecords /\ u.pc = "loading" /\ u.todo = <<>> /\ u.copy = <<>>
        BY <3>1, <3>2 DEF DrainRecords, DrainLabels
      <3> HIDE DEF u, v
      <3>5. v = [pc |-> u.pc, todo |-> u.todo, copy |-> u.copy, live |-> TRUE]
        BY <3>3, <3>4, Detached
      <3>6. v = Loading
        BY <3>4, <3>5 DEF Loading
      <3>7. QED
        BY <3>6 DEF v
    <2>3. drains' = [Cancelled EXCEPT ![s] = Loading]
      BY <1>3, <2>2
    <2>4. Loading \in DrainRecords /\ HasHead(Loading)
      BY DEF Loading, DrainRecords, DrainLabels, HasHead
    <2> HIDE DEF s
    <2>5. DrainsTyped'
      BY <1>1, <2>1, <2>3, <2>4 DEF DrainsTyped
    <2>6. \A t \in Slots : IF t = s THEN drains[t].pc = "idle" /\ drains'[t] = Loading
                                    ELSE drains'[t] = Left(drains[t])
      BY <1>1, <2>1, <2>3
    <2>7. QED
      BY <2>5, <2>6
  <1>4. QED
    BY <1>2, <1>3 DEF Effect

\* How many drains there are of a kind.
LEMMA SomeSlots ==
  ASSUME NEW S, S \subseteq Slots
  PROVE  IsFiniteSet(S) /\ Cardinality(S) \in Nat
  BY OutboxBoundsAssumption, FS_Subset, FS_CardinalityType

\* A draft moves on, without leaving the queue.
LEMMA DraftMoves ==
  ASSUME DraftsTyped, NEW m \in Messages, drafts[m].pc # "queued", UNCHANGED accepted,
         NEW label \in {"sending", "left", "sent", "gone", "draft"},
         drafts' = [drafts EXCEPT ![m].pc = label]
  PROVE  /\ DraftsTyped'
         /\ drafts'[m].pc = label /\ \A k \in Messages \ {m} : drafts'[k] = drafts[k]
  <1>1. drafts \in [Messages -> DraftRecords]
    BY DEF DraftsTyped
  <1>2. drafts' \in [Messages -> DraftRecords]
    BY <1>1 DEF DraftRecords
  <1>3. drafts'[m].pc = label /\ \A k \in Messages \ {m} : drafts'[k] = drafts[k]
    BY <1>1 DEF DraftRecords
  <1>4. m \notin ToSet(accepted)
    BY DEF DraftsTyped, AcceptedQueued
  <1>5. AcceptedQueued'
    BY <1>1, <1>3, <1>4 DEF DraftsTyped, AcceptedQueued, DraftRecords
  <1>6. QED
    BY <1>2, <1>3, <1>5 DEF DraftsTyped

\* The drafts at the start and the end of an enqueue.
LEMMA DraftEnqueued ==
  ASSUME DraftsTyped, NEW m \in Messages, drafts[m].pc # "queued",
         NEW list \in Seq(Messages),
         \/ /\ UNCHANGED accepted
            /\ drafts' = [drafts EXCEPT ![m] = [pc |-> "loaded", copy |-> list]]
         \/ /\ accepted' = Append(accepted, m) /\ accepted \in Seq(Messages)
            /\ drafts' = [drafts EXCEPT ![m] = [pc |-> "queued", copy |-> list]]
  PROVE  /\ DraftsTyped' /\ m \notin ToSet(accepted)
         /\ drafts'[m].pc \in {"loaded", "queued"}
         /\ \A k \in Messages \ {m} : drafts'[k] = drafts[k]
  <1>1. drafts \in [Messages -> DraftRecords]
    BY DEF DraftsTyped
  <1>2. m \notin ToSet(accepted)
    BY DEF DraftsTyped, AcceptedQueued
  <1>3. /\ [pc |-> "loaded", copy |-> list] \in DraftRecords
        /\ [pc |-> "queued", copy |-> list] \in DraftRecords
    BY DEF DraftRecords
  <1>4. CASE /\ UNCHANGED accepted
             /\ drafts' = [drafts EXCEPT ![m] = [pc |-> "loaded", copy |-> list]]
    <2>1. /\ drafts' \in [Messages -> DraftRecords]
          /\ drafts'[m].pc = "loaded" /\ \A k \in Messages \ {m} : drafts'[k] = drafts[k]
      BY <1>1, <1>3, <1>4
    <2>2. AcceptedQueued'
      BY <1>1, <1>2, <1>4, <2>1 DEF DraftsTyped, AcceptedQueued
    <2>3. QED
      BY <1>2, <2>1, <2>2 DEF DraftsTyped
  <1>5. CASE /\ accepted' = Append(accepted, m) /\ accepted \in Seq(Messages)
             /\ drafts' = [drafts EXCEPT ![m] = [pc |-> "queued", copy |-> list]]
    <2>1. /\ drafts' \in [Messages -> DraftRecords]
          /\ drafts'[m].pc = "queued" /\ \A k \in Messages \ {m} : drafts'[k] = drafts[k]
      BY <1>1, <1>3, <1>5
    <2>2. ToSet(accepted') = ToSet(accepted) \cup {m}
      BY <1>5, Appended
    <2>3. \A k \in ToSet(accepted) : k \in DOMAIN drafts
      BY <1>5, <1>1 DEF ToSet
    <2>4. AcceptedQueued'
      BY <1>1, <1>2, <2>1, <2>2, <2>3 DEF DraftsTyped, AcceptedQueued
    <2>5. QED
      BY <1>2, <2>1, <2>4 DEF DraftsTyped
  <1>6. QED
    BY <1>4, <1>5

\* The drafts when the chat is left and when the tab dies.
LEMMA DraftsDropped ==
  ASSUME DraftsTyped, accepted \in Seq(Messages), UNCHANGED accepted,
         \/ drafts' = [m \in Messages |->
              IF drafts[m].pc = "sending" THEN [drafts[m] EXCEPT !.pc = "left"] ELSE drafts[m]]
         \/ drafts' = [m \in Messages |->
              IF drafts[m].pc \in {"loaded", "sending", "left"} THEN Draft ELSE drafts[m]]
  PROVE  /\ DraftsTyped'
         /\ \A m \in Messages : drafts'[m].pc = "sent" <=> drafts[m].pc = "sent"
  <1>1. drafts \in [Messages -> DraftRecords]
    BY DEF DraftsTyped
  <1>2. Draft \in DraftRecords /\ Draft.pc = "draft"
    BY DEF Draft, DraftRecords
  <1>3. \A d \in DraftRecords : /\ [d EXCEPT !.pc = "left"] \in DraftRecords
                                /\ [d EXCEPT !.pc = "left"].pc = "left"
    BY DEF DraftRecords
  <1>4. ASSUME NEW m \in Messages
        PROVE  /\ drafts'[m] \in DraftRecords
               /\ drafts'[m].pc = "sent" <=> drafts[m].pc = "sent"
               /\ drafts[m].pc = "queued" => drafts'[m].pc = "queued"
    <2>1. drafts[m] \in DraftRecords
      BY <1>1
    <2>2. \/ drafts'[m] = drafts[m]
          \/ drafts[m].pc = "sending" /\ drafts'[m] = [drafts[m] EXCEPT !.pc = "left"]
          \/ drafts[m].pc \in {"loaded", "sending", "left"} /\ drafts'[m] = Draft
      OBVIOUS
    <2>3. QED
      BY <1>2, <1>3, <2>1, <2>2
  <1>5. drafts' \in [Messages -> DraftRecords]
    BY <1>4
  <1>6. \A m \in ToSet(accepted) : m \in Messages
    BY DEF ToSet
  <1>7. AcceptedQueued'
    BY <1>4, <1>6 DEF DraftsTyped, AcceptedQueued
  <1>8. QED
    BY <1>4, <1>5, <1>7 DEF DraftsTyped

\* An action of a draft preserves the types.
LEMMA DraftStepTyped ==
  ASSUME OutboxTyped, NEW m \in Messages,
         EnqueueLoad(m) \/ EnqueueStore(m) \/ DirectPrepare(m) \/ DirectPost(m)
  PROVE  OutboxTyped'
  <1>1. /\ ListsTyped /\ DraftsTyped /\ DrainsTyped /\ SignalsTyped
        /\ <<>> \in Seq(Messages)
    BY DEF OutboxTyped
  <1>2. ASSUME UNCHANGED drains PROVE DrainsTyped'
    BY <1>1, <1>2 DEF DrainsTyped
  <1>3. ASSUME UNCHANGED <<record, posted, accepted>> PROVE ListsTyped'
    BY <1>1, <1>3 DEF ListsTyped
  <1>4. CASE EnqueueLoad(m)
    <2>1. PICK list \in {record, <<>>} :
            Reads(list) /\ drafts' = [drafts EXCEPT ![m] = [pc |-> "loaded", copy |-> list]]
      BY <1>4 DEF EnqueueLoad
    <2>2. list \in Seq(Messages) /\ mishaps' \in Nat /\ unreadable' \in BOOLEAN
      BY <2>1, ReadsTyped
    <2>3. drafts[m].pc # "queued" /\ UNCHANGED <<accepted, drains, record, posted, raced, networkVars, historyVars>>
      BY <1>4 DEF EnqueueLoad, Composed, historyVars
    <2>4. DraftsTyped'
      BY <1>1, <2>1, <2>2, <2>3, DraftEnqueued
    <2>5. SignalsTyped'
      BY <1>1, <2>2, <2>3 DEF SignalsTyped, networkVars, historyVars
    <2>6. QED
      BY <1>2, <1>3, <2>3, <2>4, <2>5 DEF OutboxTyped
  <1>5. CASE EnqueueStore(m)
    <2>1. /\ drafts[m].pc = "loaded" /\ Stores(Append(drafts[m].copy, m), drafts[m].copy)
          /\ accepted' = Append(accepted, m)
          /\ drafts' = [drafts EXCEPT ![m] = [pc |-> "queued", copy |-> <<>>]]
          /\ late' = (late \/ shown \in {"online", "unreachable"})
          /\ UNCHANGED <<posted, drains, networkVars, direct, stopped, doubtful>>
      BY <1>5 DEF EnqueueStore
    <2>2. DraftsTyped' /\ m \notin ToSet(accepted)
      BY <1>1, <2>1, DraftEnqueued DEF ListsTyped
    <2>3. drafts[m].copy \in Seq(Messages)
      BY <1>1 DEF DraftsTyped, DraftRecords
    <2>4. Append(drafts[m].copy, m) \in Seq(Messages)
      BY <2>3
    <2>5. /\ record' \in Seq(Messages) /\ mishaps' \in Nat
          /\ raced' \in BOOLEAN /\ unreadable' \in BOOLEAN
      BY <2>1, <2>4, StoresTyped
    <2>6. accepted' \in Seq(Messages) /\ IsInjective(accepted')
      BY <1>1, <2>1, <2>2, Appended DEF ListsTyped
    <2>7. ListsTyped'
      BY <1>1, <2>1, <2>5, <2>6 DEF ListsTyped
    <2>8. late' \in BOOLEAN
      BY <2>1
    <2>9. SignalsTyped'
      BY <1>1, <2>1, <2>5, <2>8 DEF SignalsTyped, networkVars
    <2>10. QED
      BY <1>2, <2>1, <2>2, <2>7, <2>9 DEF OutboxTyped
  <1>6. CASE DirectPrepare(m)
    <2>1. /\ drafts[m].pc # "queued" /\ drafts' = [drafts EXCEPT ![m].pc = "sending"]
          /\ UNCHANGED <<queueVars, posted, drains, networkVars, historyVars, mishaps>>
      BY <1>6 DEF DirectPrepare, Composed
    <2>2. DraftsTyped'
      BY <1>1, <2>1, DraftMoves DEF historyVars
    <2>3. SignalsTyped' /\ ListsTyped' /\ DrainsTyped'
      BY <1>1, <1>2, <1>3, <2>1 DEF SignalsTyped, queueVars, networkVars, historyVars
    <2>4. QED
      BY <2>2, <2>3 DEF OutboxTyped
  <1>7. CASE DirectPost(m)
    <2>1. PICK label \in {"sending", "left", "sent", "gone", "draft"} :
            drafts' = [drafts EXCEPT ![m].pc = label]
      BY <1>7 DEF DirectPost
    <2>2. /\ drafts[m].pc # "queued"
          /\ UNCHANGED <<queueVars, drains, browser, shown, accepted, late>>
      BY <1>7 DEF DirectPost
    <2>3. DraftsTyped'
      BY <1>1, <2>1, <2>2, DraftMoves
    <2>4. posted' = posted \/ posted' = Append(posted, m)
      BY <1>7 DEF DirectPost
    <2>5. posted' \in Seq(Messages)
      BY <1>1, <2>4 DEF ListsTyped
    <2>6. ListsTyped'
      BY <1>1, <2>2, <2>5 DEF ListsTyped, queueVars
    <2>7. /\ direct' = direct \/ direct' = direct \cup {m}
          /\ stopped' = stopped \/ stopped' = Resumed
          /\ failed' \in {failed, TRUE}
          /\ doubtful' = doubtful \/ doubtful' = doubtful + 1
          /\ mishaps' = mishaps \/ mishaps' = mishaps + 1
      BY <1>7 DEF DirectPost, Mishap
    <2>8. direct' \subseteq Messages /\ doubtful' \in Nat /\ mishaps' \in Nat
      BY <1>1, <2>7 DEF SignalsTyped
    <2>9. stopped' \in {"never", "paused", "resumed"}
      BY <1>1, <2>7 DEF SignalsTyped, Resumed
    <2>10. failed' \in BOOLEAN
      BY <1>1, <2>7 DEF SignalsTyped
    <2>11. SignalsTyped'
      BY <1>1, <2>2, <2>8, <2>9, <2>10 DEF SignalsTyped, queueVars
    <2>12. QED
      BY <1>2, <2>2, <2>3, <2>6, <2>11 DEF OutboxTyped
  <1>8. QED
    BY <1>4, <1>5, <1>6, <1>7

\* A list of the queue names accepted messages, each once.
Kept(list, names) ==
  list \in Seq(Messages) /\ IsInjective(list) /\ ToSet(list) \subseteq ToSet(names)

QueuesKept ==
  /\ Kept(record, accepted)
  /\ \A s \in Slots : Kept(drains[s].todo, accepted) /\ Kept(drains[s].copy, accepted)
  /\ \A m \in Messages : Kept(drafts[m].copy, accepted)

\* What a step of a drain does to the record and to its history.
LEMMA DrainWrites ==
  ASSUME OutboxTyped, QueuesKept, NEW s \in Slots, DrainStep(s)
  PROVE  /\ Kept(record', accepted) /\ mishaps' \in Nat
         /\ raced' \in BOOLEAN /\ unreadable' \in BOOLEAN
         /\ Undisturbed' => /\ Undisturbed
                            /\ \/ record' = record
                               \/ /\ DrainRemove(s)
                                  /\ record' = RemoveFirst(record, Head(drains[s].todo))
  <1> DEFINE Goal(remove) ==
               /\ Kept(record', accepted) /\ mishaps' \in Nat
               /\ raced' \in BOOLEAN /\ unreadable' \in BOOLEAN
               /\ Undisturbed' => /\ Undisturbed
                                  /\ \/ record' = record
                                     \/ remove /\ record' = RemoveFirst(record, Head(drains[s].todo))
  <1>1. /\ record \in Seq(Messages) /\ mishaps \in Nat /\ raced \in BOOLEAN
        /\ unreadable \in BOOLEAN /\ Kept(record, accepted)
        /\ Kept(drains[s].copy, accepted)
    BY DEF OutboxTyped, ListsTyped, SignalsTyped, QueuesKept
  <1>2. ASSUME UNCHANGED <<record, raced, mishaps, unreadable>> PROVE Goal(FALSE)
    BY <1>1, <1>2 DEF Undisturbed
  <1>3. ASSUME UNCHANGED <<record, raced, unreadable>>, Mishap PROVE Goal(FALSE)
    BY <1>1, <1>3 DEF Undisturbed, Mishap
  <1>4. ASSUME UNCHANGED <<record, raced>>, NEW list, Reads(list) PROVE Goal(FALSE)
    <2>1. /\ mishaps' \in Nat /\ unreadable' \in BOOLEAN
          /\ unreadable' = FALSE => unreadable = FALSE
      BY <1>4, ReadsTyped
    <2>2. Undisturbed' => Undisturbed
      BY <1>1, <1>4, <2>1 DEF Undisturbed
    <2>3. QED
      BY <1>1, <1>4, <2>1, <2>2
  <1>5. ASSUME NEW list, Kept(list, accepted), Stores(list, drains[s].copy)
        PROVE  /\ Kept(record', accepted) /\ mishaps' \in Nat
               /\ raced' \in BOOLEAN /\ unreadable' \in BOOLEAN
               /\ Undisturbed' => Undisturbed /\ record' = list /\ record = drains[s].copy
    <2>1. list \in Seq(Messages)
      BY <1>5 DEF Kept
    <2>2. /\ mishaps' \in Nat /\ raced' \in BOOLEAN /\ unreadable' \in BOOLEAN
          /\ Undisturbed' => Undisturbed /\ record' = list /\ record = drains[s].copy
      BY <1>5, <2>1, StoresTyped
    <2>3. record' = list \/ record' = record
      BY <1>5 DEF Stores
    <2>4. Kept(record', accepted)
      BY <1>1, <1>5, <2>3
    <2>5. QED
      BY <2>2, <2>4
  <1> HIDE DEF Goal
  <1>6. CASE DrainLoad(s)
    BY <1>4, <1>6 DEF DrainLoad, Goal
  <1>7. CASE DrainNext(s)
    BY <1>2, <1>7 DEF DrainNext, queueVars, Goal
  <1>8. CASE DrainPost(s)
    BY <1>2, <1>3, <1>8 DEF DrainPost, queueVars, Goal
  <1>9. CASE DrainAnswered(s)
    <2>1. UNCHANGED <<record, raced>>
      BY <1>9 DEF DrainAnswered
    <2>2. \/ UNCHANGED <<mishaps, unreadable>> \/ (\E list : Reads(list))
          \/ (Mishap /\ UNCHANGED unreadable)
      BY <1>9 DEF DrainAnswered
    <2>3. Goal(FALSE)
      BY <1>2, <1>3, <1>4, <2>1, <2>2
    <2>4. QED
      BY <2>3 DEF Goal
  <1>10. CASE DrainRemove(s)
    <2> DEFINE e == Head(drains[s].todo)
               list == RemoveFirst(drains[s].copy, e)
    <2>1. Stores(list, drains[s].copy)
      BY <1>10 DEF DrainRemove
    <2>2. Kept(list, accepted)
      BY <1>1, Removed DEF Kept
    <2>3. /\ Kept(record', accepted) /\ mishaps' \in Nat
          /\ raced' \in BOOLEAN /\ unreadable' \in BOOLEAN
          /\ Undisturbed' => Undisturbed /\ record' = list /\ record = drains[s].copy
      <3> HIDE DEF list
      <3>1. QED
        BY <1>5, <2>1, <2>2
    <2>4. QED
      BY <1>10, <2>3
  <1>11. CASE DrainFailed(s)
    <2>1. UNCHANGED <<record, raced>>
      BY <1>11 DEF DrainFailed
    <2>2. UNCHANGED <<mishaps, unreadable>> \/ \E list : Reads(list)
      BY <1>11 DEF DrainFailed
    <2>3. Goal(FALSE)
      BY <1>2, <1>4, <2>1, <2>2
    <2>4. QED
      BY <2>3 DEF Goal
  <1>12. CASE DrainNote(s)
    <2>1. \/ Stores(drains[s].copy, drains[s].copy)
          \/ UNCHANGED <<record, raced, mishaps, unreadable>>
      BY <1>12 DEF DrainNote, queueVars
    <2>2. CASE Stores(drains[s].copy, drains[s].copy)
      BY <1>1, <1>5, <2>2
    <2>3. CASE UNCHANGED <<record, raced, mishaps, unreadable>>
      BY <1>2, <2>3 DEF Goal
    <2>4. QED
      BY <2>1, <2>2, <2>3
  <1>13. QED
    BY <1>6, <1>7, <1>8, <1>9, <1>10, <1>11, <1>12 DEF DrainStep

\* A step of a drain preserves the types.
LEMMA DrainTyped ==
  ASSUME OutboxTyped, QueuesKept, NEW s \in Slots, DrainStep(s)
  PROVE  OutboxTyped'
  <1>1. ListsTyped /\ DraftsTyped /\ DrainsTyped /\ SignalsTyped
    BY DEF OutboxTyped
  <1>2. DrainsTyped'
    BY DrainStepTyped
  <1>3. UNCHANGED <<drafts, browser, shown, accepted, direct, late>>
    BY DEF DrainStep, DrainLoad, DrainNext, DrainPost, DrainAnswered, DrainRemove, DrainFailed,
           DrainNote, historyVars, networkVars
  <1>4. DraftsTyped'
    BY <1>1, <1>3 DEF DraftsTyped, AcceptedQueued
  <1>5. failed' \in BOOLEAN
    BY <1>1 DEF DrainStep, DrainLoad, DrainNext, DrainPost, DrainAnswered, DrainRemove,
                DrainFailed, DrainNote, SignalsTyped, networkVars, Finish
  <1>6. stopped' \in {"never", "paused", "resumed"}
    BY <1>1 DEF DrainStep, DrainLoad, DrainNext, DrainPost, DrainAnswered, DrainRemove,
                DrainFailed, DrainNote, SignalsTyped, historyVars, Resumed
  <1>7. doubtful' \in Nat
    <2>1. doubtful' = doubtful \/ doubtful' = doubtful + 1
      BY DEF DrainStep, DrainLoad, DrainNext, DrainPost, DrainAnswered, DrainRemove,
             DrainFailed, DrainNote, historyVars
    <2>2. QED
      BY <1>1, <2>1 DEF SignalsTyped
  <1>8. /\ Kept(record', accepted) /\ mishaps' \in Nat
        /\ raced' \in BOOLEAN /\ unreadable' \in BOOLEAN
    BY DrainWrites
  <1>9. posted' = posted \/ (DrainPost(s) /\ posted' = Append(posted, Head(drains[s].todo)))
    BY DEF DrainStep, DrainLoad, DrainNext, DrainPost, DrainAnswered, DrainRemove,
           DrainFailed, DrainNote
  <1>10. posted' \in Seq(Messages)
    <2>1. CASE DrainPost(s)
      <3>1. drains[s].todo \in Seq(Messages) /\ drains[s].todo # <<>>
        BY <1>1, <2>1 DEF DrainPost, DrainsTyped, HasHead, DrainRecords
      <3>2. Head(drains[s].todo) \in Messages
        BY <3>1, Headed
      <3>3. QED
        BY <1>1, <1>9, <3>2 DEF ListsTyped
    <2>2. QED
      BY <1>1, <1>9, <2>1 DEF ListsTyped
  <1>11. ListsTyped' /\ SignalsTyped'
    BY <1>1, <1>3, <1>5, <1>6, <1>7, <1>8, <1>10 DEF ListsTyped, SignalsTyped, Kept
  <1>12. QED
    BY <1>2, <1>4, <1>11 DEF OutboxTyped

\* So does everything else.
LEMMA RestTyped ==
  ASSUME OutboxTyped, Effect \/ Leave \/ GoOffline \/ GoOnline \/ OtherRequest \/ Crash
  PROVE  OutboxTyped'
  <1>1. ListsTyped /\ DraftsTyped /\ DrainsTyped /\ SignalsTyped
    BY DEF OutboxTyped
  <1>2. UNCHANGED <<queueVars, posted, accepted, direct, late>>
    BY DEF Effect, Leave, GoOffline, GoOnline, OtherRequest, Crash, historyVars
  <1>3. ListsTyped'
    BY <1>1, <1>2 DEF ListsTyped, queueVars
  <1>4. mishaps' \in Nat /\ stopped' \in {"never", "paused", "resumed"}
    BY <1>1 DEF Effect, Leave, GoOffline, GoOnline, OtherRequest, Crash, historyVars, Mishap,
                SignalsTyped, Resumed
  <1>5. /\ browser' \in BOOLEAN /\ failed' \in BOOLEAN
    BY <1>1 DEF Effect, Leave, GoOffline, GoOnline, OtherRequest, Crash, SignalsTyped
  <1>6. shown' \in {"closed", "offline", "unreachable", "online"}
    <2>1. Status \in {"offline", "unreachable", "online"}
      BY <1>1 DEF Status, SignalsTyped
    <2>2. shown' \in {shown, Status, "closed"}
      BY DEF Effect, Leave, GoOffline, GoOnline, OtherRequest, Crash
    <2>3. QED
      BY <1>1, <2>1, <2>2 DEF SignalsTyped
  <1>7. doubtful' \in Nat
    <2>1. \/ doubtful' = doubtful
          \/ doubtful' = doubtful + Cardinality({s \in Sending : drains[s].live})
          \/ doubtful' = doubtful + Cardinality({s \in Slots : drains[s].pc \in {"answered", "removing"}
                                                                 /\ drains[s].live})
      BY DEF Effect, Leave, GoOffline, GoOnline, OtherRequest, Crash, historyVars
    <2>2. /\ Cardinality({s \in Sending : drains[s].live}) \in Nat
          /\ Cardinality({s \in Slots : drains[s].pc \in {"answered", "removing"}
                                                                 /\ drains[s].live}) \in Nat
      BY SomeSlots DEF Sending
    <2>3. QED
      BY <1>1, <2>1, <2>2 DEF SignalsTyped
  <1>8. SignalsTyped'
    BY <1>1, <1>2, <1>4, <1>5, <1>6, <1>7 DEF SignalsTyped, queueVars
  <1>9. DraftsTyped'
    <2>1. UNCHANGED drafts \/ Leave \/ Crash
      BY DEF Effect, GoOffline, GoOnline, OtherRequest
    <2>2. CASE UNCHANGED drafts
      BY <1>1, <1>2, <2>2 DEF DraftsTyped, AcceptedQueued
    <2>3. CASE Leave \/ Crash
      BY <1>1, <1>2, <2>3, DraftsDropped DEF Leave, Crash, ListsTyped
    <2>4. QED
      BY <2>1, <2>2, <2>3
  <1>10. DrainsTyped'
    <2>1. CASE UNCHANGED drains
      BY <1>1, <2>1 DEF DrainsTyped
    <2>2. CASE Effect
      BY <1>1, <2>2, Restarting
    <2>3. CASE Leave
      BY <1>1, <2>3, Cancelling DEF Leave, DrainsTyped
    <2>4. CASE Crash
      <3>1. Idle \in DrainRecords /\ HasHead(Idle)
        BY DEF Idle, DrainRecords, DrainLabels, HasHead
      <3>2. QED
        BY <2>4, <3>1 DEF Crash, DrainsTyped
    <2>5. QED
      BY <2>1, <2>2, <2>3, <2>4 DEF GoOffline, GoOnline, OtherRequest
  <1>11. QED
    BY <1>3, <1>8, <1>9, <1>10 DEF OutboxTyped

\* A drain of which nothing is asked keeps its lists or loses them.
LEMMA RestLists ==
  ASSUME OutboxTyped,
         Effect \/ Leave \/ GoOffline \/ GoOnline \/ OtherRequest \/ Crash
  PROVE  \A t \in Slots : /\ drains'[t].todo \in {drains[t].todo, <<>>}
                         /\ drains'[t].copy \in {drains[t].copy, <<>>}
  <1>0. DrainsTyped
    BY DEF OutboxTyped
  <1>1. CASE UNCHANGED drains
    BY <1>1
  <1>2. CASE Effect
    <2>1. PICK new : \A t \in Slots :
            IF t = new THEN drains[t].pc = "idle" /\ drains'[t] = Loading
                       ELSE drains'[t] = Left(drains[t])
      BY <1>0, <1>2, Restarting
    <2>2. Loading.todo = <<>> /\ Loading.copy = <<>>
      BY DEF Loading
    <2>3. \A d : Left(d).todo = d.todo /\ Left(d).copy = d.copy
      BY DEF Left
    <2>4. QED
      BY <2>1, <2>2, <2>3
  <1>3. CASE Leave
    BY <1>0, <1>3, Cancelling DEF Leave, Left
  <1>4. CASE Crash
    BY <1>4 DEF Crash, Idle
  <1>5. QED
    BY <1>1, <1>2, <1>3, <1>4 DEF GoOffline, GoOnline, OtherRequest

\* The empty list, and a list when more has been accepted.
LEMMA KeptFacts ==
  /\ \A names : Kept(<<>>, names)
  /\ \A list, names, more : Kept(list, names) /\ ToSet(names) \subseteq ToSet(more) => Kept(list, more)
  <1>1. <<>> \in Seq(Messages) /\ DOMAIN <<>> = {}
    OBVIOUS
  <1>2. IsInjective(<<>>) /\ ToSet(<<>>) = {}
    BY <1>1 DEF IsInjective, ToSet
  <1>3. QED
    BY <1>1, <1>2 DEF Kept

\* The lists of the queue stay so when a draft moves,
LEMMA DraftKeeps ==
  ASSUME OutboxTyped, QueuesKept, NEW m \in Messages,
         EnqueueLoad(m) \/ EnqueueStore(m) \/ DirectPrepare(m) \/ DirectPost(m)
  PROVE  QueuesKept'
  <1>1. /\ DraftsTyped /\ Kept(record, accepted) /\ accepted \in Seq(Messages)
        /\ \A s \in Slots : Kept(drains[s].todo, accepted) /\ Kept(drains[s].copy, accepted)
        /\ \A k \in Messages : Kept(drafts[k].copy, accepted)
    BY DEF OutboxTyped, ListsTyped, QueuesKept
  <1>2. drains' = drains
    BY DEF EnqueueLoad, EnqueueStore, DirectPrepare, DirectPost
  <1>3. drafts \in [Messages -> DraftRecords]
    BY <1>1 DEF DraftsTyped
  <1>4. CASE EnqueueLoad(m)
    <2>1. PICK list \in {record, <<>>} :
            drafts' = [drafts EXCEPT ![m] = [pc |-> "loaded", copy |-> list]]
      BY <1>4 DEF EnqueueLoad
    <2>2. UNCHANGED <<record, accepted>>
      BY <1>4 DEF EnqueueLoad, historyVars
    <2>3. \A k \in Messages : drafts'[k].copy \in {drafts[k].copy, record, <<>>}
      BY <1>3, <2>1
    <2>4. QED
      BY <1>1, <1>2, <2>2, <2>3, KeptFacts DEF QueuesKept
  <1>5. CASE EnqueueStore(m)
    <2> DEFINE list == Append(drafts[m].copy, m)
    <2>1. /\ record' = record \/ record' = list
          /\ accepted' = Append(accepted, m) /\ drafts[m].pc = "loaded"
          /\ drafts' = [drafts EXCEPT ![m] = [pc |-> "queued", copy |-> <<>>]]
      BY <1>5 DEF EnqueueStore, Stores
    <2>2. m \notin ToSet(accepted)
      BY <1>1, <2>1 DEF DraftsTyped, AcceptedQueued
    <2>3. ToSet(accepted') = ToSet(accepted) \cup {m}
      BY <1>1, <2>1, Appended
    <2>4. Kept(list, accepted')
      <3>1. Kept(drafts[m].copy, accepted)
        BY <1>1
      <3>2. QED
        BY <2>2, <2>3, <3>1, Appended DEF Kept
    <2> HIDE DEF list
    <2>5. \A k \in Messages : drafts'[k].copy \in {drafts[k].copy, <<>>}
      BY <1>3, <2>1
    <2>6. \A seq : Kept(seq, accepted) => Kept(seq, accepted')
      BY <2>3, KeptFacts
    <2>7. QED
      BY <1>1, <1>2, <2>1, <2>4, <2>5, <2>6, KeptFacts DEF QueuesKept
  <1>6. CASE DirectPrepare(m) \/ DirectPost(m)
    <2>1. UNCHANGED <<record, accepted>>
      BY <1>6 DEF DirectPrepare, DirectPost, queueVars, historyVars
    <2>2. \E label : drafts' = [drafts EXCEPT ![m].pc = label]
      BY <1>6 DEF DirectPrepare, DirectPost
    <2>3. \A k \in Messages : drafts'[k].copy = drafts[k].copy
      BY <1>3, <2>2 DEF DraftRecords
    <2>4. QED
      BY <1>1, <1>2, <2>1, <2>3 DEF QueuesKept
  <1>7. QED
    BY <1>4, <1>5, <1>6

\* when a drain takes a step,
LEMMA DrainKeeps ==
  ASSUME OutboxTyped, QueuesKept, NEW s \in Slots, DrainStep(s)
  PROVE  QueuesKept'
  <1>1. /\ Kept(record, accepted) /\ drains \in [Slots -> DrainRecords]
        /\ \A t \in Slots : Kept(drains[t].todo, accepted) /\ Kept(drains[t].copy, accepted)
        /\ \A k \in Messages : Kept(drafts[k].copy, accepted)
        /\ HasHead(drains[s])
    BY DEF OutboxTyped, DrainsTyped, QueuesKept
  <1>2. UNCHANGED <<drafts, accepted>>
    BY DEF DrainStep, DrainLoad, DrainNext, DrainPost, DrainAnswered, DrainRemove, DrainFailed,
           DrainNote, historyVars
  <1>3. Kept(record', accepted)
    BY DrainWrites
  <1>4. PICK d \in DrainRecords : d = drains[s]
    BY <1>1
  <1>5. ASSUME NEW pc, NEW todo, NEW copy, Kept(todo, accepted), Kept(copy, accepted),
               Become(s, pc, todo, copy)
        PROVE  QueuesKept'
    <2>1. /\ drains'[s].todo = todo /\ drains'[s].copy = copy
          /\ \A t \in Slots \ {s} : drains'[t] = drains[t]
      BY <1>1, <1>5 DEF Become
    <2>2. QED
      BY <1>1, <1>2, <1>3, <1>5, <2>1 DEF QueuesKept
  <1>6. ASSUME drains' = [drains EXCEPT ![s] = Idle] PROVE QueuesKept'
    <2>1. /\ drains'[s].todo = <<>> /\ drains'[s].copy = <<>>
          /\ \A t \in Slots \ {s} : drains'[t] = drains[t]
      BY <1>1, <1>6 DEF Idle
    <2>2. QED
      BY <1>1, <1>2, <1>3, <2>1, KeptFacts DEF QueuesKept
  <1>7. ASSUME NEW list, Reads(list) PROVE Kept(list, accepted)
    BY <1>1, <1>7, KeptFacts DEF Reads
  <1>8. Kept(d.todo, accepted) /\ Kept(d.copy, accepted)
    BY <1>1, <1>4
  <1>9. Finish(s) => QueuesKept'
    BY <1>6 DEF Finish
  <1>10. CASE DrainLoad(s)
    BY <1>4, <1>5, <1>6, <1>7, <1>8, <1>10, DrainBecomes
  <1>11. CASE DrainNext(s)
    BY <1>4, <1>5, <1>8, <1>9, <1>11, DrainBecomes
  <1>12. CASE DrainPost(s)
    BY <1>4, <1>5, <1>8, <1>12, DrainBecomes
  <1>13. CASE DrainAnswered(s)
    <2>1. \/ Finish(s)
          \/ \E list \in Seq(Messages) : Reads(list) /\ Become(s, "removing", d.todo, list)
          \/ Become(s, "failed", d.todo, d.copy)
      BY <1>4, <1>13, DrainBecomes
    <2>2. QED
      BY <1>5, <1>7, <1>8, <1>9, <2>1
  <1>14. CASE DrainRemove(s)
    <2>1. d.todo # <<>> /\ d.todo \in Seq(Messages)
      BY <1>1, <1>4, <1>14 DEF DrainRemove, HasHead, DrainRecords
    <2>2. Become(s, "next", Tail(d.todo), <<>>)
      BY <1>4, <1>14, <2>1, DrainBecomes
    <2>3. Kept(Tail(d.todo), accepted)
      BY <1>8, <2>1, Headed DEF Kept
    <2>4. QED
      BY <1>5, <2>2, <2>3, KeptFacts
  <1>15. CASE DrainFailed(s)
    BY <1>4, <1>5, <1>7, <1>8, <1>9, <1>15, DrainBecomes
  <1>16. CASE DrainNote(s)
    BY <1>9, <1>16 DEF DrainNote
  <1>17. QED
    BY <1>10, <1>11, <1>12, <1>13, <1>14, <1>15, <1>16 DEF DrainStep

\* and in every other case.
LEMMA RestKeeps ==
  ASSUME OutboxTyped, QueuesKept,
         Effect \/ Leave \/ GoOffline \/ GoOnline \/ OtherRequest \/ Crash
  PROVE  QueuesKept'
  <1>1. /\ Kept(record, accepted) /\ DrainsTyped /\ DraftsTyped
        /\ \A t \in Slots : Kept(drains[t].todo, accepted) /\ Kept(drains[t].copy, accepted)
        /\ \A k \in Messages : Kept(drafts[k].copy, accepted)
    BY DEF OutboxTyped, QueuesKept
  <1>2. UNCHANGED <<record, accepted>>
    BY DEF Effect, Leave, GoOffline, GoOnline, OtherRequest, Crash, historyVars, queueVars
  <1>3. \A k \in Messages : drafts'[k].copy \in {drafts[k].copy, <<>>}
    <2>1. CASE UNCHANGED drafts
      BY <2>1
    <2>2. CASE Leave
      <3>1. \A d \in DraftRecords : [d EXCEPT !.pc = "left"].copy = d.copy
        BY DEF DraftRecords
      <3>2. \A k \in Messages : drafts'[k] = drafts[k] \/ drafts'[k] = [drafts[k] EXCEPT !.pc = "left"]
        BY <2>2 DEF Leave
      <3>3. QED
        BY <1>1, <3>1, <3>2 DEF DraftsTyped
    <2>3. CASE Crash
      <3>1. \A k \in Messages : drafts'[k] = drafts[k] \/ drafts'[k] = Draft
        BY <2>3 DEF Crash
      <3>2. QED
        BY <3>1 DEF Draft
    <2>4. QED
      BY <2>1, <2>2, <2>3 DEF Effect, GoOffline, GoOnline, OtherRequest
  <1>4. \A t \in Slots : /\ drains'[t].todo \in {drains[t].todo, <<>>}
                         /\ drains'[t].copy \in {drains[t].copy, <<>>}
    BY RestLists
  <1>5. QED
    BY <1>1, <1>2, <1>3, <1>4, KeptFacts DEF QueuesKept

\* What was sent directly, and what a drain was answered for, is on the server.
Delivered ==
  /\ \A m \in Messages : drafts[m].pc = "sent" => m \in ToSet(posted)
  /\ \A s \in Slots : drains[s].pc \in {"answered", "removing"} => Head(drains[s].todo) \in ToSet(posted)

\* One drain at most has not been cancelled.
OneLive == \A s, t \in Slots : drains[s].live /\ drains[t].live => s = t

\* The server only gains rows.
LEMMA PostedGrows ==
  ASSUME OutboxTyped, Next
  PROVE  \/ posted' = posted
         \/ \E m \in Messages : /\ posted' = Append(posted, m)
                                /\ ToSet(posted') = ToSet(posted) \cup {m}
  <1>1. posted \in Seq(Messages) /\ DrainsTyped
    BY DEF OutboxTyped, ListsTyped
  <1>2. \/ posted' = posted
        \/ \E m \in Messages : posted' = Append(posted, m)
        \/ \E s \in Slots : DrainPost(s) /\ posted' = Append(posted, Head(drains[s].todo))
    BY DEF Next, DrainStep, EnqueueLoad, EnqueueStore, DirectPrepare, DirectPost, DrainLoad,
           DrainNext, DrainPost, DrainAnswered, DrainRemove, DrainFailed, DrainNote, Effect,
           Leave, GoOffline, GoOnline, OtherRequest, Crash
  <1>3. ASSUME NEW s \in Slots, DrainPost(s) PROVE Head(drains[s].todo) \in Messages
    <2>1. drains[s].todo \in Seq(Messages) /\ drains[s].todo # <<>>
      BY <1>1, <1>3 DEF DrainPost, DrainsTyped, HasHead, DrainRecords
    <2>2. QED
      BY <2>1, Headed
  <1>4. posted' = posted \/ \E m \in Messages : posted' = Append(posted, m)
    BY <1>2, <1>3
  <1>5. \A m \in Messages : ToSet(Append(posted, m)) = ToSet(posted) \cup {m}
    BY <1>1, Appended
  <1>6. QED
    BY <1>4, <1>5

\* What a step leaves of its drain: its head with its label, and whether it is live.
LEMMA DrainLeft ==
  ASSUME OutboxTyped, NEW s \in Slots, DrainStep(s)
  PROVE  /\ drains'[s].live => drains[s].live
         /\ drains'[s].pc \in {"answered", "removing"} =>
              /\ drains'[s].todo = drains[s].todo
              /\ \/ drains[s].pc = "answered"
                 \/ posted' = Append(posted, Head(drains[s].todo))
  <1>1. /\ drains \in [Slots -> DrainRecords]
        /\ HasHead(drains[s])
    BY DEF OutboxTyped, DrainsTyped
  <1>2. PICK d \in DrainRecords : d = drains[s]
    BY <1>1
  <1> DEFINE Goal == /\ drains'[s].live => drains[s].live
                     /\ drains'[s].pc \in {"answered", "removing"} =>
                          /\ drains'[s].todo = drains[s].todo
                          /\ \/ drains[s].pc = "answered"
                             \/ posted' = Append(posted, Head(drains[s].todo))
  <1>3. SUFFICES Goal
    OBVIOUS
  <1>4. ASSUME NEW pc, NEW todo, NEW copy, Become(s, pc, todo, copy)
        PROVE  drains'[s].pc = pc /\ drains'[s].todo = todo /\ drains'[s].live = drains[s].live
    BY <1>1, <1>4 DEF Become
  <1>5. ASSUME drains' = [drains EXCEPT ![s] = Idle] PROVE Goal
    <2>1. drains'[s] = Idle
      BY <1>1, <1>5
    <2>2. QED
      BY <2>1 DEF Idle
  <1>6. ASSUME NEW pc \in {"next", "posting", "failed", "noting"}, NEW todo, NEW copy,
               Become(s, pc, todo, copy)
        PROVE  Goal
    BY <1>4, <1>6
  <1>7. Finish(s) => Goal
    BY <1>5 DEF Finish
  <1> HIDE DEF Goal
  <1>8. CASE DrainLoad(s)
    BY <1>2, <1>5, <1>6, <1>8, DrainBecomes
  <1>9. CASE DrainNext(s)
    BY <1>2, <1>6, <1>7, <1>9, DrainBecomes
  <1>10. CASE DrainPost(s)
    <2>1. CASE Become(s, "failed", d.todo, d.copy)
      BY <1>6, <2>1
    <2>2. CASE Become(s, "answered", d.todo, d.copy)
      <3>1. drains'[s].pc = "answered" /\ drains'[s].todo = d.todo /\ drains'[s].live = drains[s].live
        BY <1>4, <2>2
      <3>2. posted' = Append(posted, Head(drains[s].todo)) \/ Move(s, "failed")
        BY <1>10 DEF DrainPost
      <3>3. ~Move(s, "failed")
        <4>1. Move(s, "failed") => drains'[s].pc = "failed"
          BY <1>1 DEF Move, DrainRecords
        <4>2. QED
          BY <3>1, <4>1
      <3>4. QED
        BY <1>2, <3>1, <3>2, <3>3 DEF Goal
    <2>3. QED
      BY <1>2, <1>10, <2>1, <2>2, DrainBecomes
  <1>11. CASE DrainAnswered(s)
    <2>1. drains[s].pc = "answered"
      BY <1>11 DEF DrainAnswered
    <2>2. \/ Finish(s)
          \/ \E list \in Seq(Messages) : Become(s, "removing", d.todo, list)
          \/ Become(s, "failed", d.todo, d.copy)
      BY <1>2, <1>11, DrainBecomes
    <2>3. CASE \E list \in Seq(Messages) : Become(s, "removing", d.todo, list)
      BY <1>2, <1>4, <2>1, <2>3 DEF Goal
    <2>4. QED
      BY <1>6, <1>7, <2>2, <2>3
  <1>12. CASE DrainRemove(s)
    <2>1. d.todo # <<>>
      BY <1>1, <1>2, <1>12 DEF DrainRemove, HasHead
    <2>2. Become(s, "next", Tail(d.todo), <<>>)
      BY <1>2, <1>12, <2>1, DrainBecomes
    <2>3. QED
      BY <1>6, <2>2
  <1>13. CASE DrainFailed(s)
    BY <1>2, <1>6, <1>7, <1>13, DrainBecomes
  <1>14. CASE DrainNote(s)
    BY <1>7, <1>14 DEF DrainNote
  <1>15. QED
    BY <1>8, <1>9, <1>10, <1>11, <1>12, <1>13, <1>14 DEF DrainStep

\* A drain that is answered, and one that is cancelled, keep what they were sending.
LEMMA DeliveredKept ==
  ASSUME OutboxTyped, Delivered, OneLive, Next
  PROVE  Delivered' /\ OneLive'
  <1>1. /\ DrainsTyped /\ DraftsTyped /\ drafts \in [Messages -> DraftRecords]
        /\ posted \in Seq(Messages) /\ accepted \in Seq(Messages)
    BY DEF OutboxTyped, ListsTyped, DraftsTyped
  <1>2. ToSet(posted) \subseteq ToSet(posted')
    BY PostedGrows
  <1>3. CASE \E m \in Messages : EnqueueLoad(m) \/ EnqueueStore(m) \/ DirectPrepare(m) \/ DirectPost(m)
    <2>1. PICK m \in Messages : EnqueueLoad(m) \/ EnqueueStore(m) \/ DirectPrepare(m) \/ DirectPost(m)
      BY <1>3
    <2>2. drains' = drains
      BY <2>1 DEF EnqueueLoad, EnqueueStore, DirectPrepare, DirectPost
    <2>3. ASSUME NEW k \in Messages, drafts'[k].pc = "sent"
          PROVE  k \in ToSet(posted')
      <3>1. CASE EnqueueLoad(m) \/ EnqueueStore(m)
        <4>1. /\ drafts[m].pc # "sent"
              /\ \E label \in {"loaded", "queued"} : \E list :
                   drafts' = [drafts EXCEPT ![m] = [pc |-> label, copy |-> list]]
          BY <3>1 DEF EnqueueLoad, EnqueueStore, Composed
        <4>2. drafts[k].pc = "sent"
          BY <1>1, <2>3, <4>1
        <4>3. QED
          BY <1>2, <4>2 DEF Delivered
      <3>2. CASE DirectPrepare(m)
        <4>1. drafts' = [drafts EXCEPT ![m].pc = "sending"]
          BY <3>2 DEF DirectPrepare
        <4>2. drafts[k].pc = "sent"
          BY <1>1, <2>3, <4>1 DEF DraftRecords
        <4>3. QED
          BY <1>2, <4>2 DEF Delivered
      <3>3. CASE DirectPost(m)
        <4>1. \/ posted' = Append(posted, m) /\ drafts' = [drafts EXCEPT ![m].pc = "sent"]
              \/ \E label \in {"draft", "gone"} : drafts' = [drafts EXCEPT ![m].pc = label]
          BY <3>3 DEF DirectPost
        <4>2. CASE posted' = Append(posted, m) /\ drafts' = [drafts EXCEPT ![m].pc = "sent"]
          <5>1. m \in ToSet(posted')
            BY <1>1, <4>2, Appended
          <5>2. k = m \/ drafts[k].pc = "sent"
            BY <1>1, <2>3, <4>2
          <5>3. QED
            BY <1>2, <5>1, <5>2 DEF Delivered
        <4>3. CASE \E label \in {"draft", "gone"} : drafts' = [drafts EXCEPT ![m].pc = label]
          <5>1. drafts[k].pc = "sent"
            BY <1>1, <2>3, <4>3 DEF DraftRecords
          <5>2. QED
            BY <1>2, <5>1 DEF Delivered
        <4>4. QED
          BY <4>1, <4>2, <4>3
      <3>4. QED
        BY <2>1, <3>1, <3>2, <3>3
    <2>4. QED
      BY <1>2, <2>2, <2>3 DEF Delivered, OneLive
  <1>4. CASE \E s \in Slots : DrainStep(s)
    <2>1. PICK s \in Slots : DrainStep(s)
      BY <1>4
    <2>2. \A t \in Slots \ {s} : drains'[t] = drains[t]
      BY <2>1, DrainStepTyped
    <2>3. drafts' = drafts
      BY <2>1 DEF DrainStep, DrainLoad, DrainNext, DrainPost, DrainAnswered, DrainRemove,
                  DrainFailed, DrainNote
    <2>4. drains'[s].live => drains[s].live
      BY <2>1, DrainLeft
    <2>5. OneLive'
      BY <2>2, <2>4 DEF OneLive
    <2>6. ASSUME drains'[s].pc \in {"answered", "removing"}
          PROVE  Head(drains'[s].todo) \in ToSet(posted')
      <3>1. /\ drains'[s].todo = drains[s].todo
            /\ drains[s].pc = "answered" \/ posted' = Append(posted, Head(drains[s].todo))
        BY <2>1, <2>6, DrainLeft
      <3>2. CASE drains[s].pc = "answered"
        BY <1>2, <3>1, <3>2 DEF Delivered
      <3>3. CASE posted' = Append(posted, Head(drains[s].todo))
        <4>1. posted' # posted
          <5>1. Len(posted') = Len(posted) + 1 /\ Len(posted) \in Nat
            BY <1>1, <3>3
          <5>2. QED
            BY <5>1
        <4>2. PICK m \in Messages : /\ posted' = Append(posted, m)
                                    /\ ToSet(posted') = ToSet(posted) \cup {m}
          BY <4>1, PostedGrows
        <4>3. m = Head(drains[s].todo)
          <5>1. posted'[Len(posted) + 1] = m /\ posted'[Len(posted) + 1] = Head(drains[s].todo)
            BY <1>1, <3>3, <4>2
          <5>2. QED
            BY <5>1
        <4>4. QED
          BY <3>1, <4>2, <4>3
      <3>4. QED
        BY <3>1, <3>2, <3>3
    <2>7. Delivered'
      BY <1>2, <2>2, <2>3, <2>6 DEF Delivered
    <2>8. QED
      BY <2>5, <2>7
  <1>5. CASE Effect \/ Leave \/ GoOffline \/ GoOnline \/ OtherRequest \/ Crash
    <2>1. posted' = posted
      BY <1>5 DEF Effect, Leave, GoOffline, GoOnline, OtherRequest, Crash
    <2>2. \A m \in Messages : drafts'[m].pc = "sent" <=> drafts[m].pc = "sent"
      <3>1. CASE Leave \/ Crash
        BY <1>1, <3>1, DraftsDropped DEF Leave, Crash, historyVars
      <3>2. QED
        BY <1>5, <3>1 DEF Effect, GoOffline, GoOnline, OtherRequest
    <2>3. /\ OneLive'
          /\ \A s \in Slots : drains'[s].pc \in {"answered", "removing"} =>
               drains[s].pc = drains'[s].pc /\ drains'[s].todo = drains[s].todo
      <3>1. CASE UNCHANGED drains
        BY <3>1 DEF OneLive
      <3>2. CASE Effect
        <4>1. PICK new : \A t \in Slots :
                IF t = new THEN drains[t].pc = "idle" /\ drains'[t] = Loading
                           ELSE drains'[t] = Left(drains[t])
          BY <1>1, <3>2, Restarting
        <4>2. Loading.pc = "loading"
          BY DEF Loading
        <4>3. \A d : Left(d).todo = d.todo /\ Left(d).pc = d.pc /\ Left(d).live = FALSE
          BY DEF Left
        <4>4. QED
          BY <4>1, <4>2, <4>3 DEF OneLive
      <3>3. CASE Leave
        BY <1>1, <3>3, Cancelling DEF Leave, OneLive, Left
      <3>4. CASE Crash
        BY <3>4 DEF Crash, OneLive, Idle
      <3>5. QED
        BY <1>5, <3>1, <3>2, <3>3, <3>4 DEF GoOffline, GoOnline, OtherRequest
    <2>4. QED
      BY <2>1, <2>2, <2>3 DEF Delivered
  <1>6. QED
    BY <1>3, <1>4, <1>5 DEF Next

\* What a step does to the record, as long as nobody raced and everything was readable.
LEMMA QueueMoves ==
  ASSUME OutboxTyped, QueuesKept, Next, Undisturbed'
  PROVE  /\ Undisturbed
         /\ \/ UNCHANGED <<record, accepted>>
            \/ \E m \in Messages : /\ EnqueueStore(m) /\ m \notin ToSet(accepted)
                                   /\ accepted' = Append(accepted, m)
                                   /\ record' = Append(record, m)
                                   /\ ToSet(accepted') = ToSet(accepted) \cup {m}
                                   /\ ToSet(record') = ToSet(record) \cup {m}
            \/ \E s \in Slots : /\ DrainRemove(s) /\ UNCHANGED accepted
                                /\ record' = RemoveFirst(record, Head(drains[s].todo))
                                /\ ToSet(record') = ToSet(record) \ {Head(drains[s].todo)}
  <1>1. /\ DraftsTyped /\ accepted \in Seq(Messages) /\ Kept(record, accepted)
        /\ raced \in BOOLEAN /\ unreadable \in BOOLEAN
        /\ \A m \in Messages : drafts[m].copy \in Seq(Messages)
    BY DEF OutboxTyped, ListsTyped, SignalsTyped, QueuesKept, Kept
  <1>2. CASE \E m \in Messages : EnqueueLoad(m)
    <2>1. UNCHANGED <<record, raced, accepted>> /\ \E list : Reads(list)
      BY <1>2 DEF EnqueueLoad, historyVars
    <2>2. QED
      BY <1>1, <2>1, ReadsTyped DEF Undisturbed
  <1>3. CASE \E m \in Messages : EnqueueStore(m)
    <2>1. PICK m \in Messages : EnqueueStore(m)
      BY <1>3
    <2> DEFINE list == Append(drafts[m].copy, m)
    <2>2. /\ drafts[m].pc = "loaded" /\ Stores(list, drafts[m].copy)
          /\ accepted' = Append(accepted, m)
      BY <2>1 DEF EnqueueStore
    <2>3. m \notin ToSet(accepted)
      BY <1>1, <2>2 DEF DraftsTyped, AcceptedQueued
    <2>4. list \in Seq(Messages)
      BY <1>1
    <2>5. Undisturbed /\ record' = list /\ record = drafts[m].copy
      <3> HIDE DEF list
      <3>1. QED
        BY <2>2, <2>4, StoresTyped
    <2>6. ToSet(accepted') = ToSet(accepted) \cup {m}
      BY <1>1, <2>2, Appended
    <2>7. ToSet(record') = ToSet(record) \cup {m}
      BY <1>1, <2>5, Appended
    <2>8. QED
      BY <2>1, <2>2, <2>3, <2>5, <2>6, <2>7
  <1>4. CASE \E s \in Slots : DrainStep(s)
    <2>1. PICK s \in Slots : DrainStep(s)
      BY <1>4
    <2>2. UNCHANGED accepted
      BY <2>1 DEF DrainStep, DrainLoad, DrainNext, DrainPost, DrainAnswered, DrainRemove,
                  DrainFailed, DrainNote, historyVars
    <2>3. /\ Undisturbed
          /\ \/ record' = record
             \/ DrainRemove(s) /\ record' = RemoveFirst(record, Head(drains[s].todo))
      BY <2>1, DrainWrites
    <2>4. CASE record' = record
      BY <2>2, <2>3, <2>4
    <2>5. CASE DrainRemove(s) /\ record' = RemoveFirst(record, Head(drains[s].todo))
      <3>1. ToSet(record') = ToSet(record) \ {Head(drains[s].todo)}
        BY <1>1, <2>5, Removed DEF Kept
      <3>2. QED
        BY <2>2, <2>3, <2>5, <3>1
    <2>6. QED
      BY <2>3, <2>4, <2>5
  <1>5. CASE \/ \E m \in Messages : DirectPrepare(m) \/ DirectPost(m)
             \/ Effect \/ Leave \/ GoOffline \/ GoOnline \/ OtherRequest \/ Crash
    <2>1. UNCHANGED <<queueVars, accepted>>
      BY <1>5 DEF DirectPrepare, DirectPost, Effect, Leave, GoOffline, GoOnline, OtherRequest,
                  Crash, historyVars
    <2>2. QED
      BY <2>1 DEF queueVars, Undisturbed
  <1>6. QED
    BY <1>2, <1>3, <1>4, <1>5 DEF Next

\* Nothing is removed from the record before it is on the server.
LEMMA NoneLostKept ==
  ASSUME OutboxTyped, QueuesKept, Delivered, NoneLost, Next
  PROVE  NoneLost'
  <1>1. SUFFICES ASSUME Undisturbed'
                 PROVE  ToSet(accepted') \subseteq ToSet(record') \cup ToSet(posted')
    BY DEF NoneLost
  <1>2. /\ Undisturbed
        /\ ToSet(accepted) \subseteq ToSet(record) \cup ToSet(posted)
    BY <1>1, QueueMoves DEF NoneLost
  <1>3. ToSet(posted) \subseteq ToSet(posted')
    BY PostedGrows
  <1>4. CASE UNCHANGED <<record, accepted>>
    BY <1>2, <1>3, <1>4
  <1>5. CASE \E m : /\ ToSet(accepted') = ToSet(accepted) \cup {m}
                    /\ ToSet(record') = ToSet(record) \cup {m}
    BY <1>2, <1>3, <1>5
  <1>6. CASE \E s \in Slots : /\ DrainRemove(s) /\ UNCHANGED accepted
                              /\ ToSet(record') = ToSet(record) \ {Head(drains[s].todo)}
    <2>1. PICK s \in Slots : /\ DrainRemove(s) /\ UNCHANGED accepted
                             /\ ToSet(record') = ToSet(record) \ {Head(drains[s].todo)}
      BY <1>6
    <2>2. Head(drains[s].todo) \in ToSet(posted)
      BY <2>1 DEF Delivered, DrainRemove
    <2>3. QED
      BY <1>2, <1>3, <2>1, <2>2
  <1>7. QED
    BY <1>1, <1>4, <1>5, <1>6, QueueMoves

-----------------------------------------------------------------------------
(* The order *)

\* What was accepted before an element of the list has a row or stands before it.
InTurn(list, names, rows) ==
  \A i \in DOMAIN list : \A k \in Earlier(names, list[i]) :
    k \in ToSet(rows) \/ \E j \in 1..(i - 1) : list[j] = k

\* The record and what the drains still send are in turn.
TurnsKept ==
  Undisturbed =>
    /\ InTurn(record, accepted, posted)
    /\ \A s \in Slots : InTurn(drains[s].todo, accepted, posted)

\* A new name is the last one.
LEMMA EarlierStays ==
  ASSUME NEW S, NEW names \in Seq(S), NEW m \in S, m \notin ToSet(names)
  PROVE  /\ \A k : Earlier(names, k) \subseteq ToSet(names)
         /\ \A k \in ToSet(names) : Earlier(Append(names, m), k) = Earlier(names, k)
         /\ Earlier(Append(names, m), m) \subseteq ToSet(names)
  <1>1. /\ DOMAIN names = 1..Len(names) /\ Len(names) \in Nat
        /\ DOMAIN Append(names, m) = 1..(Len(names) + 1)
        /\ \A i \in 1..Len(names) : Append(names, m)[i] = names[i]
        /\ Append(names, m)[Len(names) + 1] = m
    OBVIOUS
  <1>2. \A k : Earlier(names, k) \subseteq ToSet(names)
    BY DEF Earlier, ToSet
  <1> DEFINE more == Append(names, m)
  <1>3. \A i \in DOMAIN more : \A j \in DOMAIN more : i < j => i \in 1..Len(names)
    BY <1>1
  <1>4. Earlier(more, m) \subseteq ToSet(names)
    BY <1>1, <1>3 DEF Earlier, ToSet
  <1>5. ASSUME NEW k \in ToSet(names) PROVE Earlier(more, k) = Earlier(names, k)
    <2>1. k # m
      BY <1>5
    <2>2. ASSUME NEW i \in 1..Len(names)
          PROVE  (\E j \in DOMAIN more : i < j /\ more[j] = k)
                   <=> (\E j \in DOMAIN names : i < j /\ names[j] = k)
      <3>1. \A j \in DOMAIN more : j \in 1..Len(names) \/ j = Len(names) + 1
        BY <1>1
      <3>2. QED
        BY <1>1, <2>1, <3>1
    <2>3. ASSUME NEW x \in Earlier(more, k) PROVE x \in Earlier(names, k)
      <3>1. PICK i \in DOMAIN more : more[i] = x /\ \E j \in DOMAIN more : i < j /\ more[j] = k
        BY <2>3 DEF Earlier
      <3>2. i \in 1..Len(names)
        BY <1>3, <3>1
      <3>3. QED
        BY <1>1, <2>2, <3>1, <3>2 DEF Earlier
    <2>4. ASSUME NEW x \in Earlier(names, k) PROVE x \in Earlier(more, k)
      <3>1. PICK i \in DOMAIN names : names[i] = x /\ \E j \in DOMAIN names : i < j /\ names[j] = k
        BY <2>4 DEF Earlier
      <3>2. i \in DOMAIN more /\ more[i] = x
        BY <1>1, <3>1
      <3>3. QED
        BY <1>1, <2>2, <3>1, <3>2 DEF Earlier
    <2>5. QED
      BY <2>3, <2>4
  <1>6. QED
    BY <1>2, <1>4, <1>5

\* A list stays in turn when its head, which has a row, is dropped,
LEMMA TurnTail ==
  ASSUME NEW S, NEW list \in Seq(S), NEW names, NEW rows, list # <<>>,
         InTurn(list, names, rows), Head(list) \in ToSet(rows)
  PROVE  InTurn(Tail(list), names, rows)
  <1>1. /\ DOMAIN list = 1..Len(list) /\ Len(list) \in Nat /\ Len(list) # 0
        /\ DOMAIN Tail(list) = 1..(Len(list) - 1)
        /\ \A i \in 1..(Len(list) - 1) : Tail(list)[i] = list[i + 1]
        /\ Head(list) = list[1]
    BY HeadTailProperties, IsASeq
  <1>2. SUFFICES ASSUME NEW i \in 1..(Len(list) - 1), NEW k \in Earlier(names, Tail(list)[i]),
                        k \notin ToSet(rows)
                 PROVE  \E j \in 1..(i - 1) : Tail(list)[j] = k
    BY <1>1 DEF InTurn
  <1>3. i + 1 \in DOMAIN list /\ k \in Earlier(names, list[i + 1])
    BY <1>1, <1>2
  <1>4. PICK j \in 1..((i + 1) - 1) : list[j] = k
    BY <1>2, <1>3 DEF InTurn
  <1>5. j # 1
    BY <1>1, <1>2, <1>4
  <1>6. j - 1 \in 1..(i - 1) /\ j - 1 \in 1..(Len(list) - 1) /\ (j - 1) + 1 = j
    BY <1>1, <1>4, <1>5
  <1>7. QED
    BY <1>1, <1>4, <1>6

\* when any element is removed that has a row,
LEMMA TurnRemoved ==
  ASSUME NEW S, NEW list \in Seq(S), NEW names, NEW rows, NEW e, IsInjective(list),
         InTurn(list, names, rows), e \in ToSet(rows)
  PROVE  InTurn(RemoveFirst(list, e), names, rows)
  <1>1. SUFFICES ASSUME NEW i \in DOMAIN RemoveFirst(list, e),
                        NEW k \in Earlier(names, RemoveFirst(list, e)[i]), k \notin ToSet(rows)
                 PROVE  \E j \in 1..(i - 1) : RemoveFirst(list, e)[j] = k
    BY DEF InTurn
  <1>2. PICK p \in DOMAIN list :
          /\ list[p] = RemoveFirst(list, e)[i]
          /\ \A q \in 1..(p - 1) :
               list[q] = e \/ \E j \in 1..(i - 1) : RemoveFirst(list, e)[j] = list[q]
    BY Removed
  <1>3. PICK q \in 1..(p - 1) : list[q] = k
    BY <1>1, <1>2 DEF InTurn
  <1>4. QED
    BY <1>1, <1>2, <1>3

\* when more has a row,
LEMMA TurnRows ==
  ASSUME NEW list, NEW names, NEW rows, NEW more, ToSet(rows) \subseteq ToSet(more),
         InTurn(list, names, rows)
  PROVE  InTurn(list, names, more)
  BY DEF InTurn

\* and when a message is accepted, at the end of the list or not.
LEMMA TurnAccepted ==
  ASSUME NEW S, NEW list \in Seq(S), NEW names \in Seq(S), NEW rows, NEW m \in S,
         m \notin ToSet(names), ToSet(list) \subseteq ToSet(names), InTurn(list, names, rows)
  PROVE  /\ InTurn(list, Append(names, m), rows)
         /\ ToSet(names) \subseteq ToSet(list) \cup ToSet(rows) =>
              InTurn(Append(list, m), Append(names, m), rows)
  <1>1. /\ DOMAIN list = 1..Len(list) /\ Len(list) \in Nat
        /\ DOMAIN Append(list, m) = 1..(Len(list) + 1)
        /\ \A i \in 1..Len(list) : Append(list, m)[i] = list[i]
        /\ Append(list, m)[Len(list) + 1] = m
    OBVIOUS
  <1>2. \A i \in DOMAIN list : Earlier(Append(names, m), list[i]) = Earlier(names, list[i])
    <2>1. \A i \in DOMAIN list : list[i] \in ToSet(names)
      BY DEF ToSet
    <2>2. QED
      BY <2>1, EarlierStays
  <1>3. InTurn(list, Append(names, m), rows)
    BY <1>2 DEF InTurn
  <1>4. ASSUME ToSet(names) \subseteq ToSet(list) \cup ToSet(rows)
        PROVE  InTurn(Append(list, m), Append(names, m), rows)
    <2>1. SUFFICES ASSUME NEW i \in 1..(Len(list) + 1),
                          NEW k \in Earlier(Append(names, m), Append(list, m)[i]),
                          k \notin ToSet(rows)
                   PROVE  \E j \in 1..(i - 1) : Append(list, m)[j] = k
      BY <1>1 DEF InTurn
    <2>2. CASE i \in 1..Len(list)
      <3>1. PICK j \in 1..(i - 1) : list[j] = k
        BY <1>1, <1>3, <2>1, <2>2 DEF InTurn
      <3>2. j \in 1..Len(list)
        BY <1>1, <2>2, <3>1
      <3>3. QED
        BY <1>1, <3>1, <3>2
    <2>3. CASE i = Len(list) + 1
      <3>1. k \in ToSet(names)
        BY <1>1, <2>1, <2>3, EarlierStays
      <3>2. PICK j \in DOMAIN list : list[j] = k
        BY <1>4, <2>1, <3>1 DEF ToSet
      <3>3. j \in 1..(i - 1)
        BY <1>1, <2>3, <3>2
      <3>4. QED
        BY <1>1, <3>2, <3>3
    <2>4. QED
      BY <1>1, <2>1, <2>2, <2>3
  <1>5. QED
    BY <1>3, <1>4

\* What a step leaves of the list a drain still sends.
LEMMA TodoMoves ==
  ASSUME OutboxTyped, Next, NEW t \in Slots
  PROVE  \/ drains'[t].todo \in {drains[t].todo, record, <<>>}
         \/ /\ drains[t].pc = "removing" /\ drains[t].todo # <<>>
            /\ drains'[t].todo = Tail(drains[t].todo)
  <1>1. /\ drains \in [Slots -> DrainRecords]
        /\ HasHead(drains[t])
    BY DEF OutboxTyped, DrainsTyped
  <1>2. CASE \E m \in Messages : EnqueueLoad(m) \/ EnqueueStore(m) \/ DirectPrepare(m) \/ DirectPost(m)
    BY <1>2 DEF EnqueueLoad, EnqueueStore, DirectPrepare, DirectPost
  <1>3. CASE \E s \in Slots \ {t} : DrainStep(s)
    BY <1>3, DrainStepTyped
  <1>4. CASE DrainStep(t)
    <2>1. PICK d \in DrainRecords : d = drains[t]
      BY <1>1
    <2> DEFINE Goal == \/ drains'[t].todo \in {drains[t].todo, record, <<>>}
                       \/ /\ drains[t].pc = "removing" /\ drains[t].todo # <<>>
                          /\ drains'[t].todo = Tail(drains[t].todo)
    <2> SUFFICES Goal
      OBVIOUS
    <2>2. ASSUME NEW pc, NEW copy, NEW todo, Become(t, pc, todo, copy)
          PROVE  drains'[t].todo = todo
      BY <1>1, <2>2 DEF Become
    <2>3. ASSUME NEW pc, NEW copy, NEW todo \in {d.todo, record, <<>>}, Become(t, pc, todo, copy)
          PROVE  Goal
      BY <2>1, <2>2, <2>3
    <2>4. ASSUME drains' = [drains EXCEPT ![t] = Idle] PROVE Goal
      <3>1. drains'[t] = Idle
        BY <1>1, <2>4
      <3>2. QED
        BY <3>1 DEF Idle
    <2>5. Finish(t) => Goal
      BY <2>4 DEF Finish
    <2>6. \A list : Reads(list) => list \in {record, <<>>}
      BY DEF Reads
    <2> HIDE DEF Goal
    <2>7. CASE DrainLoad(t)
      <3>1. \/ drains' = [drains EXCEPT ![t] = Idle]
            \/ \E list \in Seq(Messages) : Reads(list) /\ Become(t, "next", list, d.copy)
        BY <2>1, <2>7, DrainBecomes
      <3>2. QED
        BY <2>3, <2>4, <2>6, <3>1
    <2>8. CASE DrainNext(t) \/ DrainPost(t)
      BY <2>1, <2>3, <2>5, <2>8, DrainBecomes
    <2>9. CASE DrainAnswered(t)
      <3>1. \/ Finish(t)
            \/ \E pc, copy : Become(t, pc, d.todo, copy)
        BY <2>1, <2>9, DrainBecomes
      <3>2. QED
        BY <2>3, <2>5, <3>1
    <2>10. CASE DrainRemove(t)
      <3>1. d.pc = "removing" /\ d.todo # <<>>
        BY <1>1, <2>1, <2>10 DEF DrainRemove, HasHead
      <3>2. Become(t, "next", Tail(d.todo), <<>>)
        BY <2>1, <2>10, <3>1, DrainBecomes
      <3>3. QED
        BY <2>1, <2>2, <3>1, <3>2 DEF Goal
    <2>11. CASE DrainFailed(t)
      <3>1. \/ Finish(t)
            \/ \E pc, copy : Become(t, pc, d.todo, copy)
        BY <2>1, <2>11, DrainBecomes
      <3>2. QED
        BY <2>3, <2>5, <3>1
    <2>12. CASE DrainNote(t)
      BY <2>5, <2>12 DEF DrainNote
    <2>13. QED
      BY <1>4, <2>7, <2>8, <2>9, <2>10, <2>11, <2>12 DEF DrainStep
  <1>5. CASE Effect \/ Leave \/ GoOffline \/ GoOnline \/ OtherRequest \/ Crash
    BY <1>5, RestLists
  <1>6. QED
    BY <1>2, <1>3, <1>4, <1>5 DEF Next

\* A row that comes is a direct send's, or the head of a list in turn.
LEMMA RowsInTurn ==
  ASSUME OutboxTyped, QueuesKept, Next
  PROVE  \/ UNCHANGED <<posted, direct>>
         \/ \E m \in Messages : /\ posted' = Append(posted, m)
                                /\ direct' = direct \cup {m}
         \/ \E s \in Slots : /\ posted' = Append(posted, Head(drains[s].todo))
                             /\ direct' = direct /\ drains[s].todo # <<>>
  <1>1. \A s \in Slots : drains[s].pc = "posting" => drains[s].todo # <<>>
    BY DEF OutboxTyped, DrainsTyped, HasHead
  <1>2. CASE \E m \in Messages : DirectPost(m)
    BY <1>2 DEF DirectPost
  <1>3. CASE \E s \in Slots : DrainPost(s)
    BY <1>1, <1>3 DEF DrainPost
  <1>4. CASE ~\E m \in Messages : DirectPost(m)
    BY <1>3, <1>4 DEF Next, DrainStep, EnqueueLoad, EnqueueStore, DirectPrepare, DrainLoad,
           DrainNext, DrainAnswered, DrainRemove, DrainFailed, DrainNote, Effect,
           Leave, GoOffline, GoOnline, OtherRequest, Crash, historyVars
  <1>5. QED
    BY <1>2, <1>4

\* The lists stay in turn, and the rows come in turn.
LEMMA TurnsStay ==
  ASSUME OutboxTyped, QueuesKept, Delivered, NoneLost, TurnsKept, StrictFifo, Next
  PROVE  TurnsKept' /\ StrictFifo'
  <1>1. SUFFICES ASSUME Undisturbed'
                 PROVE  /\ InTurn(record', accepted', posted')
                        /\ \A s \in Slots : InTurn(drains'[s].todo, accepted', posted')
                        /\ \A i \in DOMAIN posted' : posted'[i] \notin direct' =>
                             /\ posted'[i] \in ToSet(accepted')
                             /\ \A k \in Earlier(accepted', posted'[i]) :
                                  \E j \in 1 .. (i - 1) : posted'[j] = k
    BY DEF TurnsKept, StrictFifo
  <1>2. /\ Undisturbed
        /\ ToSet(accepted) \subseteq ToSet(record) \cup ToSet(posted)
        /\ InTurn(record, accepted, posted)
        /\ \A s \in Slots : InTurn(drains[s].todo, accepted, posted)
        /\ \A i \in DOMAIN posted : posted[i] \notin direct =>
             /\ posted[i] \in ToSet(accepted)
             /\ \A k \in Earlier(accepted, posted[i]) : \E j \in 1 .. (i - 1) : posted[j] = k
    BY <1>1, QueueMoves DEF NoneLost, TurnsKept, StrictFifo
  <1>3. /\ accepted \in Seq(Messages) /\ posted \in Seq(Messages)
        /\ Kept(record, accepted)
        /\ \A s \in Slots : Kept(drains[s].todo, accepted)
    BY DEF OutboxTyped, ListsTyped, QueuesKept
  <1>4. ToSet(posted) \subseteq ToSet(posted')
    BY PostedGrows
  <1>5. \A names, rows : InTurn(<<>>, names, rows)
    BY DEF InTurn
  <1>6. CASE \E m \in Messages : EnqueueStore(m)
    <2>1. PICK m \in Messages : EnqueueStore(m)
      BY <1>6
    <2>2. UNCHANGED <<posted, direct, drains>>
      BY <2>1 DEF EnqueueStore
    <2>3. UNCHANGED <<record, accepted>> \/
          \E k \in Messages : /\ k \notin ToSet(accepted) /\ accepted' = Append(accepted, k)
                              /\ record' = Append(record, k)
      <3>1. \A s \in Slots : ~DrainRemove(s)
        <4>1. accepted' = Append(accepted, m)
          BY <2>1 DEF EnqueueStore
        <4>2. accepted' # accepted
          <5>1. Len(accepted') = Len(accepted) + 1 /\ Len(accepted) \in Nat
            BY <1>3, <4>1
          <5>2. QED
            BY <5>1
        <4>3. QED
          BY <4>2 DEF DrainRemove, historyVars
      <3>2. QED
        BY <1>1, <3>1, QueueMoves
    <2>4. CASE UNCHANGED <<record, accepted>>
      BY <1>2, <2>2, <2>4
    <2>5. CASE \E k \in Messages : /\ k \notin ToSet(accepted) /\ accepted' = Append(accepted, k)
                                   /\ record' = Append(record, k)
      <3>1. PICK k \in Messages : /\ k \notin ToSet(accepted) /\ accepted' = Append(accepted, k)
                                 /\ record' = Append(record, k)
        BY <2>5
      <3>2. InTurn(record', accepted', posted')
        BY <1>2, <1>3, <2>2, <3>1, TurnAccepted DEF Kept
      <3>3. \A s \in Slots : InTurn(drains'[s].todo, accepted', posted')
        BY <1>2, <1>3, <2>2, <3>1, TurnAccepted DEF Kept
      <3>4. \A x \in ToSet(accepted) : /\ x \in ToSet(accepted')
                                       /\ Earlier(accepted', x) = Earlier(accepted, x)
        BY <1>3, <3>1, Appended, EarlierStays
      <3>5. QED
        BY <1>2, <2>2, <3>2, <3>3, <3>4
    <2>6. QED
      BY <2>3, <2>4, <2>5
  <1>7. CASE ~\E m \in Messages : EnqueueStore(m)
    <2>1. /\ accepted' = accepted
          /\ \/ record' = record
             \/ \E s \in Slots : DrainRemove(s) /\ record' = RemoveFirst(record, Head(drains[s].todo))
      BY <1>1, <1>7, QueueMoves
    <2>2. InTurn(record', accepted, posted)
      <3>1. ASSUME NEW s \in Slots, DrainRemove(s),
                   record' = RemoveFirst(record, Head(drains[s].todo))
            PROVE  InTurn(record', accepted, posted)
        <4>1. Head(drains[s].todo) \in ToSet(posted)
          BY <3>1 DEF Delivered, DrainRemove
        <4>2. QED
          BY <1>2, <1>3, <3>1, <4>1, TurnRemoved DEF Kept
      <3>2. QED
        BY <1>2, <2>1, <3>1
    <2>3. ASSUME NEW s \in Slots PROVE InTurn(drains'[s].todo, accepted, posted)
      <3>1. CASE drains'[s].todo \in {drains[s].todo, record, <<>>}
        BY <1>2, <1>5, <3>1
      <3>2. CASE /\ drains[s].pc = "removing" /\ drains[s].todo # <<>>
                 /\ drains'[s].todo = Tail(drains[s].todo)
        <4>1. Head(drains[s].todo) \in ToSet(posted)
          BY <3>2 DEF Delivered
        <4>2. QED
          BY <1>2, <1>3, <3>2, <4>1, TurnTail DEF Kept
      <3>3. QED
        BY <3>1, <3>2, TodoMoves
    <2>4. /\ InTurn(record', accepted', posted')
          /\ \A s \in Slots : InTurn(drains'[s].todo, accepted', posted')
      BY <1>4, <2>1, <2>2, <2>3, TurnRows
    <2> DEFINE Placed(rows, sent) ==
                 \A i \in DOMAIN rows : rows[i] \notin sent =>
                   /\ rows[i] \in ToSet(accepted)
                   /\ \A k \in Earlier(accepted, rows[i]) : \E j \in 1 .. (i - 1) : rows[j] = k
    <2>5. ASSUME NEW m \in Messages, NEW sent, direct \subseteq sent,
                 \/ m \in sent
                 \/ m \in ToSet(accepted) /\ Earlier(accepted, m) \subseteq ToSet(posted)
          PROVE  Placed(Append(posted, m), sent)
      <3>1. /\ DOMAIN posted = 1..Len(posted) /\ Len(posted) \in Nat
            /\ DOMAIN Append(posted, m) = 1..(Len(posted) + 1)
            /\ \A i \in 1..Len(posted) : Append(posted, m)[i] = posted[i]
            /\ Append(posted, m)[Len(posted) + 1] = m
        BY <1>3
      <3>2. ASSUME NEW i \in 1..Len(posted), posted[i] \notin sent,
                   NEW k \in Earlier(accepted, posted[i])
            PROVE  \E j \in 1 .. (i - 1) : Append(posted, m)[j] = k
        <4>1. PICK j \in 1 .. (i - 1) : posted[j] = k
          BY <1>2, <2>5, <3>1, <3>2
        <4>2. Append(posted, m)[j] = k
          BY <3>1, <3>2, <4>1
        <4>3. QED
          BY <4>2
      <3>3. ASSUME NEW k \in ToSet(posted)
            PROVE  \E j \in 1 .. ((Len(posted) + 1) - 1) : Append(posted, m)[j] = k
        <4>1. PICK j \in 1..Len(posted) : posted[j] = k
          BY <3>1, <3>3 DEF ToSet
        <4>2. QED
          BY <3>1, <4>1
      <3>4. \A i \in DOMAIN Append(posted, m) : i \in 1..Len(posted) \/ i = Len(posted) + 1
        BY <3>1
      <3>5. \A i \in 1..Len(posted) : posted[i] \notin sent => posted[i] \in ToSet(accepted)
        BY <1>2, <2>5, <3>1
      <3>6. QED
        BY <2>5, <3>1, <3>2, <3>3, <3>4, <3>5
    <2>6. Placed(posted, direct)
      BY <1>2
    <2> HIDE DEF Placed
    <2>7. Placed(posted', direct')
      <3>1. CASE UNCHANGED <<posted, direct>>
        BY <2>6, <3>1
      <3>2. CASE \E m \in Messages : /\ posted' = Append(posted, m)
                                     /\ direct' = direct \cup {m}
        BY <2>5, <3>2
      <3>3. CASE \E s \in Slots : /\ posted' = Append(posted, Head(drains[s].todo))
                                  /\ direct' = direct /\ drains[s].todo # <<>>
        <4>1. PICK s \in Slots : /\ posted' = Append(posted, Head(drains[s].todo))
                                /\ direct' = direct /\ drains[s].todo # <<>>
          BY <3>3
        <4>2. /\ drains[s].todo \in Seq(Messages)
              /\ ToSet(drains[s].todo) \subseteq ToSet(accepted)
              /\ InTurn(drains[s].todo, accepted, posted)
          BY <1>2, <1>3 DEF Kept
        <4>3. Head(drains[s].todo) \in Messages /\ Head(drains[s].todo) \in ToSet(accepted)
          BY <4>1, <4>2, Headed
        <4>4. 1 \in DOMAIN drains[s].todo /\ Head(drains[s].todo) = drains[s].todo[1]
          BY <4>1, <4>2, HeadTailProperties
        <4>5. Earlier(accepted, Head(drains[s].todo)) \subseteq ToSet(posted)
          BY <4>2, <4>4 DEF InTurn
        <4>6. QED
          BY <2>5, <4>1, <4>3, <4>5
      <3>4. QED
        BY <3>1, <3>2, <3>3, RowsInTurn
    <2>8. QED
      BY <2>1, <2>4, <2>7 DEF Placed
  <1>8. QED
    BY <1>6, <1>7

-----------------------------------------------------------------------------
(* What was sent, counted *)

\* The message d will still send, the one it is answered for, and the cancelled drains
\* that go on with a send.
Ahead(d, m) ==
  /\ d.live
  /\ \/ d.pc \in {"next", "posting"} /\ m \in ToSet(d.todo)
     \/ d.pc \in {"answered", "removing"} /\ m \in ToSet(Tail(d.todo))

InHand(d, m) == d.live /\ d.pc \in {"answered", "removing"} /\ m = Head(d.todo)

Pending == {s \in Slots : ~drains[s].live /\ drains[s].pc = "posting"}

\* The messages that were sent and, unless a cancelled drain does, are not sent again.
Clean ==
  {m \in Messages :
     \/ drafts[m].pc = "sent"
     \/ /\ m \in ToSet(accepted) /\ m \notin ToSet(record)
        /\ \A s \in Slots : ~Ahead(drains[s], m)
     \/ \E s \in Slots : InHand(drains[s], m)}

\* Every row but one per clean message, and every send of a cancelled drain, is accounted
\* for by a doubt.
Counted == Undisturbed => Len(posted) + Cardinality(Pending) <= Cardinality(Clean) + doubtful

\* A clean message is on the server.
LEMMA CleanPosted ==
  Delivered /\ NoneLost /\ Undisturbed => Clean \subseteq ToSet(posted)
  BY DEF Delivered, NoneLost, Clean, InHand

\* So they are finitely many,
LEMMA CleanFinite ==
  ASSUME OutboxTyped, Delivered, NoneLost, Undisturbed
  PROVE  IsFiniteSet(Clean) /\ Clean \subseteq ToSet(posted)
  <1>1. posted \in Seq(Messages)
    BY DEF OutboxTyped, ListsTyped
  <1>2. IsFiniteSet(ToSet(posted))
    BY <1>1, ElementsFinite
  <1>3. QED
    BY <1>2, CleanPosted, FS_Subset

\* before a step and after it.
LEMMA CleanStaysFinite ==
  ASSUME OutboxTyped, OutboxTyped', Delivered', NoneLost', Undisturbed'
  PROVE  IsFiniteSet(Clean')
  <1>1. posted' \in Seq(Messages)
    BY DEF OutboxTyped, ListsTyped
  <1>2. IsFiniteSet(ToSet(posted'))
    BY <1>1, ElementsFinite
  <1>3. Clean' \subseteq ToSet(posted')
    BY DEF Delivered, NoneLost, Clean, InHand
  <1>4. QED
    BY <1>2, <1>3, FS_Subset

\* How sets that differ by one element compare.
LEMMA Sizes ==
  ASSUME NEW A, NEW B, NEW x, IsFiniteSet(A), IsFiniteSet(B)
  PROVE  /\ Cardinality(A) \in Nat /\ Cardinality(B) \in Nat
         /\ A \subseteq B => Cardinality(A) <= Cardinality(B)
         /\ A \subseteq B \cup {x} => Cardinality(A) <= Cardinality(B) + 1
         /\ A \cup {x} \subseteq B /\ x \notin A => Cardinality(A) + 1 <= Cardinality(B)
  <1>1. Cardinality(A) \in Nat /\ Cardinality(B) \in Nat
    BY FS_CardinalityType
  <1>2. \A S, T : IsFiniteSet(T) /\ S \subseteq T => Cardinality(S) <= Cardinality(T)
    BY FS_Subset
  <1>3. \A S, y : IsFiniteSet(S) =>
          /\ IsFiniteSet(S \cup {y})
          /\ Cardinality(S \cup {y}) = IF y \in S THEN Cardinality(S) ELSE Cardinality(S) + 1
    BY FS_AddElement
  <1>4. A \subseteq B \cup {x} => Cardinality(A) <= Cardinality(B) + 1
    <2>1. Cardinality(B \cup {x}) <= Cardinality(B) + 1
      <3>1. \/ Cardinality(B \cup {x}) = Cardinality(B)
            \/ Cardinality(B \cup {x}) = Cardinality(B) + 1
        BY <1>3
      <3>2. \A n \in Nat : n <= n + 1 /\ n + 1 <= n + 1
        OBVIOUS
      <3>3. QED
        BY <1>1, <3>1, <3>2
    <2>2. A \subseteq B \cup {x} => Cardinality(A) <= Cardinality(B \cup {x})
      BY <1>2, <1>3
    <2>3. Cardinality(B \cup {x}) \in Nat
      BY <1>3, FS_CardinalityType
    <2>4. QED
      BY <1>1, <2>1, <2>2, <2>3
  <1>5. A \cup {x} \subseteq B /\ x \notin A => Cardinality(A) + 1 <= Cardinality(B)
    <2>1. x \notin A => Cardinality(A \cup {x}) = Cardinality(A) + 1
      BY <1>3
    <2>2. A \cup {x} \subseteq B => Cardinality(A \cup {x}) <= Cardinality(B)
      BY <1>2
    <2>3. QED
      BY <2>1, <2>2
  <1>6. QED
    BY <1>1, <1>2, <1>4, <1>5

\* What the count of a step is made of.
LEMMA CountedNumbers ==
  ASSUME OutboxTyped, OutboxTyped', Delivered, NoneLost, Undisturbed,
         Delivered', NoneLost', Undisturbed'
  PROVE  /\ Len(posted) \in Nat /\ Len(posted') \in Nat
         /\ doubtful \in Nat /\ doubtful' \in Nat
         /\ IsFiniteSet(Pending) /\ IsFiniteSet(Pending')
         /\ IsFiniteSet(Clean) /\ IsFiniteSet(Clean')
         /\ \A m : posted' = Append(posted, m) => Len(posted') = Len(posted) + 1
  <1>1. posted \in Seq(Messages) /\ posted' \in Seq(Messages) /\ doubtful \in Nat /\ doubtful' \in Nat
    BY DEF OutboxTyped, ListsTyped, SignalsTyped
  <1>2. IsFiniteSet(Pending) /\ IsFiniteSet(Pending')
    BY SomeSlots DEF Pending
  <1>3. IsFiniteSet(Clean) /\ IsFiniteSet(Clean')
    BY CleanFinite, CleanStaysFinite
  <1>4. ASSUME NEW m, posted' = Append(posted, m) PROVE Len(posted') = Len(posted) + 1
    BY <1>1, <1>4
  <1>5. QED
    BY <1>1, <1>2, <1>3, <1>4

\* A draft that moves: a direct send makes its message clean, or is in doubt.
LEMMA DraftCounted ==
  ASSUME OutboxTyped, OutboxTyped', QueuesKept, Delivered, NoneLost, Undisturbed, Counted,
         Delivered', NoneLost', Undisturbed', NEW m \in Messages,
         EnqueueLoad(m) \/ EnqueueStore(m) \/ DirectPrepare(m) \/ DirectPost(m)
  PROVE  Counted'
  <1>1. /\ Len(posted) \in Nat /\ Len(posted') \in Nat
        /\ doubtful \in Nat /\ doubtful' \in Nat
        /\ IsFiniteSet(Pending) /\ IsFiniteSet(Pending')
        /\ IsFiniteSet(Clean) /\ IsFiniteSet(Clean')
        /\ \A k : posted' = Append(posted, k) => Len(posted') = Len(posted) + 1
    BY CountedNumbers
  <1>2. /\ Cardinality(Pending) \in Nat /\ Cardinality(Pending') \in Nat
        /\ Cardinality(Clean) \in Nat /\ Cardinality(Clean') \in Nat
    BY <1>1, FS_CardinalityType
  <1>3. Len(posted) + Cardinality(Pending) <= Cardinality(Clean) + doubtful
    BY DEF Counted
  <1>4. drains' = drains /\ Pending' = Pending
    BY DEF EnqueueLoad, EnqueueStore, DirectPrepare, DirectPost, Pending
  <1>5. /\ DraftsTyped /\ drafts \in [Messages -> DraftRecords] /\ accepted \in Seq(Messages)
    BY DEF OutboxTyped, ListsTyped, DraftsTyped
  <1>6. CASE EnqueueLoad(m) \/ EnqueueStore(m) \/ DirectPrepare(m)
    <2>1. UNCHANGED <<posted, doubtful>>
      BY <1>6 DEF EnqueueLoad, EnqueueStore, DirectPrepare, historyVars
    <2>2. \A k \in Messages : drafts[k].pc = "sent" => drafts'[k].pc = "sent"
      <3>1. drafts[m].pc # "sent" /\ \A k \in Messages \ {m} : drafts'[k] = drafts[k]
        BY <1>5, <1>6 DEF EnqueueLoad, EnqueueStore, DirectPrepare, Composed
      <3>2. QED
        BY <3>1
    <2>3. \A k : k \in ToSet(accepted) /\ k \notin ToSet(record)
                   => k \in ToSet(accepted') /\ k \notin ToSet(record')
      <3>1. CASE EnqueueStore(m)
        <4>1. PICK k \in Messages : /\ k \notin ToSet(accepted)
                                    /\ ToSet(accepted') = ToSet(accepted) \cup {k}
                                    /\ ToSet(record') = ToSet(record) \cup {k}
          <5>1. accepted' # accepted
            <6>1. accepted' = Append(accepted, m)
              BY <3>1 DEF EnqueueStore
            <6>2. Len(accepted') = Len(accepted) + 1 /\ Len(accepted) \in Nat
              BY <1>5, <6>1
            <6>3. QED
              BY <6>2
          <5>2. Next
            BY <3>1 DEF Next
          <5>3. QED
            BY <5>1, <5>2, QueueMoves
        <4>2. QED
          BY <4>1
      <3>2. CASE EnqueueLoad(m) \/ DirectPrepare(m)
        BY <3>2 DEF EnqueueLoad, DirectPrepare, queueVars, historyVars
      <3>3. QED
        BY <1>6, <3>1, <3>2
    <2>4. Clean \subseteq Clean'
      BY <1>4, <2>2, <2>3 DEF Clean
    <2>5. Cardinality(Clean) <= Cardinality(Clean')
      BY <1>1, <2>4, FS_Subset
    <2>6. QED
      BY <1>2, <1>3, <1>4, <1>1, <2>1, <2>5 DEF Counted
  <1>7. CASE DirectPost(m)
    <2>1. /\ UNCHANGED <<record, accepted>>
          /\ drafts[m].pc \in {"sending", "left"}
          /\ \/ /\ posted' = Append(posted, m) /\ drafts' = [drafts EXCEPT ![m].pc = "sent"]
                /\ doubtful' = doubtful
             \/ /\ \E label : drafts' = [drafts EXCEPT ![m].pc = label]
                /\ posted' = posted /\ doubtful' = doubtful
             \/ /\ \E label : drafts' = [drafts EXCEPT ![m].pc = label]
                /\ posted' = Append(posted, m) /\ doubtful' = doubtful + 1
      BY <1>7 DEF DirectPost, queueVars
    <2>2. \A k \in Messages \ {m} : drafts'[k] = drafts[k]
      BY <1>5, <2>1
    <2>3. Clean \subseteq Clean'
      BY <1>4, <2>1, <2>2 DEF Clean
    <2>4. Cardinality(Clean) <= Cardinality(Clean')
      BY <1>1, <2>3, FS_Subset
    <2>5. CASE posted' = posted /\ doubtful' = doubtful
      BY <1>2, <1>3, <1>4, <1>1, <2>4, <2>5 DEF Counted
    <2>6. CASE posted' = Append(posted, m) /\ doubtful' = doubtful + 1
      <3>1. Len(posted') = Len(posted) + 1
        BY <1>1, <2>6
      <3>2. QED
        BY <1>2, <1>3, <1>4, <1>1, <2>4, <2>6, <3>1 DEF Counted
    <2>7. CASE /\ posted' = Append(posted, m) /\ drafts' = [drafts EXCEPT ![m].pc = "sent"]
               /\ doubtful' = doubtful
      <3>1. Len(posted') = Len(posted) + 1
        BY <1>1, <2>7
      <3>2. m \in Clean'
        BY <1>5, <2>7 DEF Clean, DraftRecords
      <3>3. m \notin Clean
        <4>1. m \notin ToSet(accepted)
          BY <1>5, <2>1 DEF DraftsTyped, AcceptedQueued
        <4>2. \A s \in Slots : ~InHand(drains[s], m)
          <5>1. SUFFICES ASSUME NEW s \in Slots, InHand(drains[s], m) PROVE FALSE
            OBVIOUS
          <5>2. drains[s].todo \in Seq(Messages) /\ drains[s].todo # <<>> /\ Head(drains[s].todo) = m
            BY <5>1 DEF OutboxTyped, DrainsTyped, HasHead, InHand, DrainRecords
          <5>3. m \in ToSet(drains[s].todo)
            BY <5>2, Headed
          <5>4. QED
            BY <4>1, <5>3 DEF QueuesKept, Kept
        <4>3. QED
          BY <2>1, <4>1, <4>2 DEF Clean
      <3>4. Cardinality(Clean) + 1 <= Cardinality(Clean')
        BY <1>1, <2>3, <3>2, <3>3, Sizes
      <3>5. QED
        BY <1>2, <1>3, <1>4, <1>1, <2>7, <3>1, <3>4 DEF Counted
    <2>8. QED
      BY <2>1, <2>5, <2>6, <2>7
  <1>8. QED
    BY <1>6, <1>7

\* What a step of a drain makes clean, or no longer is.
LEMMA CleanAfter ==
  ASSUME drains \in [Slots -> DrainRecords], NEW s \in Slots,
         \A t \in Slots \ {s} : drains'[t] = drains[t],
         UNCHANGED <<drafts, accepted>>, ToSet(record') \subseteq ToSet(record), NEW X,
         \A m : Ahead(drains'[s], m) => Ahead(drains[s], m) \/ m \in ToSet(record),
         \A m : InHand(drains[s], m) => InHand(drains'[s], m) \/ m \in X \/ m \in Clean'
  PROVE  Clean \subseteq Clean' \cup X
  <1>1. SUFFICES ASSUME NEW m \in Clean, m \notin X PROVE m \in Clean'
    OBVIOUS
  <1>2. m \in Messages
    BY DEF Clean
  <1>3. CASE drafts[m].pc = "sent"
    BY <1>2, <1>3 DEF Clean
  <1>4. CASE /\ m \in ToSet(accepted) /\ m \notin ToSet(record)
             /\ \A t \in Slots : ~Ahead(drains[t], m)
    <2>1. \A t \in Slots : ~Ahead(drains'[t], m)
      BY <1>4
    <2>2. m \in ToSet(accepted') /\ m \notin ToSet(record')
      BY <1>4
    <2>3. QED
      BY <1>2, <2>1, <2>2 DEF Clean
  <1>5. CASE \E t \in Slots : InHand(drains[t], m)
    <2>1. PICK t \in Slots : InHand(drains[t], m)
      BY <1>5
    <2>2. CASE t = s
      <3>1. InHand(drains'[s], m) \/ m \in Clean'
        BY <1>1, <2>1, <2>2
      <3>2. QED
        BY <1>2, <3>1 DEF Clean
    <2>3. CASE t # s
      <3>1. InHand(drains'[t], m)
        BY <2>1, <2>3
      <3>2. QED
        BY <1>2, <3>1 DEF Clean
    <2>4. QED
      BY <2>2, <2>3
  <1>6. QED
    BY <1>1, <1>3, <1>4, <1>5 DEF Clean

\* A drain that moves: a send makes its message clean, is in doubt, or was cancelled.
LEMMA DrainCounted ==
  ASSUME OutboxTyped, OutboxTyped', QueuesKept, Delivered, NoneLost, Undisturbed, Counted,
         OneLive, Delivered', NoneLost', Undisturbed', NEW s \in Slots, DrainStep(s)
  PROVE  Counted'
  <1>1. /\ Len(posted) \in Nat /\ Len(posted') \in Nat
        /\ doubtful \in Nat /\ doubtful' \in Nat
        /\ IsFiniteSet(Pending) /\ IsFiniteSet(Pending')
        /\ IsFiniteSet(Clean) /\ IsFiniteSet(Clean')
        /\ \A k : posted' = Append(posted, k) => Len(posted') = Len(posted) + 1
    BY CountedNumbers
  <1>2. /\ Cardinality(Pending) \in Nat /\ Cardinality(Pending') \in Nat
        /\ Cardinality(Clean) \in Nat /\ Cardinality(Clean') \in Nat
    BY <1>1, FS_CardinalityType
  <1>3. Len(posted) + Cardinality(Pending) <= Cardinality(Clean) + doubtful
    BY DEF Counted
  <1>4. /\ drains \in [Slots -> DrainRecords] /\ HasHead(drains[s])
        /\ \A t \in Slots \ {s} : drains'[t] = drains[t]
    BY DrainStepTyped DEF OutboxTyped, DrainsTyped
  <1>5. UNCHANGED <<drafts, accepted>>
    BY DEF DrainStep, DrainLoad, DrainNext, DrainPost, DrainAnswered, DrainRemove,
           DrainFailed, DrainNote, historyVars
  <1>6. PICK d \in DrainRecords : d = drains[s]
    BY <1>4
  <1>7. /\ d.todo \in Seq(Messages) /\ d.live \in BOOLEAN
        /\ IsInjective(d.todo) /\ ToSet(d.todo) \subseteq ToSet(accepted)
    BY <1>6 DEF QueuesKept, Kept, DrainRecords
  <1>8. ASSUME NEW pc, NEW todo, NEW copy, Become(s, pc, todo, copy)
        PROVE  drains'[s].pc = pc /\ drains'[s].todo = todo /\ drains'[s].live = d.live
    BY <1>4, <1>6, <1>8 DEF Become
  <1>9. ASSUME Finish(s) \/ drains' = [drains EXCEPT ![s] = Idle]
        PROVE  drains'[s].pc = "idle" /\ drains'[s].live = FALSE
    BY <1>4, <1>9 DEF Finish, Idle
  \* The record, unless this is a removal.
  <1>10. ToSet(record') \subseteq ToSet(record)
    <2>1. record' = record \/ record' = RemoveFirst(record, Head(drains[s].todo))
      BY DrainWrites
    <2>2. record \in Seq(Messages) /\ IsInjective(record)
      BY DEF QueuesKept, Kept
    <2>3. QED
      BY <2>1, <2>2, Removed
  <1>11. ASSUME drains'[s].live \/ drains'[s].pc # "posting"
         PROVE  /\ Pending' = Pending \ {s}
                /\ Cardinality(Pending') <= Cardinality(Pending)
                /\ s \in Pending => Cardinality(Pending') + 1 <= Cardinality(Pending)
    <2>1. Pending' = Pending \ {s}
      BY <1>4, <1>11 DEF Pending
    <2>2. Cardinality(Pending') <= Cardinality(Pending)
      BY <1>1, <2>1, FS_Subset
    <2>3. ASSUME s \in Pending PROVE Cardinality(Pending') + 1 <= Cardinality(Pending)
      <3>1. Pending' \cup {s} \subseteq Pending /\ s \notin Pending'
        BY <2>1, <2>3
      <3>2. QED
        BY <1>1, <3>1, Sizes
    <2>4. QED
      BY <2>1, <2>2, <2>3
  \* A step that sends nothing and acts on no answer.
  <1>12. ASSUME UNCHANGED <<posted, doubtful>>,
                drains'[s].live \/ drains'[s].pc # "posting",
                \A m : Ahead(drains'[s], m) => Ahead(drains[s], m) \/ m \in ToSet(record),
                \A m : InHand(drains[s], m) => InHand(drains'[s], m) \/ m \in Clean'
         PROVE  Counted'
    <2>1. Clean \subseteq Clean' \cup {}
      BY <1>4, <1>5, <1>10, <1>12, CleanAfter
    <2>2. Cardinality(Clean) <= Cardinality(Clean')
      BY <1>1, <2>1, FS_Subset
    <2>3. Cardinality(Pending') <= Cardinality(Pending)
      BY <1>11, <1>12
    <2>4. QED
      BY <1>1, <1>2, <1>3, <1>12, <2>2, <2>3 DEF Counted
  <1>13. CASE DrainLoad(s)
    <2>1. UNCHANGED <<posted, doubtful>> /\ d.pc = "loading"
      BY <1>6, <1>13 DEF DrainLoad, historyVars
    <2>2. \/ drains' = [drains EXCEPT ![s] = Idle]
          \/ \E list \in Seq(Messages) : Reads(list) /\ Become(s, "next", list, d.copy)
      BY <1>6, <1>13, DrainBecomes
    <2>3. \A list : Reads(list) => list = record
      BY ReadsTyped DEF Undisturbed
    <2>4. drains'[s].pc = "idle" \/ (drains'[s].pc = "next" /\ drains'[s].todo = record)
      BY <1>8, <1>9, <2>2, <2>3
    <2>5. \A m : ~InHand(drains[s], m)
      BY <1>6, <2>1 DEF InHand
    <2>6. \A m : Ahead(drains'[s], m) => m \in ToSet(record)
      BY <2>4 DEF Ahead
    <2>7. QED
      BY <1>12, <2>1, <2>4, <2>5, <2>6
  <1>14. CASE DrainNext(s)
    <2>1. UNCHANGED <<posted, doubtful>> /\ d.pc = "next"
      BY <1>6, <1>14 DEF DrainNext, historyVars
    <2>2. Finish(s) \/ (d.live /\ Become(s, "posting", d.todo, d.copy))
      BY <1>6, <1>14, DrainBecomes
    <2>3. \/ drains'[s].pc = "idle"
          \/ drains'[s].pc = "posting" /\ drains'[s].todo = d.todo /\ drains'[s].live /\ d.live
      BY <1>8, <1>9, <2>2
    <2>4. \A m : ~InHand(drains[s], m)
      BY <1>6, <2>1 DEF InHand
    <2>5. \A m : Ahead(drains'[s], m) => Ahead(drains[s], m)
      BY <1>6, <2>1, <2>3 DEF Ahead
    <2>6. QED
      BY <1>12, <2>1, <2>3, <2>4, <2>5
  <1>15. CASE DrainPost(s)
    <2> DEFINE h == Head(d.todo)
    <2>1. d.pc = "posting" /\ d.todo # <<>>
      BY <1>4, <1>6, <1>15 DEF DrainPost, HasHead
    <2>2. /\ h \in Messages /\ h \in ToSet(d.todo) /\ ToSet(Tail(d.todo)) \subseteq ToSet(d.todo)
      BY <1>7, <2>1, Headed
    <2> HIDE DEF h
    <2>3. \A m : ~InHand(drains[s], m)
      BY <1>6, <2>1 DEF InHand
    <2>4. \/ posted' = Append(posted, h) /\ doubtful' = doubtful /\ Move(s, "answered")
          \/ posted' = Append(posted, h) /\ doubtful' = doubtful + 1 /\ Move(s, "failed")
          \/ posted' = posted /\ doubtful' = doubtful /\ Move(s, "failed")
      BY <1>6, <1>15 DEF DrainPost, h
    <2>5. \A label : Move(s, label) => drains'[s].pc = label
      BY <1>4 DEF Move, DrainRecords
    <2>6. CASE Move(s, "failed")
      <3>1. drains'[s].pc = "failed"
        BY <2>5, <2>6
      <3>2. \A m : ~Ahead(drains'[s], m)
        BY <3>1 DEF Ahead
      <3>3. CASE posted' = posted /\ doubtful' = doubtful
        BY <1>12, <2>3, <3>1, <3>2, <3>3
      <3>4. CASE posted' = Append(posted, h) /\ doubtful' = doubtful + 1
        <4>1. Clean \subseteq Clean' \cup {}
          BY <1>4, <1>5, <1>10, <2>3, <3>2, CleanAfter
        <4>2. Cardinality(Clean) <= Cardinality(Clean')
          BY <1>1, <4>1, FS_Subset
        <4>3. Cardinality(Pending') <= Cardinality(Pending)
          BY <1>11, <3>1
        <4>4. Len(posted') = Len(posted) + 1
          BY <1>1, <3>4
        <4>5. QED
          BY <1>1, <1>2, <1>3, <3>4, <4>2, <4>3, <4>4 DEF Counted
      <3>5. QED
        BY <2>4, <2>5, <3>1, <3>3, <3>4
    <2>7. CASE posted' = Append(posted, h) /\ doubtful' = doubtful /\ Move(s, "answered")
      <3>1. drains'[s].pc = "answered"
        BY <2>5, <2>7
      <3>2. Become(s, "answered", d.todo, d.copy)
        <4>1. Become(s, "failed", d.todo, d.copy) => drains'[s].pc = "failed"
          BY <1>8
        <4>2. QED
          BY <1>6, <1>15, <3>1, <4>1, DrainBecomes
      <3>3. drains'[s].todo = d.todo /\ drains'[s].live = d.live
        BY <1>8, <3>2
      <3>4. \A m : Ahead(drains'[s], m) => Ahead(drains[s], m)
        BY <1>6, <2>1, <2>2, <3>1, <3>3 DEF Ahead
      <3>5. Clean \subseteq Clean' \cup {}
        BY <1>4, <1>5, <1>10, <2>3, <3>4, CleanAfter
      <3>6. Cardinality(Clean) <= Cardinality(Clean')
        BY <1>1, <3>5, FS_Subset
      <3>7. Len(posted') = Len(posted) + 1
        BY <1>1, <2>7
      <3>8. CASE ~d.live
        <4>1. s \in Pending
          BY <1>6, <2>1, <3>8 DEF Pending
        <4>2. Cardinality(Pending') + 1 <= Cardinality(Pending)
          BY <1>11, <3>1, <4>1
        <4>3. QED
          BY <1>1, <1>2, <1>3, <2>7, <3>6, <3>7, <4>2 DEF Counted
      <3>9. CASE d.live
        <4>1. InHand(drains'[s], h)
          BY <3>1, <3>3, <3>9 DEF InHand, h
        <4>2. h \in Clean'
          BY <2>2, <4>1 DEF Clean
        <4>3. Ahead(drains[s], h) /\ h \in ToSet(accepted)
          BY <1>6, <1>7, <2>1, <2>2, <3>9 DEF Ahead
        <4>4. \A t \in Slots : ~InHand(drains[t], h)
          BY <1>6, <2>3, <3>9 DEF OneLive, InHand
        <4>5. drafts[h].pc = "queued"
          BY <4>3 DEF OutboxTyped, DraftsTyped, AcceptedQueued
        <4>6. h \notin Clean
          BY <4>3, <4>4, <4>5 DEF Clean
        <4>7. Cardinality(Clean) + 1 <= Cardinality(Clean')
          BY <1>1, <3>5, <4>2, <4>6, Sizes
        <4>8. Cardinality(Pending') <= Cardinality(Pending)
          BY <1>11, <3>1
        <4>9. QED
          BY <1>1, <1>2, <1>3, <2>7, <3>7, <4>7, <4>8 DEF Counted
      <3>10. QED
        BY <3>8, <3>9
    <2>8. QED
      BY <2>4, <2>6, <2>7
  <1>16. CASE DrainAnswered(s)
    <2> DEFINE h == Head(d.todo)
    <2>1. posted' = posted /\ d.pc = "answered"
      BY <1>6, <1>16 DEF DrainAnswered
    <2>2. \/ ~d.live /\ Finish(s)
          \/ /\ d.live
             /\ \E list \in Seq(Messages) : Become(s, "removing", d.todo, list)
          \/ d.live /\ Become(s, "failed", d.todo, d.copy)
      BY <1>6, <1>16, DrainBecomes
    <2>3. CASE ~d.live /\ Finish(s)
      <3>1. doubtful' = doubtful
        BY <1>6, <1>16, <2>3 DEF DrainAnswered
      <3>2. drains'[s].pc = "idle"
        BY <1>9, <2>3
      <3>3. \A m : ~InHand(drains[s], m) /\ ~Ahead(drains'[s], m)
        BY <1>6, <2>3, <3>2 DEF InHand, Ahead
      <3>4. QED
        BY <1>12, <2>1, <3>1, <3>2, <3>3
    <2>4. CASE d.live /\ \E list \in Seq(Messages) : Become(s, "removing", d.todo, list)
      <3>1. drains'[s].pc = "removing" /\ drains'[s].todo = d.todo /\ drains'[s].live
        BY <1>8, <2>4
      <3>2. doubtful' = doubtful
        <4>1. Move(s, "failed") => drains'[s].pc = "failed"
          BY <1>4 DEF Move, DrainRecords
        <4>2. QED
          BY <1>6, <1>16, <2>4, <3>1, <4>1 DEF DrainAnswered
      <3>3. \A m : /\ InHand(drains[s], m) => InHand(drains'[s], m)
                   /\ Ahead(drains'[s], m) => Ahead(drains[s], m)
        BY <1>6, <2>1, <2>4, <3>1 DEF InHand, Ahead
      <3>4. QED
        BY <1>12, <2>1, <3>1, <3>2, <3>3
    <2>5. CASE d.live /\ Become(s, "failed", d.todo, d.copy)
      <3>1. drains'[s].pc = "failed"
        BY <1>8, <2>5
      <3>2. doubtful' = doubtful + 1
        <4>1. \A list : drains' = [drains EXCEPT ![s].pc = "removing", ![s].copy = list]
                => drains'[s].pc = "removing"
          BY <1>4 DEF DrainRecords
        <4>2. QED
          BY <1>6, <1>16, <2>5, <3>1, <4>1 DEF DrainAnswered
      <3>3. \A m : InHand(drains[s], m) => m \in {h}
        BY <1>6 DEF InHand
      <3>4. \A m : ~Ahead(drains'[s], m)
        BY <3>1 DEF Ahead
      <3>5. Clean \subseteq Clean' \cup {h}
        <4> HIDE DEF h
        <4>1. QED
          BY <1>4, <1>5, <1>10, <3>3, <3>4, CleanAfter
      <3>6. Cardinality(Clean) <= Cardinality(Clean') + 1
        BY <1>1, <3>5, Sizes
      <3>7. Cardinality(Pending') <= Cardinality(Pending)
        BY <1>11, <3>1
      <3>8. QED
        BY <1>1, <1>2, <1>3, <2>1, <3>2, <3>6, <3>7 DEF Counted
    <2>6. QED
      BY <2>2, <2>3, <2>4, <2>5
  <1>17. CASE DrainRemove(s)
    <2> DEFINE h == Head(d.todo)
    <2>1. UNCHANGED <<posted, doubtful>> /\ d.pc = "removing"
      BY <1>6, <1>17 DEF DrainRemove, historyVars
    <2>2. d.todo # <<>>
      BY <1>4, <1>6, <2>1 DEF HasHead
    <2>3. /\ h \in Messages /\ h \in ToSet(d.todo) /\ h \notin ToSet(Tail(d.todo))
      BY <1>7, <2>2, Headed
    <2>4. drains'[s].pc = "next" /\ drains'[s].todo = Tail(d.todo) /\ drains'[s].live = d.live
      <3>1. Become(s, "next", Tail(d.todo), <<>>)
        BY <1>6, <1>17, <2>2, DrainBecomes
      <3>2. QED
        BY <1>8, <3>1
    <2>5. \A m : Ahead(drains'[s], m) => Ahead(drains[s], m)
      BY <1>6, <2>1, <2>4 DEF Ahead
    <2>6. h \notin ToSet(record')
      <3>1. record \in Seq(Messages) /\ IsInjective(record)
        BY DEF QueuesKept, Kept
      <3>2. record' = RemoveFirst(record, h)
        <4>1. Stores(RemoveFirst(d.copy, h), d.copy)
          BY <1>6, <1>17 DEF DrainRemove
        <4>2. ~unreadable'
          BY DEF Undisturbed
        <4>3. record' = RemoveFirst(d.copy, h) /\ (record # d.copy => raced')
          BY <4>1, <4>2 DEF Stores
        <4>4. record = d.copy
          BY <4>3 DEF Undisturbed
        <4>5. QED
          BY <4>3, <4>4
      <3>3. QED
        BY <3>1, <3>2, Removed
    <2> HIDE DEF h
    <2>7. ASSUME d.live PROVE h \in Clean'
      <3>1. \A t \in Slots : ~Ahead(drains'[t], h)
        <4>1. ~Ahead(drains'[s], h)
          BY <2>3, <2>4 DEF Ahead
        <4>2. \A t \in Slots \ {s} : ~drains[t].live
          BY <1>6, <2>7 DEF OneLive
        <4>3. \A t \in Slots \ {s} : ~Ahead(drains'[t], h)
          BY <1>4, <4>2 DEF Ahead
        <4>4. QED
          BY <4>1, <4>3
      <3>2. h \in ToSet(accepted')
        BY <1>5, <1>7, <2>3
      <3>3. QED
        BY <2>3, <2>6, <3>1, <3>2 DEF Clean
    <2>8. \A m : InHand(drains[s], m) => m \in Clean'
      BY <1>6, <2>7 DEF InHand, h
    <2>9. QED
      BY <1>12, <2>1, <2>4, <2>5, <2>8
  <1>18. CASE DrainFailed(s)
    <2>1. UNCHANGED <<posted, doubtful>> /\ d.pc = "failed"
      BY <1>6, <1>18 DEF DrainFailed, historyVars
    <2>2. Finish(s) \/ \E list : Become(s, "noting", d.todo, list)
      BY <1>6, <1>18, DrainBecomes
    <2>3. drains'[s].pc \in {"idle", "noting"}
      BY <1>8, <1>9, <2>2
    <2>4. \A m : ~InHand(drains[s], m) /\ ~Ahead(drains'[s], m)
      BY <1>6, <2>1, <2>3 DEF InHand, Ahead
    <2>5. QED
      BY <1>12, <2>1, <2>3, <2>4
  <1>19. CASE DrainNote(s)
    <2>1. UNCHANGED <<posted, doubtful>> /\ d.pc = "noting" /\ Finish(s)
      BY <1>6, <1>19 DEF DrainNote
    <2>2. drains'[s].pc = "idle"
      BY <1>9, <2>1
    <2>3. \A m : ~InHand(drains[s], m) /\ ~Ahead(drains'[s], m)
      BY <1>6, <2>1, <2>2 DEF InHand, Ahead
    <2>4. QED
      BY <1>12, <2>1, <2>2, <2>3
  <1>20. QED
    BY <1>13, <1>14, <1>15, <1>16, <1>17, <1>18, <1>19 DEF DrainStep

\* When drains are cancelled or die, the one that was sending is in doubt.
LEMMA RestCounted ==
  ASSUME OutboxTyped, OutboxTyped', QueuesKept, Delivered, NoneLost, Undisturbed, Counted,
         OneLive, Delivered', NoneLost', Undisturbed',
         Effect \/ Leave \/ GoOffline \/ GoOnline \/ OtherRequest \/ Crash
  PROVE  Counted'
  <1>1. /\ Len(posted) \in Nat /\ Len(posted') \in Nat
        /\ doubtful \in Nat /\ doubtful' \in Nat
        /\ IsFiniteSet(Pending) /\ IsFiniteSet(Pending')
        /\ IsFiniteSet(Clean) /\ IsFiniteSet(Clean')
    BY CountedNumbers
  <1>2. /\ Cardinality(Pending) \in Nat /\ Cardinality(Pending') \in Nat
        /\ Cardinality(Clean) \in Nat /\ Cardinality(Clean') \in Nat
    BY <1>1, FS_CardinalityType
  <1>3. Len(posted) + Cardinality(Pending) <= Cardinality(Clean) + doubtful
    BY DEF Counted
  <1>4. UNCHANGED <<record, accepted, posted>> /\ DrainsTyped /\ DraftsTyped
        /\ accepted \in Seq(Messages)
    BY DEF Effect, Leave, GoOffline, GoOnline, OtherRequest, Crash, queueVars, historyVars,
           OutboxTyped, ListsTyped
  <1>5. \A m \in Messages : drafts'[m].pc = "sent" <=> drafts[m].pc = "sent"
    <2>1. CASE Leave \/ Crash
      BY <1>4, <2>1, DraftsDropped DEF Leave, Crash
    <2>2. QED
      BY <2>1 DEF Effect, GoOffline, GoOnline, OtherRequest
  <1>6. CASE UNCHANGED <<drains, doubtful>>
    <2>1. Pending' = Pending /\ Clean \subseteq Clean'
      BY <1>4, <1>5, <1>6 DEF Pending, Clean
    <2>2. Cardinality(Clean) <= Cardinality(Clean')
      BY <1>1, <2>1, FS_Subset
    <2>3. QED
      BY <1>1, <1>2, <1>3, <1>4, <1>6, <2>1, <2>2 DEF Counted
  \* Nothing is ahead once every drain is cancelled, or has just started.
  <1>7. ASSUME NEW X, \A t \in Slots : \A m : ~Ahead(drains'[t], m),
               \A t \in Slots : \A m : InHand(drains[t], m) => m \in X
        PROVE  Clean \subseteq Clean' \cup X
    BY <1>4, <1>5, <1>7 DEF Clean
  \* The cases: nobody was sending; somebody was, and was not answered, or was.
  <1>8. ASSUME NEW L, L \subseteq Slots, doubtful' = doubtful + Cardinality(L),
               \A t \in L : drains[t].live,
               \A t \in Slots : drains[t].live /\ drains[t].pc \in {"answered", "removing"} => t \in L,
               \A t \in Slots : \A m : ~Ahead(drains'[t], m),
               \A t \in Pending' : t \in Pending \/ (t \in L /\ drains[t].pc = "posting")
        PROVE  Counted'
    <2>1. CASE L = {}
      <3>1. doubtful' = doubtful
        BY <1>1, <1>8, <2>1, FS_EmptySet
      <3>2. \A t \in Slots : \A m : InHand(drains[t], m) => m \in {}
        BY <1>8, <2>1 DEF InHand
      <3>3. Clean \subseteq Clean' \cup {}
        BY <1>7, <1>8, <3>2
      <3>4. Cardinality(Clean) <= Cardinality(Clean')
        BY <1>1, <3>3, FS_Subset
      <3>5. Cardinality(Pending') <= Cardinality(Pending)
        BY <1>1, <1>8, <2>1, FS_Subset
      <3>6. QED
        BY <1>1, <1>2, <1>3, <1>4, <3>1, <3>4, <3>5 DEF Counted
    <2>2. CASE L # {}
      <3>1. PICK s \in L : TRUE
        BY <2>2
      <3>2. L = {s} /\ \A t \in Slots : drains[t].live => t = s
        BY <1>8, <3>1 DEF OneLive
      <3>3. doubtful' = doubtful + 1
        BY <1>8, <3>2, FS_Singleton
      <3>4. CASE drains[s].pc = "posting"
        <4>1. \A t \in Slots : \A m : InHand(drains[t], m) => m \in {}
          BY <3>2, <3>4 DEF InHand
        <4>2. Clean \subseteq Clean' \cup {}
          BY <1>7, <1>8, <4>1
        <4>3. Cardinality(Clean) <= Cardinality(Clean')
          BY <1>1, <4>2, FS_Subset
        <4>4. Pending' \subseteq Pending \cup {s}
          BY <1>8, <3>2
        <4>5. Cardinality(Pending') <= Cardinality(Pending) + 1
          BY <1>1, <4>4, Sizes
        <4>6. QED
          BY <1>1, <1>2, <1>3, <1>4, <3>3, <4>3, <4>5 DEF Counted
      <3>5. CASE drains[s].pc # "posting"
        <4> DEFINE h == Head(drains[s].todo)
        <4>1. \A t \in Slots : \A m : InHand(drains[t], m) => m \in {h}
          BY <3>2 DEF InHand
        <4> HIDE DEF h
        <4>2. Clean \subseteq Clean' \cup {h}
          BY <1>7, <1>8, <4>1
        <4>3. Cardinality(Clean) <= Cardinality(Clean') + 1
          BY <1>1, <4>2, Sizes
        <4>4. Pending' \subseteq Pending
          BY <1>8, <3>2, <3>5
        <4>5. Cardinality(Pending') <= Cardinality(Pending)
          BY <1>1, <4>4, FS_Subset
        <4>6. QED
          BY <1>1, <1>2, <1>3, <1>4, <3>3, <4>3, <4>5 DEF Counted
      <3>6. QED
        BY <3>4, <3>5
    <2>3. QED
      BY <2>1, <2>2
  <1>9. CASE Effect \/ Leave
    <2> DEFINE L == {t \in Sending : drains[t].live}
    <2>1. doubtful' = doubtful + Cardinality(L)
      BY <1>9 DEF Effect, Leave
    <2>2. /\ L \subseteq Slots /\ \A t \in L : drains[t].live
          /\ \A t \in Slots : drains[t].live /\ drains[t].pc \in {"answered", "removing"} => t \in L
          /\ \A t \in Slots : drains[t].live /\ drains[t].pc = "posting" => t \in L
      BY DEF Sending
    <2>3. \A t \in Slots : drains'[t] = Left(drains[t]) \/ drains'[t] = Loading
      <3>1. CASE Leave
        BY <1>4, <3>1, Cancelling DEF Leave
      <3>2. CASE Effect
        <4>1. PICK new : \A t \in Slots :
                IF t = new THEN drains[t].pc = "idle" /\ drains'[t] = Loading
                           ELSE drains'[t] = Left(drains[t])
          BY <1>4, <3>2, Restarting
        <4>2. QED
          BY <4>1
      <3>3. QED
        BY <1>9, <3>1, <3>2
    <2>4. /\ \A e : Left(e).live = FALSE /\ Left(e).pc = e.pc
          /\ Loading.pc = "loading"
      BY DEF Left, Loading
    <2>5. \A t \in Slots : \A m : ~Ahead(drains'[t], m)
      BY <2>3, <2>4 DEF Ahead
    <2>6. \A t \in Pending' : t \in Pending \/ (t \in L /\ drains[t].pc = "posting")
      BY <2>2, <2>3, <2>4 DEF Pending
    <2> HIDE DEF L
    <2>7. QED
      BY <1>8, <2>1, <2>2, <2>5, <2>6
  <1>10. CASE Crash
    <2> DEFINE L == {t \in Slots : drains[t].pc \in {"answered", "removing"} /\ drains[t].live}
    <2>1. doubtful' = doubtful + Cardinality(L)
      BY <1>10 DEF Crash
    <2>2. /\ L \subseteq Slots /\ \A t \in L : drains[t].live
          /\ \A t \in Slots : drains[t].live /\ drains[t].pc \in {"answered", "removing"} => t \in L
      OBVIOUS
    <2>3. \A t \in Slots : drains'[t].pc = "idle"
      BY <1>10 DEF Crash, Idle
    <2>4. \A t \in Slots : \A m : ~Ahead(drains'[t], m)
      BY <2>3 DEF Ahead
    <2>5. Pending' = {}
      BY <2>3 DEF Pending
    <2> HIDE DEF L
    <2>6. QED
      BY <1>8, <2>1, <2>2, <2>4, <2>5
  <1>11. QED
    BY <1>6, <1>9, <1>10 DEF GoOffline, GoOnline, OtherRequest, historyVars

-----------------------------------------------------------------------------
(* The theorems *)

OutboxInv ==
  /\ OutboxTyped /\ QueuesKept /\ Delivered /\ OneLive /\ NoneLost /\ Counted
  /\ TurnsKept /\ StrictFifo

\* The invariant holds when the chat is first opened.
LEMMA OutboxStarts == Init => OutboxInv
  <1>1. SUFFICES ASSUME Init PROVE OutboxInv
    OBVIOUS
  <1>2. /\ <<>> \in Seq(Messages) /\ DOMAIN <<>> = {} /\ Len(<<>>) = 0
    OBVIOUS
  <1>3. ToSet(<<>>) = {} /\ IsInjective(<<>>)
    BY <1>2 DEF ToSet, IsInjective
  <1>4. ListsTyped
    BY <1>1, <1>2, <1>3 DEF Init, ListsTyped
  <1>5. DraftsTyped
    <2>1. Draft \in DraftRecords
      BY <1>2 DEF Draft, DraftRecords
    <2>2. QED
      BY <1>1, <1>3, <2>1 DEF Init, DraftsTyped, AcceptedQueued
  <1>6. DrainsTyped
    <2>1. Idle \in DrainRecords /\ HasHead(Idle)
      BY <1>2 DEF Idle, DrainRecords, DrainLabels, HasHead
    <2>2. QED
      BY <1>1, <2>1 DEF Init, DrainsTyped
  <1>7. SignalsTyped
    BY <1>1 DEF Init, SignalsTyped
  <1>8. QueuesKept
    BY <1>1, KeptFacts DEF Init, QueuesKept, Idle, Draft
  <1>9. Delivered /\ OneLive
    BY <1>1 DEF Init, Delivered, OneLive, Idle, Draft
  <1>10. NoneLost
    BY <1>1, <1>3 DEF Init, NoneLost
  <1>11. Counted
    <2>1. Pending = {} /\ Clean = {}
      BY <1>1, <1>3 DEF Init, Pending, Clean, InHand, Idle, Draft
    <2>2. QED
      BY <1>1, <1>2, <2>1, FS_EmptySet DEF Init, Counted
  <1>12. TurnsKept /\ StrictFifo
    BY <1>1, <1>2 DEF Init, TurnsKept, InTurn, StrictFifo, Idle
  <1>13. QED
    BY <1>4, <1>5, <1>6, <1>7, <1>8, <1>9, <1>10, <1>11, <1>12 DEF OutboxInv, OutboxTyped

\* Every step preserves it.
LEMMA OutboxSteps == OutboxInv /\ [Next]_vars => OutboxInv'
  <1>1. SUFFICES ASSUME OutboxInv, [Next]_vars PROVE OutboxInv'
    OBVIOUS
  <1>2. /\ OutboxTyped /\ QueuesKept /\ Delivered /\ OneLive /\ NoneLost /\ Counted
        /\ TurnsKept /\ StrictFifo
    BY <1>1 DEF OutboxInv
  <1>3. CASE Next
    <2>1. \/ \E m \in Messages : EnqueueLoad(m) \/ EnqueueStore(m) \/ DirectPrepare(m) \/ DirectPost(m)
          \/ \E s \in Slots : DrainStep(s)
          \/ Effect \/ Leave \/ GoOffline \/ GoOnline \/ OtherRequest \/ Crash
      BY <1>3 DEF Next
    <2>2. OutboxTyped' /\ QueuesKept'
      BY <1>2, <2>1, DraftStepTyped, DrainTyped, RestTyped, DraftKeeps, DrainKeeps, RestKeeps
    <2>3. Delivered' /\ OneLive'
      BY <1>2, <1>3, DeliveredKept
    <2>4. NoneLost'
      BY <1>2, <1>3, NoneLostKept
    <2>5. ASSUME Undisturbed' PROVE Counted'
      <3>1. Undisturbed
        BY <1>2, <1>3, <2>5, QueueMoves
      <3>2. QED
        BY <1>2, <2>1, <2>2, <2>3, <2>4, <2>5, <3>1, DraftCounted, DrainCounted, RestCounted
    <2>6. Counted'
      BY <2>5 DEF Counted
    <2>7. TurnsKept' /\ StrictFifo'
      BY <1>2, <1>3, TurnsStay
    <2>8. QED
      BY <2>2, <2>3, <2>4, <2>6, <2>7 DEF OutboxInv
  <1>4. CASE UNCHANGED vars
    <2>1. /\ UNCHANGED <<record, raced, unreadable, posted, drafts, drains, browser, failed, shown>>
          /\ UNCHANGED <<accepted, direct, stopped, late, doubtful, mishaps>>
      BY <1>4 DEF vars, queueVars, networkVars, historyVars
    <2>2. OutboxTyped'
      BY <1>2, <2>1 DEF OutboxTyped, ListsTyped, DraftsTyped, AcceptedQueued, DrainsTyped,
                        SignalsTyped
    <2>3. QueuesKept' /\ Delivered' /\ OneLive' /\ NoneLost'
      BY <1>2, <2>1 DEF QueuesKept, Delivered, OneLive, NoneLost, Undisturbed
    <2>4. Counted'
      <3>1. Pending' = Pending /\ Clean' = Clean
        BY <2>1 DEF Pending, Clean
      <3>2. QED
        BY <1>2, <2>1, <3>1 DEF Counted, Undisturbed
    <2>5. TurnsKept' /\ StrictFifo'
      BY <1>2, <2>1 DEF TurnsKept, StrictFifo, Undisturbed
    <2>6. QED
      BY <2>2, <2>3, <2>4, <2>5 DEF OutboxInv
  <1>5. QED
    BY <1>1, <1>3, <1>4

\* The queue, its drains and what they sent are consistent: the inductive invariant.
THEOREM OutboxInductive == Spec => []OutboxInv
  BY OutboxStarts, OutboxSteps, PTL DEF Spec

\* The types of the queue, the drains and the connectivity signal.
THEOREM OutboxTypeCorrect == Spec => []TypeOK
  <1>1. OutboxInv => TypeOK
    BY DEF OutboxInv, OutboxTyped, ListsTyped, DraftsTyped, DrainsTyped, SignalsTyped, TypeOK,
           DraftRecords, DrainRecords, DrainLabels, HasHead
  <1>2. QED
    BY <1>1, OutboxInductive, PTL

\* A message whose enqueue returned is in the record or on the server, whatever is
\* cancelled, fails or dies, as long as no two changes of the record overlap and
\* everything is readable.
THEOREM QueueLosesNothing == Spec => []NoneLost
  <1>1. OutboxInv => NoneLost
    BY DEF OutboxInv
  <1>2. QED
    BY <1>1, OutboxInductive, PTL

\* A row of the queue never comes before one of each message accepted earlier, for any
\* number of drains, cancelled or not, and of direct sends in between.
THEOREM QueueInOrder == Spec => []StrictFifo
  <1>1. OutboxInv => StrictFifo
    BY DEF OutboxInv
  <1>2. QED
    BY <1>1, OutboxInductive, PTL

\* As many rows are inserted as there are messages on the server, but for one more per
\* send that was in doubt.
THEOREM DuplicatesAreDoubts == Spec => []SentOncePerDoubt
  <1>1. OutboxInv => SentOncePerDoubt
    <2>1. SUFFICES ASSUME OutboxInv, Undisturbed
                   PROVE  Len(posted) <= Cardinality(ToSet(posted)) + doubtful
      BY DEF SentOncePerDoubt
    <2>2. /\ OutboxTyped /\ Delivered /\ NoneLost
          /\ Len(posted) + Cardinality(Pending) <= Cardinality(Clean) + doubtful
      BY <2>1 DEF OutboxInv, Counted
    <2>3. posted \in Seq(Messages) /\ doubtful \in Nat /\ Len(posted) \in Nat
      BY <2>2 DEF OutboxTyped, ListsTyped, SignalsTyped
    <2>4. IsFiniteSet(Pending) /\ IsFiniteSet(Clean) /\ Clean \subseteq ToSet(posted)
          /\ IsFiniteSet(ToSet(posted))
      BY <2>1, <2>2, <2>3, SomeSlots, CleanFinite, ElementsFinite DEF Pending
    <2>5. Cardinality(Clean) <= Cardinality(ToSet(posted))
      BY <2>4, FS_Subset
    <2>6. /\ Cardinality(Pending) \in Nat /\ Cardinality(Clean) \in Nat
          /\ Cardinality(ToSet(posted)) \in Nat
      BY <2>4, FS_CardinalityType
    <2>7. QED
      BY <2>2, <2>3, <2>5, <2>6
  <1>2. QED
    BY <1>1, OutboxInductive, PTL
=============================================================================
