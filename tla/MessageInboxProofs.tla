------------------------- MODULE MessageInboxProofs -------------------------
(***************************************************************************)
(* What the receive path keeps for any number of messages, handshakes,     *)
(* crashes and resets: the order of the counters, the use of handshakes    *)
(* and the plaintext for any number of tabs; the acceptance of rows tried  *)
(* in order for one tab.                                                   *)
(***************************************************************************)
EXTENDS MessageInbox, FiniteSetTheorems, TLAPS

-----------------------------------------------------------------------------
(***************************************************************************)
(* The types, with what they rest on: a chain index never passes the       *)
(* counter, and an attempt past its look-up has a row.                     *)
(***************************************************************************)
AtWork(t) ==
  at[t] \in {"waiting", "admitted", "marking", "evicting", "settling", "returned"}

InboxTyped ==
  /\ TypeOK
  /\ sender.n <= sender.seq
  /\ \A t \in Tabs : AtWork(t) => reading[t] \in rows

(***************************************************************************)
(* The sender's side: every row was sent before the sender's present       *)
(* counter, handshake and chain index.                                     *)
(***************************************************************************)
RowsBehind ==
  \A r \in rows :
    /\ r.c <= sender.seq
    /\ r.session <= sender.session
    /\ r.session = sender.session => r.n < sender.n

SenderInv == InboxTyped /\ RowsBehind /\ CounterFollowsChain

(***************************************************************************)
(* The device store knows of every consumed handshake it was told of, but  *)
(* for one whose usage is about to be saved, and so does every copy of the *)
(* device of what was consumed before it was hydrated.                     *)
(***************************************************************************)
Marking == {reading[t].session : t \in {u \in Tabs : at[u] = "marking"}}

MarksHeld == \A t \in Tabs : at[t] = "marking" => reading[t].session \in copy[t].used

StoreKnows == consumed \ untold \subseteq disk.used \cup disk.gone \cup Marking

Aware(t) == consumed \ (untold \cup old[t]) \subseteq copy[t].used \cup copy[t].gone

DeviceInv ==
  /\ SenderInv
  /\ consumed \subseteq 1..sender.session
  /\ MarksHeld /\ StoreKnows
  /\ \A t \in Tabs : at[t] # "starting" => Aware(t)

(***************************************************************************)
(* The map of a tab that is not behind holds what the record holds, and    *)
(* what neither the record nor an attempt under way holds was overwritten  *)
(* by a tab that was behind, or lost to a mishap of its own.               *)
(***************************************************************************)
Working == {"marking", "evicting", "settling", "returned", "persisting"}

Pending == {reading[t] : t \in {u \in Tabs : at[u] \in Working}}

MapHoldsRecord ==
  \A t \in Tabs :
    /\ ~behind[t] => stored \subseteq mem[t] /\ warm[t]
    /\ at[t] = "persisting" /\ reading[t] # None => reading[t] \in mem[t]
    /\ at[t] \in Steady => reading[t] = None

Losses == opened \ (stored \cup overwritten \cup Pending)

LossesCounted ==
  /\ mishaps \in Nat
  /\ IsFiniteSet(opened)
  /\ Cardinality(Losses) <= mishaps

OpenedReads(t) ==
  at[t] \in {"marking", "evicting", "settling", "returned"} => reading[t] \in opened

CacheInv == InboxTyped /\ MapHoldsRecord /\ LossesCounted

(***************************************************************************)
(* One tab, as long as rows were tried in order and nothing went wrong:    *)
(* the mark is at most the newest opened row or the row just admitted, and *)
(* the row under way is newer than all that were opened.                   *)
(***************************************************************************)
InOrder ==
  /\ refused = {}
  /\ \A r \in rows : r.kind = "WHISPER" => r.session \in ratchet.known
  /\ sender.acked => sender.session \in ratchet.known
  /\ disk.used \cup disk.gone \subseteq ratchet.known
  /\ \A t \in Tabs : copy[t].used \cup copy[t].gone \subseteq ratchet.known
  /\ ratchet.seen \subseteq {<<r.session, r.n>> : r \in opened}
  /\ \A r \in opened : r.session \in ratchet.known
  /\ \/ hwm = 0
     \/ \E r \in opened : hwm <= r.c
     \/ \E t \in Tabs : at[t] = "admitted" /\ hwm = reading[t].c
  /\ \A t \in Tabs :
       /\ at[t] \in {"waiting", "admitted"} => \A s \in opened : s.c < reading[t].c
       /\ OpenedReads(t)

OrderInv ==
  /\ SenderInv
  /\ mishaps \in Nat
  /\ orderly /\ mishaps = 0 => InOrder

-----------------------------------------------------------------------------
LEMMA BoundsTyped == MaxHandshakes \in Nat \ {0} /\ MaxSends \in Nat /\ MaxMishaps \in Nat
  BY InboxBoundsAssumption

SenderType == [session : 1..MaxHandshakes, n : 0..MaxSends, acked : BOOLEAN, seq : 0..MaxSends]

\* The sender's record by its fields.
LEMMA SenderFields ==
  ASSUME sender \in SenderType
  PROVE  sender = [session |-> sender.session, n |-> sender.n, acked |-> sender.acked,
                   seq |-> sender.seq]
  BY DEF SenderType

LEMMA InboxTypedInit == Init => InboxTyped
  <1> USE InboxBoundsAssumption DEF Init, InboxTyped, TypeOK, Keys, Labels
  <1> SUFFICES ASSUME Init PROVE InboxTyped
    OBVIOUS
  <1>1. sender \in [session : 1..MaxHandshakes, n : 0..MaxSends, acked : BOOLEAN,
                    seq : 0..MaxSends]
    OBVIOUS
  <1>2. ratchet.known = {} /\ ratchet.seen = {}
    OBVIOUS
  <1>3. QED
    BY <1>1, <1>2, WarmStartAssumption DEF AtWork

\* A send adds at most the row that the next counter stamps.
LEMMA NextRowType ==
  ASSUME InboxTyped, sender.seq < MaxSends
  PROVE  /\ NextRow \in Row
         /\ NextRow.session = sender.session /\ NextRow.n = sender.n
         /\ NextRow.c = sender.seq + 1
  BY InboxBoundsAssumption DEF InboxTyped, TypeOK, NextRow, Row

LEMMA SendTyped ==
  ASSUME InboxTyped, Send
  PROVE  InboxTyped'
  <1>1. /\ sender' \in [session : 1..MaxHandshakes, n : 0..MaxSends, acked : BOOLEAN,
                        seq : 0..MaxSends]
        /\ sender'.n <= sender'.seq
    <2>1. sender \in SenderType /\ sender.n <= sender.seq /\ sender.seq < MaxSends
      BY DEF InboxTyped, TypeOK, SenderType, Send
    <2>2. PICK n \in {sender.n, sender.n + 1} :
            sender' = [session |-> sender.session, n |-> n, acked |-> sender.acked,
                       seq |-> sender.seq + 1]
      BY <2>1, SenderFields DEF Send
    <2>3. n \in 0..MaxSends /\ n <= sender.seq + 1 /\ sender.seq + 1 \in 0..MaxSends
      BY <2>1, BoundsTyped DEF SenderType
    <2>4. QED
      BY <2>1, <2>2, <2>3 DEF SenderType
  <1>2. rows \subseteq rows' /\ rows' \subseteq Row
    BY NextRowType DEF InboxTyped, TypeOK, Send
  <1>3. UNCHANGED <<receiverVars, cacheVars, attemptVars, historyVars, bounds>>
    BY DEF Send
  <1> USE DEF receiverVars, deviceVars, cacheVars, attemptVars, historyVars, bounds
  <1>4. ratchet'.seen \subseteq {<<r.session, r.n>> : r \in rows'}
    BY <1>2, <1>3 DEF InboxTyped, TypeOK
  <1>5. reading' \in [Tabs -> rows' \cup {None}] /\ mem' \in [Tabs -> SUBSET (rows' \cup Own)]
        /\ tried' \in [Tabs -> SUBSET rows']
    BY <1>2, <1>3 DEF InboxTyped, TypeOK
  <1>6. TypeOK'
    BY <1>1, <1>2, <1>3, <1>4, <1>5 DEF InboxTyped, TypeOK
  <1>7. QED
    BY <1>1, <1>2, <1>3, <1>6 DEF InboxTyped, AtWork

\* Each step of a tab.
LEMMA TabTyped ==
  ASSUME InboxTyped, NEW t \in Tabs, TabStep(t)
  PROVE  InboxTyped'
  <1> USE DEF InboxTyped, TypeOK, Labels, senderVars, receiverVars, deviceVars, cacheVars,
              attemptVars, historyVars, bounds, Goto, Finish, AtWork
  <1>1. CASE LoadFails(t)
    BY <1>1 DEF LoadFails
  <1>2. CASE LookUp(t)
    <2>1. PICK r \in rows \ tried[t] :
            /\ tried' = [tried EXCEPT ![t] = @ \cup {r}]
            /\ IF r \in Hydrated(t)
               THEN UNCHANGED <<at, reading, orderly>>
               ELSE /\ at' = [at EXCEPT ![t] = "waiting"]
                    /\ reading' = [reading EXCEPT ![t] = r]
                    /\ orderly' = (orderly /\ \A s \in opened \cup UNION {tried[u] : u \in Tabs} :
                                                 s.c < r.c)
      BY <1>2 DEF LookUp
    <2>2. orderly' \in BOOLEAN
      BY <2>1
    <2>3. Hydrated(t) \in SUBSET (rows \cup Own)
      BY DEF Hydrated
    <2>4. /\ mem' \in [Tabs -> SUBSET (rows \cup Own)] /\ warm' \in [Tabs -> BOOLEAN]
          /\ behind' \in [Tabs -> BOOLEAN]
      BY <1>2, <2>3 DEF LookUp
    <2>5. tried' \in [Tabs -> SUBSET rows]
      BY <2>1
    <2>6. /\ at' \in [Tabs -> Labels]
          /\ reading' \in [Tabs -> rows \cup {None}]
          /\ \A u \in Tabs : AtWork(u)' => reading'[u] \in rows
      BY <2>1
    <2>7. QED
      BY <1>2, <2>2, <2>4, <2>5, <2>6 DEF LookUp
  <1>3. CASE Admit(t)
    <2>1. reading[t] \in Row
      BY <1>3 DEF Admit
    <2>2. hwm' \in 0..MaxSends
      BY <1>3, <2>1 DEF Admit, Row
    <2>3. QED
      BY <1>3, <2>2 DEF Admit
  <1>4. CASE Refuse(t)
    BY <1>4 DEF Refuse
  <1>5. CASE Open(t)
    <2> DEFINE r == reading[t]
    <2>1. r \in rows /\ r \in Row
      BY <1>5 DEF Open
    <2>2. /\ ratchet' = [known |-> ratchet.known \cup {r.session},
                         seen  |-> ratchet.seen \cup {<<r.session, r.n>>}]
          /\ opened' = opened \cup {r}
      BY <1>5 DEF Open
    <2>3. ratchet'.known \subseteq 1..MaxHandshakes
          /\ ratchet'.seen \subseteq {<<q.session, q.n>> : q \in rows}
      BY <2>1, <2>2 DEF Row
    <2>4. at' \in [Tabs -> Labels] /\ \A u \in Tabs : AtWork(u)' => AtWork(u)
      BY <1>5 DEF Open
    <2> DEFINE new == {r.session} \ ratchet.known
    <2>6. new \in SUBSET (1..MaxHandshakes)
      BY <2>1 DEF Row
    <2>7. copy' = [copy EXCEPT ![t].used = @ \cup new]
      BY <1>5 DEF Open
    <2>8. copy' \in [Tabs -> Keys]
      BY <2>6, <2>7 DEF Keys
    <2>9. /\ consumed' = consumed \cup new /\ untold' \in {untold, untold \cup new}
          /\ old' = [u \in Tabs |-> IF u = t THEN old[u] ELSE old[u] \cup new]
      BY <1>5 DEF Open
    <2>10. /\ consumed' \subseteq 1..MaxHandshakes /\ untold' \subseteq 1..MaxHandshakes
           /\ old' \in [Tabs -> SUBSET (1..MaxHandshakes)]
      BY <2>6, <2>9
    <2>5. QED
      BY <1>5, <2>1, <2>2, <2>3, <2>4, <2>8, <2>10 DEF Open
  <1>6. CASE OpenFails(t)
    BY <1>6 DEF OpenFails
  <1>7. CASE SaveUsage(t)
    <2>1. disk' \in Keys
      BY <1>7 DEF SaveUsage, Keys
    <2>2. untold' \subseteq 1..MaxHandshakes
      BY <1>7 DEF SaveUsage, Keys
    <2>3. QED
      BY <1>7, <2>1, <2>2 DEF SaveUsage
  <1>7a. CASE Evict(t)
    <2>1. reading[t].session \in 1..MaxHandshakes
      BY <1>7a DEF Evict, Row
    <2>2. disk' \in Keys
      BY <1>7a, <2>1 DEF Evict, Keys
    <2>3. QED
      BY <1>7a, <2>2 DEF Evict
  <1>8. CASE SettleCounter(t)
    <2>1. reading[t].c \in 0..MaxSends
      BY <1>8, InboxBoundsAssumption DEF SettleCounter, Row
    <2>2. QED
      BY <1>8, <2>1 DEF SettleCounter
  <1>9. CASE Remember(t)
    BY <1>9 DEF Remember
  <1>10. CASE RememberOwn(t)
    BY <1>10 DEF RememberOwn
  <1>11. CASE Persist(t)
    <2>1. behind' \in [Tabs -> BOOLEAN]
      BY <1>11 DEF Persist, Overwrites
    <2>2. overwritten' \subseteq rows \cup Own
      BY <1>11 DEF Persist, Overwrites
    <2>3. QED
      BY <1>11, <2>1, <2>2 DEF Persist
  <1>12. CASE PersistFails(t)
    BY <1>12 DEF PersistFails
  <1>13. CASE Restart(t)
    <2>1. copy' \in [Tabs -> Keys]
      BY <1>13 DEF Restart, Keys
    <2>2. untold' \subseteq 1..MaxHandshakes
      BY <1>13 DEF Restart, Row
    <2>3. /\ mem' \in [Tabs -> SUBSET (rows \cup Own)] /\ tried' \in [Tabs -> SUBSET rows]
          /\ warm' \in [Tabs -> BOOLEAN] /\ behind' \in [Tabs -> BOOLEAN]
      BY <1>13, WarmStartAssumption DEF Restart, StartMap
    <2>4. QED
      BY <1>13, <2>1, <2>2, <2>3 DEF Restart
  <1>14. CASE Hydrate(t)
    BY <1>14 DEF Hydrate, Rehydrated, FreshDevice
  <1>15. CASE ResetPeer(t)
    <2>1. ratchet'.known = {} /\ ratchet'.seen = {}
      BY <1>15 DEF ResetPeer
    <2>2. hwm' \in 0..MaxSends
      BY <1>15, BoundsTyped DEF ResetPeer
    <2>3. copy' \in [Tabs -> Keys] /\ old' \in [Tabs -> SUBSET (1..MaxHandshakes)]
      BY <1>15 DEF ResetPeer, Rehydrated, FreshDevice
    <2>4. QED
      BY <1>15, <2>1, <2>2, <2>3 DEF ResetPeer
  <1>16. CASE ResetDevice(t)
    <2> DEFINE anew == [used |-> {}, gone |-> 1..sender.session]
    <2>1. anew \in Keys
      BY BoundsTyped DEF Keys
    <2>2. ratchet'.known = {} /\ ratchet'.seen = {}
      BY <1>16 DEF ResetDevice
    <2>3. /\ disk' = anew
          /\ copy' = [u \in Tabs |-> IF u = t THEN anew
                        ELSE [copy[u] EXCEPT !.gone = @ \cup ((1..MaxHandshakes) \ anew.gone)]]
      BY <1>16 DEF ResetDevice
    <2>4. ASSUME NEW u \in Tabs
          PROVE  [copy[u] EXCEPT !.gone = @ \cup ((1..MaxHandshakes) \ anew.gone)] \in Keys
      BY DEF Keys
    <2>5. disk' \in Keys /\ copy' \in [Tabs -> Keys]
      BY <2>1, <2>3, <2>4
    <2>6. QED
      BY <1>16, <2>2, <2>5 DEF ResetDevice
  <1>17. QED
    BY <1>1, <1>2, <1>3, <1>4, <1>5, <1>6, <1>7, <1>7a, <1>8, <1>9, <1>10, <1>11, <1>12, <1>13,
       <1>14, <1>15, <1>16 DEF TabStep

LEMMA InboxTypedStep ==
  ASSUME InboxTyped, [Next]_vars
  PROVE  InboxTyped'
  <1> USE DEF senderVars, receiverVars, deviceVars, cacheVars, attemptVars, historyVars, bounds
  <1>1. CASE Answered
    BY <1>1 DEF Answered, InboxTyped, TypeOK, AtWork
  <1>2. CASE Reestablish
    <2>1. sender' = [session |-> sender.session + 1, n |-> 0, acked |-> FALSE,
                     seq |-> sender.seq]
      BY <1>2, SenderFields DEF Reestablish, InboxTyped, TypeOK, SenderType
    <2>2. sender.session + 1 \in 1..MaxHandshakes /\ sender.seq \in 0..MaxSends
      BY <1>2, BoundsTyped DEF Reestablish, InboxTyped, TypeOK
    <2>3. sender' \in SenderType /\ sender'.n <= sender'.seq
      BY <2>1, <2>2, BoundsTyped DEF SenderType
    <2>4. QED
      BY <1>2, <2>3 DEF Reestablish, InboxTyped, TypeOK, AtWork, SenderType
  <1>4. CASE UNCHANGED vars
    BY <1>4 DEF vars, InboxTyped, TypeOK, AtWork
  <1>5. QED
    BY <1>1, <1>2, <1>4, SendTyped, TabTyped DEF Next

(***************************************************************************)
(* Every variable keeps its type; no counter passes the bound on sends.    *)
(***************************************************************************)
THEOREM InboxTypeCorrect == Spec => []TypeOK
  <1>1. InboxTyped /\ [Next]_vars => InboxTyped'
    BY InboxTypedStep
  <1>2. InboxTyped => TypeOK
    BY DEF InboxTyped
  <1>3. QED
    BY InboxTypedInit, <1>1, <1>2, PTL DEF Spec

-----------------------------------------------------------------------------
\* No step but a send adds rows, and none moves the sender back.
LEMMA SenderStays ==
  ASSUME [Next]_vars, ~Send
  PROVE  /\ rows' = rows
         /\ UNCHANGED sender \/ Reestablish \/ Answered
  <1>1. ASSUME NEW t \in Tabs, TabStep(t) PROVE UNCHANGED senderVars
    BY <1>1 DEF TabStep, LoadFails, LookUp, Admit, Refuse, Open, OpenFails, SaveUsage, Evict,
      SettleCounter, Remember, RememberOwn, Persist, PersistFails, Restart, Hydrate, ResetPeer,
      ResetDevice
  <1>2. QED
    BY <1>1 DEF Next, Answered, Reestablish, vars, senderVars

LEMMA SenderStep ==
  ASSUME SenderInv, [Next]_vars
  PROVE  SenderInv'
  <1> USE DEF SenderInv, InboxTyped, TypeOK
  <1>1. InboxTyped'
    BY InboxTypedStep
  <1>2. \A r \in rows : /\ r.c \in Nat /\ r.session \in Nat /\ r.n \in Nat
    BY DEF Row
  <1>3. sender.seq \in Nat /\ sender.n \in Nat /\ sender.session \in Nat
    OBVIOUS
  <1>4. CASE Send
    <2>1. /\ sender'.seq = sender.seq + 1 /\ sender'.session = sender.session
          /\ sender'.n \in {sender.n, sender.n + 1}
          /\ rows' = rows \/ (rows' = rows \cup {NextRow} /\ sender'.n = sender.n + 1)
      BY <1>4 DEF Send
    <2>2. /\ NextRow.session = sender.session /\ NextRow.n = sender.n
          /\ NextRow.c = sender.seq + 1
      BY <1>4, NextRowType DEF Send
    <2>3. RowsBehind'
      BY <1>2, <1>3, <2>1, <2>2 DEF RowsBehind
    <2>4. CounterFollowsChain'
      <3>1. CASE rows' = rows
        BY <3>1 DEF CounterFollowsChain
      <3>2. CASE rows' = rows \cup {NextRow}
        <4> SUFFICES ASSUME NEW r \in rows', NEW s \in rows'
                     PROVE  r.c < s.c
                              <=> r.session < s.session \/ (r.session = s.session /\ r.n < s.n)
          BY DEF CounterFollowsChain
        <4>1. CASE r \in rows /\ s \in rows
          BY <4>1 DEF CounterFollowsChain
        <4>2. CASE r \in rows /\ s = NextRow
          BY <1>2, <1>3, <2>2, <4>2 DEF RowsBehind
        <4>3. CASE r = NextRow /\ s \in rows
          BY <1>2, <1>3, <2>2, <4>3 DEF RowsBehind
        <4>4. CASE r = NextRow /\ s = NextRow
          BY <1>3, <2>2, <4>4
        <4>5. QED
          BY <3>2, <4>1, <4>2, <4>3, <4>4
      <3>3. QED
        BY <2>1, <3>1, <3>2
    <2>5. QED
      BY <1>1, <2>3, <2>4
  <1>5. CASE ~Send
    <2>1. rows' = rows /\ (UNCHANGED sender \/ Reestablish \/ Answered)
      BY <1>5, SenderStays
    <2>2. RowsBehind'
      <3>1. /\ sender'.seq = sender.seq
            /\ \/ sender'.session = sender.session /\ sender'.n = sender.n
               \/ sender'.session = sender.session + 1
        BY <2>1 DEF Reestablish, Answered
      <3>2. QED
        BY <1>2, <1>3, <2>1, <3>1 DEF RowsBehind
    <2>3. QED
      BY <1>1, <2>1, <2>2 DEF CounterFollowsChain
  <1>6. QED
    BY <1>4, <1>5

LEMMA SenderStart == Init => SenderInv
  BY InboxTypedInit DEF Init, SenderInv, RowsBehind, CounterFollowsChain

(***************************************************************************)
(* Counters order the messages of a sender as its chains do, for any       *)
(* number of sends that end half-way and of handshakes.                    *)
(***************************************************************************)
THEOREM CountersFollowChains == Spec => []CounterFollowsChain
  <1>1. SenderInv /\ [Next]_vars => SenderInv'
    BY SenderStep
  <1>2. SenderInv => CounterFollowsChain
    BY DEF SenderInv
  <1>3. QED
    BY SenderStart, <1>1, <1>2, PTL DEF Spec

-----------------------------------------------------------------------------
(***************************************************************************)
(* What the store and the copies know of consumed handshakes. Steps that   *)
(* touch neither the device variables nor a row about to be marked keep    *)
(* it.                                                                     *)
(***************************************************************************)
LEMMA DeviceUntouched ==
  ASSUME DeviceInv, SenderInv', UNCHANGED deviceVars, sender'.session >= sender.session,
         \A t \in Tabs : at'[t] = "marking" <=> at[t] = "marking",
         \A t \in Tabs : at[t] = "marking" => reading'[t] = reading[t],
         \A t \in Tabs : at'[t] # "starting" => at[t] # "starting"
  PROVE  DeviceInv'
  <1>1. UNCHANGED <<disk, copy, consumed, untold, old>>
    BY DEF deviceVars
  <1>2. consumed' \subseteq 1..sender'.session
    BY <1>1 DEF DeviceInv, SenderInv, InboxTyped, TypeOK
  <1>3. Marking' = Marking
    BY DEF Marking
  <1>4. MarksHeld' /\ StoreKnows'
    BY <1>1, <1>3 DEF DeviceInv, MarksHeld, StoreKnows
  <1>5. QED
    BY <1>1, <1>2, <1>4 DEF DeviceInv, Aware

\* Under a free lock no usage is about to be saved.
LEMMA StoreKnowsAll ==
  ASSUME DeviceInv, LockFree
  PROVE  /\ \A t \in Tabs : at[t] # "marking"
         /\ consumed \ untold \subseteq disk.used \cup disk.gone
  <1>1. \A t \in Tabs : at[t] # "marking"
    BY DEF LockFree
  <1>2. Marking = {}
    BY <1>1 DEF Marking
  <1>3. QED
    BY <1>1, <1>2 DEF DeviceInv, StoreKnows

\* A tab whose device was just hydrated knows what the store knows.
LEMMA RehydratedKnows ==
  ASSUME DeviceInv, SenderInv', LockFree, NEW t \in Tabs, Rehydrated(t),
         UNCHANGED <<sender, disk, consumed, untold>>,
         \A u \in Tabs : at'[u] # "marking",
         \A u \in Tabs \ {t} : at'[u] # "starting" => at[u] # "starting"
  PROVE  DeviceInv'
  <1>1. /\ \A u \in Tabs : at[u] # "marking"
        /\ consumed \ untold \subseteq disk.used \cup disk.gone
    BY StoreKnowsAll
  <1>2. copy' = [copy EXCEPT ![t] = disk] /\ old' = [old EXCEPT ![t] = {}]
    BY DEF Rehydrated, FreshDevice
  <1>3. copy \in [Tabs -> Keys] /\ old \in [Tabs -> SUBSET (1..MaxHandshakes)]
    BY DEF DeviceInv, SenderInv, InboxTyped, TypeOK
  <1>4. MarksHeld' /\ StoreKnows'
    BY <1>1 DEF MarksHeld, StoreKnows
  <1>5. ASSUME NEW u \in Tabs, at'[u] # "starting"
        PROVE  Aware(u)'
    <2>1. CASE u = t
      BY <1>1, <1>2, <1>3, <2>1 DEF Aware
    <2>2. CASE u # t
      BY <1>2, <1>3, <1>5, <2>2 DEF Aware, DeviceInv
    <2>3. QED
      BY <2>1, <2>2
  <1>6. QED
    BY <1>4, <1>5 DEF DeviceInv

LEMMA TabDevice ==
  ASSUME DeviceInv, SenderInv', NEW t \in Tabs, TabStep(t)
  PROVE  DeviceInv'
  <1> DEFINE r == reading[t]
  <1> USE DEF senderVars, receiverVars, cacheVars, attemptVars, historyVars, bounds, Goto, Finish
  <1>1. /\ at \in [Tabs -> Labels] /\ reading \in [Tabs -> rows \cup {None}]
        /\ copy \in [Tabs -> Keys] /\ old \in [Tabs -> SUBSET (1..MaxHandshakes)]
        /\ disk \in Keys
        /\ sender.session \in Nat /\ rows \subseteq Row
        /\ AtWork(t) => r \in rows
        /\ consumed \subseteq 1..sender.session
    BY DEF DeviceInv, SenderInv, InboxTyped, TypeOK
  <1>2. UNCHANGED sender
    BY DEF TabStep, LoadFails, LookUp, Admit, Refuse, Open, OpenFails, SaveUsage, Evict,
      SettleCounter, Remember, RememberOwn, Persist, PersistFails, Restart, Hydrate, ResetPeer,
      ResetDevice
  <1>3. CASE \/ LoadFails(t) \/ LookUp(t) \/ Admit(t) \/ Refuse(t) \/ OpenFails(t)
             \/ SettleCounter(t) \/ Remember(t) \/ RememberOwn(t) \/ Persist(t) \/ PersistFails(t)
    <2>1. UNCHANGED deviceVars
      BY <1>3 DEF LoadFails, LookUp, Admit, Refuse, OpenFails, SettleCounter, Remember,
        RememberOwn, Persist, PersistFails
    <2>2. /\ at[t] \notin {"marking", "starting"} /\ at'[t] \notin {"marking", "starting"}
          /\ \A u \in Tabs \ {t} : at'[u] = at[u] /\ reading'[u] = reading[u]
      BY <1>1, <1>3 DEF LoadFails, LookUp, Admit, Refuse, OpenFails, SettleCounter, Remember,
        RememberOwn, Persist, PersistFails
    <2>3. QED
      BY <1>1, <1>2, <2>1, <2>2, DeviceUntouched
  <1>4. CASE Open(t)
    <2> DEFINE new == {r.session} \ ratchet.known
    <2>1. /\ at[t] = "admitted" /\ r \in rows /\ r.session \in 1..sender.session
      <3>1. at[t] = "admitted" /\ r \in rows
        BY <1>1, <1>4 DEF Open, AtWork
      <3>2. r.session <= sender.session /\ r.session \in 1..MaxHandshakes
        BY <1>1, <3>1 DEF DeviceInv, SenderInv, RowsBehind, Row
      <3>3. QED
        BY <1>1, <3>1, <3>2, BoundsTyped
    <2>2. /\ copy' = [copy EXCEPT ![t].used = @ \cup new]
          /\ consumed' = consumed \cup new
          /\ untold' = IF Valid THEN untold \cup new ELSE untold
          /\ old' = [u \in Tabs |-> IF u = t THEN old[u] ELSE old[u] \cup new]
          /\ UNCHANGED <<disk, reading>>
          /\ at' = [at EXCEPT ![t] = CASE ~Valid -> "marking"
                                       [] Valid /\ r.kind = "PREKEY" -> "settling"
                                       [] OTHER -> "returned"]
      BY <1>4 DEF Open
    <2>3. /\ copy'[t].used = copy[t].used \cup new /\ copy'[t].gone = copy[t].gone
          /\ \A u \in Tabs \ {t} : copy'[u] = copy[u]
      BY <1>1, <2>2 DEF Keys
    <2>4. /\ at'[t] \in {"marking", "settling", "returned"}
          /\ ~Valid => at'[t] = "marking"
          /\ at'[t] = "marking" => ~Valid
          /\ \A u \in Tabs \ {t} : at'[u] = at[u]
      BY <1>1, <2>2
    <2>5. ~Valid => new = {r.session}
      BY DEF Valid
    <2>6. MarksHeld'
      <3> SUFFICES ASSUME NEW u \in Tabs, at'[u] = "marking"
                   PROVE  reading[u].session \in copy'[u].used
        BY <2>2 DEF MarksHeld
      <3>1. CASE u = t
        BY <2>3, <2>4, <2>5, <3>1
      <3>2. CASE u # t
        BY <2>3, <2>4, <3>2 DEF DeviceInv, MarksHeld
      <3>3. QED
        BY <3>1, <3>2
    <2>7. StoreKnows'
      <3>1. Marking \subseteq Marking'
        BY <2>1, <2>2, <2>4 DEF Marking
      <3>2. ~Valid => new \subseteq Marking'
        BY <2>2, <2>4, <2>5 DEF Marking
      <3>3. QED
        BY <2>2, <3>1, <3>2 DEF DeviceInv, StoreKnows
    <2>8. ASSUME NEW u \in Tabs, at'[u] # "starting"
          PROVE  Aware(u)'
      <3>1. at[u] # "starting"
        BY <2>1, <2>4, <2>8
      <3>2. consumed \ (untold \cup old[u]) \subseteq copy[u].used \cup copy[u].gone
        BY <3>1 DEF DeviceInv, Aware
      <3>3. untold \subseteq untold'
        BY <2>2
      <3>4. CASE u = t
        <4>1. old'[u] = old[u]
          BY <1>1, <2>2, <3>4
        <4>2. QED
          BY <2>2, <2>3, <3>2, <3>3, <3>4, <4>1 DEF Aware
      <3>5. CASE u # t
        <4>1. old'[u] = old[u] \cup new /\ copy'[u] = copy[u]
          BY <2>2, <2>3, <3>5
        <4>2. QED
          BY <2>2, <3>2, <3>3, <4>1 DEF Aware
      <3>6. QED
        BY <3>4, <3>5
    <2>9. consumed' \subseteq 1..sender'.session
      BY <1>1, <1>2, <2>1, <2>2
    <2>10. QED
      BY <2>6, <2>7, <2>8, <2>9 DEF DeviceInv
  <1>5. CASE SaveUsage(t)
    <2>1. /\ at[t] = "marking" /\ at'[t] \in {"settling", "evicting"}
          /\ \A u \in Tabs \ {t} : at'[u] = at[u]
          /\ disk' = [disk EXCEPT !.used = copy[t].used]
          /\ untold' = untold \cup (disk.used \ (disk.gone \cup copy[t].used))
          /\ UNCHANGED <<copy, consumed, old, reading>>
      BY <1>1, <1>5 DEF SaveUsage
    <2>2. disk'.used = copy[t].used /\ disk'.gone = disk.gone
      BY <1>1, <2>1 DEF Keys
    <2>3. r.session \in copy[t].used
      BY <2>1 DEF DeviceInv, MarksHeld
    <2>4. Marking \subseteq Marking' \cup {r.session}
      BY <2>1 DEF Marking
    <2>5. StoreKnows'
      BY <2>1, <2>2, <2>3, <2>4 DEF DeviceInv, StoreKnows
    <2>6. MarksHeld'
      BY <2>1 DEF DeviceInv, MarksHeld
    <2>7. \A u \in Tabs : at'[u] # "starting" => Aware(u)'
      BY <2>1 DEF DeviceInv, Aware
    <2>8. QED
      BY <1>1, <1>2, <2>1, <2>5, <2>6, <2>7 DEF DeviceInv
  <1>6. CASE Evict(t)
    <2>1. /\ at[t] = "evicting" /\ at'[t] = "settling"
          /\ \A u \in Tabs \ {t} : at'[u] = at[u]
          /\ disk' = [disk EXCEPT !.gone = @ \cup {r.session}]
          /\ UNCHANGED <<copy, consumed, untold, old, reading>>
      BY <1>1, <1>6 DEF Evict
    <2>2. disk'.used = disk.used /\ disk.gone \subseteq disk'.gone
      BY <1>1, <2>1 DEF Keys
    <2>3. Marking' = Marking
      BY <2>1 DEF Marking
    <2>4. StoreKnows' /\ MarksHeld'
      BY <2>1, <2>2, <2>3 DEF DeviceInv, StoreKnows, MarksHeld
    <2>5. \A u \in Tabs : at'[u] # "starting" => Aware(u)'
      BY <2>1 DEF DeviceInv, Aware
    <2>6. QED
      BY <1>1, <1>2, <2>1, <2>4, <2>5 DEF DeviceInv
  <1>7. CASE Restart(t)
    <2>1. /\ at'[t] = "starting"
          /\ \A u \in Tabs \ {t} : at'[u] = at[u] /\ reading'[u] = reading[u] /\ copy'[u] = copy[u]
          /\ untold' = IF at[t] = "marking" THEN untold \cup {r.session} ELSE untold
          /\ UNCHANGED <<disk, consumed, old>>
      BY <1>1, <1>7 DEF Restart
    <2>2. Marking \subseteq Marking' \cup (untold' \ untold) \cup untold
      BY <2>1 DEF Marking
    <2>3. StoreKnows'
      BY <2>1, <2>2 DEF DeviceInv, StoreKnows
    <2>4. MarksHeld'
      BY <2>1 DEF DeviceInv, MarksHeld
    <2>5. ASSUME NEW u \in Tabs, at'[u] # "starting" PROVE Aware(u)'
      <3>1. u # t /\ at[u] # "starting"
        BY <2>1, <2>5
      <3>2. untold \subseteq untold' /\ copy'[u] = copy[u]
        BY <2>1, <3>1
      <3>3. QED
        BY <2>1, <3>1, <3>2 DEF DeviceInv, Aware
    <2>6. QED
      BY <1>1, <1>2, <2>1, <2>3, <2>4, <2>5 DEF DeviceInv
  <1>8. CASE Hydrate(t)
    <2>1. /\ LockFree /\ Rehydrated(t) /\ UNCHANGED <<sender, disk, consumed, untold>>
          /\ at' = [at EXCEPT ![t] = "idle"]
      BY <1>8 DEF Hydrate
    <2>2. \A u \in Tabs : at'[u] # "marking"
      BY <1>1, <2>1 DEF LockFree
    <2>3. \A u \in Tabs \ {t} : at'[u] # "starting" => at[u] # "starting"
      BY <1>1, <2>1
    <2>4. QED
      BY <2>1, <2>2, <2>3, RehydratedKnows
  <1>9. CASE ResetPeer(t)
    <2>1. LockFree /\ Rehydrated(t) /\ UNCHANGED <<sender, disk, consumed, untold, at>>
      BY <1>9 DEF ResetPeer
    <2>2. \A u \in Tabs : at'[u] # "marking"
      BY <2>1 DEF LockFree
    <2>3. QED
      BY <2>1, <2>2, RehydratedKnows
  <1>10. CASE ResetDevice(t)
    <2> DEFINE anew == [used |-> {}, gone |-> 1..sender.session]
    <2>1. /\ LockFree /\ UNCHANGED <<at, reading, consumed, untold>>
          /\ disk' = anew
          /\ copy' = [u \in Tabs |-> IF u = t THEN anew
                        ELSE [copy[u] EXCEPT !.gone = @ \cup ((1..MaxHandshakes) \ anew.gone)]]
          /\ old' = [old EXCEPT ![t] = {}]
      BY <1>10 DEF ResetDevice
    <2>2. \A u \in Tabs : at'[u] # "marking"
      BY <2>1 DEF LockFree
    <2>3. MarksHeld' /\ StoreKnows'
      BY <1>1, <2>1, <2>2 DEF MarksHeld, StoreKnows
    <2>4. ASSUME NEW u \in Tabs, at'[u] # "starting" PROVE Aware(u)'
      <3>1. CASE u = t
        BY <1>1, <2>1, <3>1 DEF Aware
      <3>2. CASE u # t
        <4>1. /\ copy'[u].used = copy[u].used /\ copy[u].gone \subseteq copy'[u].gone
              /\ old'[u] = old[u]
          BY <1>1, <2>1, <3>2 DEF Keys
        <4>2. Aware(u)
          BY <2>1, <2>4 DEF DeviceInv
        <4>3. QED
          BY <2>1, <4>1, <4>2 DEF Aware
      <3>3. QED
        BY <3>1, <3>2
    <2>5. QED
      BY <1>1, <1>2, <2>1, <2>3, <2>4 DEF DeviceInv
  <1>11. QED
    BY <1>3, <1>4, <1>5, <1>6, <1>7, <1>8, <1>9, <1>10 DEF TabStep

LEMMA DeviceStep ==
  ASSUME DeviceInv, [Next]_vars
  PROVE  DeviceInv'
  <1>1. SenderInv'
    BY SenderStep DEF DeviceInv
  <1>2. CASE Send \/ Answered \/ Reestablish \/ UNCHANGED vars
    <2>1. UNCHANGED <<deviceVars, at, reading>>
      BY <1>2 DEF Send, Answered, Reestablish, vars, receiverVars, attemptVars
    <2>2. sender'.session >= sender.session
      <3>1. sender \in SenderType
        BY DEF DeviceInv, SenderInv, InboxTyped, TypeOK, SenderType
      <3>2. sender'.session \in {sender.session, sender.session + 1}
        BY <1>2, <3>1, SenderFields DEF Send, Answered, Reestablish, vars, senderVars
      <3>3. QED
        BY <3>1, <3>2 DEF SenderType
    <2>3. QED
      BY <1>1, <2>1, <2>2, DeviceUntouched
  <1>3. QED
    BY <1>1, <1>2, TabDevice DEF Next

LEMMA DeviceStart == Init => DeviceInv
  BY SenderStart DEF Init, DeviceInv, MarksHeld, StoreKnows, Aware, Marking

\* Only an attempt of a tab that opens its row moves on from "admitted" with a
\* handshake its copy of the device accepted.
LEMMA NewHandshakeAccepted ==
  ASSUME DeviceInv, Next, NEW t \in Tabs, at[t] = "admitted", at'[t] # "admitted"
  PROVE  ratchet'.known \cap (copy[t].used \cup copy[t].gone) \subseteq ratchet.known
  <1> USE DEF senderVars, receiverVars, cacheVars, attemptVars, historyVars, bounds, Goto, Finish
  <1>1. at \in [Tabs -> Labels]
    BY DEF DeviceInv, SenderInv, InboxTyped, TypeOK
  <1>2a. at[t] = "admitted"
    OBVIOUS
  <1>2. CASE Send \/ Answered \/ Reestablish
    BY <1>2 DEF Send, Answered, Reestablish
  <1>3. ASSUME NEW u \in Tabs, TabStep(u), u # t PROVE FALSE
    BY <1>1, <1>3 DEF TabStep, LoadFails, LookUp, Admit, Refuse, Open, OpenFails, SaveUsage, Evict,
      SettleCounter, Remember, RememberOwn, Persist, PersistFails, Restart, Hydrate, ResetPeer,
      ResetDevice
  <1>4. CASE TabStep(t)
    <2>1. CASE Open(t)
      BY <2>1 DEF Open, EngineOpens
    <2>2. CASE ~Open(t)
      <3>1. OpenFails(t) \/ Restart(t) \/ ResetPeer(t)
        BY <1>2a, <1>4, <2>2 DEF TabStep, LoadFails, LookUp, Admit, Refuse, SaveUsage, Evict,
          SettleCounter, Remember, RememberOwn, Persist, PersistFails, Hydrate, ResetDevice
      <3>2. CASE OpenFails(t)
        BY <3>2 DEF OpenFails
      <3>3. CASE Restart(t)
        BY <3>3 DEF Restart
      <3>4. CASE ResetPeer(t)
        BY <3>4 DEF ResetPeer
      <3>5. QED
        BY <3>1, <3>2, <3>3, <3>4
    <2>3. QED
      BY <2>1, <2>2
  <1>5. QED
    BY <1>2, <1>3, <1>4 DEF Next

(***************************************************************************)
(* A handshake whose keys were consumed establishes again only in a tab    *)
(* hydrated before another consumed it, or after the store was not told of *)
(* it, for any number of tabs, handshakes, crashes and resets.             *)
(***************************************************************************)
THEOREM SpentHandshakesStaySpent == Spec => SpentStaysSpent
  <1>1. DeviceInv /\ [Next]_vars => DeviceInv'
    BY DeviceStep
  <1>2. ASSUME DeviceInv, Next, NEW t \in Tabs, at[t] = "admitted", at'[t] # "admitted"
        PROVE  consumed \cap (ratchet'.known \ ratchet.known) \subseteq untold \cup old[t]
    <2>1. Aware(t)
      BY <1>2 DEF DeviceInv
    <2>2. ratchet'.known \cap (copy[t].used \cup copy[t].gone) \subseteq ratchet.known
      BY <1>2, NewHandshakeAccepted
    <2>3. QED
      BY <2>1, <2>2 DEF Aware
  <1>3. DeviceInv /\ [Next]_vars =>
          [\A t \in Tabs :
             at[t] = "admitted" /\ at'[t] # "admitted" =>
               consumed \cap (ratchet'.known \ ratchet.known) \subseteq untold \cup old[t]]_vars
    BY <1>2
  <1>4. QED
    BY DeviceStart, <1>1, <1>3, PTL DEF Spec, SpentStaysSpent

-----------------------------------------------------------------------------
(***************************************************************************)
(* What happens to the plaintext of opened rows, for any number of tabs.   *)
(***************************************************************************)
\* A step that loses nothing more leaves the losses counted.
LEMMA NoMoreLosses ==
  ASSUME LossesCounted, IsFiniteSet(opened'), Losses' \subseteq Losses, mishaps' \in Nat,
         mishaps <= mishaps'
  PROVE  LossesCounted'
  <1>1. IsFiniteSet(Losses)
    BY FS_Difference DEF LossesCounted, Losses
  <1>2. IsFiniteSet(Losses') /\ Cardinality(Losses') <= Cardinality(Losses)
    BY <1>1, FS_Subset
  <1>3. Cardinality(Losses) \in Nat /\ Cardinality(Losses') \in Nat
    BY <1>1, <1>2, FS_CardinalityType
  <1>4. Cardinality(Losses) <= mishaps /\ mishaps \in Nat
    BY DEF LossesCounted, Losses
  <1>5. Cardinality(Losses') <= mishaps'
    BY <1>2, <1>3, <1>4
  <1>6. QED
    BY <1>5 DEF LossesCounted, Losses

\* A mishap may lose the row it was about.
LEMMA OneMoreLoss ==
  ASSUME LossesCounted, opened' = opened, NEW r, Losses' \subseteq Losses \cup {r},
         mishaps' = mishaps + 1
  PROVE  LossesCounted'
  <1>1. IsFiniteSet(Losses) /\ IsFiniteSet(opened)
    BY FS_Difference DEF LossesCounted, Losses
  <1>2. IsFiniteSet(Losses \cup {r})
        /\ Cardinality(Losses \cup {r}) <= Cardinality(Losses) + 1
    <2>1. Cardinality(Losses) \in Nat
      BY <1>1, FS_CardinalityType
    <2>2. /\ IsFiniteSet(Losses \cup {r})
          /\ Cardinality(Losses \cup {r})
               = IF r \in Losses THEN Cardinality(Losses) ELSE Cardinality(Losses) + 1
      BY <1>1, FS_AddElement
    <2>3. QED
      BY <2>1, <2>2
  <1>3. Cardinality(Losses') <= Cardinality(Losses \cup {r})
    BY <1>2, FS_Subset
  <1>4. IsFiniteSet(Losses')
    BY <1>2, FS_Subset
  <1>5. /\ Cardinality(Losses) \in Nat /\ Cardinality(Losses') \in Nat
        /\ Cardinality(Losses \cup {r}) \in Nat
    BY <1>1, <1>2, <1>4, FS_CardinalityType
  <1>6. Cardinality(Losses) <= mishaps /\ mishaps \in Nat
    BY DEF LossesCounted, Losses
  <1>7. Cardinality(Losses') <= mishaps'
    BY <1>2, <1>3, <1>5, <1>6
  <1>8. QED
    BY <1>1, <1>6, <1>7 DEF LossesCounted, Losses

\* What a tab is about to make durable, when only that tab moves.
LEMMA PendingMoves ==
  ASSUME NEW t \in Tabs, \A u \in Tabs \ {t} : at'[u] = at[u] /\ reading'[u] = reading[u]
  PROVE  /\ at[t] \in Working => Pending \subseteq Pending' \cup {reading[t]}
         /\ at[t] \notin Working => Pending \subseteq Pending'
         /\ at[t] \in Working /\ at'[t] \in Working /\ reading'[t] = reading[t]
              => Pending \subseteq Pending'
         /\ at'[t] \in Working => reading'[t] \in Pending'
  BY DEF Pending

LEMMA CacheStart ==
  ASSUME Init
  PROVE  CacheInv
  <1>1. InboxTyped
    BY InboxTypedInit
  <1>2. MapHoldsRecord
    BY WarmStartAssumption DEF Init, MapHoldsRecord
  <1>3. LossesCounted
    <2>1. opened = {} /\ Losses = {} /\ mishaps = 0
      BY DEF Init, Losses
    <2>2. IsFiniteSet({}) /\ Cardinality({}) = 0
      BY FS_EmptySet
    <2>3. QED
      BY <2>1, <2>2 DEF LossesCounted
  <1>4. QED
    BY <1>1, <1>2, <1>3 DEF CacheInv

\* A step of a tab.
LEMMA TabCache ==
  ASSUME CacheInv, InboxTyped', NEW t \in Tabs, TabStep(t)
  PROVE  CacheInv'
  <1> DEFINE r == reading[t]
             Quiet(u) == at'[u] = at[u] /\ reading'[u] = reading[u] /\ mem'[u] = mem[u]
                         /\ warm'[u] = warm[u]
             Holds(u) == /\ ~behind[u] => stored \subseteq mem[u] /\ warm[u]
                         /\ at[u] = "persisting" /\ reading[u] # None => reading[u] \in mem[u]
                         /\ at[u] \in Steady => reading[u] = None
  <1> USE DEF senderVars, receiverVars, cacheVars, attemptVars, historyVars, bounds, Goto, Finish
  <1>1. /\ at \in [Tabs -> Labels] /\ reading \in [Tabs -> rows \cup {None}]
        /\ mem \in [Tabs -> SUBSET (rows \cup Own)]
        /\ warm \in [Tabs -> BOOLEAN] /\ behind \in [Tabs -> BOOLEAN] /\ mishaps \in Nat
        /\ opened \subseteq Row
        /\ \A u \in Tabs : Holds(u)
    BY DEF CacheInv, MapHoldsRecord, LossesCounted, InboxTyped, TypeOK
  <1>2. ASSUME \A u \in Tabs \ {t} : at'[u] = at[u] /\ reading'[u] = reading[u]
        PROVE  /\ at[t] \in Working => Pending \subseteq Pending' \cup {r}
               /\ at[t] \notin Working => Pending \subseteq Pending'
               /\ at[t] \in Working /\ at'[t] \in Working /\ reading'[t] = r
                    => Pending \subseteq Pending'
               /\ at'[t] \in Working => reading'[t] \in Pending'
    BY <1>2, PendingMoves
  \* What has to be shown of each step.
  <1>3. ASSUME \A u \in Tabs \ {t} : Quiet(u) /\ (behind'[u] = behind[u]),
               stored' = stored, Holds(t)', LossesCounted'
        PROVE  CacheInv'
    <2>1. \A u \in Tabs : Holds(u)'
      BY <1>1, <1>3
    <2>2. QED
      BY <1>3, <2>1 DEF CacheInv, MapHoldsRecord
  <1>4. ASSUME opened' = opened, Losses' \subseteq Losses, mishaps' = mishaps
        PROVE  LossesCounted'
    BY <1>1, <1>4, NoMoreLosses DEF CacheInv, LossesCounted
  <1>5. CASE LoadFails(t)
    <2>1. /\ UNCHANGED <<at, reading, stored, mem, overwritten, opened, mishaps>>
          /\ warm' = [warm EXCEPT ![t] = TRUE] /\ behind' = [behind EXCEPT ![t] = TRUE]
          /\ at[t] = "idle"
      BY <1>5 DEF LoadFails
    <2>2. Losses' \subseteq Losses
      BY <2>1 DEF Losses, Pending
    <2>3. QED
      BY <1>1, <1>3, <1>4, <2>1, <2>2
  <1>6. CASE LookUp(t)
    <2>1. /\ \A u \in Tabs \ {t} : Quiet(u) /\ behind'[u] = behind[u]
          /\ mem'[t] = Hydrated(t) /\ warm'[t] = TRUE /\ behind'[t] = (behind[t] /\ warm[t])
          /\ UNCHANGED <<stored, overwritten, opened, mishaps>>
      BY <1>1, <1>6 DEF LookUp
    <2>2. at'[t] \in {"idle", "waiting"} /\ (at'[t] = "idle" => reading'[t] = None)
          /\ at[t] = "idle"
      BY <1>1, <1>6 DEF LookUp, Steady
    <2>3. Pending \subseteq Pending'
      BY <1>2, <2>1, <2>2 DEF Working
    <2>4. Losses' \subseteq Losses
      BY <2>1, <2>3 DEF Losses
    <2>5. Holds(t)'
      BY <1>1, <2>1, <2>2 DEF Hydrated, Steady
    <2>6. QED
      BY <1>3, <1>4, <2>1, <2>4, <2>5
  <1>7. CASE Admit(t) \/ Refuse(t) \/ OpenFails(t)
    <2>1. at'[t] \in {"idle", "admitted"} /\ (at'[t] = "idle" => reading'[t] = None)
          /\ at[t] \in {"waiting", "admitted"}
      BY <1>1, <1>7 DEF Admit, Refuse, OpenFails
    <2>2. /\ UNCHANGED <<stored, mem, warm, behind, overwritten, opened, mishaps>>
          /\ \A u \in Tabs \ {t} : at'[u] = at[u] /\ reading'[u] = reading[u]
      BY <1>1, <1>7 DEF Admit, Refuse, OpenFails
    <2>3. Pending \subseteq Pending'
      BY <1>2, <2>1, <2>2 DEF Working
    <2>4. Losses' \subseteq Losses
      BY <2>2, <2>3 DEF Losses
    <2>5. QED
      BY <1>1, <1>3, <1>4, <2>1, <2>2, <2>4 DEF Steady
  <1>8. CASE Open(t)
    <2>1. at'[t] \in {"marking", "settling", "returned"} /\ at[t] = "admitted"
          /\ reading' = reading /\ opened' = opened \cup {r}
      BY <1>1, <1>8 DEF Open
    <2>2. /\ UNCHANGED <<stored, mem, warm, behind, overwritten, mishaps>>
          /\ \A u \in Tabs \ {t} : at'[u] = at[u]
      BY <1>1, <1>8 DEF Open
    <2>3. Pending \subseteq Pending' /\ r \in Pending'
      BY <1>2, <2>1, <2>2 DEF Working
    <2>4. Losses' \subseteq Losses
      BY <2>1, <2>2, <2>3 DEF Losses
    <2>5. IsFiniteSet(opened')
      BY <2>1, FS_AddElement DEF CacheInv, LossesCounted
    <2>6. LossesCounted'
      BY <1>1, <2>2, <2>4, <2>5, NoMoreLosses DEF CacheInv
    <2>7. QED
      BY <1>1, <1>3, <2>1, <2>2, <2>6 DEF Steady
  <1>9. CASE SaveUsage(t) \/ Evict(t) \/ SettleCounter(t) \/ Remember(t)
    <2>1. /\ at'[t] \in Working /\ at[t] \in Working /\ reading' = reading
          /\ (at'[t] = "persisting" => r \in mem'[t]) /\ mem[t] \subseteq mem'[t]
          /\ \A u \in Tabs \ {t} : at'[u] = at[u] /\ mem'[u] = mem[u]
      BY <1>1, <1>9 DEF SaveUsage, Evict, SettleCounter, Remember, Working
    <2>2. UNCHANGED <<stored, warm, behind, overwritten, opened, mishaps>>
      BY <1>9 DEF SaveUsage, Evict, SettleCounter, Remember
    <2>3. Pending \subseteq Pending'
      BY <1>2, <2>1
    <2>4. Losses' \subseteq Losses
      BY <2>2, <2>3 DEF Losses
    <2>5. at'[t] \notin Steady
      BY <2>1 DEF Steady, Working
    <2>6. QED
      BY <1>1, <1>3, <1>4, <2>1, <2>2, <2>4, <2>5
  <1>10. CASE RememberOwn(t)
    <2>1. /\ at'[t] = "persisting" /\ at[t] = "idle" /\ reading' = reading /\ r = None
          /\ mem[t] \subseteq mem'[t]
          /\ \A u \in Tabs \ {t} : at'[u] = at[u] /\ mem'[u] = mem[u]
      BY <1>1, <1>10 DEF RememberOwn, Steady
    <2>2. UNCHANGED <<stored, warm, behind, overwritten, opened, mishaps>>
      BY <1>10 DEF RememberOwn
    <2>3. Pending \subseteq Pending'
      BY <1>2, <2>1 DEF Working
    <2>4. Losses' \subseteq Losses
      BY <2>2, <2>3 DEF Losses
    <2>5. QED
      BY <1>1, <1>3, <1>4, <2>1, <2>2, <2>4 DEF Steady
  <1>11. CASE Persist(t)
    <2>1. /\ at'[t] = "idle" /\ at[t] = "persisting" /\ reading'[t] = None
          /\ stored' = mem[t] /\ mem' = mem
          /\ \A u \in Tabs \ {t} : at'[u] = at[u] /\ reading'[u] = reading[u]
          /\ UNCHANGED <<warm, opened, mishaps>>
      BY <1>1, <1>11 DEF Persist
    <2>2. /\ behind' = [u \in Tabs |-> u # t \/ behind[u]]
          /\ overwritten' = IF behind[t] THEN overwritten \cup (stored \ mem[t]) ELSE overwritten
      BY <1>11 DEF Persist, Overwrites
    <2>3. stored \subseteq stored' \cup overwritten' /\ overwritten \subseteq overwritten'
      BY <1>1, <2>1, <2>2
    <2>4. Losses' \subseteq Losses
      <3>1. None \notin opened
        BY <1>1, NoneAssumption
      <3>2. r = None \/ r \in stored'
        BY <1>1, <2>1
      <3>3. Pending \subseteq Pending' \cup {r}
        BY <1>2, <2>1 DEF Working
      <3>4. QED
        BY <2>1, <2>3, <3>1, <3>2, <3>3 DEF Losses
    <2>5. ASSUME NEW u \in Tabs PROVE Holds(u)'
      <3>1. CASE u = t
        BY <1>1, <2>1, <2>2, <3>1 DEF Steady
      <3>2. CASE u # t
        BY <1>1, <2>1, <2>2, <3>2
      <3>3. QED
        BY <3>1, <3>2
    <2>6. QED
      BY <1>4, <2>1, <2>4, <2>5 DEF CacheInv, MapHoldsRecord
  <1>12. CASE PersistFails(t)
    <2>1. /\ at'[t] = "idle" /\ at[t] = "persisting" /\ reading'[t] = None
          /\ mishaps' = mishaps + 1
          /\ UNCHANGED <<stored, mem, warm, behind, overwritten, opened>>
          /\ \A u \in Tabs \ {t} : at'[u] = at[u] /\ reading'[u] = reading[u]
      BY <1>1, <1>12 DEF PersistFails
    <2>2. Pending \subseteq Pending' \cup {r}
      BY <1>2, <2>1 DEF Working
    <2>3. Losses' \subseteq Losses \cup {r}
      BY <2>1, <2>2 DEF Losses
    <2>4. LossesCounted'
      BY <2>1, <2>3, OneMoreLoss DEF CacheInv
    <2>5. QED
      BY <1>1, <1>3, <2>1, <2>4
  <1>13. CASE Restart(t)
    <2>1. /\ at'[t] = "starting" /\ reading'[t] = None /\ mem'[t] = StartMap
          /\ warm'[t] = WarmStart /\ behind'[t] = ~WarmStart
          /\ \A u \in Tabs \ {t} : Quiet(u) /\ behind'[u] = behind[u]
          /\ UNCHANGED <<stored, overwritten, opened>>
      BY <1>1, <1>13 DEF Restart
    <2>2. Holds(t)'
      BY <2>1, WarmStartAssumption DEF StartMap
    <2>3. CASE at[t] \in Steady
      <3>1. mishaps' = mishaps
        BY <1>13, <2>3 DEF Restart
      <3>2. Pending \subseteq Pending'
        BY <1>2, <2>1, <2>3 DEF Working, Steady
      <3>3. Losses' \subseteq Losses
        BY <2>1, <3>2 DEF Losses
      <3>4. QED
        BY <1>3, <1>4, <2>1, <2>2, <3>1, <3>3
    <2>4. CASE at[t] \notin Steady
      <3>1. mishaps' = mishaps + 1
        BY <1>13, <2>4 DEF Restart
      <3>2. Pending \subseteq Pending' \cup {r}
        BY <1>2, <2>1
      <3>3. Losses' \subseteq Losses \cup {r}
        BY <2>1, <3>2 DEF Losses
      <3>4. LossesCounted'
        BY <2>1, <3>1, <3>3, OneMoreLoss DEF CacheInv
      <3>5. QED
        BY <1>3, <2>1, <2>2, <3>4
    <2>5. QED
      BY <2>3, <2>4
  <1>14. CASE Hydrate(t)
    <2>1. /\ at'[t] = "idle" /\ at[t] = "starting" /\ reading' = reading
          /\ UNCHANGED <<stored, mem, warm, behind, overwritten, opened, mishaps>>
          /\ \A u \in Tabs \ {t} : at'[u] = at[u]
      BY <1>1, <1>14 DEF Hydrate
    <2>2. Pending \subseteq Pending'
      BY <1>2, <2>1 DEF Working
    <2>3. Losses' \subseteq Losses
      BY <2>1, <2>2 DEF Losses
    <2>4. QED
      BY <1>1, <1>3, <1>4, <2>1, <2>3 DEF Steady
  <1>15. CASE ResetPeer(t)
    <2>1. UNCHANGED <<at, reading, stored, mem, warm, behind, overwritten, opened, mishaps>>
      BY <1>15 DEF ResetPeer
    <2>2. Losses' \subseteq Losses
      BY <2>1 DEF Losses, Pending
    <2>3. QED
      BY <1>1, <1>3, <1>4, <2>1, <2>2
  <1>16. CASE ResetDevice(t)
    <2>1. /\ UNCHANGED <<at, reading, stored, overwritten, opened, mishaps>>
          /\ at[t] = "idle" /\ behind'[t] = TRUE
          /\ \A u \in Tabs \ {t} : Quiet(u) /\ behind'[u] = behind[u]
      BY <1>1, <1>16 DEF ResetDevice
    <2>2. Losses' \subseteq Losses
      BY <2>1 DEF Losses, Pending
    <2>3. QED
      BY <1>1, <1>3, <1>4, <2>1, <2>2
  <1>17. QED
    BY <1>5, <1>6, <1>7, <1>8, <1>9, <1>10, <1>11, <1>12, <1>13, <1>14, <1>15, <1>16 DEF TabStep

LEMMA CacheStep ==
  ASSUME CacheInv, [Next]_vars
  PROVE  CacheInv'
  <1>1. InboxTyped'
    BY InboxTypedStep DEF CacheInv
  <1>2. CASE Send \/ Answered \/ Reestablish \/ UNCHANGED vars
    <2>1. UNCHANGED <<stored, mem, warm, behind, overwritten, at, reading, opened, mishaps>>
      BY <1>2 DEF Send, Answered, Reestablish, vars, cacheVars, attemptVars, historyVars, bounds
    <2>2. MapHoldsRecord' /\ Losses' = Losses
      BY <2>1 DEF CacheInv, MapHoldsRecord, Losses, Pending
    <2>3. LossesCounted'
      BY <2>1, <2>2 DEF CacheInv, LossesCounted
    <2>4. QED
      BY <1>1, <2>2, <2>3 DEF CacheInv
  <1>3. QED
    BY <1>1, <1>2, TabCache DEF Next

\* What is lost is not in the record and not on its way there.
LEMMA LossesBound ==
  ASSUME CacheInv
  PROVE  OneLossPerMishap
  <1> DEFINE gone == opened \ (Readable \cup overwritten)
  <1>1. gone \subseteq Losses
    <2> SUFFICES ASSUME NEW x \in gone PROVE x \in Losses
      OBVIOUS
    <2>1. x # None
      BY NoneAssumption DEF CacheInv, InboxTyped, TypeOK
    <2>2. x \notin stored /\ x \notin overwritten /\ \A t \in Tabs : x \notin mem[t]
      BY DEF Readable
    <2>3. ASSUME NEW t \in Tabs, at[t] \in Working
          PROVE  reading[t] # x
      <3>1. CASE at[t] = "persisting"
        BY <2>1, <2>2, <3>1 DEF CacheInv, MapHoldsRecord
      <3>2. CASE at[t] # "persisting"
        BY <2>3, <3>2 DEF Readable, InFlight, Working
      <3>3. QED
        BY <3>1, <3>2
    <2>4. QED
      BY <2>2, <2>3 DEF Losses, Pending
  <1>2. IsFiniteSet(Losses) /\ Cardinality(Losses) <= mishaps /\ mishaps \in Nat
    BY FS_Difference DEF CacheInv, LossesCounted, Losses
  <1>3. IsFiniteSet(gone) /\ Cardinality(gone) <= Cardinality(Losses)
    BY <1>1, <1>2, FS_Subset
  <1>4. Cardinality(gone) \in Nat /\ Cardinality(Losses) \in Nat
    BY <1>2, <1>3, FS_CardinalityType
  <1>5. QED
    BY <1>2, <1>3, <1>4 DEF OneLossPerMishap

(***************************************************************************)
(* A tab that dies, or a cache write that fails, costs at most the one     *)
(* message it was about, for any number of tabs, warm or cold, records     *)
(* that cannot be read and resets: all else that is lost was overwritten   *)
(* by a tab whose map was behind the record.                               *)
(***************************************************************************)
THEOREM LossesBounded == Spec => []OneLossPerMishap
  <1>1. Init => CacheInv
    BY CacheStart
  <1>2. CacheInv /\ [Next]_vars => CacheInv'
    BY CacheStep
  <1>3. CacheInv => OneLossPerMishap
    BY LossesBound
  <1>4. QED
    BY <1>1, <1>2, <1>3, PTL DEF Spec

-----------------------------------------------------------------------------
(***************************************************************************)
(* Rows tried in order. Only the mark, the sessions and the opened rows    *)
(* matter; each lemma is one step of the only tab.                         *)
(***************************************************************************)
OneTab == \A t, u \in Tabs : t = u

MarksKnown(d, c) ==
  /\ d.used \cup d.gone \subseteq ratchet.known
  /\ \A t \in Tabs : c[t].used \cup c[t].gone \subseteq ratchet.known

\* A row that is newer than all opened ones passes the counter check and opens.
LEMMA NewerRowOpens ==
  ASSUME SenderInv, InOrder, OneTab, NEW t \in Tabs, at[t] \in {"waiting", "admitted"}
  PROVE  /\ at[t] = "waiting" => CounterAccepts(reading[t])
         /\ EngineOpens(t, reading[t])
  <1> DEFINE r == reading[t]
  <1>1. r \in rows /\ r \in Row /\ opened \subseteq rows /\ hwm \in Nat /\ rows \subseteq Row
    BY DEF SenderInv, InboxTyped, TypeOK, AtWork
  <1>2. \A s \in opened : s.c < r.c
    BY DEF InOrder
  <1>3. at[t] = "waiting" => CounterAccepts(r)
    <2> SUFFICES ASSUME at[t] = "waiting" PROVE r.c > hwm
      BY DEF CounterAccepts
    <2>1. r.c \in Nat /\ r.c > 0
      BY <1>1 DEF Row
    <2>2. hwm = 0 \/ \E s \in opened : hwm <= s.c
      <3>1. \A u \in Tabs : at[u] # "admitted"
        BY DEF OneTab
      <3>2. QED
        BY <3>1 DEF InOrder
    <2>3. CASE hwm = 0
      BY <2>1, <2>3
    <2>4. CASE \E s \in opened : hwm <= s.c
      <3>1. PICK s \in opened : hwm <= s.c
        BY <2>4
      <3>2. s.c < r.c /\ s.c \in Nat
        BY <1>1, <1>2 DEF Row
      <3>3. QED
        BY <1>1, <2>1, <3>1, <3>2
    <2>5. QED
      BY <2>2, <2>3, <2>4
  <1>4. <<r.session, r.n>> \notin ratchet.seen
    <2> SUFFICES ASSUME <<r.session, r.n>> \in ratchet.seen PROVE FALSE
      OBVIOUS
    <2>1. PICK s \in opened : <<r.session, r.n>> = <<s.session, s.n>>
      BY DEF InOrder
    <2>2. s.session = r.session /\ s.n = r.n /\ s \in Row
      BY <1>1, <2>1
    <2>3. ~(s.c < r.c)
      BY <1>1, <2>2 DEF SenderInv, CounterFollowsChain, Row
    <2>4. QED
      BY <1>2, <2>3
  <1>5. r.session \in ratchet.known \/ (r.kind = "PREKEY" /\ r.session \notin copy[t].used \cup copy[t].gone)
    BY <1>1 DEF InOrder, Row
  <1>6. QED
    BY <1>3, <1>4, <1>5 DEF EngineOpens

\* A step of the only tab, when it stays orderly.
LEMMA TabInOrder ==
  ASSUME SenderInv, InOrder, OneTab, NEW t \in Tabs, TabStep(t), orderly', mishaps' = 0,
         mishaps = 0
  PROVE  InOrder'
  <1> DEFINE r == reading[t]
  <1> USE DEF senderVars, receiverVars, deviceVars, cacheVars, attemptVars, historyVars, bounds,
              Goto, Finish, OpenedReads
  <1>1. /\ \A u \in Tabs : u = t
        /\ at \in [Tabs -> Labels] /\ copy \in [Tabs -> Keys] /\ disk \in Keys
        /\ reading \in [Tabs -> rows \cup {None}] /\ rows \subseteq Row /\ opened \subseteq rows
        /\ AtWork(t) => r \in rows
        /\ hwm \in Nat
    BY DEF OneTab, SenderInv, InboxTyped, TypeOK
  \* What has to be shown of the tab and the mark when nothing is opened.
  <1>2. ASSUME UNCHANGED <<rows, sender, refused, opened, ratchet>>,
               MarksKnown(disk', copy'),
               \/ hwm' = 0 \/ (\E q \in opened : hwm' <= q.c)
               \/ at'[t] = "admitted" /\ hwm' = reading'[t].c,
               at'[t] \in {"waiting", "admitted"} => \A s \in opened : s.c < reading'[t].c,
               at'[t] \in {"marking", "evicting", "settling", "returned"}
                 => reading'[t] \in opened
        PROVE  InOrder'
    BY <1>1, <1>2 DEF InOrder, MarksKnown
  <1>3. /\ MarksKnown(disk, copy)
        /\ \/ hwm = 0 \/ (\E q \in opened : hwm <= q.c)
           \/ at[t] = "admitted" /\ hwm = r.c
        /\ at[t] \in {"waiting", "admitted"} => \A s \in opened : s.c < r.c
        /\ at[t] \in {"marking", "evicting", "settling", "returned"} => r \in opened
    BY <1>1 DEF InOrder, MarksKnown
  <1>4. CASE LoadFails(t)
    BY <1>2, <1>3, <1>4 DEF LoadFails
  <1>5. CASE LookUp(t)
    <2>1. /\ at[t] = "idle"
          /\ at'[t] \in {"idle", "waiting"}
          /\ at'[t] = "waiting" => \A s \in opened : s.c < reading'[t].c
      BY <1>1, <1>5 DEF LookUp
    <2>2. UNCHANGED <<rows, sender, refused, opened, ratchet, disk, copy, hwm>>
      BY <1>5 DEF LookUp
    <2>3. QED
      BY <1>2, <1>3, <2>1, <2>2
  <1>6. CASE Admit(t)
    <2>1. at[t] = "waiting" /\ at'[t] = "admitted" /\ reading' = reading
          /\ hwm' \in {hwm, r.c}
      BY <1>1, <1>6 DEF Admit
    <2>2. UNCHANGED <<rows, sender, refused, opened, ratchet, disk, copy>>
      BY <1>6 DEF Admit
    <2>3. QED
      BY <1>2, <1>3, <2>1, <2>2
  <1>7. CASE Refuse(t)
    <2>1. CounterAccepts(r)
      BY <1>7, NewerRowOpens DEF Refuse
    <2>2. at'[t] = "idle" /\ UNCHANGED <<rows, sender, refused, opened, ratchet, disk, copy, hwm>>
          /\ at[t] = "waiting"
      BY <1>1, <1>7, <2>1 DEF Refuse
    <2>3. QED
      BY <1>2, <1>3, <2>2
  <1>8. CASE Open(t)
    <2>1. /\ at[t] = "admitted" /\ at'[t] \in {"marking", "settling", "returned"}
          /\ ratchet'.known = ratchet.known \cup {r.session}
          /\ ratchet'.seen = ratchet.seen \cup {<<r.session, r.n>>}
          /\ opened' = opened \cup {r}
      BY <1>1, <1>8 DEF Open
    <2>2. UNCHANGED <<rows, sender, refused, disk, hwm, reading>>
      BY <1>8 DEF Open
    <2>2a. copy' = [copy EXCEPT ![t].used = @ \cup ({r.session} \ ratchet.known)]
      BY <1>8 DEF Open
    <2>2b. /\ \A u \in Tabs : copy'[u].used \cup copy'[u].gone \subseteq ratchet'.known
           /\ disk.used \cup disk.gone \subseteq ratchet'.known
      BY <1>1, <1>3, <2>1, <2>2a DEF MarksKnown, Keys
    <2>3. hwm = 0 \/ (\E q \in opened : hwm <= q.c) \/ hwm = r.c
      BY <1>3
    <2>4. r.c \in Nat
      BY <1>1, <2>1 DEF AtWork, Row
    <2>5. hwm' = 0 \/ (\E q \in opened' : hwm' <= q.c)
      BY <2>1, <2>2, <2>3, <2>4
    <2>6. ratchet'.seen \subseteq {<<q.session, q.n>> : q \in opened'}
      BY <2>1 DEF InOrder
    <2>7. QED
      BY <1>1, <2>1, <2>2, <2>2b, <2>5, <2>6 DEF InOrder
  <1>9. CASE OpenFails(t)
    BY <1>9, NewerRowOpens DEF OpenFails
  <1>10. CASE SaveUsage(t) \/ Evict(t)
    <2>1. /\ at[t] \in {"marking", "evicting"} /\ at'[t] \in {"evicting", "settling"}
          /\ reading' = reading /\ copy' = copy
          /\ \/ disk' = [disk EXCEPT !.used = copy[t].used]
             \/ disk' = [disk EXCEPT !.gone = @ \cup {r.session}]
      BY <1>1, <1>10 DEF SaveUsage, Evict
    <2>2. UNCHANGED <<rows, sender, refused, opened, ratchet, hwm>>
      BY <1>10 DEF SaveUsage, Evict
    <2>3. r.session \in ratchet.known
      BY <1>3, <2>1 DEF InOrder
    <2>4. MarksKnown(disk', copy')
      BY <1>1, <1>3, <2>1, <2>3 DEF MarksKnown, Keys
    <2>5. QED
      BY <1>2, <1>3, <2>1, <2>2, <2>4
  <1>11. CASE SettleCounter(t)
    <2>1. /\ at[t] = "settling" /\ at'[t] = "returned" /\ reading' = reading
          /\ hwm' = r.c
      BY <1>1, <1>11 DEF SettleCounter
    <2>2. UNCHANGED <<rows, sender, refused, opened, ratchet, disk, copy>>
      BY <1>11 DEF SettleCounter
    <2>3. r \in opened /\ r.c \in Nat
      BY <1>1, <1>3, <2>1 DEF Row
    <2>4. QED
      BY <1>2, <1>3, <2>1, <2>2, <2>3
  <1>12. CASE Remember(t) \/ RememberOwn(t) \/ Persist(t) \/ Restart(t) \/ Hydrate(t)
    <2>1. at[t] \notin {"waiting", "admitted"}
          /\ at'[t] \in {"idle", "starting", "persisting"}
      <3>1. CASE Remember(t) \/ RememberOwn(t) \/ Persist(t) \/ Hydrate(t)
        BY <1>1, <3>1 DEF Remember, RememberOwn, Persist, Hydrate
      <3>2. CASE Restart(t)
        <4>1. at[t] \in Steady \/ mishaps' = mishaps + 1
          BY <3>2 DEF Restart
        <4>2. at'[t] = "starting"
          BY <1>1, <3>2 DEF Restart
        <4>3. QED
          BY <4>1, <4>2 DEF Steady
      <3>3. QED
        BY <1>12, <3>1, <3>2
    <2>2. UNCHANGED <<rows, sender, refused, opened, ratchet, disk, hwm>>
      BY <1>12 DEF Remember, RememberOwn, Persist, Restart, Hydrate
    <2>3. MarksKnown(disk', copy')
      <3>1. CASE Remember(t) \/ RememberOwn(t) \/ Persist(t)
        BY <1>3, <3>1 DEF Remember, RememberOwn, Persist
      <3>2. CASE Restart(t)
        BY <1>1, <1>3, <3>2 DEF Restart, MarksKnown
      <3>3. CASE Hydrate(t)
        BY <1>1, <1>3, <3>3 DEF Hydrate, Rehydrated, FreshDevice, MarksKnown
      <3>4. QED
        BY <1>12, <3>1, <3>2, <3>3
    <2>4. QED
      BY <1>2, <1>3, <2>1, <2>2, <2>3
  <1>13. ~PersistFails(t) /\ ~ResetPeer(t) /\ ~ResetDevice(t)
    BY DEF PersistFails, ResetPeer, ResetDevice
  <1>14. QED
    BY <1>4, <1>5, <1>6, <1>7, <1>8, <1>9, <1>10, <1>11, <1>12, <1>13 DEF TabStep

LEMMA OrderStep ==
  ASSUME OneTab, OrderInv, [Next]_vars
  PROVE  OrderInv'
  <1> USE DEF senderVars, receiverVars, deviceVars, cacheVars, attemptVars, historyVars, bounds
  <1>1. SenderInv' /\ mishaps' \in Nat
    <2>1. ASSUME NEW t \in Tabs, TabStep(t)
          PROVE  mishaps' = mishaps \/ mishaps' = mishaps + 1
      BY <2>1 DEF TabStep, LoadFails, LookUp, Admit, Refuse, Open, OpenFails, SaveUsage, Evict,
        SettleCounter, Remember, RememberOwn, Persist, PersistFails, Restart, Hydrate, ResetPeer,
        ResetDevice
    <2>2. Send \/ Answered \/ Reestablish \/ UNCHANGED vars => mishaps' = mishaps
      BY DEF Send, Answered, Reestablish, vars
    <2>3. mishaps' = mishaps \/ mishaps' = mishaps + 1
      BY <2>1, <2>2 DEF Next
    <2>4. QED
      BY <2>3, SenderStep DEF OrderInv
  <1>2. SUFFICES ASSUME orderly', mishaps' = 0
                 PROVE  InOrder'
    BY <1>1 DEF OrderInv
  <1>3. CASE Send
    <2>1. UNCHANGED <<orderly, mishaps, refused, opened, ratchet, disk, copy, hwm, at, reading>>
      BY <1>3 DEF Send
    <2>2. InOrder
      BY <1>2, <2>1 DEF OrderInv
    <2>3. \A r \in rows' : r.kind = "WHISPER" => r.session \in ratchet.known
      BY <1>3, <2>2 DEF Send, NextRow, InOrder
    <2>4. sender'.session = sender.session /\ sender'.acked = sender.acked
      <3>1. sender = [session |-> sender.session, n |-> sender.n, acked |-> sender.acked,
                      seq |-> sender.seq]
        BY SenderFields DEF OrderInv, SenderInv, InboxTyped, TypeOK, SenderType
      <3>2. QED
        BY <1>3, <3>1 DEF Send
    <2>5. QED
      BY <2>1, <2>2, <2>3, <2>4 DEF InOrder, OpenedReads
  <1>4. CASE Answered
    <2>1. UNCHANGED <<rows, orderly, mishaps, refused, opened, ratchet, disk, copy, hwm, at,
                     reading>>
      BY <1>4 DEF Answered
    <2>2. InOrder
      BY <1>2, <2>1 DEF OrderInv
    <2>3. sender'.session = sender.session /\ sender.session \in ratchet.known
      BY <1>4 DEF Answered
    <2>4. QED
      BY <2>1, <2>2, <2>3 DEF InOrder, OpenedReads
  <1>5. ~Reestablish
    BY <1>2 DEF Reestablish
  <1>6. ASSUME NEW t \in Tabs, TabStep(t)
        PROVE  InOrder'
    <2>1. orderly /\ mishaps = 0
      <3>1. orderly \in BOOLEAN /\ mishaps \in Nat
        <4>1. orderly \in BOOLEAN
          BY DEF OrderInv, SenderInv, InboxTyped, TypeOK
        <4>2. QED
          BY <4>1 DEF OrderInv
      <3>2. orderly
        BY <1>2, <1>6, <3>1 DEF TabStep, LoadFails, LookUp, Admit, Refuse, Open, OpenFails,
          SaveUsage, Evict, SettleCounter, Remember, RememberOwn, Persist, PersistFails, Restart,
          Hydrate, ResetPeer, ResetDevice
      <3>3. mishaps' = mishaps \/ mishaps' = mishaps + 1
        BY <1>6 DEF TabStep, LoadFails, LookUp, Admit, Refuse, Open, OpenFails,
          SaveUsage, Evict, SettleCounter, Remember, RememberOwn, Persist, PersistFails, Restart,
          Hydrate, ResetPeer, ResetDevice
      <3>4. QED
        BY <1>2, <3>1, <3>2, <3>3
    <2>2. QED
      BY <1>2, <1>6, <2>1, TabInOrder DEF OrderInv
  <1>7. CASE UNCHANGED vars
    BY <1>2, <1>7 DEF vars, OrderInv, InOrder, OpenedReads
  <1>8. QED
    BY <1>3, <1>4, <1>5, <1>6, <1>7 DEF Next

LEMMA OrderStart == Init => OrderInv
  <1> SUFFICES ASSUME Init PROVE OrderInv
    OBVIOUS
  <1>1. SenderInv
    BY SenderStart
  <1>2. InOrder
    BY DEF Init, InOrder, OpenedReads
  <1>3. QED
    BY <1>1, <1>2 DEF OrderInv, Init

(***************************************************************************)
(* The counter refuses no row of a sender whose rows one tab tries in the  *)
(* order they were sent, whatever sends were lost in between.              *)
(***************************************************************************)
THEOREM OrderNeverRefused ==
  ASSUME OneTab
  PROVE  Spec => []InOrderNeverRefused
  <1>1. OrderInv /\ [Next]_vars => OrderInv'
    BY OrderStep
  <1>2. OrderInv => InOrderNeverRefused
    BY DEF OrderInv, InOrder, InOrderNeverRefused
  <1>3. QED
    BY OrderStart, <1>1, <1>2, PTL DEF Spec
=============================================================================
