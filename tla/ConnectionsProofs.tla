-------------------------- MODULE ConnectionsProofs --------------------------
(***************************************************************************)
(* What the triggers, policies and locks of the migrations guarantee about *)
(* the connection of two users, for any number of calls in flight.         *)
(*                                                                         *)
(* And, from HomeInv on, what the list of Home shows of the connections:   *)
(* loads, reconciliations and realtime events settle to what the server    *)
(* holds, for any number of them and however they overlap.                 *)
(***************************************************************************)
EXTENDS Connections, HomeReconcile, FiniteSetTheorems, TLAPS

-----------------------------------------------------------------------------
(***************************************************************************)
(* The inductive invariant. The types, with what a call carries.           *)
(***************************************************************************)
Rows == [id : RowIds \cup {0}, from : Users \cup {NOBODY}, to : Users \cup {NOBODY},
         status : Statuses]

Formed(r) ==
  /\ r \in Rows
  /\ r.id = 0 <=> r = NoRow
  /\ r.id # 0 => r.from \in Users /\ r.to = Peer(r.from)

Labels == {"idle", "begin", "lock", "write", "commit"}

CallType ==
  [op : Ops \cup {"none"}, pc : Labels, by : Users \cup {NOBODY}, id : RowIds \cup {0},
   seen : Rows, blocking : BOOLEAN, barred : BOOLEAN]

CallsTyped ==
  /\ call \in [Calls -> CallType]
  /\ \A c \in Calls :
       /\ call[c].op \in Ops => call[c].by \in Users
       /\ Formed(call[c].seen)

StateTyped ==
  /\ Formed(row)
  /\ blocks \subseteq {<<u, Peer(u)>> : u \in Users}
  /\ gone \subseteq Users /\ consent \subseteq Users /\ shut \subseteq Users
  /\ rowLock \in Calls \cup {NOBODY}
  /\ history \in BOOLEAN

Typed == CallsTyped /\ StateTyped

\* The advisory lock of the pair: one request at a time is past its read, and
\* meanwhile the row comes into being, or changes its direction, by nobody else.
InPairLock(c) == At(c, "send", "write") \/ At(c, "send", "commit")

SeenInv(c) ==
  InPairLock(c) =>
    /\ call[c].seen.id = 0 => row.id = 0
    /\ call[c].seen.id # 0 /\ row.id = call[c].seen.id =>
         row.from = call[c].seen.from /\ row.to = call[c].seen.to

PairInv ==
  /\ \A c, d \in Calls : InPairLock(c) /\ InPairLock(d) => c = d
  /\ \A c \in Calls : SeenInv(c)

\* The lock of the row: who is about to commit an update still finds what its
\* trigger has read.
LockInv ==
  \A c \in Calls :
    /\ At(c, "accept", "commit") =>
         /\ rowLock = c
         /\ row.id # 0 /\ row.status = "pending" /\ row.to = call[c].by
    /\ At(c, "send", "commit") /\ call[c].seen.id # 0 =>
         rowLock = c /\ row.id = call[c].seen.id

\* A pending request is the word of its sender.
ConsentInv ==
  /\ row.status = "pending" => row.from \in consent
  /\ AcceptedByBoth

\* A barred call is still under a block, and a barred request is not past its check.
BarInv ==
  /\ \A c \in Calls :
       call[c].barred => blocks # {} /\ (call[c].op = "send" => call[c].pc = "begin")
  /\ NothingPastABlock

\* A pair that is shut is blocked, and nothing that would open it is about to commit.
ShutInv ==
  /\ \A u \in shut : <<u, Peer(u)>> \in blocks
  /\ DeclinedAndBlockedStays
  /\ \A c \in Calls : At(c, "send", "commit") \/ At(c, "accept", "commit") => shut = {}

IInv == Typed /\ PairInv /\ LockInv /\ ConsentInv /\ BarInv /\ ShutInv

-----------------------------------------------------------------------------
(* Types *)

LEMMA PeerType == \A u \in Users : Peer(u) \in Users /\ Peer(Peer(u)) = u /\ Peer(u) # u
  BY PairAssumption DEF Users, Peer

LEMMA NoRowFormed == Formed(NoRow)
  BY RowIdsAssumption DEF Formed, Rows, NoRow, Statuses

LEMMA IdleType == Idle \in CallType
  BY NoRowFormed DEF Idle, CallType, Formed, Labels

\* There is an id that no row and no call has, while a call has seen no row.
LEMMA FreshExists ==
  ASSUME Typed, NEW c \in Calls, call[c].seen.id = 0, row.id = 0
  PROVE  Fresh \in RowIds
  <1> DEFINE Id == [d \in Calls |-> call[d].id]
             SeenId == [d \in Calls |-> call[d].seen.id]
             Ids == {Id[d] : d \in Calls}
             Seens == {SeenId[d] : d \in Calls}
             n == Cardinality(Calls)
  <1>1. IsFiniteSet(Calls) /\ n \in Nat
    BY RowIdsAssumption, FS_CardinalityType
  <1>2. IsFiniteSet(Ids) /\ Cardinality(Ids) <= n
    <2>1. Id \in Surjection(Calls, Ids)
      BY DEF Surjection
    <2>2. QED
      BY <2>1, <1>1, FS_Surjection
  <1>3. IsFiniteSet(Seens) /\ Cardinality(Seens) <= n
    <2>1. SeenId \in Surjection(Calls, Seens)
      BY DEF Surjection
    <2>2. QED
      BY <2>1, <1>1, FS_Surjection
  <1> DEFINE Known == Ids \cup Seens
  <1>4. /\ IsFiniteSet(Known)
        /\ Cardinality(Known) <= 2 * n
    <2> HIDE DEF Ids, Seens, n
    <2>1. IsFiniteSet(Ids \cap Seens)
      BY <1>2, FS_Subset
    <2>2. /\ Cardinality(Ids) \in Nat /\ Cardinality(Seens) \in Nat
          /\ Cardinality(Ids \cap Seens) \in Nat
      BY <1>2, <1>3, <2>1, FS_CardinalityType
    <2>3. /\ IsFiniteSet(Ids \cup Seens)
          /\ Cardinality(Ids \cup Seens)
               = Cardinality(Ids) + Cardinality(Seens) - Cardinality(Ids \cap Seens)
      BY <1>2, <1>3, FS_Union
    <2>4. QED
      BY <1>1, <1>2, <1>3, <2>2, <2>3
  <1>5. 0 \in Known
    <2>1. SeenId[c] = 0
      OBVIOUS
    <2>2. QED
      BY <2>1
  <1>6. ~(RowIds \subseteq Known)
    <2> HIDE DEF Known, n
    <2>1. SUFFICES ASSUME RowIds \subseteq Known \ {0} PROVE FALSE
      BY RowIdsAssumption
    <2>2. IsFiniteSet(Known \ {0}) /\ Cardinality(Known \ {0}) = Cardinality(Known) - 1
      BY <1>4, <1>5, FS_RemoveElement
    <2>3. Cardinality(RowIds) <= Cardinality(Known \ {0})
      BY <2>1, <2>2, FS_Subset
    <2>4. Cardinality(RowIds) \in Nat /\ Cardinality(Known) \in Nat
      BY <1>4, RowIdsAssumption, FS_CardinalityType
    <2>5. Cardinality(RowIds) >= 2 * n
      BY RowIdsAssumption DEF n
    <2>6. QED
      BY <1>1, <1>4, <2>2, <2>3, <2>4, <2>5
  <1>7. PICK i \in RowIds : i \notin Known
    BY <1>6
  <1>8. i # row.id /\ \A d \in Calls : i \notin {call[d].id, call[d].seen.id}
    <2>1. \A d \in Calls : Id[d] = call[d].id /\ SeenId[d] = call[d].seen.id
      OBVIOUS
    <2>2. \A d \in Calls : Id[d] \in Known /\ SeenId[d] \in Known
      OBVIOUS
    <2>3. QED
      BY <1>7, <2>1, <2>2, RowIdsAssumption
  <1>9. QED
    BY <1>8 DEF Fresh

-----------------------------------------------------------------------------
(* What a step does to the calls: it ends one or moves it on. *)

Kept(c) == \A d \in Calls \ {c} : call'[d] = call[d]

Ended(c) == call'[c] = Idle /\ Kept(c)

Moved(c, pc) ==
  /\ Kept(c)
  /\ call'[c].pc = pc
  /\ call'[c].op = call[c].op /\ call'[c].by = call[c].by
  /\ call'[c].seen = call[c].seen /\ call'[c].barred = call[c].barred

LEMMA DoneEnds ==
  ASSUME CallsTyped, NEW c \in Calls, Done(c)
  PROVE  Ended(c) /\ CallsTyped'
  <1>1. call' = [call EXCEPT ![c] = Idle]
    BY DEF Done
  <1>2. Ended(c)
    BY <1>1 DEF CallsTyped, Ended, Kept
  <1>3. call' \in [Calls -> CallType]
    BY <1>1, IdleType DEF CallsTyped
  <1>4. Idle.op \notin Ops /\ Idle.seen = NoRow
    BY DEF Idle, Ops
  <1>5. QED
    BY <1>2, <1>3, <1>4, NoRowFormed DEF CallsTyped, Ended, Kept, Formed

LEMMA GotoMoves ==
  ASSUME CallsTyped, NEW c \in Calls, NEW pc \in Labels, Goto(c, pc)
  PROVE  Moved(c, pc) /\ CallsTyped'
  <1>1. call' = [call EXCEPT ![c].pc = pc]
    BY DEF Goto
  <1>2. Moved(c, pc)
    BY <1>1 DEF CallsTyped, Moved, Kept, CallType
  <1>3. call' \in [Calls -> CallType]
    BY <1>1 DEF CallsTyped, CallType
  <1>4. QED
    BY <1>2, <1>3 DEF CallsTyped, Moved, Kept, Formed

\* The read of a request keeps the row it saw.
LEMMA ReadMoves ==
  ASSUME CallsTyped, Formed(row), NEW c \in Calls,
         call' = [call EXCEPT ![c].pc = "write", ![c].seen = row]
  PROVE  /\ Kept(c) /\ CallsTyped'
         /\ call'[c].pc = "write" /\ call'[c].seen = row
         /\ call'[c].op = call[c].op /\ call'[c].barred = call[c].barred
  <1>1. /\ Kept(c)
        /\ call'[c].pc = "write" /\ call'[c].seen = row
        /\ call'[c].op = call[c].op /\ call'[c].barred = call[c].barred
        /\ call'[c].by = call[c].by
    BY DEF CallsTyped, Kept, CallType
  <1>2. call' \in [Calls -> CallType]
    <2> DEFINE moved == [call[c] EXCEPT !.pc = "write", !.seen = row]
    <2>1. row \in Rows /\ call[c] \in CallType
      BY DEF Formed, CallsTyped
    <2>2. moved \in CallType
      BY <2>1 DEF CallType, Labels
    <2>3. call' = [call EXCEPT ![c] = moved]
      BY DEF CallsTyped
    <2>4. QED
      BY <2>2, <2>3 DEF CallsTyped
  <1>3. QED
    BY <1>1, <1>2 DEF CallsTyped, Kept, Formed

\* A call begins at its first check, and knows whether a block stands.
LEMMA BeginMoves ==
  ASSUME Typed, NEW c \in Calls, NEW u \in Users, NEW op \in Ops, NEW b \in BOOLEAN,
         Begin(c, u, op, b)
  PROVE  /\ Kept(c) /\ CallsTyped'
         /\ call'[c].pc = "begin" /\ call'[c].op = op
         /\ call'[c].barred => blocks # {}
  <1> DEFINE begun == [op |-> op, pc |-> "begin", by |-> u, id |-> row.id, seen |-> NoRow,
                       blocking |-> b, barred |-> Blocked]
  <1>1. call' = [call EXCEPT ![c] = begun]
    BY DEF Begin
  <1>2. begun \in CallType
    BY NoRowFormed DEF Typed, StateTyped, Formed, CallType, Labels, Rows, Blocked
  <1>3. call' \in [Calls -> CallType]
    BY <1>1, <1>2 DEF Typed, CallsTyped
  <1>4. Kept(c) /\ call'[c] = begun
    BY <1>1 DEF Typed, CallsTyped, Kept
  <1>5. CallsTyped'
    BY <1>3, <1>4, NoRowFormed DEF Typed, CallsTyped, Kept, Formed
  <1>6. call'[c].barred = Blocked /\ call'[c].pc = "begin" /\ call'[c].op = op
    BY <1>4
  <1>7. call'[c].barred => blocks # {}
    BY <1>6, Zenon DEF Blocked
  <1>8. QED
    BY <1>4, <1>5, <1>6, <1>7

\* Lifting the bars changes nothing else of any call.
LEMMA UnbarredMoves ==
  ASSUME CallsTyped, NEW B, call' = Unbarred(B)
  PROVE  /\ CallsTyped'
         /\ \A d \in Calls :
              /\ call'[d].op = call[d].op /\ call'[d].pc = call[d].pc
              /\ call'[d].by = call[d].by /\ call'[d].seen = call[d].seen
              /\ B = {} => ~call'[d].barred
              /\ call'[d].barred => call[d].barred
  <1>1. CASE B # {}
    BY <1>1 DEF Unbarred, CallsTyped, Formed
  <1>2. CASE B = {}
    <2>1. call' = [d \in Calls |-> [call[d] EXCEPT !.barred = FALSE]]
      BY <1>2 DEF Unbarred
    <2>2. ASSUME NEW d \in Calls
          PROVE  /\ call'[d] \in CallType
                 /\ call'[d].op = call[d].op /\ call'[d].pc = call[d].pc
                 /\ call'[d].by = call[d].by /\ call'[d].seen = call[d].seen
                 /\ ~call'[d].barred
      <3>1. call[d] \in CallType /\ call'[d] = [call[d] EXCEPT !.barred = FALSE]
        BY <2>1 DEF CallsTyped
      <3>2. QED
        BY <3>1 DEF CallType
    <2>3. call' \in [Calls -> CallType]
      BY <2>1, <2>2
    <2>4. QED
      BY <2>2, <2>3 DEF CallsTyped, Formed
  <1>3. QED
    BY <1>1, <1>2

\* An account that is deleted ends its call and lifts all bars.
LEMMA LeaveMoves ==
  ASSUME CallsTyped, NEW c \in Calls, call' = [Unbarred({}) EXCEPT ![c] = Idle]
  PROVE  /\ CallsTyped'
         /\ call'[c] = Idle
         /\ \A d \in Calls \ {c} :
              /\ call'[d].op = call[d].op /\ call'[d].pc = call[d].pc
              /\ call'[d].by = call[d].by /\ call'[d].seen = call[d].seen
              /\ ~call'[d].barred
  <1> DEFINE lifted == [d \in Calls |-> [call[d] EXCEPT !.barred = FALSE]]
  <1>1. call' = [lifted EXCEPT ![c] = Idle]
    BY DEF Unbarred
  <1>2. ASSUME NEW d \in Calls
        PROVE  /\ lifted[d] \in CallType
               /\ lifted[d].op = call[d].op /\ lifted[d].pc = call[d].pc
               /\ lifted[d].by = call[d].by /\ lifted[d].seen = call[d].seen
               /\ ~lifted[d].barred
    <2>1. call[d] \in CallType /\ lifted[d] = [call[d] EXCEPT !.barred = FALSE]
      BY DEF CallsTyped
    <2>2. QED
      BY <2>1 DEF CallType
  <1>3. lifted \in [Calls -> CallType]
    BY <1>2
  <1> HIDE DEF lifted
  <1>4. /\ call'[c] = Idle
        /\ \A d \in Calls \ {c} : call'[d] = lifted[d]
        /\ call' \in [Calls -> CallType]
    BY <1>1, <1>3, IdleType
  <1>5. Idle.op \notin Ops /\ Idle.seen = NoRow
    BY DEF Idle, Ops
  <1>6. QED
    BY <1>2, <1>4, <1>5, NoRowFormed DEF CallsTyped, Formed

-----------------------------------------------------------------------------
(* The row *)

LEMMA StatusFormed ==
  ASSUME Formed(row), row.id # 0, NEW s \in Statuses, NEW r, r = [row EXCEPT !.status = s]
  PROVE  /\ Formed(r)
         /\ r.id = row.id /\ r.from = row.from /\ r.to = row.to /\ r.status = s
  <1>1. r \in Rows /\ r.id = row.id /\ r.from = row.from /\ r.to = row.to /\ r.status = s
    BY DEF Formed, Rows
  <1>2. NoRow.id = 0
    BY DEF NoRow
  <1>3. QED
    BY <1>1, <1>2 DEF Formed

\* A request that is written is pending, from its sender to the peer.
LEMMA RequestedFormed ==
  ASSUME Formed(row), row.id # 0, NEW u \in Users, NEW seen, Formed(seen),
         row.from = seen.from, row.to = seen.to, seen.id # 0,
         NEW r, r = Requested(row, seen, u)
  PROVE  /\ Formed(r)
         /\ r.id = row.id /\ r.from = u /\ r.to = Peer(u) /\ r.status = "pending"
  <1>1. CASE seen.from = u /\ seen.status # "ended"
    <2>1. r = [row EXCEPT !.status = "pending"]
      BY <1>1 DEF Requested
    <2>2. "pending" \in Statuses
      BY DEF Statuses
    <2>3. QED
      BY <1>1, <2>1, <2>2, StatusFormed DEF Formed
  <1>2. CASE ~(seen.from = u /\ seen.status # "ended")
    <2>1. r = [row EXCEPT !.status = "pending", !.from = u, !.to = Peer(u)]
      BY <1>2 DEF Requested
    <2>2. /\ r \in Rows
          /\ r.id = row.id /\ r.from = u /\ r.to = Peer(u) /\ r.status = "pending"
      BY <2>1, PeerType DEF Formed, Rows, Statuses
    <2>3. NoRow.id = 0
      BY DEF NoRow
    <2>4. QED
      BY <2>2, <2>3 DEF Formed
  <1>3. QED
    BY <1>1, <1>2

LEMMA InsertedFormed ==
  ASSUME NEW i \in RowIds, NEW u \in Users, NEW r,
         r = [id |-> i, from |-> u, to |-> Peer(u), status |-> "pending"]
  PROVE  Formed(r) /\ r.id = i /\ r.from = u /\ r.to = Peer(u) /\ r.status = "pending"
  BY PeerType, RowIdsAssumption DEF Formed, Rows, Statuses, NoRow

LEMMA NoRowFacts == NoRow.id = 0 /\ NoRow.status = "ended"
  BY DEF NoRow

\* What the commit of a request does to the row.
LEMMA SendCommitRow ==
  ASSUME Typed, PairInv, LockInv, NEW c \in Calls, SendCommit(c)
  PROVE  /\ Formed(row')
         /\ row'.from = call[c].by /\ row'.to = Peer(call[c].by)
         /\ row'.status = "pending" /\ row'.id # 0
         /\ consent' = {call[c].by}
         /\ call[c].by \in Users
         /\ call[c].seen.id # 0 => row'.id = row.id /\ rowLock = c
         /\ call[c].seen.id = 0 => row.id = 0
  <1> DEFINE u == call[c].by
  <1>1. At(c, "send", "commit") /\ u \in Users /\ Formed(call[c].seen) /\ Formed(row)
    BY DEF SendCommit, At, Typed, CallsTyped, StateTyped, Ops
  <1>2. CASE call[c].seen.id = 0
    <2>1. row.id = 0
      BY <1>1, <1>2 DEF PairInv, SeenInv, InPairLock
    <2>2. /\ row' = [id |-> Fresh, from |-> u, to |-> Peer(u), status |-> "pending"]
          /\ consent' = {u}
      BY <1>2, <2>1 DEF SendCommit
    <2>3. Fresh \in RowIds
      BY <1>2, <2>1, FreshExists
    <2>4. QED
      BY <1>1, <1>2, <2>1, <2>2, <2>3, InsertedFormed, RowIdsAssumption
  <1>3. CASE call[c].seen.id # 0
    <2>1. rowLock = c /\ row.id = call[c].seen.id
      BY <1>1, <1>3 DEF LockInv
    <2>2. row.from = call[c].seen.from /\ row.to = call[c].seen.to
      BY <1>1, <1>3, <2>1 DEF PairInv, SeenInv, InPairLock
    <2>3. row' = Requested(row, call[c].seen, u) /\ consent' = {u}
      BY <1>3 DEF SendCommit
    <2>4. QED
      BY <1>1, <1>3, <2>1, <2>2, <2>3, RequestedFormed
  <1>4. QED
    BY <1>2, <1>3

\* The blocks that declining adds.
LEMMA DeclinerBlocksType ==
  ASSUME Typed, NEW c \in Calls, At(c, "decline", "write")
  PROVE  /\ call[c].by \in Users
         /\ DeclinerBlocks(c) \subseteq {<<u, Peer(u)>> : u \in Users}
         /\ call[c].blocking => <<call[c].by, Peer(call[c].by)>> \in DeclinerBlocks(c)
  BY DEF Typed, CallsTyped, At, Ops, DeclinerBlocks

LEMMA IdleFacts == Idle.op = "none" /\ Idle.pc = "idle" /\ ~Idle.barred
  BY DEF Idle

\* No call comes to a commit, nor into the lock of the pair.
NoneCommits ==
  \A d \in Calls :
    /\ At(d, "send", "commit")' => At(d, "send", "commit") /\ call'[d].seen = call[d].seen
    /\ At(d, "accept", "commit")' => At(d, "accept", "commit") /\ call'[d].by = call[d].by

Released ==
  /\ NoneCommits
  /\ \A d \in Calls : InPairLock(d)' => InPairLock(d) /\ call'[d].seen = call[d].seen

LEMMA EndReleases ==
  ASSUME NEW c \in Calls, Ended(c)
  PROVE  Released
  BY IdleFacts DEF Ended, Kept, Released, NoneCommits, InPairLock, At

LEMMA ReadCommitsNone ==
  ASSUME CallsTyped, Formed(row), NEW c \in Calls,
         call' = [call EXCEPT ![c].pc = "write", ![c].seen = row]
  PROVE  NoneCommits
  BY ReadMoves DEF NoneCommits, Kept, At

LEMMA PairKept ==
  ASSUME PairInv, Released,
         \/ row'.id = row.id /\ row'.from = row.from /\ row'.to = row.to
         \/ row'.id = 0
  PROVE  PairInv'
  BY DEF PairInv, SeenInv, Released

LEMMA NobodyCommits ==
  ASSUME LockInv, Unlocked, NEW d \in Calls
  PROVE  ~At(d, "accept", "commit") /\ (At(d, "send", "commit") => call[d].seen.id = 0)
  BY PairAssumption DEF LockInv, Unlocked

LEMMA LockKept ==
  ASSUME LockInv, NoneCommits, Unlocked \/ UNCHANGED <<row, rowLock>>
  PROVE  LockInv'
  <1>1. CASE UNCHANGED <<row, rowLock>>
    BY <1>1 DEF LockInv, NoneCommits
  <1>2. CASE Unlocked
    BY <1>2, NobodyCommits DEF LockInv, NoneCommits
  <1>3. QED
    BY <1>1, <1>2

-----------------------------------------------------------------------------
(* Every step preserves each part of the invariant. *)

\* Calls keep their types.
LEMMA CallsTypedNext ==
  ASSUME Typed, Next
  PROVE  CallsTyped'
  <1>1. ASSUME NEW c \in Calls, NEW u \in Users, NEW op \in Ops, NEW b \in BOOLEAN,
               Begin(c, u, op, b)
        PROVE  CallsTyped'
    BY <1>1, BeginMoves DEF Begin, Labels
  <1>2. ASSUME NEW c \in Calls, SendCheck(c) PROVE CallsTyped'
    BY <1>2, DoneEnds, GotoMoves DEF SendCheck, Typed, Labels
  <1>3. ASSUME NEW c \in Calls, SendRead(c) PROVE CallsTyped'
    BY <1>3, DoneEnds, ReadMoves DEF SendRead, Typed, StateTyped, Labels
  <1>4. ASSUME NEW c \in Calls, SendUpdate(c) PROVE CallsTyped'
    BY <1>4, DoneEnds, GotoMoves DEF SendUpdate, Typed, Labels
  <1>5. ASSUME NEW c \in Calls, SendInsert(c) PROVE CallsTyped'
    BY <1>5, DoneEnds, GotoMoves DEF SendInsert, Typed, Labels
  <1>6. ASSUME NEW c \in Calls, SendCommit(c) PROVE CallsTyped'
    BY <1>6, DoneEnds DEF SendCommit, Typed
  <1>7. ASSUME NEW c \in Calls, AcceptMisses(c) PROVE CallsTyped'
    BY <1>7, DoneEnds DEF AcceptMisses, Typed
  <1>8. ASSUME NEW c \in Calls, AcceptUpdate(c) PROVE CallsTyped'
    BY <1>8, DoneEnds, GotoMoves DEF AcceptUpdate, Typed, Labels
  <1>9. ASSUME NEW c \in Calls, AcceptCommit(c) PROVE CallsTyped'
    BY <1>9, DoneEnds DEF AcceptCommit, Typed
  <1>10. ASSUME NEW c \in Calls, DeclineRead(c) PROVE CallsTyped'
    BY <1>10, DoneEnds, GotoMoves DEF DeclineRead, Typed, Labels
  <1>11. ASSUME NEW c \in Calls, DeclineMisses(c) PROVE CallsTyped'
    BY <1>11, DoneEnds DEF DeclineMisses, Typed
  <1>12. ASSUME NEW c \in Calls, DeclineCommit(c) PROVE CallsTyped'
    BY <1>12, DoneEnds DEF DeclineCommit, Typed
  <1>13. ASSUME NEW c \in Calls, Cancel(c) PROVE CallsTyped'
    BY <1>13, DoneEnds DEF Cancel, Typed
  <1>14. ASSUME NEW c \in Calls, PostRead(c) PROVE CallsTyped'
    BY <1>14, DoneEnds, GotoMoves DEF PostRead, Typed, Labels
  <1>15. ASSUME NEW c \in Calls, PostGuard(c) PROVE CallsTyped'
    BY <1>15, DoneEnds, GotoMoves DEF PostGuard, Typed, Labels
  <1>16. ASSUME NEW c \in Calls, PostCommit(c) PROVE CallsTyped'
    BY <1>16, DoneEnds DEF PostCommit, Typed
  <1>17. ASSUME NEW c \in Calls, LeaveNotice(c) PROVE CallsTyped'
    BY <1>17, GotoMoves DEF LeaveNotice, Typed, Labels
  <1>18. ASSUME NEW c \in Calls, LeaveCommit(c) PROVE CallsTyped'
    BY <1>18, LeaveMoves DEF LeaveCommit, Typed, Labels
  <1>19. ASSUME NEW u \in Users, Block(u) PROVE CallsTyped'
    BY <1>19 DEF Block, CallsTyped, Typed
  <1>20. ASSUME NEW u \in Users, Unblock(u) PROVE CallsTyped'
    BY <1>20, UnbarredMoves DEF Unblock, Typed, Labels
  <1>21. QED
    BY <1>1, <1>2, <1>3, <1>4, <1>5, <1>6, <1>7, <1>8, <1>9, <1>10, <1>11, <1>12, <1>13,
       <1>14, <1>15, <1>16, <1>17, <1>18, <1>19, <1>20 DEF Next, Step

\* The rest of the state keeps its type.
LEMMA StateTypedNext ==
  ASSUME Typed, PairInv, LockInv, Next
  PROVE  StateTyped'
  <1>1. ASSUME NEW c \in Calls, NEW u \in Users, NEW op \in Ops, NEW b \in BOOLEAN,
               Begin(c, u, op, b)
        PROVE  StateTyped'
    BY <1>1 DEF Begin, Typed, StateTyped
  <1>2. ASSUME NEW c \in Calls, SendCheck(c) PROVE StateTyped'
    BY <1>2 DEF SendCheck, Typed, StateTyped
  <1>3. ASSUME NEW c \in Calls, SendRead(c) PROVE StateTyped'
    BY <1>3 DEF SendRead, Typed, StateTyped
  <1>4. ASSUME NEW c \in Calls, SendUpdate(c) PROVE StateTyped'
    BY <1>4 DEF SendUpdate, Typed, StateTyped
  <1>5. ASSUME NEW c \in Calls, SendInsert(c) PROVE StateTyped'
    BY <1>5 DEF SendInsert, Typed, StateTyped
  <1>6. ASSUME NEW c \in Calls, SendCommit(c) PROVE StateTyped'
    BY <1>6, SendCommitRow DEF SendCommit, Typed, StateTyped
  <1>7. ASSUME NEW c \in Calls, AcceptMisses(c) PROVE StateTyped'
    BY <1>7 DEF AcceptMisses, Typed, StateTyped
  <1>8. ASSUME NEW c \in Calls, AcceptUpdate(c) PROVE StateTyped'
    BY <1>8 DEF AcceptUpdate, Typed, StateTyped
  <1>9. ASSUME NEW c \in Calls, AcceptCommit(c) PROVE StateTyped'
    <2>1. /\ row.id # 0 /\ row' = [row EXCEPT !.status = "accepted"]
          /\ "accepted" \in Statuses /\ call[c].by \in Users
      BY <1>9 DEF AcceptCommit, LockInv, At, Statuses, Typed, CallsTyped, Ops
    <2>2. Formed(row')
      BY <2>1, StatusFormed DEF Typed, StateTyped
    <2>3. QED
      BY <1>9, <2>1, <2>2 DEF AcceptCommit, Typed, StateTyped
  <1>10. ASSUME NEW c \in Calls, DeclineRead(c) PROVE StateTyped'
    BY <1>10 DEF DeclineRead, Typed, StateTyped
  <1>11. ASSUME NEW c \in Calls, DeclineMisses(c) PROVE StateTyped'
    <2>1. DeclinerBlocks(c) \subseteq {<<u, Peer(u)>> : u \in Users}
      BY <1>11, DeclinerBlocksType DEF DeclineMisses
    <2>2. QED
      BY <1>11, <2>1 DEF DeclineMisses, Typed, StateTyped
  <1>12. ASSUME NEW c \in Calls, DeclineCommit(c) PROVE StateTyped'
    <2>1. /\ DeclinerBlocks(c) \subseteq {<<u, Peer(u)>> : u \in Users}
          /\ call[c].by \in Users
          /\ row.id # 0
          /\ "declined" \in Statuses
      BY <1>12, DeclinerBlocksType DEF DeclineCommit, Unmatched, Found, Statuses
    <2>2. Formed(row')
      BY <1>12, <2>1, StatusFormed DEF DeclineCommit, Typed, StateTyped
    <2>3. QED
      BY <1>12, <2>1, <2>2 DEF DeclineCommit, Typed, StateTyped
  <1>13. ASSUME NEW c \in Calls, Cancel(c) PROVE StateTyped'
    <2>1. Formed(row')
      BY <1>13, NoRowFormed DEF Cancel, Typed, StateTyped
    <2>2. QED
      BY <1>13, <2>1 DEF Cancel, Typed, StateTyped
  <1>14. ASSUME NEW c \in Calls, PostRead(c) PROVE StateTyped'
    BY <1>14 DEF PostRead, Typed, StateTyped
  <1>15. ASSUME NEW c \in Calls, PostGuard(c) PROVE StateTyped'
    BY <1>15 DEF PostGuard, Typed, StateTyped
  <1>16. ASSUME NEW c \in Calls, PostCommit(c) PROVE StateTyped'
    BY <1>16 DEF PostCommit, Typed, StateTyped
  <1>17. ASSUME NEW c \in Calls, LeaveNotice(c) PROVE StateTyped'
    BY <1>17 DEF LeaveNotice, Typed, StateTyped
  <1>18. ASSUME NEW c \in Calls, LeaveCommit(c) PROVE StateTyped'
    <2>1. "ended" \in Statuses /\ call[c].by \in Users
      BY <1>18 DEF LeaveCommit, Statuses, Typed, CallsTyped, At, Ops
    <2>2. Formed(row')
      BY <1>18, <2>1, StatusFormed DEF LeaveCommit, Typed, StateTyped
    <2>3. QED
      BY <1>18, <2>1, <2>2 DEF LeaveCommit, Typed, StateTyped
  <1>19. ASSUME NEW u \in Users, Block(u) PROVE StateTyped'
    BY <1>19 DEF Block, Typed, StateTyped
  <1>20. ASSUME NEW u \in Users, Unblock(u) PROVE StateTyped'
    BY <1>20 DEF Unblock, Typed, StateTyped
  <1>21. QED
    BY <1>1, <1>2, <1>3, <1>4, <1>5, <1>6, <1>7, <1>8, <1>9, <1>10, <1>11, <1>12, <1>13,
       <1>14, <1>15, <1>16, <1>17, <1>18, <1>19, <1>20 DEF Next, Step

\* One request at a time holds the lock of the pair, and what it saw stays.
LEMMA PairNext ==
  ASSUME IInv, StateTyped', Next
  PROVE  PairInv'
  <1>1. ASSUME NEW c \in Calls, NEW u \in Users, NEW op \in Ops, NEW b \in BOOLEAN,
               Begin(c, u, op, b)
        PROVE  PairInv'
    BY <1>1 DEF Begin, IInv, Ended, Kept, At, PairInv, SeenInv, InPairLock
  <1>2. ASSUME NEW c \in Calls, SendCheck(c) PROVE PairInv'
    BY <1>2, DoneEnds, GotoMoves, IdleFacts
       DEF SendCheck, IInv, Typed, Ended, Kept, Moved, At, Labels, PairInv, SeenInv,
           InPairLock
  <1>3. ASSUME NEW c \in Calls, SendRead(c) PROVE PairInv'
    <2>1. CASE Done(c)
      BY <1>3, <2>1, DoneEnds, EndReleases, PairKept DEF SendRead, IInv, Typed
    <2>2. CASE ~Done(c)
      <3>1. /\ call' = [call EXCEPT ![c].pc = "write", ![c].seen = row]
            /\ row' = row /\ ~PairLocked
        BY <1>3, <2>2 DEF SendRead
      <3>2. \A d \in Calls : ~InPairLock(d)
        BY <3>1 DEF PairLocked, InPairLock
      <3>3. \A d \in Calls \ {c} : ~InPairLock(d)'
        BY <3>1, <3>2, ReadMoves DEF IInv, Typed, StateTyped, Kept, InPairLock, At
      <3>4. SeenInv(c)'
        BY <3>1, ReadMoves DEF IInv, Typed, StateTyped, SeenInv
      <3>5. QED
        BY <3>3, <3>4 DEF PairInv, SeenInv
    <2>3. QED
      BY <2>1, <2>2
  <1>4. ASSUME NEW c \in Calls, SendUpdate(c) PROVE PairInv'
    BY <1>4, DoneEnds, GotoMoves, IdleFacts
       DEF SendUpdate, IInv, Typed, Ended, Kept, Moved, At, Labels, PairInv, SeenInv,
           InPairLock
  <1>5. ASSUME NEW c \in Calls, SendInsert(c) PROVE PairInv'
    BY <1>5, DoneEnds, GotoMoves
       DEF SendInsert, IInv, Typed, Ended, Kept, Moved, At, Labels, PairInv, SeenInv,
           InPairLock
  <1>6. ASSUME NEW c \in Calls, SendCommit(c) PROVE PairInv'
    BY <1>6, DoneEnds, IdleFacts
       DEF SendCommit, IInv, Typed, Ended, Kept, At, PairInv, SeenInv, InPairLock
  <1>7. ASSUME NEW c \in Calls, AcceptMisses(c) PROVE PairInv'
    BY <1>7, DoneEnds, IdleFacts
       DEF AcceptMisses, IInv, Typed, Ended, Kept, At, PairInv, SeenInv, InPairLock
  <1>8. ASSUME NEW c \in Calls, AcceptUpdate(c) PROVE PairInv'
    BY <1>8, DoneEnds, GotoMoves, IdleFacts
       DEF AcceptUpdate, IInv, Typed, Ended, Kept, Moved, At, Labels, PairInv, SeenInv,
           InPairLock
  <1>9. ASSUME NEW c \in Calls, AcceptCommit(c) PROVE PairInv'
    BY <1>9, DoneEnds, IdleFacts
       DEF AcceptCommit, IInv, Typed, Ended, Kept, At, PairInv, SeenInv, InPairLock
  <1>10. ASSUME NEW c \in Calls, DeclineRead(c) PROVE PairInv'
    BY <1>10, DoneEnds, GotoMoves, IdleFacts
       DEF DeclineRead, IInv, Typed, Ended, Kept, Moved, At, Labels, PairInv, SeenInv,
           InPairLock
  <1>11. ASSUME NEW c \in Calls, DeclineMisses(c) PROVE PairInv'
    BY <1>11, DoneEnds, IdleFacts
       DEF DeclineMisses, IInv, Typed, Ended, Kept, At, PairInv, SeenInv, InPairLock
  <1>12. ASSUME NEW c \in Calls, DeclineCommit(c) PROVE PairInv'
    <2>1. Released
      BY <1>12, DoneEnds, EndReleases DEF DeclineCommit, IInv, Typed
    <2>2. row'.id = row.id /\ row'.from = row.from /\ row'.to = row.to
      BY <1>12, StatusFormed
         DEF DeclineCommit, Statuses, IInv, Typed, StateTyped, Unmatched, Found
    <2>3. QED
      BY <2>1, <2>2, PairKept DEF IInv
  <1>13. ASSUME NEW c \in Calls, Cancel(c) PROVE PairInv'
    <2>1. Released
      BY <1>13, DoneEnds, EndReleases DEF Cancel, IInv, Typed
    <2>2. row' = row \/ row'.id = 0
      BY <1>13, NoRowFacts DEF Cancel
    <2>3. QED
      BY <2>1, <2>2, PairKept DEF IInv
  <1>14. ASSUME NEW c \in Calls, PostRead(c) PROVE PairInv'
    BY <1>14, DoneEnds, GotoMoves, IdleFacts
       DEF PostRead, IInv, Typed, Ended, Kept, Moved, At, Labels, PairInv, SeenInv,
           InPairLock
  <1>15. ASSUME NEW c \in Calls, PostGuard(c) PROVE PairInv'
    BY <1>15, DoneEnds, GotoMoves, IdleFacts
       DEF PostGuard, IInv, Typed, Ended, Kept, Moved, At, Labels, PairInv, SeenInv,
           InPairLock
  <1>16. ASSUME NEW c \in Calls, PostCommit(c) PROVE PairInv'
    BY <1>16, DoneEnds, IdleFacts
       DEF PostCommit, IInv, Typed, Ended, Kept, At, PairInv, SeenInv, InPairLock
  <1>17. ASSUME NEW c \in Calls, LeaveNotice(c) PROVE PairInv'
    BY <1>17, GotoMoves
       DEF LeaveNotice, IInv, Typed, Kept, Moved, At, Labels, PairInv, SeenInv, InPairLock
  <1>18. ASSUME NEW c \in Calls, LeaveCommit(c) PROVE PairInv'
    <2>1. Released
      BY <1>18, LeaveMoves, IdleFacts
         DEF LeaveCommit, IInv, Typed, Released, NoneCommits, InPairLock, At
    <2>2. row'.id = row.id /\ row'.from = row.from /\ row'.to = row.to
      BY <1>18, StatusFormed DEF LeaveCommit, Statuses, IInv, Typed, StateTyped
    <2>3. QED
      BY <2>1, <2>2, PairKept DEF IInv
  <1>19. ASSUME NEW u \in Users, Block(u) PROVE PairInv'
    BY <1>19 DEF Block, IInv, Ended, At, PairInv, SeenInv, InPairLock
  <1>20. ASSUME NEW u \in Users, Unblock(u) PROVE PairInv'
    <2>1. Released
      BY <1>20, UnbarredMoves
         DEF Unblock, IInv, Typed, Released, NoneCommits, InPairLock, At
    <2>2. QED
      BY <1>20, <2>1, PairKept DEF Unblock, IInv
  <1>21. QED
    BY <1>1, <1>2, <1>3, <1>4, <1>5, <1>6, <1>7, <1>8, <1>9, <1>10, <1>11, <1>12, <1>13,
       <1>14, <1>15, <1>16, <1>17, <1>18, <1>19, <1>20 DEF Next, Step

\* Who is about to commit an update finds the row as its trigger saw it.
LEMMA LockNext ==
  ASSUME IInv, StateTyped', Next
  PROVE  LockInv'
  <1>1. ASSUME NEW c \in Calls, NEW u \in Users, NEW op \in Ops, NEW b \in BOOLEAN,
               Begin(c, u, op, b)
        PROVE  LockInv'
    BY <1>1 DEF Begin, IInv, At, LockInv
  <1>2. ASSUME NEW c \in Calls, SendCheck(c) PROVE LockInv'
    BY <1>2, DoneEnds, GotoMoves, IdleFacts
       DEF SendCheck, IInv, Typed, Ended, Kept, Moved, At, Labels, LockInv
  <1>3. ASSUME NEW c \in Calls, SendRead(c) PROVE LockInv'
    <2>1. CASE Done(c)
      BY <1>3, <2>1, DoneEnds, EndReleases, LockKept DEF SendRead, Released, IInv, Typed
    <2>2. CASE ~Done(c)
      <3>1. /\ call' = [call EXCEPT ![c].pc = "write", ![c].seen = row]
            /\ row' = row /\ rowLock' = rowLock
        BY <1>3, <2>2 DEF SendRead
      <3>2. NoneCommits
        BY <3>1, ReadCommitsNone DEF IInv, Typed, StateTyped
      <3>3. QED
        BY <3>1, <3>2, LockKept DEF IInv
    <2>3. QED
      BY <2>1, <2>2
  <1>4. ASSUME NEW c \in Calls, SendUpdate(c) PROVE LockInv'
    <2>1. CASE Done(c)
      BY <1>4, <2>1, DoneEnds, EndReleases, LockKept DEF SendUpdate, Released, IInv, Typed
    <2>2. CASE ~Done(c)
      <3>1. Moved(c, "commit") /\ rowLock' = c /\ row' = row /\ Unlocked
        BY <1>4, <2>2, GotoMoves DEF SendUpdate, IInv, Typed, Labels
      <3>2. \A d \in Calls \ {c} :
              /\ ~At(d, "accept", "commit")'
              /\ At(d, "send", "commit")' => call'[d].seen.id = 0
        BY <3>1, NobodyCommits DEF IInv, Moved, Kept, At
      <3>3. ~At(c, "accept", "commit")' /\ row.id = call'[c].seen.id
        BY <1>4, <2>2, <3>1 DEF SendUpdate, Moved, At
      <3>4. QED
        BY <3>1, <3>2, <3>3 DEF LockInv
    <2>3. QED
      BY <2>1, <2>2
  <1>5. ASSUME NEW c \in Calls, SendInsert(c) PROVE LockInv'
    BY <1>5, DoneEnds, GotoMoves, IdleFacts
       DEF SendInsert, IInv, Typed, Ended, Kept, Moved, At, Labels, LockInv
  <1>6. ASSUME NEW c \in Calls, SendCommit(c) PROVE LockInv'
    BY <1>6, DoneEnds, IdleFacts DEF SendCommit, IInv, Typed, Ended, Kept, At, LockInv
  <1>7. ASSUME NEW c \in Calls, AcceptMisses(c) PROVE LockInv'
    BY <1>7, DoneEnds, IdleFacts DEF AcceptMisses, IInv, Typed, Ended, Kept, At, LockInv
  <1>8. ASSUME NEW c \in Calls, AcceptUpdate(c) PROVE LockInv'
    <2>1. CASE Done(c)
      BY <1>8, <2>1, DoneEnds, EndReleases, LockKept
         DEF AcceptUpdate, Released, IInv, Typed
    <2>2. CASE ~Done(c)
      <3>1. Moved(c, "commit") /\ rowLock' = c /\ row' = row /\ Unlocked
        BY <1>8, <2>2, GotoMoves DEF AcceptUpdate, IInv, Typed, Labels
      <3>2. \A d \in Calls \ {c} :
              /\ ~At(d, "accept", "commit")'
              /\ At(d, "send", "commit")' => call'[d].seen.id = 0
        BY <3>1, NobodyCommits DEF IInv, Moved, Kept, At
      <3>3. /\ ~At(c, "send", "commit")'
            /\ row.id # 0 /\ row.status = "pending" /\ row.to = call'[c].by
        BY <1>8, <2>2, <3>1 DEF AcceptUpdate, Moved, At, MayAnswer, Unmatched, Found
      <3>4. QED
        BY <3>1, <3>2, <3>3 DEF LockInv
    <2>3. QED
      BY <2>1, <2>2
  <1>9. ASSUME NEW c \in Calls, AcceptCommit(c) PROVE LockInv'
    BY <1>9, DoneEnds, IdleFacts DEF AcceptCommit, IInv, Typed, Ended, Kept, At, LockInv
  <1>10. ASSUME NEW c \in Calls, DeclineRead(c) PROVE LockInv'
    BY <1>10, DoneEnds, GotoMoves, IdleFacts
       DEF DeclineRead, IInv, Typed, Ended, Kept, Moved, At, Labels, LockInv
  <1>11. ASSUME NEW c \in Calls, DeclineMisses(c) PROVE LockInv'
    BY <1>11, DoneEnds, IdleFacts DEF DeclineMisses, IInv, Typed, Ended, Kept, At, LockInv
  <1>12. ASSUME NEW c \in Calls, DeclineCommit(c) PROVE LockInv'
    <2>1. Released
      BY <1>12, DoneEnds, EndReleases DEF DeclineCommit, IInv, Typed
    <2>2. QED
      BY <1>12, <2>1, LockKept DEF DeclineCommit, Released, IInv
  <1>13. ASSUME NEW c \in Calls, Cancel(c) PROVE LockInv'
    <2>1. Released
      BY <1>13, DoneEnds, EndReleases DEF Cancel, IInv, Typed
    <2>2. QED
      BY <1>13, <2>1, LockKept DEF Cancel, Released, IInv
  <1>14. ASSUME NEW c \in Calls, PostRead(c) PROVE LockInv'
    BY <1>14, DoneEnds, GotoMoves, IdleFacts
       DEF PostRead, IInv, Typed, Ended, Kept, Moved, At, Labels, LockInv
  <1>15. ASSUME NEW c \in Calls, PostGuard(c) PROVE LockInv'
    BY <1>15, DoneEnds, GotoMoves, IdleFacts
       DEF PostGuard, IInv, Typed, Ended, Kept, Moved, At, Labels, LockInv
  <1>16. ASSUME NEW c \in Calls, PostCommit(c) PROVE LockInv'
    BY <1>16, DoneEnds, IdleFacts DEF PostCommit, IInv, Typed, Ended, Kept, At, LockInv
  <1>17. ASSUME NEW c \in Calls, LeaveNotice(c) PROVE LockInv'
    BY <1>17, GotoMoves DEF LeaveNotice, IInv, Typed, Kept, Moved, At, Labels, LockInv
  <1>18. ASSUME NEW c \in Calls, LeaveCommit(c) PROVE LockInv'
    <2>1. Released
      BY <1>18, LeaveMoves, IdleFacts
         DEF LeaveCommit, IInv, Typed, Released, NoneCommits, InPairLock, At
    <2>2. QED
      BY <1>18, <2>1, LockKept DEF LeaveCommit, Released, IInv
  <1>19. ASSUME NEW u \in Users, Block(u) PROVE LockInv'
    BY <1>19 DEF Block, IInv, At, LockInv
  <1>20. ASSUME NEW u \in Users, Unblock(u) PROVE LockInv'
    BY <1>20, UnbarredMoves DEF Unblock, IInv, Typed, At, LockInv
  <1>21. QED
    BY <1>1, <1>2, <1>3, <1>4, <1>5, <1>6, <1>7, <1>8, <1>9, <1>10, <1>11, <1>12, <1>13,
       <1>14, <1>15, <1>16, <1>17, <1>18, <1>19, <1>20 DEF Next, Step

\* Whoever asks and whoever accepts has said yes last.
LEMMA ConsentNext ==
  ASSUME IInv, StateTyped', Next
  PROVE  ConsentInv'
  <1>1. ASSUME NEW c \in Calls, NEW u \in Users, NEW op \in Ops, NEW b \in BOOLEAN,
               Begin(c, u, op, b)
        PROVE  ConsentInv'
    BY <1>1 DEF Begin, IInv, ConsentInv, AcceptedByBoth
  <1>2. ASSUME NEW c \in Calls, SendCheck(c) PROVE ConsentInv'
    BY <1>2 DEF SendCheck, IInv, ConsentInv, AcceptedByBoth
  <1>3. ASSUME NEW c \in Calls, SendRead(c) PROVE ConsentInv'
    BY <1>3 DEF SendRead, IInv, ConsentInv, AcceptedByBoth
  <1>4. ASSUME NEW c \in Calls, SendUpdate(c) PROVE ConsentInv'
    BY <1>4 DEF SendUpdate, IInv, ConsentInv, AcceptedByBoth
  <1>5. ASSUME NEW c \in Calls, SendInsert(c) PROVE ConsentInv'
    BY <1>5 DEF SendInsert, IInv, ConsentInv, AcceptedByBoth
  <1>6. ASSUME NEW c \in Calls, SendCommit(c) PROVE ConsentInv'
    BY <1>6, SendCommitRow DEF SendCommit, IInv, ConsentInv, AcceptedByBoth
  <1>7. ASSUME NEW c \in Calls, AcceptMisses(c) PROVE ConsentInv'
    BY <1>7 DEF AcceptMisses, IInv, ConsentInv, AcceptedByBoth
  <1>8. ASSUME NEW c \in Calls, AcceptUpdate(c) PROVE ConsentInv'
    BY <1>8 DEF AcceptUpdate, IInv, ConsentInv, AcceptedByBoth
  <1>9. ASSUME NEW c \in Calls, AcceptCommit(c) PROVE ConsentInv'
    <2>1. /\ row.id # 0 /\ row.status = "pending" /\ row.to = call[c].by
          /\ Formed(row)
      BY <1>9 DEF AcceptCommit, IInv, LockInv, Typed, StateTyped
    <2>2. row.from \in consent /\ row.from \in Users /\ call[c].by = Peer(row.from)
      BY <2>1 DEF IInv, ConsentInv, Formed
    <2>3. row'.status = "accepted"
      BY <1>9, <2>1, StatusFormed DEF AcceptCommit, Statuses
    <2>4. consent' = Users
      <3>1. consent' = consent \cup {Peer(row.from)} /\ consent \subseteq Users
        BY <1>9, <2>2 DEF AcceptCommit, IInv, Typed, StateTyped
      <3>2. QED
        BY <2>2, <3>1, PeerType DEF Users, Peer
    <2>5. QED
      BY <2>3, <2>4 DEF ConsentInv, AcceptedByBoth
  <1>10. ASSUME NEW c \in Calls, DeclineRead(c) PROVE ConsentInv'
    BY <1>10 DEF DeclineRead, IInv, ConsentInv, AcceptedByBoth
  <1>11. ASSUME NEW c \in Calls, DeclineMisses(c) PROVE ConsentInv'
    BY <1>11 DEF DeclineMisses, IInv, ConsentInv, AcceptedByBoth
  <1>12. ASSUME NEW c \in Calls, DeclineCommit(c) PROVE ConsentInv'
    <2>1. CASE MayAnswer(row, call[c].by)
      <3>1. row.id # 0 /\ row' = [row EXCEPT !.status = "declined"] /\ Formed(row)
        BY <1>12, <2>1 DEF DeclineCommit, Unmatched, Found, IInv, Typed, StateTyped
      <3>2. row'.status = "declined"
        BY <3>1, StatusFormed DEF Statuses
      <3>3. QED
        BY <3>2 DEF ConsentInv, AcceptedByBoth
    <2>2. CASE ~MayAnswer(row, call[c].by)
      BY <1>12, <2>2 DEF DeclineCommit, IInv, ConsentInv, AcceptedByBoth
    <2>3. QED
      BY <2>1, <2>2
  <1>13. ASSUME NEW c \in Calls, Cancel(c) PROVE ConsentInv'
    BY <1>13, NoRowFacts DEF Cancel, IInv, ConsentInv, AcceptedByBoth
  <1>14. ASSUME NEW c \in Calls, PostRead(c) PROVE ConsentInv'
    BY <1>14 DEF PostRead, IInv, ConsentInv, AcceptedByBoth
  <1>15. ASSUME NEW c \in Calls, PostGuard(c) PROVE ConsentInv'
    BY <1>15 DEF PostGuard, IInv, ConsentInv, AcceptedByBoth
  <1>16. ASSUME NEW c \in Calls, PostCommit(c) PROVE ConsentInv'
    BY <1>16 DEF PostCommit, IInv, ConsentInv, AcceptedByBoth
  <1>17. ASSUME NEW c \in Calls, LeaveNotice(c) PROVE ConsentInv'
    BY <1>17 DEF LeaveNotice, IInv, ConsentInv, AcceptedByBoth
  <1>18. ASSUME NEW c \in Calls, LeaveCommit(c) PROVE ConsentInv'
    <2>1. row' = row \/ row'.status = "ended"
      BY <1>18, StatusFormed DEF LeaveCommit, Statuses, IInv, Typed, StateTyped
    <2>2. consent' = consent
      BY <1>18 DEF LeaveCommit
    <2>3. QED
      BY <2>1, <2>2 DEF IInv, ConsentInv, AcceptedByBoth
  <1>19. ASSUME NEW u \in Users, Block(u) PROVE ConsentInv'
    BY <1>19 DEF Block, IInv, ConsentInv, AcceptedByBoth
  <1>20. ASSUME NEW u \in Users, Unblock(u) PROVE ConsentInv'
    BY <1>20 DEF Unblock, IInv, ConsentInv, AcceptedByBoth
  <1>21. QED
    BY <1>1, <1>2, <1>3, <1>4, <1>5, <1>6, <1>7, <1>8, <1>9, <1>10, <1>11, <1>12, <1>13,
       <1>14, <1>15, <1>16, <1>17, <1>18, <1>19, <1>20 DEF Next, Step

\* A bar stands as long as its block, and never gets to a commit.
LEMMA BarNext ==
  ASSUME IInv, StateTyped', Next
  PROVE  BarInv'
  <1>1. ASSUME NEW c \in Calls, NEW u \in Users, NEW op \in Ops, NEW b \in BOOLEAN,
               Begin(c, u, op, b)
        PROVE  BarInv'
    <2>1. /\ Kept(c) /\ blocks' = blocks
          /\ call'[c].pc = "begin" /\ (call'[c].barred => blocks # {})
      BY <1>1, BeginMoves DEF Begin, IInv
    <2>2. QED
      BY <2>1 DEF IInv, BarInv, NothingPastABlock, Kept
  <1>2. ASSUME NEW c \in Calls, SendCheck(c) PROVE BarInv'
    BY <1>2, DoneEnds, GotoMoves, IdleFacts
       DEF SendCheck, IInv, Typed, Ended, Kept, Moved, Labels, BarInv, NothingPastABlock,
           Blocked
  <1>3. ASSUME NEW c \in Calls, SendRead(c) PROVE BarInv'
    <2>1. CASE Done(c)
      BY <1>3, <2>1, DoneEnds, IdleFacts DEF SendRead, IInv, Typed, Ended, Kept, BarInv,
         NothingPastABlock
    <2>2. CASE ~Done(c)
      <3>1. /\ call' = [call EXCEPT ![c].pc = "write", ![c].seen = row] /\ blocks' = blocks
            /\ ~call[c].barred
        BY <1>3, <2>2 DEF SendRead, At, IInv, BarInv
      <3>2. Kept(c) /\ call'[c].pc = "write" /\ ~call'[c].barred
        BY <3>1, ReadMoves DEF IInv, Typed, StateTyped
      <3>3. QED
        BY <3>1, <3>2 DEF IInv, BarInv, NothingPastABlock, Kept
    <2>3. QED
      BY <2>1, <2>2
  <1>4. ASSUME NEW c \in Calls, SendUpdate(c) PROVE BarInv'
    BY <1>4, DoneEnds, GotoMoves, IdleFacts
       DEF SendUpdate, IInv, Typed, Ended, Kept, Moved, At, Labels, BarInv,
           NothingPastABlock, Blocked
  <1>5. ASSUME NEW c \in Calls, SendInsert(c) PROVE BarInv'
    BY <1>5, DoneEnds, GotoMoves, IdleFacts
       DEF SendInsert, IInv, Typed, Ended, Kept, Moved, At, Labels, BarInv,
           NothingPastABlock
  <1>6. ASSUME NEW c \in Calls, SendCommit(c) PROVE BarInv'
    BY <1>6, DoneEnds, IdleFacts
       DEF SendCommit, IInv, Typed, Ended, Kept, BarInv, NothingPastABlock
  <1>7. ASSUME NEW c \in Calls, AcceptMisses(c) PROVE BarInv'
    BY <1>7, DoneEnds, IdleFacts
       DEF AcceptMisses, IInv, Typed, Ended, Kept, BarInv, NothingPastABlock
  <1>8. ASSUME NEW c \in Calls, AcceptUpdate(c) PROVE BarInv'
    <2>1. CASE Done(c)
      BY <1>8, <2>1, DoneEnds, IdleFacts
         DEF AcceptUpdate, IInv, Typed, Ended, Kept, BarInv,
         NothingPastABlock
    <2>2. CASE ~Done(c)
      <3>1. /\ Moved(c, "commit") /\ blocks' = blocks /\ row.status = "pending"
            /\ call[c].op = "accept"
            /\ ~GuardRefuses(row, [row EXCEPT !.status = "accepted"])
        BY <1>8, <2>2, GotoMoves DEF AcceptUpdate, Unmatched, At, IInv, Typed, Labels
      <3>2. [row EXCEPT !.status = "accepted"].status = "accepted"
        BY DEF IInv, Typed, StateTyped, Formed, Rows
      <3>3. blocks = {}
        BY <3>1, <3>2 DEF GuardRefuses, Blocked
      <3>4. QED
        BY <3>1, <3>3 DEF IInv, BarInv, NothingPastABlock, Moved, Kept
    <2>3. QED
      BY <2>1, <2>2
  <1>9. ASSUME NEW c \in Calls, AcceptCommit(c) PROVE BarInv'
    BY <1>9, DoneEnds, IdleFacts
       DEF AcceptCommit, IInv, Typed, Ended, Kept, BarInv, NothingPastABlock
  <1>10. ASSUME NEW c \in Calls, DeclineRead(c) PROVE BarInv'
    BY <1>10, DoneEnds, GotoMoves, IdleFacts
       DEF DeclineRead, IInv, Typed, Ended, Kept, Moved, At, Labels, BarInv,
           NothingPastABlock, Blocked
  <1>11. ASSUME NEW c \in Calls, DeclineMisses(c) PROVE BarInv'
    BY <1>11, DoneEnds, IdleFacts
       DEF DeclineMisses, IInv, Typed, Ended, Kept, BarInv, NothingPastABlock
  <1>12. ASSUME NEW c \in Calls, DeclineCommit(c) PROVE BarInv'
    BY <1>12, DoneEnds, IdleFacts
       DEF DeclineCommit, IInv, Typed, Ended, Kept, BarInv, NothingPastABlock
  <1>13. ASSUME NEW c \in Calls, Cancel(c) PROVE BarInv'
    BY <1>13, DoneEnds, IdleFacts
       DEF Cancel, IInv, Typed, Ended, Kept, BarInv, NothingPastABlock
  <1>14. ASSUME NEW c \in Calls, PostRead(c) PROVE BarInv'
    BY <1>14, DoneEnds, GotoMoves, IdleFacts
       DEF PostRead, IInv, Typed, Ended, Kept, Moved, At, Labels, BarInv,
           NothingPastABlock, Blocked
  <1>15. ASSUME NEW c \in Calls, PostGuard(c) PROVE BarInv'
    BY <1>15, DoneEnds, GotoMoves, IdleFacts
       DEF PostGuard, IInv, Typed, Ended, Kept, Moved, Labels, BarInv, NothingPastABlock,
           Blocked
  <1>16. ASSUME NEW c \in Calls, PostCommit(c) PROVE BarInv'
    BY <1>16, DoneEnds, IdleFacts
       DEF PostCommit, IInv, Typed, Ended, Kept, BarInv, NothingPastABlock
  <1>17. ASSUME NEW c \in Calls, LeaveNotice(c) PROVE BarInv'
    BY <1>17, GotoMoves
       DEF LeaveNotice, IInv, Typed, Kept, Moved, At, Labels, BarInv, NothingPastABlock
  <1>18. ASSUME NEW c \in Calls, LeaveCommit(c) PROVE BarInv'
    BY <1>18, LeaveMoves, IdleFacts
       DEF LeaveCommit, IInv, Typed, Labels, BarInv, NothingPastABlock, Blocked
  <1>19. ASSUME NEW u \in Users, Block(u) PROVE BarInv'
    BY <1>19 DEF Block, IInv, Ended, BarInv, NothingPastABlock
  <1>20. ASSUME NEW u \in Users, Unblock(u) PROVE BarInv'
    <2>1. \A d \in Calls :
            /\ call'[d].op = call[d].op /\ call'[d].pc = call[d].pc
            /\ call'[d].barred => call[d].barred /\ blocks' # {}
      BY <1>20, UnbarredMoves DEF Unblock, IInv, Typed
    <2>2. QED
      BY <2>1 DEF IInv, BarInv, NothingPastABlock
  <1>21. QED
    BY <1>1, <1>2, <1>3, <1>4, <1>5, <1>6, <1>7, <1>8, <1>9, <1>10, <1>11, <1>12, <1>13,
       <1>14, <1>15, <1>16, <1>17, <1>18, <1>19, <1>20 DEF Next, Step

\* What is shut stays shut.
LEMMA ShutNext ==
  ASSUME IInv, StateTyped', Next
  PROVE  ShutInv'
  <1>1. ASSUME NEW c \in Calls, NEW u \in Users, NEW op \in Ops, NEW b \in BOOLEAN,
               Begin(c, u, op, b)
        PROVE  ShutInv'
    BY <1>1 DEF Begin, IInv, Ended, Kept, At, ShutInv, DeclinedAndBlockedStays
  <1>2. ASSUME NEW c \in Calls, SendCheck(c) PROVE ShutInv'
    BY <1>2, DoneEnds, IdleFacts
       DEF SendCheck, IInv, Typed, Ended, Kept, At, ShutInv, DeclinedAndBlockedStays,
           Blocked
  <1>3. ASSUME NEW c \in Calls, SendRead(c) PROVE ShutInv'
    <2>1. NoneCommits
      BY <1>3, DoneEnds, EndReleases, ReadCommitsNone
         DEF SendRead, Released, IInv, Typed, StateTyped
    <2>2. QED
      BY <1>3, <2>1 DEF SendRead, IInv, ShutInv, DeclinedAndBlockedStays, NoneCommits
  <1>4. ASSUME NEW c \in Calls, SendUpdate(c) PROVE ShutInv'
    <2>1. CASE Done(c)
      BY <1>4, <2>1, DoneEnds, IdleFacts
         DEF SendUpdate, IInv, Typed, Ended, Kept, At, ShutInv,
         DeclinedAndBlockedStays
    <2>2. CASE ~Done(c)
      <3>1. /\ Moved(c, "commit") /\ UNCHANGED <<row, blocks, shut>>
            /\ row.id = call[c].seen.id /\ call[c].seen.id # 0
            /\ ~GuardRefuses(row, Requested(row, call[c].seen, call[c].by))
            /\ InPairLock(c) /\ call[c].by \in Users /\ Formed(row) /\ Formed(call[c].seen)
        BY <1>4, <2>2, GotoMoves
           DEF SendUpdate, InPairLock, At, Ops, IInv, Typed, CallsTyped, StateTyped, Labels
      <3>2. Requested(row, call[c].seen, call[c].by).status = "pending"
        BY <3>1, RequestedFormed DEF IInv, PairInv, SeenInv
      <3>3. shut = {}
        <4>1. SUFFICES ASSUME shut # {} PROVE FALSE
          OBVIOUS
        <4>2. blocks # {} /\ row.status \notin {"pending", "accepted"}
          BY <4>1 DEF IInv, ShutInv, DeclinedAndBlockedStays
        <4>3. QED
          BY <3>1, <3>2, <4>2 DEF GuardRefuses, Blocked
      <3>4. QED
        BY <3>1, <3>3 DEF IInv, ShutInv, DeclinedAndBlockedStays
    <2>3. QED
      BY <2>1, <2>2
  <1>5. ASSUME NEW c \in Calls, SendInsert(c) PROVE ShutInv'
    BY <1>5, DoneEnds, IdleFacts
       DEF SendInsert, IInv, Typed, Ended, Kept, At, ShutInv, DeclinedAndBlockedStays,
           Blocked
  <1>6. ASSUME NEW c \in Calls, SendCommit(c) PROVE ShutInv'
    BY <1>6 DEF SendCommit, IInv, ShutInv, DeclinedAndBlockedStays
  <1>7. ASSUME NEW c \in Calls, AcceptMisses(c) PROVE ShutInv'
    BY <1>7, DoneEnds, IdleFacts
       DEF AcceptMisses, IInv, Typed, Ended, Kept, At, ShutInv, DeclinedAndBlockedStays
  <1>8. ASSUME NEW c \in Calls, AcceptUpdate(c) PROVE ShutInv'
    <2>1. CASE Done(c)
      BY <1>8, <2>1, DoneEnds, IdleFacts
         DEF AcceptUpdate, IInv, Typed, Ended, Kept, At, ShutInv,
         DeclinedAndBlockedStays
    <2>2. CASE ~Done(c)
      <3>1. row.status = "pending" /\ UNCHANGED <<row, blocks, shut>>
        BY <1>8, <2>2 DEF AcceptUpdate, Unmatched
      <3>2. shut = {}
        BY <3>1 DEF IInv, ShutInv, DeclinedAndBlockedStays
      <3>3. QED
        BY <3>1, <3>2 DEF ShutInv, DeclinedAndBlockedStays
    <2>3. QED
      BY <2>1, <2>2
  <1>9. ASSUME NEW c \in Calls, AcceptCommit(c) PROVE ShutInv'
    BY <1>9 DEF AcceptCommit, IInv, Ended, Kept, Moved, ShutInv, DeclinedAndBlockedStays
  <1>10. ASSUME NEW c \in Calls, DeclineRead(c) PROVE ShutInv'
    BY <1>10, DoneEnds, GotoMoves, IdleFacts
       DEF DeclineRead, IInv, Typed, Ended, Kept, Moved, At, Labels, ShutInv,
           DeclinedAndBlockedStays, Blocked
  <1>11. ASSUME NEW c \in Calls, DeclineMisses(c) PROVE ShutInv'
    BY <1>11, DoneEnds, IdleFacts
       DEF DeclineMisses, IInv, Typed, Ended, Kept, At, ShutInv, DeclinedAndBlockedStays
  <1>12. ASSUME NEW c \in Calls, DeclineCommit(c) PROVE ShutInv'
    <2>1. CASE MayAnswer(row, call[c].by)
      <3>1. /\ row.id # 0 /\ row' = [row EXCEPT !.status = "declined"] /\ Formed(row)
            /\ Unlocked /\ Ended(c)
            /\ blocks' = blocks \cup DeclinerBlocks(c)
            /\ shut' = IF call[c].blocking THEN shut \cup {call[c].by} ELSE shut
        BY <1>12, <2>1, DoneEnds
           DEF DeclineCommit, Unmatched, Found, IInv, Typed, StateTyped
      <3>2. row'.status = "declined"
        BY <3>1, StatusFormed DEF Statuses
      <3>3. \A u \in shut' : <<u, Peer(u)>> \in blocks'
        BY <1>12, <3>1, DeclinerBlocksType DEF DeclineCommit, IInv, ShutInv
      <3>4. \A d \in Calls : ~At(d, "send", "commit") /\ ~At(d, "accept", "commit")
        BY <3>1, NobodyCommits DEF IInv, PairInv, SeenInv, InPairLock
      <3>5. \A d \in Calls : ~At(d, "send", "commit")' /\ ~At(d, "accept", "commit")'
        BY <3>1, <3>4, IdleFacts DEF Ended, Kept, At
      <3>6. QED
        BY <3>2, <3>3, <3>5 DEF ShutInv, DeclinedAndBlockedStays
    <2>2. CASE ~MayAnswer(row, call[c].by)
      BY <1>12, <2>2, DoneEnds, IdleFacts
         DEF DeclineCommit, IInv, Typed, Ended, Kept, At, ShutInv,
         DeclinedAndBlockedStays
    <2>3. QED
      BY <2>1, <2>2
  <1>13. ASSUME NEW c \in Calls, Cancel(c) PROVE ShutInv'
    BY <1>13, DoneEnds, NoRowFacts, IdleFacts
       DEF Cancel, IInv, Typed, Ended, Kept, At, ShutInv, DeclinedAndBlockedStays
  <1>14. ASSUME NEW c \in Calls, PostRead(c) PROVE ShutInv'
    BY <1>14, DoneEnds, IdleFacts
       DEF PostRead, IInv, Typed, Ended, Kept, At, ShutInv, DeclinedAndBlockedStays
  <1>15. ASSUME NEW c \in Calls, PostGuard(c) PROVE ShutInv'
    BY <1>15, DoneEnds, IdleFacts
       DEF PostGuard, IInv, Typed, Ended, Kept, At, ShutInv, DeclinedAndBlockedStays,
           Blocked
  <1>16. ASSUME NEW c \in Calls, PostCommit(c) PROVE ShutInv'
    BY <1>16, DoneEnds, IdleFacts
       DEF PostCommit, IInv, Typed, Ended, Kept, At, ShutInv, DeclinedAndBlockedStays
  <1>17. ASSUME NEW c \in Calls, LeaveNotice(c) PROVE ShutInv'
    BY <1>17, GotoMoves
       DEF LeaveNotice, IInv, Typed, Kept, Moved, At, Labels, ShutInv,
           DeclinedAndBlockedStays
  <1>18. ASSUME NEW c \in Calls, LeaveCommit(c) PROVE ShutInv'
    BY <1>18 DEF LeaveCommit, Ended, Kept, ShutInv, DeclinedAndBlockedStays
  <1>19. ASSUME NEW u \in Users, Block(u) PROVE ShutInv'
    BY <1>19 DEF Block, IInv, Ended, At, ShutInv, DeclinedAndBlockedStays
  <1>20. ASSUME NEW u \in Users, Unblock(u) PROVE ShutInv'
    BY <1>20, UnbarredMoves
       DEF Unblock, IInv, Typed, Ended, Kept, At, ShutInv, DeclinedAndBlockedStays
  <1>21. QED
    BY <1>1, <1>2, <1>3, <1>4, <1>5, <1>6, <1>7, <1>8, <1>9, <1>10, <1>11, <1>12, <1>13,
       <1>14, <1>15, <1>16, <1>17, <1>18, <1>19, <1>20 DEF Next, Step

-----------------------------------------------------------------------------
LEMMA InitInv == Init => IInv
  <1> SUFFICES ASSUME Init PROVE IInv
    OBVIOUS
  <1>1. row.status = "expired" \/ row = NoRow
    BY DEF Init
  <1>2. Formed(row)
    <2>1. CASE row = NoRow
      BY <2>1, NoRowFormed
    <2>2. CASE row # NoRow
      <3> DEFINE i == CHOOSE i \in RowIds : TRUE
      <3>1. row = [id |-> i, from |-> Alice, to |-> Bob, status |-> "expired"]
        BY <2>2 DEF Init
      <3>2. \E c \in RowIds : TRUE
        BY RowIdsAssumption
      <3>3. i \in RowIds
        BY <3>2
      <3>4. QED
        BY <3>1, <3>3, RowIdsAssumption DEF Formed, Rows, Users, Peer, Statuses, NoRow
    <2>3. QED
      BY <2>1, <2>2
  <1>3. Typed
    BY <1>2, IdleType, NoRowFormed
       DEF Init, Typed, CallsTyped, StateTyped, Idle, Ops
  <1>4. \A c \in Calls : call[c] = Idle
    BY DEF Init
  <1>5. QED
    BY <1>1, <1>3, <1>4, IdleFacts, NoRowFacts
       DEF Init, IInv, PairInv, SeenInv, InPairLock, At, LockInv, ConsentInv, AcceptedByBoth,
           BarInv, NothingPastABlock, ShutInv, DeclinedAndBlockedStays

LEMMA NextInv == IInv /\ [Next]_vars => IInv'
  <1> SUFFICES ASSUME IInv, [Next]_vars PROVE IInv'
    OBVIOUS
  <1>1. CASE Next
    <2>1. CallsTyped' /\ StateTyped'
      BY <1>1, CallsTypedNext, StateTypedNext DEF IInv
    <2>2. QED
      BY <1>1, <2>1, PairNext, LockNext, ConsentNext, BarNext, ShutNext DEF IInv, Typed
  <1>2. CASE UNCHANGED vars
    BY <1>2
       DEF vars, IInv, Typed, CallsTyped, StateTyped, PairInv, SeenInv, InPairLock, At,
       LockInv, ConsentInv, AcceptedByBoth, BarInv, NothingPastABlock, ShutInv,
       DeclinedAndBlockedStays
  <1>3. QED
    BY <1>1, <1>2

LEMMA Invariance == Spec => []IInv
  BY InitInv, NextInv, PTL DEF Spec

\* Every variable keeps its type, whatever the number of calls in flight.
THEOREM TypeCorrect == Spec => []TypeOK
  <1>1. IInv => TypeOK
    BY DEF IInv, Typed, CallsTyped, StateTyped, CallType, Labels, Formed, Rows, TypeOK
  <1>2. QED
    BY <1>1, Invariance, PTL

\* A request never meets the unique index of the pair: the advisory lock of
\* send_connection_request suffices for any number of requests at once.
THEOREM RequestsNeverCollide == Spec => []RequestsDoNotCollide
  <1>1. IInv => RequestsDoNotCollide
    BY DEF IInv, PairInv, SeenInv, InPairLock, RequestsDoNotCollide
  <1>2. QED
    BY <1>1, Invariance, PTL

\* The checks of the functions and triggers, wherever they run, stop every call
\* that began under a block which still stands.
THEOREM BlocksHold == Spec => []NothingPastABlock
  <1>1. IInv => NothingPastABlock
    BY DEF IInv, BarInv
  <1>2. QED
    BY <1>1, Invariance, PTL

\* A decline with a block is not undone by calls in flight.
THEOREM DeclineStands == Spec => []DeclinedAndBlockedStays
  <1>1. IInv => DeclinedAndBlockedStays
    BY DEF IInv, ShutInv
  <1>2. QED
    BY <1>1, Invariance, PTL

\* No connection is accepted but by the last word of both users.
THEOREM AcceptanceIsMutual == Spec => []AcceptedByBoth
  <1>1. IInv => AcceptedByBoth
    BY DEF IInv, ConsentInv
  <1>2. QED
    BY <1>1, Invariance, PTL


-----------------------------------------------------------------------------
(***************************************************************************)
(* The list of Home. The inductive invariant: the types, what is right or  *)
(* will be put right by an event that is yet to come, and what each load,  *)
(* pass and entry that nobody has given up keeps.                          *)
(***************************************************************************)
\* Answers by conversation, or none yet.
Maybe(S) == {<<>>} \cup [Conversations -> S]

\* What a load in flight holds.
LoadType == [pc     : {"idle", "rows", "windows", "storing", "lasts", "counts", "commit"},
             rows   : Maybe(RowType), wins : Maybe(WindowType),
             lasts  : Maybe(MessageType), counts : Maybe(Nat),
             lapse  : SUBSET Conversations]

\* What a pass in flight holds.
PassType == [pass : 0 .. MaxPasses, rerun : BOOLEAN, raced : BOOLEAN,
             asked : SUBSET {"row", "last", "deletions", "window", "count"}, row : RowType,
             last : MessageType, failed : BOOLEAN,
             wins : [Conversations -> WindowType], win : WindowType, count : Nat]

\* The events of the channel.
EventType ==
       [kind : {"row"}, c : Conversations, row : {"pending", "accepted"}]
  \cup [kind : {"gone", "window"}, c : Conversations]
  \cup [kind : {"insert"}, c : Conversations, peer : BOOLEAN, msg : MessageType]
  \cup [kind : {"update"}, c : Conversations, msg : MessageType]

(* What a load has read it keeps until it ends.                            *)
Filled(r) ==
  /\ r.pc \in {"windows", "storing", "lasts", "counts", "commit"} => r.rows \in [Conversations -> RowType]
  /\ r.pc \in {"storing", "lasts", "counts", "commit"} => r.wins \in [Conversations -> WindowType]
  /\ r.pc \in {"counts", "commit"} => r.lasts \in [Conversations -> MessageType]
  /\ r.pc = "commit" => r.counts \in [Conversations -> Nat]

\* An entry of the list, and what the mirror keeps of it.
EntryType == [row : RowType, last : MessageType, unread : Nat]
MirrorType == [shown : BOOLEAN, last : MessageType]

\* Every variable has its type, and nothing that is read or counted is missing.
HomeTyped ==
  /\ server \in [Conversations -> ConversationType]
  /\ \A c \in Conversations : Len(server[c].msgs) <= MaxMessages
  /\ view \in [Conversations -> EntryType]
  /\ window \in [Conversations -> WindowType]
  /\ mirror \in [Conversations -> MirrorType]
  /\ feed \in Seq(EventType)
  /\ loads \in [Slots -> LoadType] /\ \A l \in Slots : Filled(loads[l])
  /\ cycles \in [Conversations -> [Schedulers -> PassType]]
  /\ channel \in {"off", "joining", "live"}
  /\ owed \subseteq Conversations /\ pending \subseteq Conversations
  /\ newest \in Slots
  /\ outages \in 0 .. MaxOutages
  /\ channel = "off" => outages < MaxOutages

(* The messages of c on the server, and what the channel has yet to        *)
(* deliver of c.                                                           *)
Count(c) == Len(server[c].msgs)

Unread(c) == {k \in 1 .. Count(c) : server[c].msgs[k].peer /\ ~server[c].msgs[k].erased}

\* The events of c that the channel has yet to deliver, by kind and message.
Awaited(c) == {e \in ToSet(feed) : e.c = c}

Coming(c, kind) == \E e \in Awaited(c) : e.kind = kind

Inserting(c, k) == \E e \in Awaited(c) : e.kind = "insert" /\ e.msg.k = k

Updating(c, k) == \E e \in Awaited(c) : e.kind = "update" /\ e.msg.k = k

(* The newest message, or its erasure, is yet to be told.                  *)
Posting(c) == Inserting(c, Count(c))

Erasing(c) == Updating(c, Count(c))

(* The unread messages that are counted where message j is the last: not   *)
(* those that are counted when they come.                                  *)
Counted(c, j) == {k \in Unread(c) : k > j => ~Inserting(c, k)}

\* The badge that is right where message j is the last.
Badge(c) == [j \in 0 .. MaxMessages |-> Cardinality(Counted(c, j))]

(* Answers that are still right, or that an event will put right.          *)
RowReads(c) == {status \in RowType : Coming(c, "gone") \/ Coming(c, "row") \/ status = RowOf(c)}

\* The windows of c that are right, or will be put right.
WinReads(c) ==
  {win \in WindowType :
     server[c].row = "deleted" \/ Coming(c, "window") \/ win = server[c].window}

\* The newest messages of c that are right, or will be put right.
LastReads(c) ==
  {last \in MessageType :
     \/ server[c].row = "deleted" \/ Posting(c)
     \/ last.k = Count(c) /\ (last = LastOf(c) \/ Erasing(c))}

(* Entries of the list that are right, or that an event will put right.    *)
Fitting(c) ==
  {v \in EntryType :
     \/ Coming(c, "gone") \/ Coming(c, "window")
     \/ ~Live(c) /\ v.row = "absent"
     \/ /\ Live(c)
        /\ Coming(c, "row") \/ v.row \in {"absent", server[c].row}
        /\ \/ Coming(c, "row") \/ Posting(c)
           \/ /\ v.row = Truth(c).row
              /\ v.row # "absent" =>
                   v.last.k = Truth(c).last.k /\ (v.last = Truth(c).last \/ Erasing(c))}

\* Entries of the list with the right badge, while no window is yet to come.
Exact(c) ==
  {v \in EntryType :
     Coming(c, "window") \/ v.row = "absent" \/ v.unread = Badge(c)[v.last.k]}

-----------------------------------------------------------------------------
\* The server holds what it can, and no window is stored before there is a row.
ServerKept ==
  \A c \in Conversations :
    /\ Possible(server[c])
    /\ server[c].row = "absent" => window[c] = Open

(* Every event tells of what is still so, or a later one follows.          *)
EventKept(c, e) ==
  /\ server[c].row # "absent"
  /\ server[c].row = "deleted" <=> Coming(c, "gone")
  /\ e.kind = "row" =>
       /\ server[c].row # "deleted" =>
            \E f \in Awaited(c) : f.kind = "row" /\ f.row = server[c].row
       /\ e.row = "accepted" => server[c].row \in {"accepted", "deleted"}
       /\ \A k \in 1 .. Count(c) : Inserting(c, k)
  /\ e.kind \in {"insert", "update"} =>
       /\ e.msg.k \in 1 .. Count(c)
       /\ \A k \in e.msg.k + 1 .. Count(c) : Inserting(c, k)
  /\ e.kind = "insert" =>
       /\ ~e.msg.erased
       /\ e.peer = server[c].msgs[e.msg.k].peer
       /\ server[c].msgs[e.msg.k].erased => Updating(c, e.msg.k)
  /\ e.kind = "update" =>
       /\ e.msg.erased /\ server[c].msgs[e.msg.k].erased
       /\ <<"miscounted", c>> \in slips

\* Two events of a conversation come in the order of what they tell.
Before(e, f) ==
  e.c = f.c =>
    /\ e.kind # "gone"
    /\ e.kind = "row" /\ f.kind = "row" => f.row = "accepted"
    /\ e.kind \in {"insert", "update"} =>
         /\ f.kind # "row"
         /\ f.kind = "insert" => e.msg.k < f.msg.k
         /\ f.kind = "update" => e.msg.k <= f.msg.k

(* A message that a window hides came before the window was set.           *)
HidesLater(i) ==
  feed[i].kind = "insert" /\ feed[i].msg.k <= server[feed[i].c].window.cut =>
    \E j \in DOMAIN feed : i < j /\ feed[j].c = feed[i].c /\ feed[j].kind = "window"

\* The feed tells what is so, in order, and only a live channel has one.
FeedKept ==
  /\ channel # "live" => feed = <<>>
  /\ \A c \in Conversations : \A e \in Awaited(c) : EventKept(c, e)
  /\ \A i, j \in DOMAIN feed : i < j => Before(feed[i], feed[j])
  /\ \A i \in DOMAIN feed : HidesLater(i)

\* Messages of c that may have been read.
Read(c) == {m \in MessageType : m.k <= Count(c) /\ (m.k = 0 => m = NoMessage)}

\* Whatever was read was there: messages of the server, and of rows it has.
ReadsSane ==
  \A c \in Conversations :
    /\ view[c].last \in Read(c) /\ mirror[c].last \in Read(c)
    /\ \A l \in Slots :
         /\ loads[l].pc \in {"windows", "storing", "lasts", "counts", "commit"} /\ loads[l].rows[c] # "absent" =>
              server[c].row # "absent"
         /\ loads[l].pc \in {"counts", "commit"} => loads[l].lasts[c] \in Read(c)
    /\ \A g \in Schedulers :
         /\ cycles[c][g].last \in Read(c)
         /\ cycles[c][g].row # "absent" => server[c].row # "absent"
         /\ cycles[c][g].asked \cap {"last", "deletions", "window", "count"} # {} =>
              "row" \in cycles[c][g].asked /\ cycles[c][g].row # "absent"

\* Windows on their way were read of rows that are there.
CarriedKept ==
  \A c \in Conversations : server[c].row = "absent" =>
    /\ \A l \in Slots : loads[l].pc = "storing" => loads[l].wins[c] = Open
    /\ \A d \in Conversations, g \in Schedulers : cycles[d][g].wins[c] = Open

\* Only a load in flight leaves conversations pending, what a load read too early
\* is owed, and an idle slot holds nothing.
GatesKept ==
  /\ pending # {} => Loading
  /\ loads[newest].pc # "idle" => loads[newest].lapse \subseteq owed
  /\ \A l \in Slots : loads[l].pc = "idle" => loads[l] = IdleLoad

\* Every event of c found what it was about.
Followed(c) == Slips(c) \subseteq {"miscounted"}

\* What the newest load has read of c is right, or an event will put it right, unless
\* c is to be read again; and its count fits its newest message.
LoadKept(c) ==
  LET r == loads[newest]
  IN  c \notin r.lapse \cup pending =>
        /\ Followed(c) =>
             /\ r.pc \in {"windows", "storing", "lasts", "counts", "commit"} => r.rows[c] \in RowReads(c)
             /\ r.pc = "storing" => r.wins[c] \in WinReads(c)
             /\ r.pc \in {"lasts", "counts", "commit"} => {r.wins[c], window[c]} \subseteq WinReads(c)
             /\ r.pc \in {"counts", "commit"} => r.lasts[c] \in LastReads(c)
        /\ Slips(c) = {} /\ Live(c) /\ r.pc \in {"counts", "commit"} /\ r.rows[c] # "absent" =>
             /\ r.pc = "counts" => r.lasts[c].k = Count(c)
             /\ r.pc = "commit" => r.counts[c] = Badge(c)[r.lasts[c].k]

\* The same of a pass that has not been raced.
PassKept(c, p) ==
  /\ "row" \in p.asked =>
       p.row \in RowReads(c) /\ (p.row = "absent" => window[c] \in WinReads(c))
  /\ "deletions" \in p.asked /\ "window" \notin p.asked => p.wins[c] \in WinReads(c)
  /\ "window" \in p.asked => {p.win, window[c]} \subseteq WinReads(c)
  /\ "last" \in p.asked /\ ~p.failed => p.last \in LastReads(c)

\* The same of the count of a pass.
PassCounted(c, p) ==
  /\ "last" \in p.asked => view[c].last.k <= p.last.k
  /\ "last" \in p.asked /\ "count" \notin p.asked => p.last.k = Count(c)
  /\ "count" \in p.asked /\ "last" \notin p.asked => p.count = Cardinality(Unread(c))
  /\ "count" \in p.asked /\ "last" \in p.asked => p.count = Badge(c)[p.last.k]

\* So are the passes of c, unless c is left to a load.
CycleKept(c) ==
  c \notin owed =>
    \A g \in Schedulers :
      cycles[c][g].pass > 0 /\ ~cycles[c][g].raced =>
        /\ Followed(c) => PassKept(c, cycles[c][g])
        /\ Slips(c) = {} /\ Live(c) /\ ~cycles[c][g].failed => PassCounted(c, cycles[c][g])

\* So is the entry of c, while no load and no pass is to write it.
ViewKept(c) ==
  c \notin owed \cup pending /\ ~Cycling(c) =>
    /\ Followed(c) => view[c] \in Fitting(c) /\ window[c] \in WinReads(c)
    /\ Slips(c) = {} /\ Live(c) => view[c] \in Exact(c)

\* A row that is not in the list has nothing left in it.
HiddenKept(c) ==
  "unmatched" \notin Slips(c) /\ view[c].row = "absent" => view[c] = Unlisted

\* The inductive invariant.
HomeInv ==
  /\ HomeTyped /\ ServerKept /\ FeedKept /\ ReadsSane /\ GatesKept
  /\ \A c \in Conversations : LoadKept(c) /\ CycleKept(c) /\ ViewKept(c) /\ HiddenKept(c)

-----------------------------------------------------------------------------
(***************************************************************************)
(* The feed, the slips and the answers of the server.                      *)
(***************************************************************************)
\* A feed with an event more, and without its first one.
LEMMA AppendedFeed ==
  ASSUME NEW S, NEW q \in Seq(S), NEW e \in S
  PROVE  /\ Append(q, e) \in Seq(S) /\ ToSet(Append(q, e)) = ToSet(q) \cup {e}
         /\ \A i \in DOMAIN q : i < Len(q) + 1 /\ Append(q, e)[i] = q[i]
         /\ DOMAIN Append(q, e) = DOMAIN q \cup {Len(q) + 1}
         /\ Append(q, e)[Len(q) + 1] = e /\ Len(q) \in Nat /\ DOMAIN q = 1 .. Len(q)
  <1> DEFINE t == Append(q, e)
  <1>1. t \in Seq(S) /\ Len(t) = Len(q) + 1 /\ Len(q) \in Nat /\ DOMAIN q = 1 .. Len(q)
    OBVIOUS
  <1>2. \A i \in 1 .. Len(q) : t[i] = q[i]
    OBVIOUS
  <1>3. t[Len(q) + 1] = e /\ DOMAIN t = 1 .. Len(q) + 1
    OBVIOUS
  <1> HIDE DEF t
  <1>4. DOMAIN t = DOMAIN q \cup {Len(q) + 1}
    BY <1>1, <1>3
  <1>5. ToSet(t) = ToSet(q) \cup {e}
    BY <1>1, <1>2, <1>3, <1>4 DEF ToSet
  <1>6. QED
    BY <1>1, <1>2, <1>3, <1>4, <1>5 DEF t

\* A feed without its first event: every other one moves up by one.
LEMMA RestOfFeed ==
  ASSUME NEW S, NEW q \in Seq(S), q # <<>>
  PROVE  /\ Tail(q) \in Seq(S) /\ Head(q) \in ToSet(q) /\ ToSet(Tail(q)) \subseteq ToSet(q)
         /\ ToSet(q) \subseteq ToSet(Tail(q)) \cup {Head(q)}
         /\ Head(q) = q[1] /\ 1 \in DOMAIN q
         /\ \A i \in DOMAIN Tail(q) : i + 1 \in DOMAIN q /\ Tail(q)[i] = q[i + 1] /\ i \in Nat /\ 1 < i + 1
  <1> DEFINE t == Tail(q)
  <1>1. t \in Seq(S) /\ Len(t) = Len(q) - 1 /\ Len(q) \in Nat \ {0} /\ DOMAIN q = 1 .. Len(q)
    OBVIOUS
  <1>2. \A i \in 1 .. Len(t) : t[i] = q[i + 1]
    OBVIOUS
  <1>3. Head(q) = q[1] /\ DOMAIN t = 1 .. Len(t)
    OBVIOUS
  <1> HIDE DEF t
  <1>4. ToSet(t) \subseteq ToSet(q) /\ Head(q) \in ToSet(q)
    BY <1>1, <1>2, <1>3 DEF ToSet
  <1>5. ASSUME NEW e \in ToSet(q), e # Head(q) PROVE e \in ToSet(t)
    <2>1. PICK i \in DOMAIN q : q[i] = e
      BY DEF ToSet
    <2>2. i - 1 \in 1 .. Len(t) /\ t[i - 1] = q[i]
      BY <1>1, <1>2, <1>3, <1>5, <2>1
    <2>3. QED
      BY <1>3, <2>1, <2>2 DEF ToSet
  <1>6. QED
    BY <1>1, <1>2, <1>3, <1>4, <1>5 DEF t

\* The elements of a sequence over a set are in the set.
LEMMA ElementsTyped ==
  ASSUME NEW S, NEW q \in Seq(S)
  PROVE  \A k \in DOMAIN q : q[k] \in S
  OBVIOUS

\* What the sets of slips say, as membership in the history.
LEMMA SlipsAre ==
  ASSUME NEW c
  PROVE  /\ Followed(c) <=> <<"dropped", c>> \notin slips /\ <<"unmatched", c>> \notin slips
         /\ Slips(c) = {} <=> /\ <<"dropped", c>> \notin slips /\ <<"unmatched", c>> \notin slips
                              /\ <<"miscounted", c>> \notin slips
         /\ Slips(c) = {} => Followed(c)
         /\ "unmatched" \in Slips(c) <=> <<"unmatched", c>> \in slips
  BY DEF Followed, Slips

\* The same after a step.
LEMMA SlipsWere ==
  ASSUME NEW c
  PROVE  /\ Followed(c)' <=> <<"dropped", c>> \notin slips' /\ <<"unmatched", c>> \notin slips'
         /\ Slips(c)' = {} <=> /\ <<"dropped", c>> \notin slips' /\ <<"unmatched", c>> \notin slips'
                              /\ <<"miscounted", c>> \notin slips'
         /\ Slips(c)' = {} => Followed(c)'
         /\ "unmatched" \in Slips(c)' <=> <<"unmatched", c>> \in slips'
  BY DEF Followed, Slips

\* What each kind of event carries.
LEMMA EventFacts ==
  ASSUME NEW e \in EventType
  PROVE  /\ e.c \in Conversations /\ e.kind \in {"row", "gone", "window", "insert", "update"}
         /\ e.kind = "row" => e.row \in {"pending", "accepted"}
         /\ e.kind = "insert" => e.peer \in BOOLEAN
         /\ e.kind \in {"insert", "update"} => e.msg \in MessageType
  BY DEF EventType

\* Every answer of the server has its type, and the unread messages are finitely many.
LEMMA ReadTypes ==
  ASSUME HomeTyped, NEW c \in Conversations
  PROVE  /\ RowOf(c) \in RowType /\ LastOf(c) \in MessageType /\ Count(c) \in 0 .. MaxMessages
         /\ server[c].window \in WindowType
         /\ Unread(c) \subseteq 1 .. Count(c) /\ IsFiniteSet(Unread(c))
         /\ Cardinality(Unread(c)) \in Nat /\ UnreadOf(c) = Cardinality(Unread(c))
         /\ DOMAIN server[c].msgs = 1 .. Count(c)
         /\ \A k \in 1 .. Count(c) : server[c].msgs[k].erased \in BOOLEAN /\ server[c].msgs[k].peer \in BOOLEAN
         /\ \A j : Counted(c, j) \subseteq Unread(c) /\ IsFiniteSet(Counted(c, j))
  <1>1. /\ server[c].row \in RowType \cup {"deleted"} /\ server[c].window \in WindowType
        /\ server[c].msgs \in Seq([peer : BOOLEAN, erased : BOOLEAN])
        /\ Len(server[c].msgs) <= MaxMessages
    BY DEF HomeTyped, ConversationType
  <1>2. Count(c) \in 0 .. MaxMessages /\ MaxMessages \in Nat /\ DOMAIN server[c].msgs = 1 .. Count(c)
    BY <1>1, HomeBoundsAssumption DEF Count
  <1>3. \A k \in 1 .. Count(c) : server[c].msgs[k].erased \in BOOLEAN /\ server[c].msgs[k].peer \in BOOLEAN
    <2>1. \A k \in DOMAIN server[c].msgs : server[c].msgs[k] \in [peer : BOOLEAN, erased : BOOLEAN]
      BY <1>1, ElementsTyped
    <2>2. QED
      BY <1>2, <2>1
  <1>4. RowOf(c) \in RowType
    BY <1>1 DEF RowOf, Live, RowType
  <1>5. LastOf(c) \in MessageType
    BY <1>1, <1>2, <1>3 DEF LastOf, MessageType, NoMessage, Count
  <1>6. Unread(c) \subseteq 1 .. Count(c) /\ IsFiniteSet(1 .. Count(c))
    BY <1>2, FS_Interval DEF Unread
  <1>7. IsFiniteSet(Unread(c)) /\ Cardinality(Unread(c)) \in Nat
    BY <1>6, FS_Subset, FS_CardinalityType
  <1>8. UnreadOf(c) = Cardinality(Unread(c))
    BY <1>2 DEF UnreadOf, Unread
  <1>9. \A j : Counted(c, j) \subseteq Unread(c)
    BY DEF Counted
  <1>10. \A j : IsFiniteSet(Counted(c, j))
    BY <1>7, <1>9, FS_Subset
  <1>11. QED
    BY <1>1, <1>2, <1>3, <1>4, <1>5, <1>6, <1>7, <1>8, <1>9, <1>10

-----------------------------------------------------------------------------
(***************************************************************************)
(* Types: the values that the model is built from.                         *)
(***************************************************************************)
\* The constants of the model have their types.
LEMMA WindowsTyped ==
  /\ Unseen \in -1 .. MaxMessages /\ Open \in WindowType /\ NoMessage \in MessageType
  /\ Unlisted \in EntryType /\ "absent" \in RowType
  BY HomeBoundsAssumption DEF Unseen, Open, WindowType, NoMessage, MessageType, Unlisted, EntryType, RowType

\* Trimming leaves a message or none.
LEMMA TrimTyped ==
  ASSUME NEW m \in MessageType, NEW cut \in -1 .. MaxMessages
  PROVE  Trim(m, cut) \in {m, NoMessage} /\ Trim(m, cut) \in MessageType
  BY WindowsTyped DEF Trim

\* The entry that answers stand for has its type.
LEMMA EntryTyped ==
  ASSUME NEW status \in RowType, NEW m \in MessageType, NEW w \in WindowType, NEW n \in Nat
  PROVE  Entry(status, m, w, n) \in EntryType
  <1>1. w.cut \in -1 .. MaxMessages
    BY DEF WindowType
  <1>2. Trim(m, w.cut) \in MessageType
    BY <1>1, TrimTyped
  <1>3. QED
    BY <1>2, WindowsTyped DEF Entry, EntryType

\* A pass that starts has read nothing.
LEMMA PassTyped ==
  /\ IdlePass \in PassType
  /\ \A n \in 0 .. MaxPasses : Pass(n) \in PassType /\ Pass(n).pass = n /\ ~Pass(n).raced
                               /\ Pass(n).asked = {} /\ ~Pass(n).failed /\ Pass(n).row = "absent"
                               /\ Pass(n).last = NoMessage /\ Pass(n).wins = NoWindows
  <1>1. IdlePass \in PassType
    BY WindowsTyped, HomeBoundsAssumption DEF IdlePass, PassType, NoWindows
  <1>2. QED
    BY <1>1 DEF Pass, PassType, IdlePass

\* A load that starts has read nothing.
LEMMA LoadTyped ==
  /\ IdleLoad \in LoadType /\ StartedLoad \in LoadType
  /\ Filled(IdleLoad) /\ Filled(StartedLoad)
  /\ StartedLoad = [pc |-> "rows", rows |-> <<>>, wins |-> <<>>, lasts |-> <<>>,
                    counts |-> <<>>, lapse |-> {}]
  <1> DEFINE started == [pc |-> "rows", rows |-> <<>>, wins |-> <<>>, lasts |-> <<>>,
                         counts |-> <<>>, lapse |-> {}]
  <1>1. StartedLoad = started
    BY DEF StartedLoad, IdleLoad
  <1>2. \A S : <<>> \in Maybe(S)
    BY DEF Maybe
  <1>3. IdleLoad \in LoadType /\ Filled(IdleLoad)
    BY <1>2 DEF IdleLoad, LoadType, Filled
  <1>4. started \in LoadType /\ Filled(started)
    BY <1>2 DEF LoadType, Filled
  <1>5. QED
    BY <1>1, <1>3, <1>4

\* What a load has read, with more conversations left to a later one.
LEMMA LapsedIs ==
  ASSUME NEW ls \in [Slots -> LoadType], \A l \in Slots : Filled(ls[l]),
         NEW S \in SUBSET Conversations
  PROVE  /\ Lapsed(S, ls) \in [Slots -> LoadType]
         /\ \A l \in Slots :
              /\ Filled(Lapsed(S, ls)[l])
              /\ Lapsed(S, ls)[l].pc = ls[l].pc
              /\ ls[l].pc = "idle" => Lapsed(S, ls)[l] = IdleLoad
              /\ ls[l].pc # "idle" =>
                   /\ Lapsed(S, ls)[l].rows = ls[l].rows /\ Lapsed(S, ls)[l].wins = ls[l].wins
                   /\ Lapsed(S, ls)[l].lasts = ls[l].lasts /\ Lapsed(S, ls)[l].counts = ls[l].counts
                   /\ Lapsed(S, ls)[l].lapse = ls[l].lapse \cup S
  <1>1. ASSUME NEW l \in Slots
        PROVE  /\ Lapsed(S, ls)[l] \in LoadType
               /\ Filled(Lapsed(S, ls)[l])
               /\ Lapsed(S, ls)[l].pc = ls[l].pc
               /\ ls[l].pc = "idle" => Lapsed(S, ls)[l] = IdleLoad
               /\ ls[l].pc # "idle" =>
                   /\ Lapsed(S, ls)[l].rows = ls[l].rows /\ Lapsed(S, ls)[l].wins = ls[l].wins
                   /\ Lapsed(S, ls)[l].lasts = ls[l].lasts /\ Lapsed(S, ls)[l].counts = ls[l].counts
                   /\ Lapsed(S, ls)[l].lapse = ls[l].lapse \cup S
    <2>1. CASE ls[l].pc = "idle"
      BY <2>1, LoadTyped DEF Lapsed, IdleLoad
    <2>2. CASE ls[l].pc # "idle"
      <3>1. Lapsed(S, ls)[l] = [ls[l] EXCEPT !.lapse = @ \cup S]
        BY <2>2 DEF Lapsed
      <3>2. ls[l] \in LoadType /\ Filled(ls[l])
        OBVIOUS
      <3>3. QED
        BY <2>2, <3>1, <3>2 DEF LoadType, Filled
    <2>3. QED
      BY <2>1, <2>2
  <1>2. Lapsed(S, ls) \in [Slots -> LoadType]
    BY <1>1 DEF Lapsed
  <1>3. QED
    BY <1>1, <1>2

\* A cycle that is asked to run again keeps what it has read.
LEMMA RerunTyped ==
  ASSUME NEW p \in PassType
  PROVE  /\ [p EXCEPT !.rerun = TRUE] \in PassType
         /\ [p EXCEPT !.rerun = TRUE].pass = p.pass /\ p.pass \in 0 .. MaxPasses /\ p.pass \in Nat
         /\ [p EXCEPT !.rerun = TRUE].row = p.row /\ [p EXCEPT !.rerun = TRUE].last = p.last
         /\ [p EXCEPT !.rerun = TRUE].raced = p.raced /\ [p EXCEPT !.rerun = TRUE].asked = p.asked
         /\ [p EXCEPT !.rerun = TRUE].failed = p.failed /\ [p EXCEPT !.rerun = TRUE].win = p.win
         /\ [p EXCEPT !.rerun = TRUE].count = p.count /\ [p EXCEPT !.rerun = TRUE].wins = p.wins
  <1>1. p.pass \in 0 .. MaxPasses /\ 0 .. MaxPasses \subseteq Nat
    BY HomeBoundsAssumption DEF PassType
  <1>2. [p EXCEPT !.rerun = TRUE] \in PassType
    BY DEF PassType
  <1>3. \A f \in {"pass", "row", "last", "raced", "asked", "failed", "wins", "win", "count"} :
          [p EXCEPT !.rerun = TRUE][f] = p[f]
    BY DEF PassType
  <1>4. QED
    BY <1>1, <1>2, <1>3

\* A request of the scheduler: a cycle of each conversation requested runs, and nothing else changes.
LEMMA ScheduledIs ==
  ASSUME NEW cs \in [Conversations -> [Schedulers -> PassType]], NEW S, outages \in 0 .. MaxOutages
  PROVE  /\ Scheduled(S, cs) \in [Conversations -> [Schedulers -> PassType]]
         /\ \A c \in Conversations \ S : Scheduled(S, cs)[c] = cs[c]
         /\ \A c \in Conversations : \A g \in Schedulers :
              /\ cs[c][g].pass > 0 => Scheduled(S, cs)[c][g].pass > 0
              /\ \/ Scheduled(S, cs)[c][g] = cs[c][g]
                 \/ Scheduled(S, cs)[c][g] = Pass(1)
                 \/ Scheduled(S, cs)[c][g] = [cs[c][g] EXCEPT !.rerun = TRUE]
         /\ \A c \in Conversations \cap S : Scheduled(S, cs)[c][outages].pass > 0
         /\ outages \in Schedulers
  <1>1. outages \in Schedulers /\ Pass(1) \in PassType /\ Pass(1).pass = 1
    BY PassTyped, HomeBoundsAssumption DEF Schedulers
  <1>2. \A p \in PassType : [p EXCEPT !.rerun = TRUE] \in PassType
    BY RerunTyped
  <1>3. ASSUME NEW c \in Conversations \cap S
        PROVE  /\ Scheduled(S, cs)[c] \in [Schedulers -> PassType]
               /\ Scheduled(S, cs)[c][outages] = IF cs[c][outages].pass = 0 THEN Pass(1)
                                                  ELSE [cs[c][outages] EXCEPT !.rerun = TRUE]
               /\ \A g \in Schedulers \ {outages} : Scheduled(S, cs)[c][g] = cs[c][g]
    BY <1>1, <1>2 DEF Scheduled
  <1>4. \A c \in Conversations \ S : Scheduled(S, cs)[c] = cs[c]
    BY DEF Scheduled
  <1>5. Scheduled(S, cs) \in [Conversations -> [Schedulers -> PassType]]
    BY <1>3, <1>4 DEF Scheduled
  <1>6. \A c \in Conversations \cap S : Scheduled(S, cs)[c][outages].pass > 0
    <2> SUFFICES ASSUME NEW c \in Conversations \cap S PROVE Scheduled(S, cs)[c][outages].pass > 0
      OBVIOUS
    <2> DEFINE p == cs[c][outages]
    <2>1. p \in PassType
      BY <1>1
    <2>2. Scheduled(S, cs)[c][outages] = IF p.pass = 0 THEN Pass(1) ELSE [p EXCEPT !.rerun = TRUE]
      BY <1>3
    <2> HIDE DEF p
    <2>3. [p EXCEPT !.rerun = TRUE].pass = p.pass /\ p.pass \in Nat
      BY <2>1, RerunTyped
    <2>4. QED
      BY <1>1, <2>2, <2>3
  <1>7. ASSUME NEW c \in Conversations, NEW g \in Schedulers
        PROVE /\ cs[c][g].pass > 0 => Scheduled(S, cs)[c][g].pass > 0
              /\ \/ Scheduled(S, cs)[c][g] = cs[c][g]
                 \/ Scheduled(S, cs)[c][g] = Pass(1)
                 \/ Scheduled(S, cs)[c][g] = [cs[c][g] EXCEPT !.rerun = TRUE]
    BY <1>3, <1>4, <1>6
  <1>8. QED
    BY <1>1, <1>4, <1>5, <1>6, <1>7

\* Bumping the gate tells every pass of the conversation, and nothing else changes.
LEMMA BumpedIs ==
  ASSUME cycles \in [Conversations -> [Schedulers -> PassType]], NEW c \in Conversations
  PROVE  /\ Bumped(c) \in [Conversations -> [Schedulers -> PassType]]
         /\ \A d \in Conversations \ {c} : Bumped(c)[d] = cycles[d]
         /\ \A g \in Schedulers :
              /\ Bumped(c)[c][g].pass = cycles[c][g].pass
              /\ cycles[c][g].pass > 0 => Bumped(c)[c][g].raced
              /\ Bumped(c)[c][g].last = cycles[c][g].last /\ Bumped(c)[c][g].row = cycles[c][g].row
              /\ Bumped(c)[c][g].asked = cycles[c][g].asked /\ Bumped(c)[c][g].wins = cycles[c][g].wins
  <1>1. ASSUME NEW g \in Schedulers
        PROVE  /\ Bumped(c)[c][g] \in PassType
               /\ Bumped(c)[c][g].pass = cycles[c][g].pass
               /\ cycles[c][g].pass > 0 => Bumped(c)[c][g].raced
               /\ Bumped(c)[c][g].last = cycles[c][g].last /\ Bumped(c)[c][g].row = cycles[c][g].row
               /\ Bumped(c)[c][g].asked = cycles[c][g].asked /\ Bumped(c)[c][g].wins = cycles[c][g].wins
    <2>1. Bumped(c)[c][g] = IF cycles[c][g].pass > 0 THEN [cycles[c][g] EXCEPT !.raced = TRUE] ELSE cycles[c][g]
      BY DEF Bumped
    <2>2. cycles[c][g] \in PassType
      OBVIOUS
    <2>3. QED
      BY <2>1, <2>2 DEF PassType
  <1>2. Bumped(c)[c] \in [Schedulers -> PassType]
    BY <1>1 DEF Bumped
  <1>3. \A d \in Conversations \ {c} : Bumped(c)[d] = cycles[d]
    BY DEF Bumped
  <1>4. Bumped(c) \in [Conversations -> [Schedulers -> PassType]]
    BY <1>2, <1>3 DEF Bumped
  <1>5. QED
    BY <1>1, <1>3, <1>4

-----------------------------------------------------------------------------
(***************************************************************************)
(* Types: the end of a load, and the changes of the server.                *)
(***************************************************************************)
\* A cycle of the scheduler as it was, asked to run again, or a new one.
Rescheduled(c) ==
  \A g \in Schedulers :
    /\ cycles[c][g].pass > 0 => cycles'[c][g].pass > 0
    /\ \/ cycles'[c][g] = cycles[c][g]
       \/ cycles'[c][g] = Pass(1)
       \/ cycles'[c][g] = [cycles[c][g] EXCEPT !.rerun = TRUE]

\* A load that ends hands what was noted to somebody.
LEMMA FinishIs ==
  ASSUME HomeTyped, NEW l \in Slots, NEW left \in SUBSET Conversations, Finish(l, left)
  PROVE  /\ loads' \in [Slots -> LoadType] /\ \A o \in Slots : Filled(loads'[o])
         /\ loads'[l] \in {StartedLoad, IdleLoad} /\ \A o \in Slots \ {l} : loads'[o] = loads[o]
         /\ newest' \in Slots /\ (newest' # newest => newest' = l /\ loads'[l] = StartedLoad)
         /\ cycles' \in [Conversations -> [Schedulers -> PassType]]
         /\ \A c \in Conversations : Rescheduled(c)
         /\ owed' \subseteq left \cup pending /\ left \subseteq owed' /\ owed' \subseteq Conversations
         /\ pending' \in {pending, {}} /\ (pending' # {} => Loading')
         /\ pending' # pending => \A o \in Slots \ {l} : loads[o].pc = "idle"
         /\ \A c \in pending : c \in pending' \cup owed' \/ Cycling(c)'
  <1> DEFINE another == \E o \in Slots \ {l} : loads[o].pc # "idle"
             reload == Cardinality(pending) > DrainCap
  <1>1. /\ loads \in [Slots -> LoadType] /\ \A o \in Slots : Filled(loads[o])
        /\ cycles \in [Conversations -> [Schedulers -> PassType]]
        /\ newest \in Slots /\ pending \subseteq Conversations /\ outages \in 0 .. MaxOutages
    BY DEF HomeTyped
  <1>2. /\ loads' = [loads EXCEPT ![l] = IF ~another /\ reload THEN StartedLoad ELSE IdleLoad]
        /\ newest' = IF ~another /\ reload THEN l ELSE newest
        /\ pending' = IF another THEN pending ELSE {}
        /\ another => owed' = left /\ cycles' = cycles
        /\ ~another /\ (reload \/ channel = "off") => owed' = left \cup pending /\ cycles' = cycles
        /\ ~another /\ ~(reload \/ channel = "off") =>
             owed' = left /\ cycles' = Scheduled(pending, cycles)
    BY DEF Finish
  <1> HIDE DEF another, reload
  <1>3. /\ loads' \in [Slots -> LoadType] /\ \A o \in Slots : Filled(loads'[o])
        /\ loads'[l] \in {StartedLoad, IdleLoad} /\ \A o \in Slots \ {l} : loads'[o] = loads[o]
    BY <1>1, <1>2, LoadTyped
  <1>4. newest' \in Slots /\ (newest' # newest => newest' = l /\ loads'[l] = StartedLoad)
    BY <1>1, <1>2
  <1>5. /\ cycles' \in [Conversations -> [Schedulers -> PassType]]
        /\ \A c \in Conversations : Rescheduled(c)
    <2>1. CASE cycles' = cycles
      BY <1>1, <2>1 DEF Rescheduled
    <2>2. CASE cycles' = Scheduled(pending, cycles)
      BY <1>1, <2>2, ScheduledIs DEF Rescheduled
    <2>3. QED
      BY <1>2, <2>1, <2>2
  <1>6. owed' \subseteq left \cup pending /\ left \subseteq owed' /\ owed' \subseteq Conversations
    BY <1>1, <1>2
  <1>7. /\ pending' \in {pending, {}} /\ (pending' # {} => Loading')
        /\ pending' # pending => \A o \in Slots \ {l} : loads[o].pc = "idle"
    <2>1. another => Loading'
      BY <1>1, <1>3 DEF another, Loading
    <2>2. pending' # pending => \A o \in Slots \ {l} : loads[o].pc = "idle"
      BY <1>2 DEF another
    <2>3. QED
      BY <1>2, <2>1, <2>2
  <1>8. ASSUME NEW c \in pending PROVE c \in pending' \cup owed' \/ Cycling(c)'
    <2>1. CASE cycles' = Scheduled(pending, cycles)
      <3>1. cycles'[c][outages].pass > 0 /\ outages \in Schedulers
        BY <1>1, <2>1, ScheduledIs
      <3>2. QED
        BY <3>1 DEF Cycling
    <2>2. QED
      BY <1>2, <2>1
  <1>9. QED
    BY <1>3, <1>4, <1>5, <1>6, <1>7, <1>8

\* The types over a change of the server.
LEMMA ChangeTyped ==
  ASSUME HomeTyped, NEW c \in Conversations, NEW new \in ConversationType,
         Len(new.msgs) <= MaxMessages, NEW event \in EventType, Change(c, new, event)
  PROVE  HomeTyped'
  <1>1. /\ server' = [server EXCEPT ![c] = new]
        /\ \/ feed' = Append(feed, event) /\ loads' = loads /\ owed' = owed
           \/ owed' = owed \cup {c} /\ loads' = Lapsed({c}, loads) /\ feed' = feed
        /\ channel' = channel /\ newest' = newest /\ cycles' = cycles /\ pending' = pending
        /\ view' = view /\ window' = window /\ mirror' = mirror /\ outages' = outages
    BY DEF Change, listVars
  <1>2. feed' \in Seq(EventType)
    <2>1. feed \in Seq(EventType) /\ Append(feed, event) \in Seq(EventType)
      BY AppendedFeed DEF HomeTyped
    <2>2. QED
      BY <1>1, <2>1
  <1>3. loads' \in [Slots -> LoadType] /\ \A l \in Slots : Filled(loads'[l])
    <2>1. loads \in [Slots -> LoadType] /\ (\A l \in Slots : Filled(loads[l]))
      BY DEF HomeTyped
    <2>2. {c} \in SUBSET Conversations
      OBVIOUS
    <2>3. Lapsed({c}, loads) \in [Slots -> LoadType] /\ \A l \in Slots : Filled(Lapsed({c}, loads)[l])
      BY <2>1, <2>2, LapsedIs
    <2>4. QED
      BY <1>1, <2>1, <2>3
  <1>4. server' \in [Conversations -> ConversationType]
    BY <1>1 DEF HomeTyped
  <1>5. \A d \in Conversations : Len(server'[d].msgs) <= MaxMessages
    BY <1>1 DEF HomeTyped
  <1>6. QED
    BY <1>1, <1>2, <1>3, <1>4, <1>5 DEF HomeTyped

\* How a conversation and the event that tells of it follow from what it was.
Turned(c, new, e) ==
  LET old == server[c]
      n   == Count(c)
      OnlyRow    == new.msgs = old.msgs /\ new.window = old.window
      OnlyMsgs   == new.row = old.row /\ new.window = old.window
      OnlyWindow == new.row = old.row /\ new.msgs = old.msgs
  IN  /\ e.c = c
      /\ \/ /\ e.kind = "row" /\ OnlyRow /\ new.row = e.row
            /\ <<old.row, e.row>> \in {<<"absent", "pending">>, <<"pending", "accepted">>}
         \/ /\ e.kind = "gone" /\ OnlyRow /\ new.row = "deleted"
            /\ old.row \in {"pending", "accepted"}
         \/ /\ e.kind = "insert" /\ OnlyMsgs /\ old.row = "accepted"
            /\ Len(new.msgs) = n + 1 /\ \A k \in 1 .. n : new.msgs[k] = old.msgs[k]
            /\ new.msgs[n + 1].peer = e.peer /\ ~new.msgs[n + 1].erased
            /\ e.msg.k = n + 1 /\ ~e.msg.erased
         \/ /\ e.kind = "update" /\ OnlyMsgs /\ old.row \in {"pending", "accepted"}
            /\ n > 0 /\ Len(new.msgs) = n /\ new.msgs[n].erased
            /\ \A k \in 1 .. n : new.msgs[k].peer = old.msgs[k].peer
            /\ \A k \in 1 .. n - 1 : new.msgs[k] = old.msgs[k]
            /\ e.msg.k = n /\ e.msg.erased
         \/ /\ e.kind = "window" /\ OnlyWindow /\ old.row \in {"pending", "accepted"}
            /\ new.window.cut <= n

\* Every step of another client is a change that an event of its kind tells.
LEMMA ServerStepIs ==
  ASSUME HomeTyped, ServerKept, NEW c \in Conversations,
         \/ Request(c) \/ Accept(c) \/ Delete(c) \/ Erase(c) \/ (\E peer \in BOOLEAN : Post(c, peer))
         \/ deleteChatForMe(c) \/ revealChatForMe(c) \/ restoreChatForMe(c)
  PROVE  \E new \in ConversationType, event \in EventType :
           Change(c, new, event) /\ Turned(c, new, event) /\ Len(new.msgs) <= MaxMessages
  <1> DEFINE n == Count(c)
             old == server[c]
             Messages == [peer : BOOLEAN, erased : BOOLEAN]
  <1>1. /\ old \in ConversationType /\ Len(old.msgs) = n /\ n \in 0 .. MaxMessages /\ MaxMessages \in Nat
        /\ old.row \in RowType \cup {"deleted"} /\ old.window \in WindowType
        /\ old.msgs \in Seq(Messages) /\ old.window.cut <= n
        /\ old.window.cut \in -1 .. MaxMessages
    BY ReadTypes, HomeBoundsAssumption
    DEF HomeTyped, ConversationType, Count, ServerKept, Possible, WindowType
  <1>2. ASSUME NEW status \in {"pending", "accepted", "deleted"}, NEW e \in EventType,
               Change(c, [old EXCEPT !.row = status], e), e.c = c,
               \/ /\ e.kind = "row" /\ status = e.row
                  /\ <<old.row, status>> \in {<<"absent", "pending">>, <<"pending", "accepted">>}
               \/ e.kind = "gone" /\ status = "deleted" /\ Live(c)
        PROVE  \E new \in ConversationType, event \in EventType :
                 Change(c, new, event) /\ Turned(c, new, event) /\ Len(new.msgs) <= MaxMessages
    <2> DEFINE new == [old EXCEPT !.row = status]
    <2>1. /\ new \in ConversationType /\ new.row = status
          /\ new.msgs = old.msgs /\ new.window = old.window
      BY <1>1 DEF ConversationType, RowType
    <2> HIDE DEF new
    <2>2. Turned(c, new, e)
      BY <1>2, <2>1 DEF Turned, Live
    <2>3. Change(c, new, e)
      BY <1>2 DEF new
    <2>4. QED
      BY <1>1, <2>1, <2>2, <2>3
  <1>3. /\ \A status \in {"pending", "accepted"} :
             RowEvent(c, status) \in EventType /\ RowEvent(c, status).c = c /\ RowEvent(c, status).row = status
             /\ RowEvent(c, status).kind = "row"
        /\ [kind |-> "gone", c |-> c] \in EventType /\ [kind |-> "window", c |-> c] \in EventType
    BY DEF EventType, RowEvent
  <1>4. CASE Request(c)
    BY <1>2, <1>3, <1>4 DEF Request
  <1>5. CASE Accept(c)
    BY <1>2, <1>3, <1>5 DEF Accept
  <1>6. CASE Delete(c)
    <2> DEFINE e == [kind |-> "gone", c |-> c]
    <2>1. e \in EventType /\ e.kind = "gone" /\ e.c = c
      BY <1>3
    <2>2. Change(c, [old EXCEPT !.row = "deleted"], e) /\ Live(c)
      BY <1>6 DEF Delete
    <2> HIDE DEF e
    <2>3. QED
      BY <1>2, <2>1, <2>2
  <1>7. ASSUME NEW peer \in BOOLEAN, Post(c, peer)
        PROVE  \E new \in ConversationType, event \in EventType :
                 Change(c, new, event) /\ Turned(c, new, event) /\ Len(new.msgs) <= MaxMessages
    <2> DEFINE msg == [k |-> n + 1, erased |-> FALSE]
               posted == [peer |-> peer, erased |-> FALSE]
               msgs == Append(old.msgs, posted)
               new == [old EXCEPT !.msgs = msgs]
               event == [kind |-> "insert", c |-> c, peer |-> peer, msg |-> msg]
    <2>1. n < MaxMessages /\ Change(c, new, event) /\ old.row = "accepted"
      BY <1>1, <1>7 DEF Post
    <2>2. msg \in MessageType
      BY <1>1, <2>1 DEF MessageType
    <2>3. event \in EventType /\ event.c = c /\ event.kind = "insert" /\ event.peer = peer /\ event.msg = msg
      BY <2>2 DEF EventType
    <2>4. posted \in Messages
      OBVIOUS
    <2>5. msgs \in Seq(Messages) /\ Len(msgs) = n + 1 /\ msgs[n + 1] = posted /\ \A k \in 1 .. n : msgs[k] = old.msgs[k]
      BY <1>1, <2>4
    <2> HIDE DEF msgs
    <2>6. new \in ConversationType /\ new.msgs = msgs /\ new.row = old.row /\ new.window = old.window
      BY <1>1, <2>5 DEF ConversationType
    <2>7. msg.k = n + 1 /\ ~msg.erased /\ posted.peer = peer /\ ~posted.erased
      OBVIOUS
    <2> HIDE DEF event, new, msg, posted
    <2>8. Turned(c, new, event)
      BY <2>1, <2>3, <2>5, <2>6, <2>7 DEF Turned
    <2>9. QED
      BY <1>1, <2>1, <2>3, <2>5, <2>6, <2>8
  <1>8. CASE Erase(c)
    <2> DEFINE msg == [k |-> n, erased |-> TRUE]
               msgs == [old.msgs EXCEPT ![n] = [old.msgs[n] EXCEPT !.erased = TRUE]]
               new == [old EXCEPT !.msgs = msgs]
               event == [kind |-> "update", c |-> c, msg |-> msg]
    <2>1. n > 0 /\ Change(c, [old EXCEPT !.msgs[n].erased = TRUE], event) /\ Live(c)
      BY <1>1, <1>8 DEF Erase, Count
    <2>2. [old EXCEPT !.msgs[n].erased = TRUE] = new
      OBVIOUS
    <2>3. msg \in MessageType
      BY <1>1 DEF MessageType
    <2>4. event \in EventType /\ event.c = c /\ event.kind = "update" /\ event.msg = msg
      BY <2>3 DEF EventType
    <2>5. n \in 1 .. n /\ n \in DOMAIN old.msgs /\ \A k \in 1 .. n : old.msgs[k] \in Messages
      <3>1. DOMAIN old.msgs = 1 .. n
        BY <1>1
      <3>2. \A k \in DOMAIN old.msgs : old.msgs[k] \in Messages
        BY <1>1, ElementsTyped
      <3>3. QED
        BY <1>1, <2>1, <3>1, <3>2
    <2>6. \A m \in Messages :
            /\ [m EXCEPT !.erased = TRUE] \in Messages /\ [m EXCEPT !.erased = TRUE].peer = m.peer
            /\ [m EXCEPT !.erased = TRUE].erased
      OBVIOUS
    <2>7. [old.msgs[n] EXCEPT !.erased = TRUE] \in Messages
      BY <2>5, <2>6
    <2>8. /\ msgs \in Seq(Messages) /\ Len(msgs) = n /\ \A k \in 1 .. n - 1 : msgs[k] = old.msgs[k]
          /\ msgs[n] = [old.msgs[n] EXCEPT !.erased = TRUE]
      BY <1>1, <2>5, <2>7
    <2> HIDE DEF msgs
    <2>9. msgs[n].erased /\ \A k \in 1 .. n : msgs[k].peer = old.msgs[k].peer
      <3>1. \A k \in 1 .. n : k = n \/ k \in 1 .. n - 1
        BY <1>1
      <3>2. QED
        BY <2>5, <2>6, <2>8, <3>1
    <2>10. new \in ConversationType /\ new.msgs = msgs /\ new.row = old.row /\ new.window = old.window
      BY <1>1, <2>8 DEF ConversationType
    <2>11. Change(c, new, event) /\ msg.k = n /\ msg.erased
      BY <2>1, <2>2
    <2> HIDE DEF event, new, msg
    <2>12. Turned(c, new, event)
      BY <2>1, <2>4, <2>8, <2>9, <2>10, <2>11 DEF Turned, Live
    <2>13. QED
      BY <1>1, <2>4, <2>8, <2>10, <2>11, <2>12
  <1>9. ASSUME NEW w \in WindowType, SetWindow(c, w), w.cut <= n
        PROVE  \E new \in ConversationType, event \in EventType :
                 Change(c, new, event) /\ Turned(c, new, event) /\ Len(new.msgs) <= MaxMessages
    <2> DEFINE new == [old EXCEPT !.window = w]
               event == [kind |-> "window", c |-> c]
    <2>1. /\ new \in ConversationType /\ new.msgs = old.msgs
          /\ new.row = old.row /\ new.window = w
      BY <1>1 DEF ConversationType
    <2>2. event \in EventType /\ event.c = c /\ event.kind = "window"
      BY <1>3
    <2>3. Change(c, new, event) /\ Live(c)
      BY <1>9 DEF SetWindow
    <2> HIDE DEF new, event
    <2>4. Turned(c, new, event)
      BY <1>9, <2>1, <2>2, <2>3 DEF Turned, Live
    <2>5. QED
      BY <1>1, <2>1, <2>2, <2>3, <2>4
  <1>10. CASE deleteChatForMe(c)
    <2>1. [cut |-> n, revealed |-> FALSE] \in WindowType
      BY <1>1 DEF WindowType
    <2>2. SetWindow(c, [cut |-> n, revealed |-> FALSE])
      BY <1>1, <1>10 DEF deleteChatForMe
    <2>3. QED
      BY <1>1, <1>9, <2>1, <2>2
  <1>11. CASE revealChatForMe(c)
    <2>1. /\ [old.window EXCEPT !.revealed = TRUE] \in WindowType
          /\ [old.window EXCEPT !.revealed = TRUE].cut = old.window.cut
      BY <1>1 DEF WindowType
    <2>2. SetWindow(c, [old.window EXCEPT !.revealed = TRUE])
      BY <1>11 DEF revealChatForMe
    <2>3. QED
      BY <1>1, <1>9, <2>1, <2>2
  <1>12. CASE restoreChatForMe(c)
    <2>1. Open \in WindowType /\ Open.cut <= n
      BY <1>1, WindowsTyped DEF Open, Unseen
    <2>2. QED
      BY <1>9, <1>12, <2>1 DEF restoreChatForMe
  <1>13. QED
    BY <1>4, <1>5, <1>6, <1>7, <1>8, <1>9, <1>10, <1>11, <1>12

-----------------------------------------------------------------------------
(***************************************************************************)
(* Types: an event is delivered.                                           *)
(***************************************************************************)
\* No pass of c that started before goes on unaware.
Unaware(c) ==
  \A g \in Schedulers :
    /\ cycles[c][g].pass > 0 => cycles'[c][g].pass > 0
    /\ cycles'[c][g].pass > 0 => cycles'[c][g].raced \/ cycles'[c][g].asked = {}
    /\ \/ /\ cycles'[c][g].asked = {} /\ cycles'[c][g].row = "absent" /\ cycles'[c][g].last = NoMessage
          /\ cycles'[c][g].wins = NoWindows
       \/ /\ cycles'[c][g].asked = cycles[c][g].asked /\ cycles'[c][g].row = cycles[c][g].row
          /\ cycles'[c][g].last = cycles[c][g].last /\ cycles'[c][g].wins = cycles[c][g].wins

\* After an event no pass goes on unaware, and an event that is not shown is reconciled.
LEMMA BumpedUnaware ==
  ASSUME HomeTyped, NEW c \in Conversations,
         cycles' = Bumped(c) \/ cycles' = Scheduled({c}, Bumped(c))
  PROVE  /\ cycles' \in [Conversations -> [Schedulers -> PassType]] /\ Unaware(c)
         /\ \A d \in Conversations \ {c} : cycles'[d] = cycles[d]
         /\ cycles' = Scheduled({c}, Bumped(c)) => \E g \in Schedulers : cycles'[c][g].pass > 0
  <1>1. cycles \in [Conversations -> [Schedulers -> PassType]] /\ outages \in 0 .. MaxOutages
    BY DEF HomeTyped
  <1> DEFINE b == Bumped(c)
  <1>2. /\ b \in [Conversations -> [Schedulers -> PassType]]
        /\ \A d \in Conversations \ {c} : b[d] = cycles[d]
        /\ \A g \in Schedulers :
              /\ b[c][g].pass = cycles[c][g].pass
              /\ cycles[c][g].pass > 0 => b[c][g].raced
              /\ b[c][g].last = cycles[c][g].last /\ b[c][g].row = cycles[c][g].row
              /\ b[c][g].asked = cycles[c][g].asked /\ b[c][g].wins = cycles[c][g].wins
    BY <1>1, BumpedIs
  <1> DEFINE sch == Scheduled({c}, b)
  <1>3. /\ sch \in [Conversations -> [Schedulers -> PassType]]
        /\ \A d \in Conversations \ {c} : sch[d] = b[d]
        /\ \A g \in Schedulers :
              /\ b[c][g].pass > 0 => sch[c][g].pass > 0
              /\ sch[c][g] = b[c][g] \/ sch[c][g] = Pass(1) \/ sch[c][g] = [b[c][g] EXCEPT !.rerun = TRUE]
        /\ sch[c][outages].pass > 0 /\ outages \in Schedulers
    <2> HIDE DEF b
    <2>1. c \in Conversations \cap {c}
      OBVIOUS
    <2>2. b \in [Conversations -> [Schedulers -> PassType]] /\ outages \in 0 .. MaxOutages
      BY <1>1, <1>2
    <2>3. /\ Scheduled({c}, b) \in [Conversations -> [Schedulers -> PassType]]
          /\ \A d \in Conversations \ {c} : Scheduled({c}, b)[d] = b[d]
      BY <2>2, ScheduledIs
    <2>4. Scheduled({c}, b)[c][outages].pass > 0 /\ outages \in Schedulers
      BY <2>1, <2>2, ScheduledIs
    <2>5. ASSUME NEW g \in Schedulers
          PROVE  /\ b[c][g].pass > 0 => Scheduled({c}, b)[c][g].pass > 0
                 /\ \/ Scheduled({c}, b)[c][g] = b[c][g]
                    \/ Scheduled({c}, b)[c][g] = Pass(1)
                    \/ Scheduled({c}, b)[c][g] = [b[c][g] EXCEPT !.rerun = TRUE]
      BY <2>2, ScheduledIs
    <2>6. QED
      BY <2>3, <2>4, <2>5
  <1>4. cycles' = b \/ cycles' = sch
    OBVIOUS
  <1>5. \E g \in Schedulers : sch[c][g].pass > 0
    BY <1>3
  <1> HIDE DEF b, sch
  <1>6. cycles' = b =>
          /\ cycles' \in [Conversations -> [Schedulers -> PassType]] /\ Unaware(c)
          /\ \A d \in Conversations \ {c} : cycles'[d] = cycles[d]
    BY <1>2 DEF Unaware
  <1>7. ASSUME cycles' = sch
        PROVE  /\ cycles' \in [Conversations -> [Schedulers -> PassType]] /\ Unaware(c)
               /\ \A d \in Conversations \ {c} : cycles'[d] = cycles[d]
    <2>1. ASSUME NEW g \in Schedulers
          PROVE  /\ cycles[c][g].pass > 0 => sch[c][g].pass > 0
                 /\ sch[c][g].pass > 0 => sch[c][g].raced \/ sch[c][g].asked = {}
                 /\ \/ /\ sch[c][g].asked = {} /\ sch[c][g].row = "absent" /\ sch[c][g].last = NoMessage
                       /\ sch[c][g].wins = NoWindows
                    \/ /\ sch[c][g].asked = cycles[c][g].asked /\ sch[c][g].row = cycles[c][g].row
                       /\ sch[c][g].last = cycles[c][g].last /\ sch[c][g].wins = cycles[c][g].wins
      <3> DEFINE q == sch[c][g]
                 p == b[c][g]
      <3>1. p \in PassType
        BY <1>2
      <3>2. q = p \/ q = Pass(1) \/ q = [p EXCEPT !.rerun = TRUE]
        BY <1>3
      <3>3. p.pass = cycles[c][g].pass /\ (cycles[c][g].pass > 0 => p.raced)
            /\ p.last = cycles[c][g].last /\ p.row = cycles[c][g].row /\ p.asked = cycles[c][g].asked
            /\ p.wins = cycles[c][g].wins
            /\ (p.pass > 0 => q.pass > 0)
        BY <1>2, <1>3
      <3>4. Pass(1).asked = {} /\ Pass(1).last = NoMessage /\ Pass(1).row = "absent"
            /\ Pass(1).wins = NoWindows
        BY PassTyped, HomeBoundsAssumption
      <3> HIDE DEF p, q
      <3>5. [p EXCEPT !.rerun = TRUE].pass = p.pass /\ [p EXCEPT !.rerun = TRUE].raced = p.raced
            /\ [p EXCEPT !.rerun = TRUE].last = p.last /\ [p EXCEPT !.rerun = TRUE].row = p.row
            /\ [p EXCEPT !.rerun = TRUE].asked = p.asked /\ [p EXCEPT !.rerun = TRUE].wins = p.wins
        BY <3>1, RerunTyped
      <3>6. /\ cycles[c][g].pass > 0 => q.pass > 0
            /\ q.pass > 0 => q.raced \/ q.asked = {}
            /\ \/ q.asked = {} /\ q.row = "absent" /\ q.last = NoMessage /\ q.wins = NoWindows
               \/ /\ q.asked = cycles[c][g].asked /\ q.row = cycles[c][g].row
                  /\ q.last = cycles[c][g].last /\ q.wins = cycles[c][g].wins
        BY <3>2, <3>3, <3>4, <3>5
      <3>7. QED
        BY <3>6 DEF q
    <2>2. Unaware(c)
      BY <1>7, <2>1 DEF Unaware
    <2>3. QED
      BY <1>2, <1>3, <1>7, <2>2
  <1>8. QED
    BY <1>4, <1>5, <1>6, <1>7 DEF sch, b

\* The entry of a conversation after an event was applied to it.
Shown(e) ==
  LET c == e.c
      old == view[c]
      new == view'[c]
  IN  /\ e.kind = "row" =>
           new = IF isConversationVisible(e.row, mirror[c].last, window[c])
                 THEN [old EXCEPT !.row = e.row, !.last = Trim(old.last, window[c].cut)]
                 ELSE Unlisted
      /\ e.kind = "gone" => new = Unlisted
      /\ e.kind \in {"insert", "update"} /\ mirror[c].shown =>
           /\ new.row = old.row /\ new.last = mergeLastMessage(old.last, e.msg)
           /\ new.unread = IF e.kind = "insert" /\ e.peer /\ isNewLastMessage(mirror[c].last, e.msg)
                           THEN old.unread + 1 ELSE old.unread
      /\ (e.kind = "insert" /\ ~mirror[c].shown) \/ e.kind = "window" => new = old /\ Cycling(c)'

\* The three ways to take an event: it is ignored, noted for the drain, or shown.
LEMMA DeliverIs ==
  ASSUME HomeTyped, Deliver, NEW e, e = Head(feed)
  PROVE  /\ e \in EventType /\ feed' = Tail(feed) /\ feed # <<>> /\ channel = "live"
         /\ server' = server /\ channel' = channel /\ loads' = loads /\ newest' = newest
         /\ window' = window /\ mirror' = mirror /\ owed' = owed /\ outages' = outages
         /\ slips' = slips \cup (Misled(e) \X {e.c})
         /\ cycles' \in [Conversations -> [Schedulers -> PassType]]
         /\ view' \in [Conversations -> EntryType]
         /\ \A d \in Conversations \ {e.c} : view'[d] = view[d] /\ cycles'[d] = cycles[d]
         /\ \/ Ignored(e) /\ pending' = pending /\ cycles' = cycles /\ view' = view
            \/ ~Ignored(e) /\ Loading /\ pending' = pending \cup {e.c} /\ view' = view /\ Unaware(e.c)
            \/ ~Ignored(e) /\ ~Loading /\ pending' = pending /\ Unaware(e.c) /\ Shown(e)
  <1>1. /\ feed' = Tail(feed) /\ feed # <<>> /\ channel = "live"
        /\ server' = server /\ channel' = channel /\ loads' = loads /\ newest' = newest
        /\ window' = window /\ mirror' = mirror /\ owed' = owed /\ outages' = outages
        /\ slips' = slips \cup (Misled(e) \X {e.c})
        /\ IF Ignored(e) THEN UNCHANGED <<pending, cycles, view>> ELSE Noted(e)
    BY DEF Deliver, bounds
  <1>2. feed \in Seq(EventType)
    BY DEF HomeTyped
  <1>3. e \in EventType
    BY <1>1, <1>2, RestOfFeed, ElementsTyped
  <1>4. /\ e.c \in Conversations /\ e.kind \in {"row", "gone", "window", "insert", "update"}
        /\ e.kind = "row" => e.row \in {"pending", "accepted"}
        /\ e.kind = "insert" => e.peer \in BOOLEAN
        /\ e.kind \in {"insert", "update"} => e.msg \in MessageType
    BY <1>3, EventFacts
  <1>5. /\ view \in [Conversations -> EntryType] /\ cycles \in [Conversations -> [Schedulers -> PassType]]
        /\ mirror \in [Conversations -> MirrorType] /\ window \in [Conversations -> WindowType]
    BY DEF HomeTyped
  <1> DEFINE c == e.c
             old == view[c]
  <1>6. old \in EntryType /\ window[c] \in WindowType /\ window[c].cut \in -1 .. MaxMessages
        /\ old.last \in MessageType
    BY <1>4, <1>5 DEF WindowType, EntryType
  <1>7. CASE Ignored(e)
    BY <1>1, <1>3, <1>5, <1>7
  <1>8. CASE ~Ignored(e) /\ Loading
    <2>1. view' = view /\ cycles' = Bumped(c) /\ pending' = pending \cup {c}
      BY <1>1, <1>8 DEF Noted, noteEvent
    <2>2. QED
      BY <1>1, <1>3, <1>4, <1>5, <1>8, <2>1, BumpedUnaware
  <1>9. CASE ~Ignored(e) /\ ~Loading
    <2>1. pending' = pending /\ Noted(e)
      BY <1>1, <1>9 DEF Noted, noteEvent
    <2>2. cycles' = Bumped(c) \/ cycles' = Scheduled({c}, Bumped(c))
      BY <1>4, <1>9, <2>1 DEF Noted
    <2>3. /\ Unaware(c) /\ cycles' \in [Conversations -> [Schedulers -> PassType]]
          /\ \A d \in Conversations \ {c} : cycles'[d] = cycles[d]
      BY <1>4, <2>2, BumpedUnaware
    <2>4. view' \in [Conversations -> EntryType] /\ Shown(e) /\ \A d \in Conversations \ {c} : view'[d] = view[d]
      <3>1. CASE e.kind = "row"
        <4> DEFINE new == IF isConversationVisible(e.row, mirror[c].last, window[c])
                          THEN [old EXCEPT !.row = e.row, !.last = Trim(old.last, window[c].cut)]
                          ELSE Unlisted
        <4>1. view' = [view EXCEPT ![c] = new]
          BY <1>9, <2>1, <3>1 DEF Noted, applyConnectionRow
        <4>2. Trim(old.last, window[c].cut) \in MessageType /\ e.row \in RowType
          BY <1>4, <1>6, <3>1, TrimTyped DEF RowType
        <4>3. new \in EntryType
          BY <1>6, <4>2, WindowsTyped DEF EntryType
        <4>4. view'[c] = new
          BY <1>4, <1>5, <4>1
        <4>5. Shown(e)
          BY <3>1, <4>4 DEF Shown
        <4> HIDE DEF new
        <4>6. QED
          BY <1>4, <1>5, <4>1, <4>3, <4>5
      <3>2. CASE e.kind = "gone"
        <4>1. view' = [view EXCEPT ![c] = Unlisted]
          BY <1>9, <2>1, <3>2 DEF Noted, applyConnectionGone
        <4>2. view'[c] = Unlisted
          BY <1>4, <1>5, <4>1
        <4>3. QED
          BY <1>4, <1>5, <3>2, <4>1, <4>2, WindowsTyped DEF Shown
      <3>3. CASE e.kind \in {"insert", "update"} /\ mirror[c].shown
        <4> DEFINE peer == e.kind = "insert" /\ e.peer
                   last == mergeLastMessage(old.last, e.msg)
                   unread == IF peer /\ isNewLastMessage(mirror[c].last, e.msg)
                             THEN old.unread + 1 ELSE old.unread
        <4>1. onMessage(c, e.msg, peer)
          BY <1>4, <1>9, <2>1, <3>3 DEF Noted
        <4>2. view' = [view EXCEPT ![c] = [old EXCEPT !.last = last, !.unread = unread]]
          BY <1>4, <1>5, <4>1 DEF onMessage
        <4>3. last \in MessageType /\ unread \in Nat
          BY <1>4, <1>6, <3>3 DEF mergeLastMessage, EntryType
        <4> HIDE DEF last, unread
        <4>4. /\ [old EXCEPT !.last = last, !.unread = unread] \in EntryType
              /\ [old EXCEPT !.last = last, !.unread = unread].row = old.row
              /\ [old EXCEPT !.last = last, !.unread = unread].last = last
              /\ [old EXCEPT !.last = last, !.unread = unread].unread = unread
          BY <1>6, <4>3 DEF EntryType
        <4>5. view'[c] = [old EXCEPT !.last = last, !.unread = unread]
          BY <1>4, <1>5, <4>2
        <4>6. Shown(e)
          BY <3>3, <4>4, <4>5 DEF Shown, last, unread
        <4>7. QED
          BY <1>4, <1>5, <4>2, <4>4, <4>6
      <3>4. CASE (e.kind = "insert" /\ ~mirror[c].shown) \/ e.kind = "window"
        <4>1. view' = view /\ cycles' = Scheduled({c}, Bumped(c))
          BY <1>9, <2>1, <3>4 DEF Noted
        <4>2. Cycling(c)'
          BY <1>4, <4>1, BumpedUnaware DEF Cycling
        <4>3. QED
          BY <1>5, <3>4, <4>1, <4>2 DEF Shown
      <3>5. e.kind = "update" => mirror[c].shown
        BY <1>9 DEF Ignored
      <3>6. QED
        BY <1>4, <3>1, <3>2, <3>3, <3>4, <3>5
    <2>5. QED
      BY <1>1, <1>3, <1>9, <2>1, <2>3, <2>4
  <1>10. QED
    BY <1>7, <1>8, <1>9

\* A delivery keeps the types.
LEMMA DeliverTyped == HomeTyped /\ Deliver => HomeTyped'
  <1> SUFFICES ASSUME HomeTyped, Deliver PROVE HomeTyped'
    OBVIOUS
  <1> DEFINE e == Head(feed)
  <1>1. /\ e \in EventType /\ feed' = Tail(feed) /\ feed # <<>>
        /\ server' = server /\ channel' = channel /\ loads' = loads /\ newest' = newest
        /\ window' = window /\ mirror' = mirror /\ owed' = owed /\ outages' = outages
        /\ cycles' \in [Conversations -> [Schedulers -> PassType]]
        /\ view' \in [Conversations -> EntryType]
        /\ pending' = pending \/ pending' = pending \cup {e.c}
    BY DeliverIs
  <1> HIDE DEF e
  <1>2. feed' \in Seq(EventType)
    BY <1>1, RestOfFeed DEF HomeTyped
  <1>3. pending' \subseteq Conversations
    BY <1>1, EventFacts DEF HomeTyped
  <1>4. QED
    BY <1>1, <1>2, <1>3 DEF HomeTyped

-----------------------------------------------------------------------------
(***************************************************************************)
(* Types: the four reads of a load.                                        *)
(***************************************************************************)
\* What each of the four reads adds to a load.
LEMMA ReadRows ==
  ASSUME NEW r \in LoadType, Filled(r), NEW f \in [Conversations -> RowType],
         NEW new, new = [r EXCEPT !.pc = "windows", !.rows = f]
  PROVE  /\ new \in LoadType /\ Filled(new) /\ new.pc = "windows" /\ new.rows = f
         /\ new.lapse = r.lapse /\ new.lasts = r.lasts
  <1>1. [Conversations -> RowType] \subseteq Maybe(RowType)
    BY DEF Maybe
  <1>2. QED
    BY <1>1 DEF LoadType, Filled

\* The second read of a load.
LEMMA ReadWindows ==
  ASSUME NEW r \in LoadType, Filled(r), r.pc = "windows", NEW f \in [Conversations -> WindowType],
         NEW new, new = [r EXCEPT !.pc = "storing", !.wins = f]
  PROVE  /\ new \in LoadType /\ Filled(new) /\ new.pc = "storing" /\ new.wins = f
         /\ new.lapse = r.lapse /\ new.rows = r.rows /\ new.lasts = r.lasts
  <1>1. [Conversations -> WindowType] \subseteq Maybe(WindowType)
    BY DEF Maybe
  <1>2. QED
    BY <1>1 DEF LoadType, Filled

\* A load that goes on without the windows.
LEMMA BlindWindows ==
  ASSUME NEW r \in LoadType, Filled(r), r.pc = "windows", NEW f \in [Conversations -> WindowType],
         NEW new, new = [r EXCEPT !.pc = "lasts", !.wins = f]
  PROVE  /\ new \in LoadType /\ Filled(new) /\ new.pc = "lasts" /\ new.wins = f
         /\ new.lapse = r.lapse /\ new.rows = r.rows /\ new.lasts = r.lasts
  <1>1. [Conversations -> WindowType] \subseteq Maybe(WindowType)
    BY DEF Maybe
  <1>2. QED
    BY <1>1 DEF LoadType, Filled

\* The third read of a load.
LEMMA ReadLasts ==
  ASSUME NEW r \in LoadType, Filled(r), r.pc = "lasts", NEW f \in [Conversations -> MessageType],
         NEW new, new = [r EXCEPT !.pc = "counts", !.lasts = f]
  PROVE  /\ new \in LoadType /\ Filled(new) /\ new.pc = "counts" /\ new.lasts = f
         /\ new.lapse = r.lapse /\ new.rows = r.rows /\ new.wins = r.wins
  <1>1. [Conversations -> MessageType] \subseteq Maybe(MessageType)
    BY DEF Maybe
  <1>2. QED
    BY <1>1 DEF LoadType, Filled

\* The last read of a load.
LEMMA ReadCounts ==
  ASSUME NEW r \in LoadType, Filled(r), r.pc = "counts", NEW f \in [Conversations -> Nat],
         NEW new, new = [r EXCEPT !.pc = "commit", !.counts = f]
  PROVE  /\ new \in LoadType /\ Filled(new) /\ new.pc = "commit" /\ new.counts = f
         /\ new.lapse = r.lapse /\ new.rows = r.rows /\ new.wins = r.wins /\ new.lasts = r.lasts
  <1>1. [Conversations -> Nat] \subseteq Maybe(Nat)
    BY DEF Maybe
  <1>2. QED
    BY <1>1 DEF LoadType, Filled

-----------------------------------------------------------------------------
(***************************************************************************)
(* Types: the loads.                                                       *)
(***************************************************************************)
\* A load that reads keeps the types.
LEMMA ReadingTyped ==
  ASSUME HomeTyped, NEW l \in Slots, NEW new \in LoadType, Filled(new), Reading(l, new),
         window' \in [Conversations -> WindowType]
  PROVE  HomeTyped'
  BY DEF HomeTyped, Reading, LoadFrame

\* What a load is answered has its type.
LEMMA ReadsTyped ==
  ASSUME HomeTyped
  PROVE  /\ [c \in Conversations |-> RowOf(c)] \in [Conversations -> RowType]
         /\ ServerWindows \in [Conversations -> WindowType]
         /\ [c \in Conversations |-> UnreadOf(c)] \in [Conversations -> Nat]
         /\ [c \in Conversations |-> 0] \in [Conversations -> Nat]
         /\ NoWindows \in [Conversations -> WindowType]
         /\ \A rows : [c \in Conversations |-> IF rows[c] = "absent" THEN NoMessage ELSE LastOf(c)]
                        \in [Conversations -> MessageType]
  BY ReadTypes, WindowsTyped DEF ServerWindows, NoWindows

\* A load that reads goes on with what it has read.
LEMMA LoadReadTyped ==
  ASSUME HomeTyped, NEW l \in Slots,
         LoadRows(l) \/ LoadWindows(l) \/ LoadLasts(l) \/ LoadCounts(l)
  PROVE  HomeTyped'
  <1> DEFINE r == loads[l]
             rows   == [c \in Conversations |-> RowOf(c)]
             wins   == ServerWindows
             lasts  == [c \in Conversations |-> IF r.rows[c] = "absent" THEN NoMessage ELSE LastOf(c)]
             counts == [c \in Conversations |-> UnreadOf(c)]
  <1>1. r \in LoadType /\ Filled(r) /\ window \in [Conversations -> WindowType]
    BY DEF HomeTyped
  <1>2. CASE LoadRows(l)
    <2> DEFINE new == [r EXCEPT !.pc = "windows", !.rows = rows]
    <2>1. Reading(l, new) /\ window' = window
      BY <1>2 DEF LoadRows
    <2>2. rows \in [Conversations -> RowType]
      BY ReadsTyped
    <2> HIDE DEF r, rows
    <2>3. new \in LoadType /\ Filled(new)
      BY <1>1, <2>2, ReadRows
    <2> HIDE DEF new
    <2>4. QED
      BY <1>1, <2>1, <2>3, ReadingTyped
  <1>3. CASE LoadWindows(l)
    <2> DEFINE new == [r EXCEPT !.pc = "storing", !.wins = wins]
    <2>1. Reading(l, new) /\ window' = window /\ r.pc = "windows"
      BY <1>3 DEF LoadWindows
    <2>2. wins \in [Conversations -> WindowType]
      BY ReadsTyped
    <2> HIDE DEF r, wins
    <2>3. new \in LoadType /\ Filled(new)
      BY <1>1, <2>1, <2>2, ReadWindows
    <2> HIDE DEF new
    <2>4. QED
      BY <1>1, <2>1, <2>3, ReadingTyped
  <1>4. CASE LoadLasts(l)
    <2> DEFINE new == [r EXCEPT !.pc = "counts", !.lasts = lasts]
    <2>1. Reading(l, new) /\ window' = window /\ r.pc = "lasts"
      BY <1>4 DEF LoadLasts
    <2>2. lasts \in [Conversations -> MessageType]
      BY ReadsTyped
    <2> HIDE DEF r, lasts
    <2>3. new \in LoadType /\ Filled(new)
      BY <1>1, <2>1, <2>2, ReadLasts
    <2> HIDE DEF new
    <2>4. QED
      BY <1>1, <2>1, <2>3, ReadingTyped
  <1>5. CASE LoadCounts(l)
    <2> DEFINE new == [r EXCEPT !.pc = "commit", !.counts = counts]
    <2>1. Reading(l, new) /\ window' = window /\ r.pc = "counts"
      BY <1>5 DEF LoadCounts
    <2>2. counts \in [Conversations -> Nat]
      BY ReadsTyped
    <2> HIDE DEF r, counts
    <2>3. new \in LoadType /\ Filled(new)
      BY <1>1, <2>1, <2>2, ReadCounts
    <2> HIDE DEF new
    <2>4. QED
      BY <1>1, <2>1, <2>3, ReadingTyped
  <1>6. QED
    BY <1>2, <1>3, <1>4, <1>5

\* A load that ends.
LEMMA EndTyped ==
  ASSUME HomeTyped, NEW l \in Slots, NEW left \in SUBSET Conversations, Finish(l, left),
         view' \in [Conversations -> EntryType], window' = window, LoadFrame
  PROVE  HomeTyped'
  <1>1. /\ loads' \in [Slots -> LoadType] /\ \A o \in Slots : Filled(loads'[o])
        /\ newest' \in Slots /\ cycles' \in [Conversations -> [Schedulers -> PassType]]
        /\ owed' \subseteq Conversations /\ pending' \in {pending, {}}
    BY FinishIs
  <1>2. QED
    BY <1>1 DEF HomeTyped, LoadFrame

\* A commit keeps the types.
LEMMA CommitTyped ==
  ASSUME HomeTyped, NEW l \in Slots, Commit(l)
  PROVE  HomeTyped'
  <1> DEFINE r == loads[l]
  <1>1. /\ r.rows \in [Conversations -> RowType] /\ r.wins \in [Conversations -> WindowType]
        /\ r.lasts \in [Conversations -> MessageType] /\ r.counts \in [Conversations -> Nat]
    BY DEF Commit, HomeTyped, Filled
  <1>2. view' = [c \in Conversations |-> Entry(r.rows[c], r.lasts[c], r.wins[c], r.counts[c])]
    BY DEF Commit
  <1>3. view' \in [Conversations -> EntryType]
    BY <1>1, <1>2, EntryTyped
  <1>4. {c \in owed : c \in r.lapse \/ Cycling(c)} \in SUBSET Conversations
    BY DEF HomeTyped
  <1>5. QED
    BY <1>3, <1>4, EndTyped DEF Commit

\* A load that is discarded or fails keeps the types.
LEMMA LoadStopsTyped ==
  ASSUME HomeTyped, NEW l \in Slots, LoadDiscarded(l) \/ LoadFails(l)
  PROVE  HomeTyped'
  <1>1. Finish(l, owed) /\ view' = view /\ window' = window /\ LoadFrame
    BY DEF LoadDiscarded, LoadFails
  <1>2. view' \in [Conversations -> EntryType] /\ owed \in SUBSET Conversations
    BY <1>1 DEF HomeTyped
  <1>3. QED
    BY <1>1, <1>2, EndTyped

\* A load that takes an error for an answer leaves everything to the next.
LEMMA LoadBlindIs ==
  ASSUME HomeTyped, NEW l \in Slots, LoadNoWindows(l) \/ LoadNoCounts(l)
  PROVE  /\ loads' \in [Slots -> LoadType]
         /\ \A o \in Slots :
              /\ Filled(loads'[o])
              /\ loads[o].pc = "idle" => loads'[o].pc = "idle" /\ loads'[o] = IdleLoad
              /\ loads'[o].pc # "idle" => loads'[o].lapse = loads[o].lapse \cup Conversations
              /\ loads'[o].pc \in {"windows", "storing", "lasts", "counts", "commit"} =>
                   loads'[o].rows = loads[o].rows
                   /\ loads[o].pc \in {"windows", "storing", "lasts", "counts", "commit"}
              /\ loads'[o].pc = "storing" => loads[o].pc = "storing" /\ loads'[o].wins = loads[o].wins
              /\ loads'[o].pc \in {"counts", "commit"} =>
                   loads'[o].lasts = loads[o].lasts /\ loads[o].pc \in {"counts", "commit"}
         /\ (window' = window \/ window' = NoWindows)
         /\ owed' = Conversations /\ newest' = newest /\ cycles' = cycles /\ pending' = pending
         /\ view' = view /\ loads[l].pc # "idle" /\ slips' = slips /\ LoadFrame
  <1> DEFINE r == loads[l]
  <1>1. r \in LoadType /\ Filled(r)
    BY DEF HomeTyped
  <1>2. ASSUME NEW new \in LoadType, Filled(new), new.lapse = r.lapse, new.rows = r.rows, new.pc \in {"lasts", "commit"},
               r.pc \in {"windows", "counts"}, new.pc = "lasts" \/ (r.pc = "counts" /\ new.lasts = r.lasts),
               loads' = Lapsed(Conversations, [loads EXCEPT ![l] = new])
        PROVE  /\ loads' \in [Slots -> LoadType]
               /\ \A o \in Slots :
                    /\ Filled(loads'[o])
                    /\ loads[o].pc = "idle" => loads'[o].pc = "idle" /\ loads'[o] = IdleLoad
                    /\ loads'[o].pc # "idle" => loads'[o].lapse = loads[o].lapse \cup Conversations
                    /\ loads'[o].pc \in {"windows", "storing", "lasts", "counts", "commit"} =>
                         loads'[o].rows = loads[o].rows
                         /\ loads[o].pc \in {"windows", "storing", "lasts", "counts", "commit"}
                    /\ loads'[o].pc = "storing" => loads[o].pc = "storing" /\ loads'[o].wins = loads[o].wins
                    /\ loads'[o].pc \in {"counts", "commit"} =>
                         loads'[o].lasts = loads[o].lasts /\ loads[o].pc \in {"counts", "commit"}
    <2> DEFINE ls == [loads EXCEPT ![l] = new]
    <2>1. ls \in [Slots -> LoadType] /\ (\A o \in Slots : Filled(ls[o])) /\ ls[l] = new
          /\ \A o \in Slots \ {l} : ls[o] = loads[o]
      BY <1>2 DEF HomeTyped
    <2> HIDE DEF ls
    <2>2. loads' \in [Slots -> LoadType] /\ \A o \in Slots :
              /\ Filled(loads'[o])
              /\ loads'[o].pc = ls[o].pc
              /\ ls[o].pc = "idle" => loads'[o] = IdleLoad
              /\ ls[o].pc # "idle" =>
                   /\ loads'[o].rows = ls[o].rows /\ loads'[o].lasts = ls[o].lasts /\ loads'[o].wins = ls[o].wins
                   /\ loads'[o].lapse = ls[o].lapse \cup Conversations
      <3>1. loads' = Lapsed(Conversations, ls)
        BY <1>2 DEF ls
      <3>2. QED
        BY <2>1, <3>1, LapsedIs
    <2>3. ASSUME NEW o \in Slots
          PROVE  /\ loads[o].pc = "idle" => loads'[o].pc = "idle" /\ loads'[o] = IdleLoad
                 /\ loads'[o].pc # "idle" => loads'[o].lapse = loads[o].lapse \cup Conversations
                 /\ loads'[o].pc \in {"windows", "storing", "lasts", "counts", "commit"} =>
                      loads'[o].rows = loads[o].rows
                      /\ loads[o].pc \in {"windows", "storing", "lasts", "counts", "commit"}
                 /\ loads'[o].pc = "storing" => loads[o].pc = "storing" /\ loads'[o].wins = loads[o].wins
                 /\ loads'[o].pc \in {"counts", "commit"} =>
                      loads'[o].lasts = loads[o].lasts /\ loads[o].pc \in {"counts", "commit"}
      <3>1. CASE o = l
        BY <1>2, <2>1, <2>2, <3>1
      <3>2. CASE o # l
        <4>1. ls[o] = loads[o]
          BY <2>1, <3>2
        <4>2. QED
          BY <2>2, <4>1
      <3>3. QED
        BY <3>1, <3>2
    <2>4. QED
      BY <2>2, <2>3
  <1>3. CASE LoadNoWindows(l)
    <2> DEFINE f == NoWindows
               new == [r EXCEPT !.pc = "lasts", !.wins = f]
    <2>1. loads' = Lapsed(Conversations, [loads EXCEPT ![l] = new])
      BY <1>3 DEF LoadNoWindows
    <2>2. r.pc = "windows" /\ f \in [Conversations -> WindowType]
      BY <1>3, ReadsTyped DEF LoadNoWindows
    <2> HIDE DEF r, f
    <2>3. new \in LoadType /\ Filled(new)
      BY <1>1, <2>2, BlindWindows
    <2>4. new.lapse = r.lapse /\ new.rows = r.rows /\ new.pc = "lasts"
      BY <1>1 DEF LoadType
    <2> HIDE DEF new
    <2>5. QED
      BY <1>2, <1>3, <2>1, <2>2, <2>3, <2>4 DEF LoadNoWindows
  <1>4. CASE LoadNoCounts(l)
    <2> DEFINE f == [c \in Conversations |-> 0]
               new == [r EXCEPT !.pc = "commit", !.counts = f]
    <2>1. loads' = Lapsed(Conversations, [loads EXCEPT ![l] = new])
      BY <1>4 DEF LoadNoCounts
    <2>2. r.pc = "counts" /\ f \in [Conversations -> Nat]
      BY <1>4, ReadsTyped DEF LoadNoCounts
    <2> HIDE DEF r, f
    <2>3. new \in LoadType /\ Filled(new)
      BY <1>1, <2>2, ReadCounts
    <2>4. new.lapse = r.lapse /\ new.rows = r.rows /\ new.pc = "commit" /\ new.lasts = r.lasts
      BY <1>1 DEF LoadType
    <2> HIDE DEF new
    <2>5. QED
      BY <1>2, <1>4, <2>1, <2>2, <2>3, <2>4 DEF LoadNoCounts
  <1>5. QED
    BY <1>3, <1>4

\* An answer taken for nothing keeps the types.
LEMMA LoadBlindTyped ==
  ASSUME HomeTyped, NEW l \in Slots, LoadNoWindows(l) \/ LoadNoCounts(l)
  PROVE  HomeTyped'
  <1>1. window' \in [Conversations -> WindowType]
    BY LoadBlindIs, ReadsTyped DEF HomeTyped
  <1>2. QED
    BY <1>1, LoadBlindIs DEF HomeTyped, LoadFrame

\* A load that starts keeps the types.
LEMMA StartsTyped ==
  ASSUME HomeTyped, NEW l \in Slots, StartLoad(l) \/ GoOnline(l)
  PROVE  HomeTyped'
  <1>1. loads' = [loads EXCEPT ![l] = StartedLoad] /\ newest' = l
    BY DEF StartLoad, GoOnline
  <1>2. loads' \in [Slots -> LoadType] /\ \A o \in Slots : Filled(loads'[o])
    BY <1>1, LoadTyped DEF HomeTyped
  <1>3. CASE StartLoad(l)
    BY <1>1, <1>2, <1>3 DEF HomeTyped, StartLoad, listVars
  <1>4. CASE GoOnline(l)
    <2>1. outages' \in 0 .. MaxOutages /\ channel' = "joining"
      BY <1>4, HomeBoundsAssumption DEF HomeTyped, GoOnline
    <2>2. QED
      BY <1>1, <1>2, <1>4, <2>1 DEF HomeTyped, GoOnline, listVars
  <1>5. QED
    BY <1>3, <1>4

-----------------------------------------------------------------------------
(***************************************************************************)
(* Types: the requests of a pass.                                          *)
(***************************************************************************)
\* The requests of a pass.
Requests == {"row", "last", "deletions", "window", "count"}

\* An answer is added to what was asked, and nothing else changes.
LEMMA AnswerIs ==
  ASSUME NEW p \in PassType, NEW request \in Requests
  PROVE  /\ Answer(p, request) \in PassType
         /\ Answer(p, request).asked = p.asked \cup {request}
         /\ Answer(p, request).pass = p.pass /\ Answer(p, request).raced = p.raced
         /\ Answer(p, request).failed = p.failed /\ Answer(p, request).row = p.row
         /\ Answer(p, request).last = p.last /\ Answer(p, request).win = p.win
         /\ Answer(p, request).count = p.count /\ Answer(p, request).wins = p.wins
  BY DEF Answer, PassType, Requests

\* What an answer changes of a pass.
Answered(c, p, q) ==
  \/ /\ "row" \notin p.asked /\ q.asked = p.asked \cup {"row"} /\ q.row = RowOf(c)
     /\ q.last = p.last /\ q.wins = p.wins /\ q.win = p.win /\ q.count = p.count
  \/ /\ "last" \notin p.asked /\ q.asked = p.asked \cup {"last"} /\ q.last = LastOf(c)
     /\ q.row = p.row /\ q.wins = p.wins /\ q.win = p.win /\ q.count = p.count
     /\ p.row # "absent" /\ "row" \in p.asked
  \/ /\ {"deletions", "window"} \cap p.asked = {} /\ q.asked = p.asked \cup {"deletions"}
     /\ q.wins = ServerWindows /\ q.row = p.row /\ q.last = p.last /\ q.win = p.win /\ q.count = p.count
     /\ p.row # "absent" /\ "row" \in p.asked
  \/ /\ "count" \notin p.asked /\ q.asked = p.asked \cup {"count"} /\ q.count = UnreadOf(c)
     /\ q.row = p.row /\ q.last = p.last /\ q.wins = p.wins /\ q.win = p.win
     /\ p.row # "absent" /\ "row" \in p.asked

\* A request of pass p has been answered or has failed.
Asked(p, q) ==
  \E request \in Requests : Pending(p, request) /\ q.asked = p.asked \cup {request}

\* One pass changes, and no other.
LEMMA PassUpdated ==
  ASSUME NEW cs \in [Conversations -> [Schedulers -> PassType]],
         NEW c \in Conversations, NEW g \in Schedulers, NEW new \in PassType,
         NEW cs2, cs2 = [cs EXCEPT ![c][g] = new]
  PROVE  /\ cs2 \in [Conversations -> [Schedulers -> PassType]] /\ cs2[c][g] = new
         /\ \A d \in Conversations \ {c} : cs2[d] = cs[d]
         /\ \A h \in Schedulers \ {g} : cs2[c][h] = cs[c][h]
  OBVIOUS

\* A fetch adds the answer of the server to its pass.
LEMMA FetchIs ==
  ASSUME HomeTyped, NEW c \in Conversations, NEW g \in Schedulers,
         \/ fetchConnection(c, g) \/ fetchLastMessage(c, g)
         \/ fetchChatDeletion(c, g) \/ fetchUnread(c, g)
  PROVE  /\ cycles' \in [Conversations -> [Schedulers -> PassType]]
         /\ \A d \in Conversations \ {c} : cycles'[d] = cycles[d]
         /\ \A h \in Schedulers \ {g} : cycles'[c][h] = cycles[c][h]
         /\ cycles[c][g].pass > 0 /\ cycles'[c][g].pass = cycles[c][g].pass
         /\ cycles'[c][g].raced = cycles[c][g].raced
         /\ cycles'[c][g].failed = cycles[c][g].failed
         /\ Answered(c, cycles[c][g], cycles'[c][g])
         /\ window' = window
         /\ loads' = loads /\ view' = view /\ owed' = owed /\ CycleFrame /\ slips' = slips
  <1> DEFINE p == cycles[c][g]
  <1>1. p \in PassType /\ cycles \in [Conversations -> [Schedulers -> PassType]]
    BY DEF HomeTyped
  <1>2. ASSUME NEW new \in PassType, Learn(c, g, new), p.pass > 0, new.pass = p.pass,
               new.raced = p.raced, new.failed = p.failed, Answered(c, p, new),
               window' = window
        PROVE  /\ cycles' \in [Conversations -> [Schedulers -> PassType]]
               /\ \A d \in Conversations \ {c} : cycles'[d] = cycles[d]
               /\ \A h \in Schedulers \ {g} : cycles'[c][h] = cycles[c][h]
               /\ cycles[c][g].pass > 0 /\ cycles'[c][g].pass = cycles[c][g].pass
               /\ cycles'[c][g].raced = cycles[c][g].raced
               /\ cycles'[c][g].failed = cycles[c][g].failed
               /\ Answered(c, cycles[c][g], cycles'[c][g])
               /\ window' = window
               /\ loads' = loads /\ view' = view /\ owed' = owed /\ CycleFrame /\ slips' = slips
    <2>1. cycles' = [cycles EXCEPT ![c][g] = new]
      BY <1>2 DEF Learn
    <2>2. /\ cycles' \in [Conversations -> [Schedulers -> PassType]]
          /\ \A d \in Conversations \ {c} : cycles'[d] = cycles[d]
          /\ \A h \in Schedulers \ {g} : cycles'[c][h] = cycles[c][h]
          /\ cycles'[c][g] = new
      BY <1>1, <2>1, PassUpdated
    <2>3. QED
      BY <1>2, <2>2 DEF Learn
  <1>3. CASE fetchConnection(c, g)
    <2> DEFINE a == Answer(p, "row")
               new == [a EXCEPT !.row = RowOf(c)]
    <2>1. Pending(p, "row") /\ Learn(c, g, new) /\ window' = window
      BY <1>3 DEF fetchConnection
    <2>2. RowOf(c) \in RowType /\ a \in PassType
      BY <1>1, ReadTypes, AnswerIs DEF Requests
    <2>3. a.asked = p.asked \cup {"row"} /\ a.pass = p.pass /\ a.raced = p.raced /\ a.failed = p.failed
          /\ a.last = p.last /\ a.wins = p.wins /\ a.win = p.win /\ a.count = p.count
      BY <1>1, AnswerIs DEF Requests
    <2> HIDE DEF a, p
    <2>4. new \in PassType /\ new.asked = a.asked /\ new.pass = a.pass /\ new.raced = a.raced
          /\ new.failed = a.failed /\ new.last = a.last /\ new.win = a.win /\ new.count = a.count
          /\ new.row = RowOf(c) /\ new.wins = a.wins
      BY <2>2 DEF PassType
    <2> HIDE DEF new
    <2>5. Answered(c, p, new)
      BY <2>1, <2>3, <2>4 DEF Answered, Pending
    <2>6. QED
      BY <1>2, <2>1, <2>3, <2>4, <2>5 DEF p, Pending
  <1>4. CASE fetchLastMessage(c, g)
    <2> DEFINE a == Answer(p, "last")
               new == [a EXCEPT !.last = LastOf(c)]
    <2>1. Pending(p, "last") /\ Learn(c, g, new) /\ window' = window
      BY <1>4 DEF fetchLastMessage
    <2>2. LastOf(c) \in MessageType /\ a \in PassType
      BY <1>1, ReadTypes, AnswerIs DEF Requests
    <2>3. a.asked = p.asked \cup {"last"} /\ a.pass = p.pass /\ a.raced = p.raced /\ a.failed = p.failed
          /\ a.row = p.row /\ a.wins = p.wins /\ a.win = p.win /\ a.count = p.count
      BY <1>1, AnswerIs DEF Requests
    <2> HIDE DEF a, p
    <2>4. new \in PassType /\ new.asked = a.asked /\ new.pass = a.pass /\ new.raced = a.raced
          /\ new.failed = a.failed /\ new.row = a.row /\ new.win = a.win /\ new.count = a.count
          /\ new.last = LastOf(c) /\ new.wins = a.wins
      BY <2>2 DEF PassType
    <2> HIDE DEF new
    <2>5. Answered(c, p, new)
      BY <2>1, <2>3, <2>4 DEF Answered, Pending
    <2>6. QED
      BY <1>2, <2>1, <2>3, <2>4, <2>5 DEF p, Pending
  <1>5. CASE fetchChatDeletion(c, g)
    <2> DEFINE a == Answer(p, "deletions")
               new == [a EXCEPT !.wins = ServerWindows]
    <2>1. Pending(p, "window") /\ Pending(p, "deletions") /\ Learn(c, g, new) /\ window' = window
      BY <1>5 DEF fetchChatDeletion
    <2>2. ServerWindows \in [Conversations -> WindowType] /\ a \in PassType
      BY <1>1, ReadsTyped, AnswerIs DEF Requests
    <2>3. a.asked = p.asked \cup {"deletions"} /\ a.pass = p.pass /\ a.raced = p.raced /\ a.failed = p.failed
          /\ a.last = p.last /\ a.row = p.row /\ a.win = p.win /\ a.count = p.count
      BY <1>1, AnswerIs DEF Requests
    <2> HIDE DEF a, p
    <2>4. new \in PassType /\ new.asked = a.asked /\ new.pass = a.pass /\ new.raced = a.raced
          /\ new.failed = a.failed /\ new.last = a.last /\ new.row = a.row /\ new.win = a.win
          /\ new.count = a.count /\ new.wins = ServerWindows
      BY <2>2 DEF PassType
    <2> HIDE DEF new
    <2>5. Answered(c, p, new)
      BY <2>1, <2>3, <2>4 DEF Answered, Pending
    <2>6. QED
      BY <1>2, <2>1, <2>3, <2>4, <2>5 DEF p, Pending
  <1>6. CASE fetchUnread(c, g)
    <2> DEFINE a == Answer(p, "count")
               new == [a EXCEPT !.count = UnreadOf(c)]
    <2>1. Pending(p, "count") /\ Learn(c, g, new) /\ window' = window
      BY <1>6 DEF fetchUnread
    <2>2. UnreadOf(c) \in Nat /\ a \in PassType
      BY <1>1, ReadTypes, AnswerIs DEF Requests
    <2>3. a.asked = p.asked \cup {"count"} /\ a.pass = p.pass /\ a.raced = p.raced /\ a.failed = p.failed
          /\ a.last = p.last /\ a.row = p.row /\ a.wins = p.wins /\ a.win = p.win
      BY <1>1, AnswerIs DEF Requests
    <2> HIDE DEF a, p
    <2>4. new \in PassType /\ new.asked = a.asked /\ new.pass = a.pass /\ new.raced = a.raced
          /\ new.failed = a.failed /\ new.last = a.last /\ new.row = a.row /\ new.win = a.win
          /\ new.count = UnreadOf(c) /\ new.wins = a.wins
      BY <2>2 DEF PassType
    <2> HIDE DEF new
    <2>5. Answered(c, p, new)
      BY <2>1, <2>3, <2>4 DEF Answered, Pending
    <2>6. QED
      BY <1>2, <2>1, <2>3, <2>4, <2>5 DEF p, Pending
  <1>7. QED
    BY <1>3, <1>4, <1>5, <1>6

\* A fetch keeps the types.
LEMMA FetchTyped ==
  ASSUME HomeTyped, NEW c \in Conversations, NEW g \in Schedulers,
         \/ fetchConnection(c, g) \/ fetchLastMessage(c, g)
         \/ fetchChatDeletion(c, g) \/ fetchUnread(c, g)
  PROVE  HomeTyped'
  BY FetchIs DEF HomeTyped, CycleFrame

\* An answer that is stored is left to a later load where it replaces what was right.
LEMMA StoreWindowsIs ==
  ASSUME HomeTyped, NEW l \in Slots, StoreWindows(l)
  PROVE  /\ loads[l].pc = "storing" /\ loads[l].wins \in [Conversations -> WindowType]
         /\ window' = loads[l].wins /\ owed' = owed \cup Outrun(loads[l].wins)
         /\ loads' \in [Slots -> LoadType]
         /\ \A o \in Slots :
              /\ Filled(loads'[o])
              /\ loads[o].pc = "idle" => loads'[o] = IdleLoad
              /\ loads'[o].pc = IF o = l THEN "lasts" ELSE loads[o].pc
              /\ loads[o].pc # "idle" =>
                   /\ loads'[o].rows = loads[o].rows /\ loads'[o].wins = loads[o].wins
                   /\ loads'[o].lasts = loads[o].lasts /\ loads'[o].counts = loads[o].counts
                   /\ loads'[o].lapse = loads[o].lapse \cup Outrun(loads[l].wins)
         /\ newest' = newest /\ cycles' = cycles /\ pending' = pending /\ view' = view
         /\ LoadFrame /\ slips' = slips
  <1> DEFINE r == loads[l]
             S == Outrun(r.wins)
             a == [r EXCEPT !.pc = "lasts"]
             ls == [loads EXCEPT ![l] = a]
  <1>1. r \in LoadType /\ Filled(r) /\ loads \in [Slots -> LoadType] /\ \A o \in Slots : Filled(loads[o])
    BY DEF HomeTyped
  <1>2. /\ r.pc = "storing" /\ window' = r.wins /\ owed' = owed \cup S
        /\ loads' = Lapsed(S, [loads EXCEPT ![l].pc = "lasts"])
        /\ newest' = newest /\ cycles' = cycles /\ pending' = pending /\ view' = view
        /\ LoadFrame /\ slips' = slips
    BY DEF StoreWindows, Store
  <1>3. S \in SUBSET Conversations /\ r.wins \in [Conversations -> WindowType]
    BY <1>1, <1>2 DEF Outrun, Filled
  <1>4. loads' = Lapsed(S, ls)
    BY <1>2
  <1> HIDE DEF r, S
  <1>5. /\ a \in LoadType /\ Filled(a) /\ a.pc = "lasts" /\ a.rows = r.rows /\ a.wins = r.wins
        /\ a.lasts = r.lasts /\ a.counts = r.counts /\ a.lapse = r.lapse
    BY <1>1, <1>2 DEF LoadType, Filled
  <1> HIDE DEF a
  <1>6. /\ ls \in [Slots -> LoadType] /\ (\A o \in Slots : Filled(ls[o])) /\ ls[l] = a
        /\ \A o \in Slots \ {l} : ls[o] = loads[o]
    BY <1>1, <1>5
  <1> HIDE DEF ls
  <1>7. /\ loads' \in [Slots -> LoadType]
        /\ \A o \in Slots :
              /\ Filled(loads'[o])
              /\ loads'[o].pc = ls[o].pc
              /\ ls[o].pc = "idle" => loads'[o] = IdleLoad
              /\ ls[o].pc # "idle" =>
                   /\ loads'[o].rows = ls[o].rows /\ loads'[o].wins = ls[o].wins
                   /\ loads'[o].lasts = ls[o].lasts /\ loads'[o].counts = ls[o].counts
                   /\ loads'[o].lapse = ls[o].lapse \cup S
    BY <1>3, <1>4, <1>6, LapsedIs
  <1>8. ASSUME NEW o \in Slots
        PROVE  /\ Filled(loads'[o])
               /\ loads[o].pc = "idle" => loads'[o] = IdleLoad
               /\ loads'[o].pc = IF o = l THEN "lasts" ELSE loads[o].pc
               /\ loads[o].pc # "idle" =>
                   /\ loads'[o].rows = loads[o].rows /\ loads'[o].wins = loads[o].wins
                   /\ loads'[o].lasts = loads[o].lasts /\ loads'[o].counts = loads[o].counts
                   /\ loads'[o].lapse = loads[o].lapse \cup S
    <2>1. CASE o = l
      BY <1>2, <1>5, <1>6, <1>7, <2>1 DEF r
    <2>2. CASE o # l
      BY <1>6, <1>7, <2>2
    <2>3. QED
      BY <2>1, <2>2
  <1>9. QED
    BY <1>2, <1>3, <1>7, <1>8 DEF r, S

\* The same of a pass.
LEMMA StoreChatIs ==
  ASSUME HomeTyped, NEW c \in Conversations, NEW g \in Schedulers, storeChatDeletion(c, g)
  PROVE  LET p == cycles[c][g]
             q == cycles'[c][g]
         IN  /\ cycles' \in [Conversations -> [Schedulers -> PassType]]
             /\ \A d \in Conversations \ {c} : cycles'[d] = cycles[d]
             /\ \A h \in Schedulers \ {g} : cycles'[c][h] = cycles[c][h]
             /\ p.pass > 0 /\ "deletions" \in p.asked /\ "window" \notin p.asked
             /\ p.row # "absent" /\ "row" \in p.asked
             /\ q.asked = p.asked \cup {"window"} /\ q.win = p.wins[c] /\ q.wins = NoWindows
             /\ q.pass = p.pass /\ q.raced = p.raced /\ q.failed = p.failed /\ q.row = p.row
             /\ q.last = p.last /\ q.count = p.count
             /\ p.wins \in [Conversations -> WindowType]
             /\ window' = p.wins /\ owed' = owed \cup Outrun(p.wins) /\ loads' = Lapsed(Outrun(p.wins), loads)
             /\ view' = view /\ CycleFrame /\ slips' = slips
  <1> DEFINE p == cycles[c][g]
             a == Answer(p, "window")
             new == [a EXCEPT !.win = p.wins[c], !.wins = NoWindows]
  <1>1. p \in PassType /\ cycles \in [Conversations -> [Schedulers -> PassType]]
    BY DEF HomeTyped
  <1>2. /\ Pending(p, "window") /\ "deletions" \in p.asked
        /\ window' = p.wins /\ owed' = owed \cup Outrun(p.wins) /\ loads' = Lapsed(Outrun(p.wins), loads)
        /\ cycles' = [cycles EXCEPT ![c][g] = new]
        /\ view' = view /\ CycleFrame /\ slips' = slips
    BY DEF storeChatDeletion, Store
  <1>3. a \in PassType /\ a.asked = p.asked \cup {"window"} /\ a.pass = p.pass /\ a.raced = p.raced
        /\ a.failed = p.failed /\ a.row = p.row /\ a.last = p.last /\ a.count = p.count
    BY <1>1, AnswerIs DEF Requests
  <1>4. p.wins \in [Conversations -> WindowType] /\ p.wins[c] \in WindowType
        /\ NoWindows \in [Conversations -> WindowType]
    BY <1>1, ReadsTyped DEF PassType
  <1> HIDE DEF a, p
  <1>5. new \in PassType /\ new.asked = a.asked /\ new.pass = a.pass /\ new.raced = a.raced
        /\ new.failed = a.failed /\ new.row = a.row /\ new.last = a.last /\ new.count = a.count
        /\ new.win = p.wins[c] /\ new.wins = NoWindows
    BY <1>3, <1>4 DEF PassType
  <1> HIDE DEF new
  <1>6. /\ cycles' \in [Conversations -> [Schedulers -> PassType]] /\ cycles'[c][g] = new
        /\ \A d \in Conversations \ {c} : cycles'[d] = cycles[d]
        /\ \A h \in Schedulers \ {g} : cycles'[c][h] = cycles[c][h]
    BY <1>1, <1>2, <1>5, PassUpdated
  <1>7. p.pass > 0 /\ "window" \notin p.asked /\ p.row # "absent" /\ "row" \in p.asked
    BY <1>2 DEF Pending
  <1>8. QED
    BY <1>2, <1>3, <1>4, <1>5, <1>6, <1>7 DEF p

\* A stored answer keeps the types.
LEMMA StoreTyped ==
  ASSUME HomeTyped,
         \/ \E l \in Slots : StoreWindows(l)
         \/ \E c \in Conversations, g \in Schedulers : storeChatDeletion(c, g)
  PROVE  HomeTyped'
  <1>1. \A wins : Outrun(wins) \in SUBSET Conversations
    BY DEF Outrun
  <1>2. ASSUME NEW l \in Slots, StoreWindows(l) PROVE HomeTyped'
    <2>1. /\ loads' \in [Slots -> LoadType] /\ (\A o \in Slots : Filled(loads'[o]))
          /\ window' \in [Conversations -> WindowType] /\ owed' \subseteq Conversations
          /\ newest' = newest /\ cycles' = cycles /\ pending' = pending /\ view' = view /\ LoadFrame
      BY <1>1, <1>2, StoreWindowsIs DEF HomeTyped
    <2>2. QED
      BY <2>1 DEF HomeTyped, LoadFrame
  <1>3. ASSUME NEW c \in Conversations, NEW g \in Schedulers, storeChatDeletion(c, g) PROVE HomeTyped'
    <2>1. /\ loads' = Lapsed(Outrun(cycles[c][g].wins), loads)
          /\ window' \in [Conversations -> WindowType] /\ owed' \subseteq Conversations
          /\ cycles' \in [Conversations -> [Schedulers -> PassType]] /\ view' = view /\ CycleFrame
      BY <1>1, <1>3, StoreChatIs DEF HomeTyped
    <2>2. loads \in [Slots -> LoadType] /\ \A o \in Slots : Filled(loads[o])
      BY DEF HomeTyped
    <2>3. loads' \in [Slots -> LoadType] /\ \A o \in Slots : Filled(loads'[o])
      BY <1>1, <2>1, <2>2, LapsedIs
    <2>4. QED
      BY <2>1, <2>3 DEF HomeTyped, CycleFrame
  <1>4. QED
    BY <1>2, <1>3

\* A request that failed leaves what it blinds to a later load.
LEMMA FetchFailsIs ==
  ASSUME HomeTyped, NEW c \in Conversations, NEW g \in Schedulers, FetchFails(c, g)
  PROVE  /\ cycles' \in [Conversations -> [Schedulers -> PassType]]
         /\ \A d \in Conversations \ {c} : cycles'[d] = cycles[d]
         /\ \A h \in Schedulers \ {g} : cycles'[c][h] = cycles[c][h]
         /\ cycles[c][g].pass > 0 /\ cycles'[c][g].pass = cycles[c][g].pass
         /\ cycles'[c][g].raced = cycles[c][g].raced
         /\ cycles'[c][g].row = cycles[c][g].row /\ cycles'[c][g].last = cycles[c][g].last
         /\ cycles'[c][g].wins = cycles[c][g].wins
         /\ Asked(cycles[c][g], cycles'[c][g])
         /\ \/ /\ cycles'[c][g].failed /\ cycles'[c][g].asked = cycles[c][g].asked \cup {"last"}
               /\ cycles'[c][g].win = cycles[c][g].win
               /\ owed' = owed /\ loads' = loads /\ window' = window
            \/ \E S \in SUBSET Conversations :
                 /\ c \in S /\ owed' = owed \cup S /\ loads' = Lapsed(S, loads)
                 /\ \/ window' = window
                    \/ S = Conversations /\ window' = NoWindows
         /\ view' = view /\ CycleFrame /\ slips' = slips
  <1> DEFINE p == cycles[c][g]
  <1>1. p \in PassType /\ cycles \in [Conversations -> [Schedulers -> PassType]]
    BY DEF HomeTyped
  <1>2. view' = view /\ CycleFrame /\ slips' = slips
    BY DEF FetchFails
  <1>3. CASE /\ Pending(p, "last") /\ UNCHANGED <<owed, loads, window>>
             /\ cycles' = [cycles EXCEPT ![c][g] = [Answer(p, "last") EXCEPT !.failed = TRUE]]
    <2> DEFINE a == Answer(p, "last")
               new == [a EXCEPT !.failed = TRUE]
    <2>1. a \in PassType /\ a.asked = p.asked \cup {"last"} /\ a.pass = p.pass /\ a.raced = p.raced
          /\ a.last = p.last /\ a.row = p.row /\ a.win = p.win /\ a.wins = p.wins
      BY <1>1, AnswerIs DEF Requests
    <2>2. cycles' = [cycles EXCEPT ![c][g] = new]
      BY <1>3
    <2> HIDE DEF a
    <2>3. new \in PassType /\ new.asked = a.asked /\ new.pass = a.pass /\ new.raced = a.raced
          /\ new.failed /\ new.last = a.last /\ new.row = a.row /\ new.win = a.win /\ new.wins = a.wins
      BY <2>1 DEF PassType
    <2> HIDE DEF new
    <2>4. /\ cycles' \in [Conversations -> [Schedulers -> PassType]] /\ cycles'[c][g] = new
          /\ \A d \in Conversations \ {c} : cycles'[d] = cycles[d]
          /\ \A h \in Schedulers \ {g} : cycles'[c][h] = cycles[c][h]
      BY <1>1, <2>2, <2>3, PassUpdated
    <2>5. Asked(p, new)
      BY <1>3, <2>1, <2>3 DEF Asked, Requests
    <2>6. QED
      BY <1>2, <1>3, <2>1, <2>3, <2>4, <2>5 DEF Pending
  <1>4. CASE \E request \in {"row", "window", "count"} :
              LET S == IF request = "window" THEN Conversations ELSE {c}
              IN  /\ Pending(p, request)
                  /\ request = "window" => Pending(p, "deletions")
                  /\ cycles' = [cycles EXCEPT ![c][g] = Answer(p, request)]
                  /\ window' = IF request = "window" THEN NoWindows ELSE window
                  /\ owed' = owed \cup S
                  /\ loads' = Lapsed(S, loads)
    <2>1. PICK request \in {"row", "window", "count"} :
              LET S == IF request = "window" THEN Conversations ELSE {c}
              IN  /\ Pending(p, request)
                  /\ request = "window" => Pending(p, "deletions")
                  /\ cycles' = [cycles EXCEPT ![c][g] = Answer(p, request)]
                  /\ window' = IF request = "window" THEN NoWindows ELSE window
                  /\ owed' = owed \cup S
                  /\ loads' = Lapsed(S, loads)
      BY <1>4
    <2> DEFINE S == IF request = "window" THEN Conversations ELSE {c}
    <2>2. /\ Pending(p, request)
          /\ cycles' = [cycles EXCEPT ![c][g] = Answer(p, request)]
          /\ window' = (IF request = "window" THEN NoWindows ELSE window)
          /\ owed' = owed \cup S /\ loads' = Lapsed(S, loads)
      BY <2>1
    <2>3. S = IF request = "window" THEN Conversations ELSE {c}
      OBVIOUS
    <2> HIDE DEF S
    <2> DEFINE new == Answer(p, request)
    <2>4. new \in PassType /\ new.pass = p.pass /\ new.raced = p.raced
          /\ new.last = p.last /\ new.row = p.row /\ new.wins = p.wins
          /\ new.asked = p.asked \cup {request}
      BY <1>1, AnswerIs DEF Requests
    <2>5. cycles' = [cycles EXCEPT ![c][g] = new]
      BY <2>2
    <2> HIDE DEF new
    <2>6. /\ cycles' \in [Conversations -> [Schedulers -> PassType]] /\ cycles'[c][g] = new
          /\ \A d \in Conversations \ {c} : cycles'[d] = cycles[d]
          /\ \A h \in Schedulers \ {g} : cycles'[c][h] = cycles[c][h]
      BY <1>1, <2>4, <2>5, PassUpdated
    <2>7. c \in S /\ S \in SUBSET Conversations
      BY <2>3
    <2>8. window' = window \/ (S = Conversations /\ window' = NoWindows)
      BY <2>2, <2>3
    <2>9. Asked(p, new)
      BY <2>2, <2>4 DEF Asked, Requests, Pending
    <2>10. p.pass > 0
      BY <2>2 DEF Pending
    <2>11. QED
      BY <1>2, <2>2, <2>4, <2>6, <2>7, <2>8, <2>9, <2>10
  <1>5. QED
    BY <1>3, <1>4 DEF FetchFails

\* A failed fetch keeps the types.
LEMMA FetchFailsTyped ==
  ASSUME HomeTyped, NEW c \in Conversations, NEW g \in Schedulers, FetchFails(c, g)
  PROVE  HomeTyped'
  <1>1. loads \in [Slots -> LoadType] /\ \A l \in Slots : Filled(loads[l])
    BY DEF HomeTyped
  <1>2. loads' \in [Slots -> LoadType] /\ (\A l \in Slots : Filled(loads'[l])) /\ owed' \subseteq Conversations
        /\ window' \in [Conversations -> WindowType]
    <2>1. CASE owed' = owed /\ loads' = loads /\ window' = window
      BY <2>1 DEF HomeTyped
    <2>2. ASSUME NEW S \in SUBSET Conversations, owed' = owed \cup S, loads' = Lapsed(S, loads),
                 window' = window \/ window' = NoWindows
          PROVE  loads' \in [Slots -> LoadType] /\ (\A l \in Slots : Filled(loads'[l]))
                 /\ owed' \subseteq Conversations /\ window' \in [Conversations -> WindowType]
      <3>1. loads' \in [Slots -> LoadType] /\ \A l \in Slots : Filled(loads'[l])
        BY <1>1, <2>2, LapsedIs
      <3>2. owed' \subseteq Conversations /\ window' \in [Conversations -> WindowType]
        BY <2>2, ReadsTyped DEF HomeTyped
      <3>3. QED
        BY <3>1, <3>2
    <2>3. QED
      BY <2>1, <2>2, FetchFailsIs
  <1>3. cycles' \in [Conversations -> [Schedulers -> PassType]] /\ view' = view /\ CycleFrame
    BY FetchFailsIs
  <1>4. QED
    BY <1>2, <1>3 DEF HomeTyped, CycleFrame

-----------------------------------------------------------------------------
(***************************************************************************)
(* Types: the end of a pass, and the channel.                              *)
(***************************************************************************)
\* After a pass comes another, a first one again, or none.
LEMMA NextPassIs ==
  ASSUME NEW p \in PassType, p.pass > 0
  PROVE  /\ NextPass(p) \in PassType
         /\ NextPass(p) \in {IdlePass} \cup {Pass(n) : n \in 1 .. MaxPasses}
         /\ NextPass(p) = IdlePass => ~p.rerun /\ (Refetch(p) => Final(p))
  <1>1. p.pass \in 0 .. MaxPasses /\ MaxPasses \in Nat \ {0}
    BY HomeBoundsAssumption DEF PassType
  <1>2. ~Final(p) => p.pass + 1 \in 1 .. MaxPasses
    BY <1>1 DEF Final
  <1>3. NextPass(p) \in {IdlePass} \cup {Pass(n) : n \in 1 .. MaxPasses}
    BY <1>1, <1>2 DEF NextPass
  <1>4. \A n \in 1 .. MaxPasses : Pass(n) \in PassType /\ Pass(n) # IdlePass
    <2>1. \A n \in 1 .. MaxPasses : Pass(n) \in PassType /\ Pass(n).pass = n
      BY <1>1, PassTyped
    <2>2. IdlePass.pass = 0
      BY DEF IdlePass
    <2>3. QED
      BY <2>1, <2>2
  <1>5. NextPass(p) \in PassType
    BY <1>3, <1>4, PassTyped
  <1>6. NextPass(p) = IdlePass => ~p.rerun /\ (Refetch(p) => Final(p))
    <2>1. 1 \in 1 .. MaxPasses
      BY <1>1
    <2>2. p.rerun => NextPass(p) # IdlePass
      BY <1>2, <1>4, <2>1 DEF NextPass
    <2>3. Refetch(p) => ~Final(p)
      BY DEF Refetch
    <2>4. Refetch(p) => NextPass(p) # IdlePass
      BY <1>2, <1>4, <2>3 DEF NextPass
    <2>5. QED
      BY <2>2, <2>4
  <1>7. QED
    BY <1>3, <1>5, <1>6

\* What a pass applies has its type, and its message was read or shown before.
LEMMA AppliedTyped ==
  ASSUME NEW p \in PassType, NEW cur \in EntryType
  PROVE  /\ Applied(p, cur) \in EntryType
         /\ Applied(p, cur).last \in {cur.last, p.last, NoMessage}
  <1> DEFINE cut == p.win.cut
             last == Trim(IF Trim(p.last, cut) = NoMessage THEN cur.last
                          ELSE mergeLastMessage(cur.last, p.last), cut)
  <1>1. cut \in -1 .. MaxMessages /\ p.last \in MessageType /\ cur.last \in MessageType /\ p.row \in RowType
        /\ p.count \in Nat
    BY DEF PassType, WindowType, EntryType
  <1>2. mergeLastMessage(cur.last, p.last) \in {cur.last, p.last}
    BY DEF mergeLastMessage
  <1>3. last \in {cur.last, p.last, NoMessage}
    BY <1>1, <1>2, TrimTyped
  <1>4. last \in MessageType
    BY <1>1, <1>3, WindowsTyped
  <1>5. Applied(p, cur) = IF isConversationVisible(p.row, p.last, p.win)
                          THEN [row |-> p.row, last |-> last, unread |-> p.count] ELSE Unlisted
    BY DEF Applied
  <1> HIDE DEF last
  <1>6. Applied(p, cur) \in EntryType
    BY <1>1, <1>4, <1>5, WindowsTyped DEF EntryType
  <1>7. Applied(p, cur).last \in {cur.last, p.last, NoMessage}
    <2>1. Unlisted.last = NoMessage
      BY DEF Unlisted
    <2>2. QED
      BY <1>3, <1>5, <2>1
  <1>8. QED
    BY <1>6, <1>7

\* The end of a pass.
LEMMA ApplyIs ==
  ASSUME HomeTyped, NEW c \in Conversations, NEW g \in Schedulers, Apply(c, g)
  PROVE  LET p == cycles[c][g]
             lost == Final(p) /\ ~p.rerun /\ (p.raced \/ Transient(p))
         IN  /\ p \in PassType /\ p.pass > 0 /\ Complete(p)
             /\ cycles' \in [Conversations -> [Schedulers -> PassType]]
             /\ \A d \in Conversations \ {c} : cycles'[d] = cycles[d] /\ view'[d] = view[d]
             /\ \A h \in Schedulers \ {g} : cycles'[c][h] = cycles[c][h]
             /\ cycles'[c][g] = NextPass(p)
             /\ view' \in [Conversations -> EntryType]
             /\ view'[c] = CASE Refetch(p) \/ Transient(p) -> view[c]
                             [] ~Refetch(p) /\ p.row = "absent" -> IF p.raced THEN view[c] ELSE Unlisted
                             [] OTHER -> Applied(p, view[c])
             /\ lost => owed' = owed \cup {c} /\ loads' = Lapsed({c}, loads)
             /\ ~lost => owed' = owed /\ loads' = loads
             /\ slips' = slips \cup (IF Loading \/ Twin(c, g) THEN {<<"miscounted", c>>} ELSE {})
             /\ window' = window /\ CycleFrame
  <1> DEFINE p == cycles[c][g]
             lost == Final(p) /\ ~p.rerun /\ (p.raced \/ Transient(p))
             shown == CASE Refetch(p) \/ Transient(p) -> view[c]
                        [] ~Refetch(p) /\ p.row = "absent" -> IF p.raced THEN view[c] ELSE Unlisted
                        [] OTHER -> Applied(p, view[c])
             next == NextPass(p)
  <1>1. p \in PassType /\ cycles \in [Conversations -> [Schedulers -> PassType]]
        /\ view \in [Conversations -> EntryType] /\ view[c] \in EntryType
    BY DEF HomeTyped
  <1>2. /\ Complete(p) /\ view' = [view EXCEPT ![c] = shown] /\ cycles' = [cycles EXCEPT ![c][g] = next]
        /\ window' = window /\ CycleFrame
        /\ slips' = slips \cup (IF Loading \/ Twin(c, g) THEN {<<"miscounted", c>>} ELSE {})
    BY DEF Apply
  <1>3. /\ lost => owed' = owed \cup {c} /\ loads' = Lapsed({c}, loads)
        /\ ~lost => owed' = owed /\ loads' = loads
    BY DEF Apply
  <1>4. p.pass > 0
    BY <1>2 DEF Complete
  <1>5. shown \in EntryType
    BY <1>1, AppliedTyped, WindowsTyped
  <1>6. next \in PassType
    BY <1>1, <1>4, NextPassIs
  <1> HIDE DEF next, shown, p, lost
  <1>7. /\ cycles' \in [Conversations -> [Schedulers -> PassType]] /\ cycles'[c][g] = next
        /\ \A d \in Conversations \ {c} : cycles'[d] = cycles[d]
        /\ \A h \in Schedulers \ {g} : cycles'[c][h] = cycles[c][h]
    BY <1>1, <1>2, <1>6, PassUpdated
  <1>8. view' \in [Conversations -> EntryType] /\ view'[c] = shown
        /\ \A d \in Conversations \ {c} : view'[d] = view[d]
    BY <1>1, <1>2, <1>5
  <1>9. QED
    BY <1>1, <1>2, <1>3, <1>4, <1>7, <1>8 DEF next, shown, p, lost

\* The end of a pass keeps the types.
LEMMA ApplyTyped ==
  ASSUME HomeTyped, NEW c \in Conversations, NEW g \in Schedulers, Apply(c, g)
  PROVE  HomeTyped'
  <1>1. loads \in [Slots -> LoadType] /\ \A l \in Slots : Filled(loads[l])
    BY DEF HomeTyped
  <1>2. \/ owed' = owed /\ loads' = loads
        \/ owed' = owed \cup {c} /\ loads' = Lapsed({c}, loads)
    BY ApplyIs
  <1>3. loads' \in [Slots -> LoadType] /\ (\A l \in Slots : Filled(loads'[l])) /\ owed' \subseteq Conversations
    <2>1. owed' \subseteq Conversations
      BY <1>2 DEF HomeTyped
    <2>2. QED
      BY <1>1, <1>2, <2>1, LapsedIs
  <1>4. /\ cycles' \in [Conversations -> [Schedulers -> PassType]]
        /\ view' \in [Conversations -> EntryType] /\ window' = window /\ CycleFrame
    BY ApplyIs
  <1>5. QED
    BY <1>3, <1>4 DEF HomeTyped, CycleFrame

\* An outage leaves what the channel had yet to deliver to a later load.
LEMMA OfflineIs ==
  ASSUME HomeTyped, GoOffline
  PROVE  \E S \in SUBSET Conversations :
           /\ S = {c \in Conversations : Awaited(c) # {}}
           /\ owed' = owed \cup S /\ loads' = Lapsed(S, loads)
           /\ feed' = <<>> /\ channel' = "off" /\ outages' = outages /\ outages < MaxOutages
           /\ server' = server /\ newest' = newest /\ cycles' = cycles /\ pending' = pending
           /\ view' = view /\ window' = window /\ mirror' = mirror /\ slips' = slips
  <1> DEFINE S == {e.c : e \in ToSet(feed)}
  <1>1. \A k \in DOMAIN feed : feed[k] \in EventType
    BY ElementsTyped DEF HomeTyped
  <1>2. \A e \in ToSet(feed) : e.c \in Conversations
    BY <1>1, EventFacts DEF ToSet
  <1>3. S = {c \in Conversations : Awaited(c) # {}} /\ S \in SUBSET Conversations
    BY <1>2 DEF Awaited
  <1>4. /\ owed' = owed \cup S /\ loads' = Lapsed(S, loads)
        /\ feed' = <<>> /\ channel' = "off" /\ outages' = outages /\ outages < MaxOutages
        /\ server' = server /\ newest' = newest /\ cycles' = cycles /\ pending' = pending
        /\ view' = view /\ window' = window /\ mirror' = mirror /\ slips' = slips
    BY DEF GoOffline, listVars
  <1>5. QED
    BY <1>3, <1>4

\* Outages, joins and renders keep the types.
LEMMA OtherTyped ==
  ASSUME HomeTyped, GoOffline \/ Join \/ Render
  PROVE  HomeTyped'
  <1>1. CASE GoOffline
    <2>1. PICK S \in SUBSET Conversations :
           /\ owed' = owed \cup S /\ loads' = Lapsed(S, loads)
           /\ feed' = <<>> /\ channel' = "off" /\ outages' = outages /\ outages < MaxOutages
           /\ server' = server /\ newest' = newest /\ cycles' = cycles /\ pending' = pending
           /\ view' = view /\ window' = window /\ mirror' = mirror
      BY <1>1, OfflineIs
    <2>2. loads' \in [Slots -> LoadType] /\ (\A l \in Slots : Filled(loads'[l]))
      BY <2>1, LapsedIs DEF HomeTyped
    <2>3. feed' \in Seq(EventType) /\ owed' \subseteq Conversations
      BY <2>1 DEF HomeTyped
    <2>4. QED
      BY <2>1, <2>2, <2>3 DEF HomeTyped
  <1>2. CASE Join
    BY <1>2 DEF HomeTyped, Join, listVars, bounds
  <1>3. CASE Render
    <2>1. mirror' \in [Conversations -> MirrorType]
      BY <1>3 DEF HomeTyped, Render, Seen, EntryType, MirrorType
    <2>2. QED
      BY <1>3, <2>1 DEF HomeTyped, Render, bounds
  <1>4. QED
    BY <1>1, <1>2, <1>3

-----------------------------------------------------------------------------
(***************************************************************************)
(* What stays right of a conversation that a step does not concern.        *)
(***************************************************************************)
\* What is read of a conversation that nothing happens to.
LEMMA Unmoved ==
  ASSUME NEW c \in Conversations, server'[c] = server[c], Awaited(c)' = Awaited(c)
  PROVE  /\ Live(c)' = Live(c) /\ Count(c)' = Count(c) /\ Unread(c)' = Unread(c)
         /\ RowOf(c)' = RowOf(c) /\ LastOf(c)' = LastOf(c)
         /\ RowReads(c)' = RowReads(c) /\ WinReads(c)' = WinReads(c) /\ LastReads(c)' = LastReads(c)
         /\ Fitting(c)' = Fitting(c) /\ Exact(c)' = Exact(c) /\ Badge(c)' = Badge(c)
         /\ Read(c)' = Read(c) /\ Truth(c)' = Truth(c)
         /\ \A kind : Coming(c, kind)' = Coming(c, kind)
         /\ \A k : Inserting(c, k)' = Inserting(c, k) /\ Updating(c, k)' = Updating(c, k)
  <1>1. Live(c)' = Live(c) /\ Count(c)' = Count(c)
    BY DEF Live, Count
  <1>2. Unread(c)' = Unread(c)
    BY <1>1 DEF Unread
  <1>3. UnreadOf(c)' = UnreadOf(c)
    BY DEF UnreadOf
  <1>4. RowOf(c)' = RowOf(c)
    BY <1>1 DEF RowOf
  <1>5. LastOf(c)' = LastOf(c)
    BY <1>1 DEF LastOf
  <1>6. \A kind : Coming(c, kind)' = Coming(c, kind)
    BY DEF Coming
  <1>7. \A k : Inserting(c, k)' = Inserting(c, k) /\ Updating(c, k)' = Updating(c, k)
    BY DEF Inserting, Updating
  <1>8. Posting(c)' = Posting(c) /\ Erasing(c)' = Erasing(c)
    BY DEF Posting, Erasing, Inserting, Updating, Count
  <1>9. Truth(c)' = Truth(c)
    BY <1>3, <1>4, <1>5 DEF Truth
  <1>10. \A j : Counted(c, j)' = Counted(c, j)
    BY <1>2, <1>7 DEF Counted
  <1>11. Badge(c)' = Badge(c)
    BY <1>10 DEF Badge
  <1>12. RowReads(c)' = RowReads(c)
    BY <1>4, <1>6 DEF RowReads
  <1>13. WinReads(c)' = WinReads(c)
    BY <1>6 DEF WinReads
  <1>14. LastReads(c)' = LastReads(c)
    BY <1>1, <1>5, <1>8 DEF LastReads
  <1>15. Fitting(c)' = Fitting(c)
    BY <1>1, <1>6, <1>8, <1>9 DEF Fitting
  <1>16. Exact(c)' = Exact(c)
    BY <1>6, <1>11 DEF Exact
  <1>17. Read(c)' = Read(c)
    BY <1>1 DEF Read
  <1>18. QED
    BY <1>1, <1>2, <1>4, <1>5, <1>6, <1>7, <1>9, <1>11, <1>12, <1>13, <1>14, <1>15, <1>16, <1>17

\* What was right of c, or was to be put right, still is.
Persist(c) ==
  /\ RowReads(c) \subseteq RowReads(c)' /\ WinReads(c) \subseteq WinReads(c)'
  /\ LastReads(c) \subseteq LastReads(c)' /\ Fitting(c) \subseteq Fitting(c)'
  /\ Slips(c) \subseteq Slips(c)'
  /\ Live(c)' => Live(c) \/ server[c].row = "absent"
  /\ Slips(c)' = {} =>
       /\ \A j \in 0 .. Count(c) : Badge(c)'[j] = Badge(c)[j]
       /\ HalfRead(c) => Count(c)' = Count(c) /\ Unread(c)' = Unread(c)
       /\ Coming(c, "window") => Coming(c, "window")'

\* It does where nothing happens to the conversation.
LEMMA UnmovedPersist ==
  ASSUME NEW c \in Conversations, server'[c] = server[c], Awaited(c)' = Awaited(c), slips \subseteq slips'
  PROVE  Persist(c)
  <1>1. /\ Live(c)' = Live(c) /\ Count(c)' = Count(c) /\ Unread(c)' = Unread(c)
        /\ RowReads(c)' = RowReads(c) /\ WinReads(c)' = WinReads(c) /\ LastReads(c)' = LastReads(c)
        /\ Fitting(c)' = Fitting(c) /\ Badge(c)' = Badge(c)
        /\ Coming(c, "window")' = Coming(c, "window")
    BY Unmoved
  <1>2. Slips(c) \subseteq Slips(c)'
    BY DEF Slips
  <1>3. QED
    BY <1>1, <1>2 DEF Persist

\* Where the feed is the same, so is what is awaited.
LEMMA FeedStill ==
  ASSUME feed' = feed
  PROVE  \A c : Awaited(c)' = Awaited(c)
  BY DEF Awaited

\* The newest load knows of c what it knew, or has nothing to keep of it.
LoadSame(c) ==
  LET r == loads[newest]
      q == loads'[newest']
  IN  \/ c \in q.lapse \cup pending'
      \/ q.pc \in {"idle", "rows"}
      \/ /\ c \notin r.lapse \cup pending /\ q.pc = r.pc /\ newest \in Slots
         /\ q.rows = r.rows /\ q.wins = r.wins /\ q.lasts = r.lasts /\ q.counts = r.counts

\* The stored window of c is as it was, or is right, or was not right before.
WindowSame(c) ==
  window'[c] = window[c] \/ window'[c] \in WinReads(c)' \/ window[c] \notin WinReads(c)

\* A pass is as it was, or has nothing to keep.
PassSame(c, g) ==
  LET p == cycles[c][g]
      q == cycles'[c][g]
  IN  \/ c \in owed' \/ ~(q.pass > 0) \/ q.raced \/ q.asked = {}
      \/ /\ c \notin owed /\ p.pass > 0 /\ ~p.raced /\ q.asked = p.asked /\ q.row = p.row
         /\ q.last = p.last /\ q.failed = p.failed /\ q.count = p.count
         /\ q.wins = p.wins /\ q.win = p.win
         /\ view'[c].last.k = view[c].last.k \/ Slips(c)' # {}

\* The entry of c is as it was, or something is still under way.
EntrySame(c) ==
  \/ c \in owed' \cup pending' \/ Cycling(c)'
  \/ c \notin owed \cup pending /\ ~Cycling(c) /\ view'[c] = view[c]

\* What a load has read stays right where the load and the conversation do.
LEMMA LoadKeeps ==
  ASSUME HomeTyped, ReadsSane, NEW c \in Conversations, LoadKept(c), Persist(c), LoadSame(c), WindowSame(c)
  PROVE  LoadKept(c)'
  <1> DEFINE r == loads[newest]
             q == loads'[newest']
  <1>1. /\ RowReads(c) \subseteq RowReads(c)' /\ WinReads(c) \subseteq WinReads(c)'
        /\ LastReads(c) \subseteq LastReads(c)'
        /\ Live(c)' => Live(c) \/ server[c].row = "absent"
        /\ Slips(c)' = {} =>
             /\ \A j \in 0 .. Count(c) : Badge(c)'[j] = Badge(c)[j]
             /\ HalfRead(c) => Count(c)' = Count(c)
        /\ Followed(c)' => Followed(c)
        /\ Slips(c)' = {} => Slips(c) = {}
    BY DEF Persist, Followed
  <1>2. CASE c \in q.lapse \cup pending' \/ q.pc \in {"idle", "rows"}
    BY <1>2 DEF LoadKept
  <1>3. CASE /\ c \notin r.lapse \cup pending /\ q.pc = r.pc /\ newest \in Slots
             /\ q.rows = r.rows /\ q.wins = r.wins /\ q.lasts = r.lasts /\ q.counts = r.counts
    <2>1. /\ Followed(c) =>
               /\ r.pc \in {"windows", "storing", "lasts", "counts", "commit"} => r.rows[c] \in RowReads(c)
               /\ r.pc = "storing" => r.wins[c] \in WinReads(c)
               /\ r.pc \in {"lasts", "counts", "commit"} => {r.wins[c], window[c]} \subseteq WinReads(c)
               /\ r.pc \in {"counts", "commit"} => r.lasts[c] \in LastReads(c)
          /\ Slips(c) = {} /\ Live(c) /\ r.pc \in {"counts", "commit"} /\ r.rows[c] # "absent" =>
               /\ r.pc = "counts" => r.lasts[c].k = Count(c)
               /\ r.pc = "commit" => r.counts[c] = Badge(c)[r.lasts[c].k]
      BY <1>3 DEF LoadKept
    <2>2. /\ r.pc \in {"windows", "storing", "lasts", "counts", "commit"} /\ r.rows[c] # "absent" =>
               server[c].row # "absent"
          /\ r.pc \in {"counts", "commit"} => r.lasts[c] \in Read(c)
          /\ r.pc = "counts" => HalfRead(c)
      BY <1>3 DEF ReadsSane, HalfRead
    <2>3. r.pc \in {"counts", "commit"} => r.lasts[c].k \in 0 .. Count(c)
      <3>1. \A m \in Read(c) : m.k \in 0 .. Count(c)
        BY ReadTypes DEF Read, MessageType
      <3>2. QED
        BY <2>2, <3>1
    <2> HIDE DEF r, q
    <2>4. Followed(c)' =>
               /\ q.pc \in {"windows", "storing", "lasts", "counts", "commit"} => q.rows[c] \in RowReads(c)'
               /\ q.pc = "storing" => q.wins[c] \in WinReads(c)'
               /\ q.pc \in {"lasts", "counts", "commit"} => {q.wins[c], window'[c]} \subseteq WinReads(c)'
               /\ q.pc \in {"counts", "commit"} => q.lasts[c] \in LastReads(c)'
      BY <1>1, <1>3, <2>1 DEF WindowSame
    <2>5. Slips(c)' = {} /\ Live(c)' /\ q.pc \in {"counts", "commit"} /\ q.rows[c] # "absent" =>
               /\ q.pc = "counts" => q.lasts[c].k = Count(c)'
               /\ q.pc = "commit" => q.counts[c] = Badge(c)'[q.lasts[c].k]
      BY <1>1, <1>3, <2>1, <2>2, <2>3
    <2>6. QED
      BY <2>4, <2>5 DEF LoadKept, q
  <1>4. QED
    BY <1>2, <1>3 DEF LoadSame

\* So does what a pass has read.
LEMMA PassKeeps ==
  ASSUME HomeTyped, ReadsSane, NEW c \in Conversations, CycleKept(c), Persist(c), WindowSame(c),
         NEW g \in Schedulers, PassSame(c, g), c \notin owed', cycles'[c][g].pass > 0, ~cycles'[c][g].raced
  PROVE  /\ Followed(c)' => PassKept(c, cycles[c][g])'
         /\ Slips(c)' = {} /\ Live(c)' /\ ~cycles'[c][g].failed => PassCounted(c, cycles[c][g])'
  <1>1. /\ RowReads(c) \subseteq RowReads(c)' /\ WinReads(c) \subseteq WinReads(c)'
        /\ LastReads(c) \subseteq LastReads(c)'
        /\ Live(c)' => Live(c) \/ server[c].row = "absent"
        /\ Slips(c)' = {} =>
             /\ \A j \in 0 .. Count(c) : Badge(c)'[j] = Badge(c)[j]
             /\ HalfRead(c) => Count(c)' = Count(c) /\ Unread(c)' = Unread(c)
        /\ Followed(c)' => Followed(c)
        /\ Slips(c)' = {} => Slips(c) = {}
    BY DEF Persist, Followed
  <1> DEFINE p == cycles[c][g]
             q == cycles'[c][g]
  <1>2. CASE q.asked = {}
    BY <1>2 DEF PassKept, PassCounted
  <1>3. CASE /\ c \notin owed /\ p.pass > 0 /\ ~p.raced /\ q.asked = p.asked /\ q.row = p.row
             /\ q.last = p.last /\ q.failed = p.failed /\ q.count = p.count
             /\ q.wins = p.wins /\ q.win = p.win
             /\ view'[c].last.k = view[c].last.k \/ Slips(c)' # {}
    <2>1. /\ Followed(c) => PassKept(c, p)
          /\ Slips(c) = {} /\ Live(c) /\ ~p.failed => PassCounted(c, p)
      BY <1>3 DEF CycleKept
    <2>2. /\ p.row # "absent" => server[c].row # "absent"
          /\ p.asked \cap {"last", "deletions", "window", "count"} # {} => p.row # "absent"
          /\ p.last.k \in 0 .. Count(c)
      <3>1. \A m \in Read(c) : m.k \in 0 .. Count(c)
        BY ReadTypes DEF Read, MessageType
      <3>2. QED
        BY <3>1 DEF ReadsSane
    <2>3. ("last" \in p.asked) # ("count" \in p.asked) => HalfRead(c)
      BY <1>3 DEF HalfRead, Torn
    <2> HIDE DEF p, q
    <2>4. Followed(c)' =>
            /\ "row" \in q.asked =>
                 q.row \in RowReads(c)' /\ (q.row = "absent" => window'[c] \in WinReads(c)')
            /\ "deletions" \in q.asked /\ "window" \notin q.asked => q.wins[c] \in WinReads(c)'
            /\ "window" \in q.asked => {q.win, window'[c]} \subseteq WinReads(c)'
            /\ "last" \in q.asked /\ ~q.failed => q.last \in LastReads(c)'
      BY <1>1, <1>3, <2>1 DEF PassKept, WindowSame
    <2>5. Slips(c)' = {} /\ Live(c)' /\ ~q.failed =>
            /\ "last" \in q.asked => view'[c].last.k <= q.last.k
            /\ "last" \in q.asked /\ "count" \notin q.asked => q.last.k = Count(c)'
            /\ "count" \in q.asked /\ "last" \notin q.asked => q.count = Cardinality(Unread(c)')
            /\ "count" \in q.asked /\ "last" \in q.asked => q.count = Badge(c)'[q.last.k]
      BY <1>1, <1>3, <2>1, <2>2, <2>3 DEF PassCounted
    <2>6. PassKept(c, cycles[c][g])' <=>
            /\ "row" \in q.asked =>
                 q.row \in RowReads(c)' /\ (q.row = "absent" => window'[c] \in WinReads(c)')
            /\ "deletions" \in q.asked /\ "window" \notin q.asked => q.wins[c] \in WinReads(c)'
            /\ "window" \in q.asked => {q.win, window'[c]} \subseteq WinReads(c)'
            /\ "last" \in q.asked /\ ~q.failed => q.last \in LastReads(c)'
      BY DEF PassKept, q
    <2>7. PassCounted(c, cycles[c][g])' <=>
            /\ "last" \in q.asked => view'[c].last.k <= q.last.k
            /\ "last" \in q.asked /\ "count" \notin q.asked => q.last.k = Count(c)'
            /\ "count" \in q.asked /\ "last" \notin q.asked => q.count = Cardinality(Unread(c)')
            /\ "count" \in q.asked /\ "last" \in q.asked => q.count = Badge(c)'[q.last.k]
      BY DEF PassCounted, q
    <2>8. QED
      BY <2>4, <2>5, <2>6, <2>7 DEF q
  <1>4. QED
    BY <1>2, <1>3 DEF PassSame

\* So do all passes of a conversation.
LEMMA CycleKeeps ==
  ASSUME HomeTyped, ReadsSane, NEW c \in Conversations, CycleKept(c), Persist(c),
         \A g \in Schedulers : PassSame(c, g), WindowSame(c)
  PROVE  CycleKept(c)'
  BY PassKeeps DEF CycleKept

\* Events come of rows that are there, and of a deleted row its deletion.
LEMMA EventRow ==
  ASSUME FeedKept, NEW c \in Conversations
  PROVE  /\ server[c].row = "absent" => Awaited(c) = {}
         /\ Coming(c, "gone") => server[c].row = "deleted"
         /\ server[c].row = "deleted" /\ Awaited(c) # {} => Coming(c, "gone")
  BY DEF FeedKept, EventKept, Coming

\* So does the entry of the list.
LEMMA ViewKeeps ==
  ASSUME HomeTyped, FeedKept, ReadsSane, NEW c \in Conversations, ViewKept(c), Persist(c), EntrySame(c), WindowSame(c),
         view' \in [Conversations -> EntryType]
  PROVE  ViewKept(c)'
  <1>1. /\ WinReads(c) \subseteq WinReads(c)' /\ Fitting(c) \subseteq Fitting(c)'
        /\ Live(c)' => Live(c) \/ server[c].row = "absent"
        /\ Slips(c)' = {} =>
             /\ \A j \in 0 .. Count(c) : Badge(c)'[j] = Badge(c)[j]
             /\ Coming(c, "window") => Coming(c, "window")'
        /\ Followed(c)' => Followed(c)
        /\ Slips(c)' = {} => Slips(c) = {} /\ Followed(c)
    BY DEF Persist, Followed
  <1> SUFFICES ASSUME c \notin owed \cup pending, ~Cycling(c), view'[c] = view[c]
               PROVE  ViewKept(c)'
    BY DEF EntrySame, ViewKept
  <1>2. /\ Followed(c) => view[c] \in Fitting(c) /\ window[c] \in WinReads(c)
        /\ Slips(c) = {} /\ Live(c) => view[c] \in Exact(c)
    BY DEF ViewKept
  <1>3. Followed(c)' => view'[c] \in Fitting(c)' /\ window'[c] \in WinReads(c)'
    BY <1>1, <1>2 DEF WindowSame
  <1>4. ASSUME Slips(c)' = {}, Live(c)' PROVE view'[c] \in Exact(c)'
    <2>1. view[c] \in EntryType /\ view[c].last.k \in 0 .. Count(c)
      <3>1. \A m \in Read(c) : m.k \in 0 .. Count(c)
        BY ReadTypes DEF Read, MessageType
      <3>2. QED
        BY <3>1 DEF ReadsSane, HomeTyped
    <2>2. CASE Live(c)
      BY <1>1, <1>2, <1>4, <2>1, <2>2 DEF Exact
    <2>3. CASE ~Live(c)
      <3>1. Awaited(c) = {} /\ view[c] \in Fitting(c)
        BY <1>1, <1>2, <1>4, <2>3, EventRow
      <3>2. view[c].row = "absent"
        BY <2>3, <3>1 DEF Fitting, Coming
      <3>3. QED
        BY <2>1, <3>2 DEF Exact
    <2>4. QED
      BY <2>2, <2>3
  <1>5. QED
    BY <1>3, <1>4 DEF ViewKept

-----------------------------------------------------------------------------
(***************************************************************************)
(* What stays right of a conversation that another client changes.         *)
(***************************************************************************)
\* The rows, messages and windows the server can hold.
LEMMA ServerFacts ==
  ASSUME HomeTyped, ServerKept, NEW c \in Conversations
  PROVE  /\ server[c].row \in {"absent", "pending", "accepted", "deleted"}
         /\ server[c].row = "absent" => Count(c) = 0 /\ server[c].window = Open /\ window[c] = Open
         /\ server[c].row = "pending" => Count(c) = 0
         /\ server[c].window.cut <= Count(c) /\ server[c].window.cut \in -1 .. MaxMessages
         /\ Live(c) <=> server[c].row \in {"pending", "accepted"}
         /\ Live(c) => RowOf(c) = server[c].row
         /\ ~Live(c) => RowOf(c) = "absent" /\ LastOf(c) = NoMessage
  <1>1. server[c].row \in {"absent", "pending", "accepted", "deleted"} /\ server[c].window \in WindowType
    BY DEF HomeTyped, ConversationType, RowType
  <1>2. Possible(server[c]) /\ (server[c].row = "absent" => window[c] = Open)
    BY DEF ServerKept
  <1>3. Absent.window = Open /\ Len(Absent.msgs) = 0 /\ Len(<<>>) = 0
    BY DEF Absent
  <1>4. server[c].window.cut \in -1 .. MaxMessages
    BY <1>1 DEF WindowType
  <1>5. QED
    BY <1>1, <1>2, <1>3, <1>4 DEF Possible, Count, Live, RowOf, LastOf

\* A change that is told is the last of the feed.
LEMMA ChangedFeed ==
  ASSUME HomeTyped, NEW c \in Conversations, NEW new, NEW e \in EventType, e.c = c,
         Change(c, new, e), channel = "live"
  PROVE  /\ Awaited(c)' = Awaited(c) \cup {e}
         /\ \A d \in Conversations \ {c} : Awaited(d)' = Awaited(d) /\ server'[d] = server[d]
         /\ server'[c] = new /\ feed' = Append(feed, e) /\ ToSet(feed') = ToSet(feed) \cup {e}
         /\ owed' = owed /\ loads' = loads /\ slips \subseteq slips'
         /\ e.kind = "update" => <<"miscounted", c>> \in slips'
         /\ HalfRead(c) => <<"miscounted", c>> \in slips'
         /\ \A d \in Conversations \ {c} : Slips(d)' = Slips(d)
         /\ channel' = channel /\ newest' = newest /\ cycles' = cycles /\ pending' = pending
         /\ view' = view /\ window' = window /\ mirror' = mirror
  <1>1. /\ server' = [server EXCEPT ![c] = new] /\ feed' = Append(feed, e)
        /\ owed' = owed /\ loads' = loads
        /\ slips' = slips \cup (IF e.kind = "update" \/ HalfRead(c) THEN {<<"miscounted", c>>} ELSE {})
        /\ channel' = channel /\ newest' = newest /\ cycles' = cycles /\ pending' = pending
        /\ view' = view /\ window' = window /\ mirror' = mirror
    BY DEF Change, listVars
  <1>2. ToSet(feed') = ToSet(feed) \cup {e}
    BY <1>1, AppendedFeed DEF HomeTyped
  <1>3. Awaited(c)' = Awaited(c) \cup {e} /\ \A d \in Conversations \ {c} : Awaited(d)' = Awaited(d)
    BY <1>2 DEF Awaited
  <1>4. server \in [Conversations -> ConversationType]
    BY DEF HomeTyped
  <1>5. \A d \in Conversations \ {c} : Slips(d)' = Slips(d)
    BY <1>1 DEF Slips
  <1>6. QED
    BY <1>1, <1>2, <1>3, <1>4, <1>5

\* How the event joins those to come.
LEMMA Told ==
  ASSUME NEW c \in Conversations, NEW e, Awaited(c)' = Awaited(c) \cup {e}
  PROVE  /\ \A kind : Coming(c, kind)' <=> Coming(c, kind) \/ e.kind = kind
         /\ \A k : Inserting(c, k)' <=> Inserting(c, k) \/ (e.kind = "insert" /\ e.msg.k = k)
         /\ \A k : Updating(c, k)' <=> Updating(c, k) \/ (e.kind = "update" /\ e.msg.k = k)
         /\ Posting(c)' <=> (\E f \in Awaited(c) \cup {e} : f.kind = "insert" /\ f.msg.k = Count(c)')
         /\ Erasing(c)' <=> (\E f \in Awaited(c) \cup {e} : f.kind = "update" /\ f.msg.k = Count(c)')
  BY DEF Coming, Inserting, Updating, Posting, Erasing

\* What was right of a conversation before a change is put right by its event.
LEMMA ChangePersists ==
  ASSUME HomeTyped, ServerKept, FeedKept, NEW c \in Conversations, NEW new \in ConversationType,
         NEW e \in EventType, Change(c, new, e), Turned(c, new, e), channel = "live",
         Len(new.msgs) <= MaxMessages, HomeTyped'
  PROVE  Persist(c)
  <1> DEFINE old == server[c]
             n == Count(c)
  <1>1. /\ Awaited(c)' = Awaited(c) \cup {e} /\ server'[c] = new /\ slips \subseteq slips'
        /\ e.kind = "update" => <<"miscounted", c>> \in slips'
        /\ HalfRead(c) => <<"miscounted", c>> \in slips'
    BY ChangedFeed DEF Turned
  <1>2. /\ \A kind : Coming(c, kind)' <=> Coming(c, kind) \/ e.kind = kind
        /\ \A k : Inserting(c, k)' <=> Inserting(c, k) \/ (e.kind = "insert" /\ e.msg.k = k)
        /\ Posting(c)' <=> (\E f \in Awaited(c) \cup {e} : f.kind = "insert" /\ f.msg.k = Count(c)')
        /\ Erasing(c)' <=> (\E f \in Awaited(c) \cup {e} : f.kind = "update" /\ f.msg.k = Count(c)')
        /\ Posting(c) <=> (\E f \in Awaited(c) : f.kind = "insert" /\ f.msg.k = Count(c))
        /\ Erasing(c) <=> (\E f \in Awaited(c) : f.kind = "update" /\ f.msg.k = Count(c))
    BY <1>1, Told DEF Posting, Erasing, Inserting, Updating
  <1>3. /\ old.row \in {"absent", "pending", "accepted", "deleted"}
        /\ old.row = "absent" => n = 0 /\ ~Live(c)
        /\ old.row = "pending" => n = 0
        /\ n \in 0 .. MaxMessages /\ Len(old.msgs) = n
    BY ServerFacts, ReadTypes DEF Count
  <1>4. Count(c)' = Len(new.msgs) /\ (Live(c)' <=> new.row \in {"pending", "accepted"})
        /\ (Live(c) <=> old.row \in {"pending", "accepted"})
    BY <1>1 DEF Count, Live
  <1>5. Slips(c) \subseteq Slips(c)' /\ (Slips(c)' = {} => e.kind # "update" /\ ~HalfRead(c))
    BY <1>1 DEF Slips
  <1>6. Live(c)' => Live(c) \/ old.row = "absent"
    BY <1>4 DEF Turned
  <1>7. RowReads(c) \subseteq RowReads(c)'
    <2>1. e.kind \in {"insert", "update", "window"} => RowOf(c)' = RowOf(c)
      BY <1>1, <1>4 DEF RowOf, Turned
    <2>2. e.kind \in {"insert", "update", "window", "row", "gone"}
      BY EventFacts
    <2>3. QED
      BY <1>2, <2>1, <2>2 DEF RowReads
  <1>8. WinReads(c) \subseteq WinReads(c)'
    <2>1. \/ e.kind = "window"
          \/ new.window = old.window /\ old.row # "deleted"
      BY DEF Turned
    <2>2. QED
      BY <1>1, <1>2, <2>1 DEF WinReads
  <1>9. LastOf(c) = (IF n = 0 \/ ~Live(c) THEN NoMessage ELSE [k |-> n, erased |-> old.msgs[n].erased])
        /\ LastOf(c)' = (IF Count(c)' = 0 \/ ~Live(c)' THEN NoMessage
                         ELSE [k |-> Count(c)', erased |-> new.msgs[Count(c)'].erased])
    BY <1>1 DEF LastOf, Count
  <1>10. Turned(c, new, e)
    OBVIOUS
  <1> HIDE DEF old, n
  <1>11. LastReads(c) \subseteq LastReads(c)'
    <2>1. CASE e.kind \in {"row", "window"}
      <3>1. Count(c)' = n /\ new.msgs = old.msgs
        BY <1>3, <1>4, <1>10, <2>1 DEF Turned, old
      <3>2. LastOf(c)' = LastOf(c)
        <4>1. n = 0 \/ (Live(c)' <=> Live(c))
          BY <1>3, <1>4, <1>10, <2>1 DEF Turned, old
        <4>2. QED
          BY <1>9, <3>1, <4>1
      <3>3. (Posting(c) => Posting(c)') /\ (Erasing(c) => Erasing(c)')
        BY <1>2, <3>1 DEF n
      <3>4. old.row # "deleted"
        BY <1>10, <2>1 DEF Turned, old
      <3>5. QED
        BY <3>1, <3>2, <3>3, <3>4 DEF LastReads, n, old
    <2>2. CASE e.kind = "gone"
      <3>1. new.row = "deleted"
        BY <1>10, <2>2 DEF Turned
      <3>2. QED
        BY <1>1, <3>1 DEF LastReads
    <2>3. CASE e.kind = "insert"
      <3>1. e.msg.k = Len(new.msgs)
        BY <1>10, <2>3 DEF Turned
      <3>2. QED
        BY <1>2, <1>4, <2>3, <3>1 DEF LastReads
    <2>4. CASE e.kind = "update"
      <3>1. e.msg.k = n /\ Len(new.msgs) = n /\ old.row # "deleted"
        BY <1>10, <2>4 DEF Turned, old, n
      <3>2. (Posting(c) => Posting(c)') /\ Erasing(c)' /\ Count(c)' = n
        BY <1>2, <1>4, <2>4, <3>1 DEF n
      <3>3. QED
        BY <3>1, <3>2 DEF LastReads, n, old
    <2>5. QED
      BY <2>1, <2>2, <2>3, <2>4, EventFacts
  <1>12. Fitting(c) \subseteq Fitting(c)'
    <2>1. CASE e.kind \in {"gone", "window"}
      BY <1>2, <2>1 DEF Fitting
    <2>2. CASE e.kind = "row"
      <3>1. Live(c)' /\ Coming(c, "row")'
        BY <1>2, <1>4, <1>10, <2>2 DEF Turned
      <3>2. QED
        BY <3>1 DEF Fitting
    <2>3. CASE e.kind = "insert"
      <3>1. e.msg.k = Len(new.msgs) /\ Live(c) /\ Live(c)' /\ new.row = old.row
        BY <1>4, <1>10, <2>3 DEF Turned, old
      <3>2. Posting(c)'
        BY <1>2, <1>4, <2>3, <3>1
      <3>3. QED
        BY <1>1, <1>2, <3>1, <3>2 DEF Fitting, old
    <2>4. CASE e.kind = "update"
      <3>1. e.msg.k = n /\ Len(new.msgs) = n /\ Live(c) /\ Live(c)' /\ new.row = old.row /\ n > 0
            /\ new.window = old.window
        BY <1>4, <1>10, <2>4 DEF Turned, old, n
      <3>2. (Posting(c) => Posting(c)') /\ Erasing(c)' /\ Count(c)' = n
        BY <1>2, <1>4, <2>4, <3>1 DEF n
      <3>3. LastOf(c)'.k = n /\ LastOf(c).k = n /\ RowOf(c)' = RowOf(c) /\ RowOf(c) # "absent"
        BY <1>1, <1>3, <1>4, <1>9, <3>1, <3>2 DEF RowOf, old
      <3>4. \A v \in EntryType :
              v.row = Truth(c).row /\ (v.row # "absent" => v.last.k = Truth(c).last.k) =>
              v.row = Truth(c)'.row /\ (v.row # "absent" => v.last.k = Truth(c)'.last.k)
        <4> DEFINE a == Truth(c)
                   b == Truth(c)'
                   w == old.window
        <4>1. /\ a = Entry(RowOf(c), LastOf(c), w, UnreadOf(c))
              /\ b = Entry(RowOf(c), LastOf(c)', w, UnreadOf(c)')
          BY <1>1, <3>1, <3>3 DEF Truth, old
        <4>2. \A m : NoMessage.k = 0 /\ Trim(m, w.cut).k = (IF isHiddenByChatDeletion(m.k, w.cut) THEN 0 ELSE m.k)
          BY DEF Trim, NoMessage
        <4> HIDE DEF a, b, w
        <4>3. isConversationVisible(RowOf(c), LastOf(c), w) <=> isConversationVisible(RowOf(c), LastOf(c)', w)
          BY <3>3 DEF isConversationVisible
        <4>4. Trim(LastOf(c), w.cut).k = Trim(LastOf(c)', w.cut).k
          BY <3>3, <4>2
        <4>5. a.row = b.row /\ (a.row # "absent" => a.last.k = b.last.k)
          BY <3>3, <4>1, <4>3, <4>4 DEF Entry, Unlisted
        <4>6. QED
          BY <4>5 DEF a, b
      <3>5. QED
        BY <1>1, <1>2, <3>1, <3>2, <3>4 DEF Fitting, old
    <2>5. QED
      BY <2>1, <2>2, <2>3, <2>4, EventFacts
  <1>13. ASSUME Slips(c)' = {}, NEW j \in 0 .. n
         PROVE  Badge(c)'[j] = Badge(c)[j]
    <2>1. Counted(c, j)' = Counted(c, j)
      <3>1. CASE e.kind \in {"row", "window", "gone"}
        <4>1. new.msgs = old.msgs /\ Count(c)' = n
          BY <1>3, <1>4, <1>10, <3>1 DEF Turned, old
        <4>2. Unread(c)' = Unread(c) /\ \A k : Inserting(c, k)' <=> Inserting(c, k)
          BY <1>1, <1>2, <3>1, <4>1 DEF Unread, old, n
        <4>3. QED
          BY <4>2 DEF Counted
      <3>2. CASE e.kind = "insert"
        <4>1. Count(c)' = n + 1 /\ (\A k \in 1 .. n : new.msgs[k] = old.msgs[k]) /\ e.msg.k = n + 1 /\ n \in Nat
          BY <1>3, <1>4, <1>10, <3>2 DEF Turned, old, n
        <4>2. \A k \in 1 .. n : (k \in Unread(c)' <=> k \in Unread(c)) /\ (Inserting(c, k)' <=> Inserting(c, k))
          BY <1>1, <1>2, <4>1 DEF Unread, old, n
        <4>3. PICK m \in Nat : m = n + 1
          BY <4>1
        <4>4. m > j /\ Inserting(c, m)'
          BY <1>2, <3>2, <4>1, <4>3
        <4>5. m \notin Counted(c, j)' /\ Counted(c, j)' \subseteq Unread(c)' /\ Counted(c, j) \subseteq Unread(c)
          BY <4>4 DEF Counted
        <4>6. Unread(c)' \subseteq 1 .. m /\ Unread(c) \subseteq 1 .. n
          BY <4>1, <4>3 DEF Unread, n
        <4>7. \A k \in 1 .. m : k \in 1 .. n \/ k = m
          BY <4>1, <4>3
        <4>8. \A k \in 1 .. n : k \in Counted(c, j)' <=> k \in Counted(c, j)
          BY <4>2 DEF Counted
        <4>9. QED
          BY <4>5, <4>6, <4>7, <4>8
      <3>3. QED
        BY <1>5, <1>13, <3>1, <3>2, EventFacts
    <2>2. j \in 0 .. MaxMessages
      BY <1>3, HomeBoundsAssumption
    <2>3. QED
      BY <2>1, <2>2 DEF Badge
  <1>14. Coming(c, "window") => Coming(c, "window")'
    BY <1>2
  <1>15. QED
    BY <1>5, <1>6, <1>7, <1>8, <1>11, <1>12, <1>13, <1>14 DEF Persist, old, n

-----------------------------------------------------------------------------
(***************************************************************************)
(* The feed after a change.                                                *)
(***************************************************************************)
\* An event tells what is still so where nothing happens to its conversation.
LEMMA EventUnmoved ==
  ASSUME NEW c \in Conversations, server'[c] = server[c], Awaited(c)' = Awaited(c), slips \subseteq slips',
         NEW e, EventKept(c, e)
  PROVE  EventKept(c, e)'
  <1>1. /\ Count(c)' = Count(c) /\ Coming(c, "gone")' = Coming(c, "gone")
        /\ \A k : Inserting(c, k)' = Inserting(c, k) /\ Updating(c, k)' = Updating(c, k)
    BY Unmoved
  <1>2. Updating(c, e.msg.k)' = Updating(c, e.msg.k)
    BY <1>1
  <1>3. QED
    BY <1>1, <1>2 DEF EventKept

\* What the event to come and those before it say of c after the change.
LEMMA ChangeEvents ==
  ASSUME HomeTyped, ServerKept, FeedKept, NEW c \in Conversations, NEW new \in ConversationType,
         NEW e \in EventType, Change(c, new, e), Turned(c, new, e), channel = "live",
         Len(new.msgs) <= MaxMessages, NEW f \in Awaited(c)'
  PROVE  EventKept(c, f)'
  <1> DEFINE old == server[c]
  <1>0. PICK n \in Nat : n = Count(c)
    BY ReadTypes DEF HomeTyped
  <1>1. /\ Awaited(c)' = Awaited(c) \cup {e} /\ server'[c] = new /\ slips \subseteq slips'
        /\ e.kind = "update" => <<"miscounted", c>> \in slips'
    BY ChangedFeed DEF Turned
  <1>2. /\ \A kind : Coming(c, kind)' <=> Coming(c, kind) \/ e.kind = kind
        /\ \A k : Inserting(c, k)' <=> Inserting(c, k) \/ (e.kind = "insert" /\ e.msg.k = k)
        /\ \A k : Updating(c, k)' <=> Updating(c, k) \/ (e.kind = "update" /\ e.msg.k = k)
    BY <1>1, Told
  <1>3. /\ old.row \in {"absent", "pending", "accepted", "deleted"}
        /\ old.row = "absent" => n = 0
        /\ old.row = "pending" => n = 0
        /\ Len(old.msgs) = n /\ Count(c)' = Len(new.msgs)
    BY <1>0, <1>1, ServerFacts DEF Count
  <1>4. /\ old.row = "absent" => Awaited(c) = {}
        /\ Coming(c, "gone") => old.row = "deleted"
        /\ e.kind \in {"row", "gone", "insert", "update", "window"}
    BY EventRow, EventFacts
  <1>5. Coming(c, "gone")' <=> new.row = "deleted"
    BY <1>2, <1>4 DEF Turned
  <1>6. new.row # "absent"
    BY DEF Turned
  <1>7. ASSUME NEW h \in Awaited(c)
        PROVE  EventKept(c, h) /\ h \in Awaited(c)' /\ h \in EventType
    <2>1. \A k \in DOMAIN feed : feed[k] \in EventType
      BY ElementsTyped DEF HomeTyped
    <2>2. QED
      BY <1>1, <2>1 DEF FeedKept, Awaited, ToSet
  <1>8. Turned(c, new, e) /\ Len(new.msgs) \in Nat /\ f \in Awaited(c) \cup {e}
    BY <1>1, <1>3, <1>0 DEF ConversationType
  <1>9. /\ \A k \in 1 .. n : k \in 1 .. Len(new.msgs) /\ new.msgs[k].peer = old.msgs[k].peer
                             /\ (old.msgs[k].erased => new.msgs[k].erased)
        /\ \A k \in 1 .. n : new.msgs[k].erased => old.msgs[k].erased \/ (e.kind = "update" /\ e.msg.k = k)
        /\ n <= Len(new.msgs) /\ \A k \in 1 .. Len(new.msgs) : k \in 1 .. n \/ (e.kind = "insert" /\ e.msg.k = k)
    <2>1. CASE e.kind \in {"row", "gone", "window"}
      <3>1. new.msgs = old.msgs
        BY <1>8, <2>1 DEF Turned
      <3>2. QED
        BY <1>0, <1>3, <3>1
    <2>2. CASE e.kind = "insert"
      BY <1>0, <1>8, <2>2 DEF Turned
    <2>3. CASE e.kind = "update"
      <3>1. n > 0 /\ Len(new.msgs) = n /\ new.msgs[n].erased /\ e.msg.k = n
            /\ (\A k \in 1 .. n : new.msgs[k].peer = old.msgs[k].peer)
            /\ (\A k \in 1 .. n - 1 : new.msgs[k] = old.msgs[k])
        BY <1>0, <1>8, <2>3 DEF Turned
      <3>2. \A k \in 1 .. n : k = n \/ k \in 1 .. n - 1
        BY <1>0
      <3>3. QED
        BY <1>0, <2>3, <3>1, <3>2
    <2>4. QED
      BY <1>4, <2>1, <2>2, <2>3
  <1>10. f.kind = "row" =>
           /\ new.row # "deleted" => \E h \in Awaited(c)' : h.kind = "row" /\ h.row = new.row
           /\ f.row = "accepted" => new.row \in {"accepted", "deleted"}
           /\ \A k \in 1 .. Len(new.msgs) : Inserting(c, k)'
    <2> SUFFICES ASSUME f.kind = "row"
                 PROVE  /\ new.row # "deleted" => \E h \in Awaited(c)' : h.kind = "row" /\ h.row = new.row
                        /\ f.row = "accepted" => new.row \in {"accepted", "deleted"}
                        /\ \A k \in 1 .. Len(new.msgs) : Inserting(c, k)'
      OBVIOUS
    <2>1. CASE f \in Awaited(c)
      <3>1. /\ old.row # "deleted" => \E h \in Awaited(c) : h.kind = "row" /\ h.row = old.row
            /\ f.row = "accepted" => old.row \in {"accepted", "deleted"}
            /\ \A k \in 1 .. n : Inserting(c, k)
        BY <1>0, <1>7, <2>1 DEF EventKept
      <3>2. \A k \in 1 .. Len(new.msgs) : Inserting(c, k)'
        BY <1>2, <1>9, <3>1
      <3>3. f.row = "accepted" => new.row \in {"accepted", "deleted"}
        BY <1>8, <3>1 DEF Turned
      <3>4. new.row # "deleted" => \E h \in Awaited(c)' : h.kind = "row" /\ h.row = new.row
        <4>1. CASE e.kind = "row"
          BY <1>1, <1>8, <4>1 DEF Turned
        <4>2. CASE e.kind # "row"
          <5>1. new.row # "deleted" => new.row = old.row
            BY <1>8, <4>2 DEF Turned
          <5>2. QED
            BY <1>1, <3>1, <5>1
        <4>3. QED
          BY <4>1, <4>2
      <3>5. QED
        BY <3>2, <3>3, <3>4
    <2>2. CASE f = e
      <3>1. n = 0 /\ new.msgs = old.msgs /\ new.row = e.row
        BY <1>3, <1>8, <2>2 DEF Turned
      <3>2. \A k \in 1 .. Len(new.msgs) : Inserting(c, k)'
        BY <1>3, <3>1
      <3>3. QED
        BY <1>1, <2>2, <3>1, <3>2
    <2>3. QED
      BY <1>8, <2>1, <2>2
  <1>11. f.kind \in {"insert", "update"} =>
           /\ f.msg.k \in 1 .. Len(new.msgs)
           /\ \A k \in f.msg.k + 1 .. Len(new.msgs) : Inserting(c, k)'
    <2> SUFFICES ASSUME f.kind \in {"insert", "update"}
                 PROVE  /\ f.msg.k \in 1 .. Len(new.msgs)
                        /\ \A k \in f.msg.k + 1 .. Len(new.msgs) : Inserting(c, k)'
      OBVIOUS
    <2>1. CASE f \in Awaited(c)
      <3>1. f.msg.k \in 1 .. n /\ \A k \in f.msg.k + 1 .. n : Inserting(c, k)
        BY <1>0, <1>7, <2>1 DEF EventKept
      <3>2. ASSUME NEW k \in f.msg.k + 1 .. Len(new.msgs) PROVE Inserting(c, k)'
        <4>1. k \in 1 .. Len(new.msgs)
          BY <3>1
        <4>2. CASE k \in 1 .. n
          BY <1>2, <3>1, <4>2
        <4>3. QED
          BY <1>2, <1>9, <4>1, <4>2
      <3>3. QED
        BY <1>9, <3>1, <3>2
    <2>2. CASE f = e
      <3>1. f.msg.k = Len(new.msgs) /\ f.msg.k \in Nat /\ f.msg.k > 0
        BY <1>0, <1>8, <2>2 DEF Turned
      <3>2. QED
        BY <3>1
    <2>3. QED
      BY <1>8, <2>1, <2>2
  <1>12. f.kind = "insert" =>
           /\ ~f.msg.erased
           /\ f.peer = new.msgs[f.msg.k].peer
           /\ new.msgs[f.msg.k].erased => Updating(c, f.msg.k)'
    <2>1. CASE f \in Awaited(c) /\ f.kind = "insert"
      <3>1. /\ ~f.msg.erased /\ f.peer = old.msgs[f.msg.k].peer /\ f.msg.k \in 1 .. n
            /\ old.msgs[f.msg.k].erased => Updating(c, f.msg.k)
        BY <1>0, <1>7, <2>1 DEF EventKept
      <3>2. QED
        BY <1>2, <1>9, <3>1
    <2>2. CASE f = e /\ f.kind = "insert"
      BY <1>0, <1>8, <2>2 DEF Turned
    <2>3. QED
      BY <1>8, <2>1, <2>2
  <1>13. f.kind = "update" =>
           f.msg.erased /\ new.msgs[f.msg.k].erased /\ <<"miscounted", c>> \in slips'
    <2>1. CASE f \in Awaited(c) /\ f.kind = "update"
      <3>1. f.msg.erased /\ old.msgs[f.msg.k].erased /\ f.msg.k \in 1 .. n /\ <<"miscounted", c>> \in slips
        BY <1>0, <1>7, <2>1 DEF EventKept
      <3>2. QED
        BY <1>1, <1>9, <3>1
    <2>2. CASE f = e /\ f.kind = "update"
      <3>1. e.kind = "update"
        BY <2>2
      <3>2. e.msg.erased /\ e.msg.k = n /\ new.msgs[n].erased
        BY <1>0, <1>8, <3>1 DEF Turned
      <3>3. <<"miscounted", c>> \in slips'
        BY <1>1, <3>1
      <3>4. QED
        BY <2>2, <3>2, <3>3
    <2>3. QED
      BY <1>8, <2>1, <2>2
  <1> HIDE DEF old
  <1>14. QED
    BY <1>1, <1>3, <1>5, <1>6, <1>10, <1>11, <1>12, <1>13 DEF EventKept

\* A change joins the feed in order.
LEMMA ChangeOrder ==
  ASSUME HomeTyped, ServerKept, FeedKept, NEW c \in Conversations, NEW new \in ConversationType,
         NEW e \in EventType, Change(c, new, e), Turned(c, new, e), channel = "live"
  PROVE  /\ \A i, j \in DOMAIN feed' : i < j => Before(feed'[i], feed'[j])
         /\ \A i \in DOMAIN feed' : HidesLater(i)'
  <1>0. feed \in Seq(EventType) /\ feed' = Append(feed, e)
    <2>1. e.c = c
      BY DEF Turned
    <2>2. feed' = Append(feed, e)
      BY <2>1, ChangedFeed
    <2>3. QED
      BY <2>2 DEF HomeTyped
  <1>1. PICK t : t = Len(feed) + 1
    OBVIOUS
  <1>2. /\ DOMAIN feed' = DOMAIN feed \cup {t} /\ feed'[t] = e /\ t \in Nat
        /\ \A i \in DOMAIN feed : feed'[i] = feed[i] /\ i \in Nat /\ i < t
        /\ \A i \in DOMAIN feed : feed[i] \in ToSet(feed) /\ feed[i] \in EventType
    BY <1>0, <1>1, AppendedFeed, ElementsTyped DEF ToSet
  <1>3. ASSUME NEW f \in ToSet(feed), f \in EventType
        PROVE  Before(f, e)
    <2> SUFFICES ASSUME f.c = c PROVE Before(f, e)
      BY DEF Before, Turned
    <2>1. f \in Awaited(c) /\ EventKept(c, f)
      BY DEF Awaited, FeedKept
    <2>2. /\ Coming(c, "gone") => server[c].row = "deleted"
          /\ server[c].row \in {"absent", "pending", "accepted", "deleted"}
          /\ server[c].row \in {"absent", "pending"} => Count(c) = 0
          /\ Count(c) \in Nat
      BY EventRow, ServerFacts, ReadTypes
    <2>3. /\ server[c].row # "absent" /\ server[c].row # "deleted"
          /\ f.kind # "gone"
      BY <2>1, <2>2 DEF EventKept, Turned, Coming
    <2>4. f.kind \in {"insert", "update"} => f.msg.k \in 1 .. Count(c)
      BY <2>1 DEF EventKept
    <2>5. e.kind = "row" => e.row = "accepted" /\ server[c].row = "pending"
      BY <2>3 DEF Turned
    <2>6. e.kind = "insert" => e.msg.k = Count(c) + 1
      BY DEF Turned
    <2>7. e.kind = "update" => e.msg.k = Count(c)
      BY DEF Turned
    <2>8. QED
      BY <2>2, <2>3, <2>4, <2>5, <2>6, <2>7 DEF Before
  <1>4. ASSUME NEW i \in DOMAIN feed', NEW j \in DOMAIN feed', i < j
        PROVE  Before(feed'[i], feed'[j])
    <2>1. i \in DOMAIN feed
      BY <1>2, <1>4
    <2>2. CASE j = t
      BY <1>2, <1>3, <2>1, <2>2
    <2>3. CASE j \in DOMAIN feed
      BY <1>2, <1>4, <2>1, <2>3 DEF FeedKept
    <2>4. QED
      BY <1>2, <2>2, <2>3
  <1>5. ASSUME NEW i \in DOMAIN feed'
        PROVE  HidesLater(i)'
    <2> SUFFICES ASSUME feed'[i].kind = "insert", feed'[i].msg.k <= server'[feed'[i].c].window.cut
                 PROVE  \E j \in DOMAIN feed' : i < j /\ feed'[j].c = feed'[i].c /\ feed'[j].kind = "window"
      BY DEF HidesLater
    <2>1. /\ server'[c] = new /\ \A d \in Conversations \ {c} : server'[d] = server[d]
          /\ e.c = c
      BY ChangedFeed DEF Turned
    <2>2. CASE i = t
      <3>1. e.kind = "insert" /\ new.window = server[c].window /\ e.msg.k = Count(c) + 1
        BY <1>2, <2>2 DEF Turned
      <3>2. server[c].window.cut <= Count(c) /\ Count(c) \in Nat /\ server[c].window.cut \in Int
        BY ServerFacts, ReadTypes, HomeBoundsAssumption
      <3>3. QED
        BY <1>2, <2>1, <2>2, <3>1, <3>2
    <2>3. CASE i \in DOMAIN feed
      <3>1. feed'[i] = feed[i] /\ feed[i].c \in Conversations /\ i < t /\ HidesLater(i)
        BY <1>2, <2>3, EventFacts DEF FeedKept
      <3>2. CASE feed[i].msg.k <= server[feed[i].c].window.cut
        <4>1. PICK j \in DOMAIN feed : i < j /\ feed[j].c = feed[i].c /\ feed[j].kind = "window"
          BY <3>1, <3>2 DEF HidesLater
        <4>2. QED
          BY <1>2, <3>1, <4>1
      <3>3. CASE e.kind = "window" /\ feed[i].c = c
        BY <1>2, <2>1, <3>1, <3>3
      <3>4. CASE e.kind # "window" \/ feed[i].c # c
        <4>1. server'[feed[i].c].window = server[feed[i].c].window
          BY <2>1, <3>1, <3>4 DEF Turned
        <4>2. QED
          BY <3>1, <3>2, <4>1
      <3>5. QED
        BY <3>3, <3>4
    <2>4. QED
      BY <1>2, <2>2, <2>3
  <1>6. QED
    BY <1>4, <1>5

-----------------------------------------------------------------------------
(***************************************************************************)
(* Every change of the server keeps the invariant.                         *)
(***************************************************************************)
\* What is kept of one conversation.
HomeKept(c) == LoadKept(c) /\ CycleKept(c) /\ ViewKept(c) /\ HiddenKept(c)

\* Nothing is kept of a conversation that is left to a later load.
Left(c) ==
  /\ c \in owed'
  /\ c \in loads'[newest'].lapse \cup pending' \/ loads'[newest'].pc \in {"idle", "rows"}

\* Of a conversation left to a later load nothing else is.
LEMMA LeftKept ==
  ASSUME NEW c \in Conversations, Left(c)
  PROVE  LoadKept(c)' /\ CycleKept(c)' /\ ViewKept(c)'
  BY DEF Left, LoadKept, CycleKept, ViewKept

\* An entry that does not change stays hidden as it was.
LEMMA HiddenKeeps ==
  ASSUME NEW c \in Conversations, HiddenKept(c), view'[c] = view[c], slips \subseteq slips'
  PROVE  HiddenKept(c)'
  BY DEF HiddenKept, Slips

\* What is left to a later load is owed, and the loads in flight know.
LEMMA LoadsLapsed ==
  ASSUME HomeTyped, GatesKept, NEW S \in SUBSET Conversations, loads' = Lapsed(S, loads), owed' = owed \cup S,
         newest' = newest, pending' = pending
  PROVE  /\ GatesKept' /\ Loading' = Loading
         /\ \A c \in Conversations : LoadSame(c) /\ (c \in S => Left(c))
  <1>1. loads \in [Slots -> LoadType] /\ (\A l \in Slots : Filled(loads[l])) /\ newest \in Slots
    BY DEF HomeTyped
  <1>2. \A l \in Slots :
              /\ loads'[l].pc = loads[l].pc
              /\ loads[l].pc = "idle" => loads'[l] = IdleLoad
              /\ loads[l].pc # "idle" =>
                   /\ loads'[l].rows = loads[l].rows /\ loads'[l].wins = loads[l].wins
                   /\ loads'[l].lasts = loads[l].lasts /\ loads'[l].counts = loads[l].counts
                   /\ loads'[l].lapse = loads[l].lapse \cup S
    BY <1>1, LapsedIs
  <1>3. Loading' = Loading
    BY <1>2 DEF Loading
  <1>4. GatesKept'
    <2>1. loads'[newest].pc # "idle" => loads'[newest].lapse \subseteq owed'
      BY <1>1, <1>2 DEF GatesKept
    <2>2. QED
      BY <1>2, <1>3, <2>1 DEF GatesKept
  <1>5. ASSUME NEW c \in Conversations PROVE LoadSame(c) /\ (c \in S => Left(c))
    <2> DEFINE r == loads[newest]
               q == loads'[newest]
    <2>1. /\ q.pc = r.pc
          /\ r.pc # "idle" =>
               /\ q.rows = r.rows /\ q.wins = r.wins /\ q.lasts = r.lasts /\ q.counts = r.counts
               /\ q.lapse = r.lapse \cup S
      BY <1>1, <1>2
    <2> HIDE DEF q, r
    <2>2. LoadSame(c)
      BY <1>1, <2>1 DEF LoadSame, q, r
    <2>3. c \in S => Left(c)
      BY <2>1 DEF Left, q
    <2>4. QED
      BY <2>2, <2>3
  <1>6. QED
    BY <1>3, <1>4, <1>5

\* A step that does not concern c.
LEMMA Unconcerned ==
  ASSUME HomeTyped, HomeTyped', FeedKept, ReadsSane, NEW c \in Conversations, HomeKept(c),
         Persist(c), LoadSame(c), \A g \in Schedulers : PassSame(c, g), EntrySame(c), WindowSame(c)
  PROVE  LoadKept(c)' /\ CycleKept(c)' /\ ViewKept(c)'
  <1>1. LoadKept(c)'
    BY LoadKeeps DEF HomeKept
  <1>2. CycleKept(c)'
    BY CycleKeeps DEF HomeKept
  <1>3. view' \in [Conversations -> EntryType]
    BY DEF HomeTyped
  <1>4. ViewKept(c)'
    BY <1>3, ViewKeeps DEF HomeKept
  <1>5. QED
    BY <1>1, <1>2, <1>4

\* The reads and the entries that are still sane where messages are not lost.
LEMMA ReadGrows ==
  ASSUME NEW c \in Conversations, Count(c) \in Nat, Count(c)' \in Nat, Count(c) <= Count(c)'
  PROVE  Read(c) \subseteq Read(c)'
  BY DEF Read, MessageType

\* A change takes no message and no row away.
LEMMA ChangeCounts ==
  ASSUME HomeTyped, HomeTyped', NEW c \in Conversations, NEW new \in ConversationType, NEW e \in EventType,
         Change(c, new, e), Turned(c, new, e)
  PROVE  /\ \A d \in Conversations : Read(d) \subseteq Read(d)'
         /\ \A d \in Conversations : server[d].row # "absent" => server'[d].row # "absent"
         /\ \A d \in Conversations \ {c} : server'[d] = server[d]
         /\ server'[c] = new
  <1>1. server' = [server EXCEPT ![c] = new]
    BY DEF Change
  <1>2. server'[c] = new /\ \A d \in Conversations \ {c} : server'[d] = server[d]
    BY <1>1 DEF HomeTyped
  <1>3. \A d \in Conversations : Count(d) \in Nat
    BY ReadTypes, HomeBoundsAssumption
  <1>4. Len(new.msgs) \in Nat /\ Count(c) <= Len(new.msgs)
    <2>1. Len(new.msgs) \in Nat
      BY DEF ConversationType
    <2>2. new.msgs = server[c].msgs => Len(new.msgs) = Count(c)
      BY DEF Count
    <2>3. QED
      BY <1>3, <2>1, <2>2 DEF Turned
  <1>5. \A d \in Conversations : Count(d)' \in Nat /\ Count(d) <= Count(d)'
    BY <1>2, <1>3, <1>4 DEF Count
  <1>6. \A d \in Conversations : Read(d) \subseteq Read(d)'
    BY <1>3, <1>5, ReadGrows
  <1>7. new.row # "absent"
    BY DEF Turned
  <1>8. QED
    BY <1>2, <1>6, <1>7

\* What was read before a change is of what the server has after it.
LEMMA ChangeSane ==
  ASSUME HomeTyped, HomeTyped', ServerKept, ReadsSane, NEW c \in Conversations, NEW new \in ConversationType,
         NEW e \in EventType, Change(c, new, e), Turned(c, new, e), Len(new.msgs) <= MaxMessages
  PROVE  ServerKept' /\ ReadsSane'
  <1>1. /\ \A d \in Conversations : Read(d) \subseteq Read(d)'
        /\ \A d \in Conversations : server[d].row # "absent" => server'[d].row # "absent"
        /\ \A d \in Conversations \ {c} : server'[d] = server[d]
        /\ server'[c] = new
    BY ChangeCounts
  <1>2. /\ view' = view /\ window' = window /\ mirror' = mirror /\ cycles' = cycles
        /\ loads' = loads \/ loads' = Lapsed({c}, loads)
    BY DEF Change, listVars
  <1>3. Possible(new) /\ new.row # "absent"
    <2>1. Possible(server[c])
      BY DEF ServerKept
    <2>2. /\ server[c].row = "pending" => Count(c) = 0
          /\ server[c].row = "absent" => Count(c) = 0
          /\ server[c].window.cut <= Count(c) /\ Count(c) \in Nat
          /\ server[c].window.cut \in Int /\ new.window.cut \in Int
      BY ServerFacts, ReadTypes, HomeBoundsAssumption DEF ConversationType, WindowType
    <2>3. new.row # "absent" /\ Len(new.msgs) \in Nat
      BY DEF Turned, ConversationType
    <2>4. new.window.cut <= Len(new.msgs)
      <3>1. new.window.cut <= Count(c)
        BY <2>2 DEF Turned
      <3>2. new.msgs = server[c].msgs => Len(new.msgs) = Count(c)
        BY DEF Count
      <3>3. Count(c) <= Len(new.msgs)
        BY <2>2, <2>3, <3>2 DEF Turned
      <3>4. QED
        BY <2>2, <2>3, <3>1, <3>3
    <2>5. new.row = "pending" => new.msgs = <<>>
      <3>1. new.row = "pending" => server[c].row \in {"absent", "pending"} /\ Len(new.msgs) = Count(c)
        BY <2>2 DEF Turned, Count
      <3>2. new.msgs \in Seq([peer : BOOLEAN, erased : BOOLEAN])
        BY DEF ConversationType
      <3>3. QED
        BY <2>2, <3>1, <3>2
    <2>6. QED
      BY <2>3, <2>4, <2>5 DEF Possible
  <1>4. ServerKept'
    BY <1>1, <1>2, <1>3 DEF ServerKept
  <1>5. \A l \in Slots :
          /\ loads'[l].pc = loads[l].pc
          /\ loads[l].pc # "idle" => loads'[l].rows = loads[l].rows /\ loads'[l].lasts = loads[l].lasts
    <2>1. loads \in [Slots -> LoadType] /\ (\A l \in Slots : Filled(loads[l])) /\ {c} \in SUBSET Conversations
      BY DEF HomeTyped
    <2>2. CASE loads' = loads
      BY <2>2
    <2>3. CASE loads' = Lapsed({c}, loads)
      BY <2>1, <2>3, LapsedIs
    <2>4. QED
      BY <1>2, <2>2, <2>3
  <1>6. ReadsSane'
    <2> SUFFICES ASSUME NEW d \in Conversations
                 PROVE  /\ view'[d].last \in Read(d)' /\ mirror'[d].last \in Read(d)'
                        /\ \A l \in Slots :
                             /\ loads'[l].pc \in {"windows", "storing", "lasts", "counts", "commit"} /\ loads'[l].rows[d] # "absent" =>
                                  server'[d].row # "absent"
                             /\ loads'[l].pc \in {"counts", "commit"} => loads'[l].lasts[d] \in Read(d)'
                        /\ \A g \in Schedulers :
                             /\ cycles'[d][g].last \in Read(d)'
                             /\ cycles'[d][g].row # "absent" => server'[d].row # "absent"
                             /\ cycles'[d][g].asked \cap {"last", "deletions", "window", "count"} # {} =>
                                  "row" \in cycles'[d][g].asked /\ cycles'[d][g].row # "absent"
      BY DEF ReadsSane
    <2>1. view'[d].last \in Read(d)' /\ mirror'[d].last \in Read(d)'
      BY <1>1, <1>2 DEF ReadsSane
    <2>2. \A g \in Schedulers :
            /\ cycles'[d][g].last \in Read(d)'
            /\ cycles'[d][g].row # "absent" => server'[d].row # "absent"
            /\ cycles'[d][g].asked \cap {"last", "deletions", "window", "count"} # {} =>
                 "row" \in cycles'[d][g].asked /\ cycles'[d][g].row # "absent"
      BY <1>1, <1>2 DEF ReadsSane
    <2>3. ASSUME NEW l \in Slots
          PROVE  /\ loads'[l].pc \in {"windows", "storing", "lasts", "counts", "commit"} /\ loads'[l].rows[d] # "absent" =>
                      server'[d].row # "absent"
                 /\ loads'[l].pc \in {"counts", "commit"} => loads'[l].lasts[d] \in Read(d)'
      <3>1. /\ loads[l].pc \in {"windows", "storing", "lasts", "counts", "commit"} /\ loads[l].rows[d] # "absent" =>
                 server[d].row # "absent"
            /\ loads[l].pc \in {"counts", "commit"} => loads[l].lasts[d] \in Read(d)
        BY DEF ReadsSane
      <3>2. QED
        BY <1>1, <1>5, <3>1
    <2>4. QED
      BY <2>1, <2>2, <2>3
  <1>7. QED
    BY <1>4, <1>6

\* Another client changes the server: told, it will be put right; untold, it is owed.
LEMMA ServerStepKept == HomeInv /\ ServerStep => HomeInv'
  <1> SUFFICES ASSUME HomeInv, ServerStep PROVE HomeInv'
    OBVIOUS
  <1>0. HomeTyped /\ ServerKept /\ FeedKept /\ ReadsSane /\ GatesKept /\ \A c \in Conversations : HomeKept(c)
    BY DEF HomeInv, HomeKept
  <1>1. PICK c \in Conversations, new \in ConversationType, e \in EventType :
          Change(c, new, e) /\ Turned(c, new, e) /\ Len(new.msgs) <= MaxMessages
    BY <1>0, ServerStepIs DEF ServerStep
  <1>2. HomeTyped'
    BY <1>0, <1>1, ChangeTyped
  <1>3. ServerKept' /\ ReadsSane'
    BY <1>0, <1>1, <1>2, ChangeSane
  <1>4. /\ channel' = channel /\ newest' = newest /\ cycles' = cycles /\ pending' = pending
        /\ view' = view /\ window' = window /\ mirror' = mirror /\ slips \subseteq slips'
    BY <1>1 DEF Change, listVars
  <1>5. \A d \in Conversations : HiddenKept(d)'
    BY <1>0, <1>4, HiddenKeeps DEF HomeKept
  <1>6. \A d \in Conversations :
          /\ WindowSame(d)
          /\ owed \subseteq owed' => EntrySame(d) /\ \A g \in Schedulers : PassSame(d, g)
    <2>1. \A d \in Conversations : WindowSame(d)
      BY <1>4 DEF WindowSame
    <2>2. \A d \in Conversations : owed \subseteq owed' => EntrySame(d)
      BY <1>4 DEF EntrySame, Cycling
    <2>3. \A d \in Conversations : \A g \in Schedulers : owed \subseteq owed' => PassSame(d, g)
      BY <1>4 DEF PassSame
    <2>4. QED
      BY <2>1, <2>2, <2>3
  <1>7. CASE channel = "live"
    <2>1. /\ \A d \in Conversations \ {c} : Awaited(d)' = Awaited(d) /\ server'[d] = server[d]
          /\ owed' = owed /\ loads' = loads
      BY <1>0, <1>1, <1>7, ChangedFeed DEF Turned
    <2>2. FeedKept'
      <3>1. \A d \in Conversations : \A f \in Awaited(d)' : EventKept(d, f)'
        BY <1>0, <1>1, <1>4, <1>7, <2>1, ChangeEvents, EventUnmoved DEF FeedKept
      <3>2. /\ \A i, j \in DOMAIN feed' : i < j => Before(feed'[i], feed'[j])
            /\ \A i \in DOMAIN feed' : HidesLater(i)'
        BY <1>0, <1>1, <1>7, ChangeOrder
      <3>3. channel' # "live" => feed' = <<>>
        BY <1>4, <1>7
      <3>4. QED
        BY <3>1, <3>2, <3>3 DEF FeedKept, Before
    <2>3. GatesKept'
      BY <1>0, <1>4, <2>1 DEF GatesKept, Loading
    <2>4. \A d \in Conversations : Persist(d)
      BY <1>0, <1>1, <1>2, <1>4, <1>7, <2>1, ChangePersists, UnmovedPersist
    <2>5. \A d \in Conversations : LoadSame(d)
      BY <1>0, <1>4, <2>1 DEF LoadSame, HomeTyped
    <2>6. \A d \in Conversations : LoadKept(d)' /\ CycleKept(d)' /\ ViewKept(d)'
      BY <1>0, <1>2, <1>6, <2>1, <2>4, <2>5, Unconcerned
    <2>7. QED
      BY <1>2, <1>3, <1>5, <2>2, <2>3, <2>6 DEF HomeInv
  <1>8. CASE channel # "live"
    <2>1. owed' = owed \cup {c} /\ loads' = Lapsed({c}, loads) /\ feed' = feed /\ feed = <<>>
      BY <1>0, <1>1, <1>8 DEF Change, FeedKept
    <2>2. \A d \in Conversations : Awaited(d)' = Awaited(d)
      BY <2>1, FeedStill
    <2>3. \A d \in Conversations \ {c} : server'[d] = server[d]
      BY <1>0, <1>1, <1>2, ChangeCounts
    <2>4. FeedKept'
      <3>1. ToSet(feed) = {} /\ DOMAIN feed = {}
        BY <2>1 DEF ToSet
      <3>2. \A d \in Conversations : Awaited(d)' = {}
        BY <2>2, <3>1 DEF Awaited
      <3>3. DOMAIN feed' = {} /\ feed' = <<>>
        BY <2>1, <3>1
      <3>4. QED
        BY <3>2, <3>3 DEF FeedKept
    <2>5. /\ GatesKept' /\ \A d \in Conversations : LoadSame(d) /\ (d = c => Left(d))
      BY <1>0, <1>4, <2>1, LoadsLapsed
    <2>6. \A d \in Conversations \ {c} : Persist(d)
      BY <1>4, <2>2, <2>3, UnmovedPersist
    <2>7. \A d \in Conversations : LoadKept(d)' /\ CycleKept(d)' /\ ViewKept(d)'
      <3>1. \A d \in Conversations \ {c} : LoadKept(d)' /\ CycleKept(d)' /\ ViewKept(d)'
        BY <1>0, <1>2, <1>6, <2>1, <2>5, <2>6, Unconcerned
      <3>2. LoadKept(c)' /\ CycleKept(c)' /\ ViewKept(c)'
        BY <2>5, LeftKept
      <3>3. QED
        BY <3>1, <3>2
    <2>8. QED
      BY <1>2, <1>3, <1>5, <2>4, <2>5, <2>7 DEF HomeInv
  <1>9. QED
    BY <1>7, <1>8

-----------------------------------------------------------------------------
(***************************************************************************)
(* The reads of a load keep the invariant.                                 *)
(***************************************************************************)
\* A step that leaves the server and the feed alone.
LEMMA FeedSame ==
  ASSUME FeedKept, server' = server, feed' = feed, slips \subseteq slips',
         channel' \in {channel, "live"} \/ channel # "live"
  PROVE  FeedKept' /\ \A c \in Conversations : Persist(c) /\ Awaited(c)' = Awaited(c)
  <1>1. \A c \in Conversations : Awaited(c)' = Awaited(c) /\ Persist(c)
    BY FeedStill, UnmovedPersist
  <1>2. \A c \in Conversations : \A e \in Awaited(c)' : EventKept(c, e)'
    BY <1>1, EventUnmoved DEF FeedKept
  <1>3. channel' # "live" => feed' = <<>>
    BY DEF FeedKept
  <1>4. \A i \in DOMAIN feed' : HidesLater(i)'
    BY DEF FeedKept, HidesLater
  <1>5. \A i, j \in DOMAIN feed' : i < j => Before(feed'[i], feed'[j])
    BY DEF FeedKept
  <1>6. QED
    BY <1>1, <1>2, <1>3, <1>4, <1>5 DEF FeedKept, Before

\* What a load adds in a step that reads.
LoadReads(l) ==
  LET r == loads[l]
      q == loads'[l]
  IN  /\ q.lapse = r.lapse
      /\ \/ /\ r.pc = "rows" /\ q.pc = "windows"
            /\ \A c \in Conversations : q.rows[c] = RowOf(c)
         \/ /\ r.pc = "windows" /\ q.pc = "storing" /\ q.rows = r.rows
            /\ \A c \in Conversations : q.wins[c] = server[c].window
         \/ /\ r.pc = "lasts" /\ q.pc = "counts" /\ q.rows = r.rows /\ q.wins = r.wins
            /\ \A c \in Conversations :
                 q.lasts[c] = IF r.rows[c] = "absent" THEN NoMessage ELSE LastOf(c)
         \/ /\ r.pc = "counts" /\ q.pc = "commit" /\ l = newest
            /\ q.rows = r.rows /\ q.wins = r.wins /\ q.lasts = r.lasts
            /\ \A c \in Conversations : q.counts[c] = UnreadOf(c)

\* A read of a load adds the answer, and nothing else changes.
LEMMA LoadReadIs ==
  ASSUME HomeTyped, NEW l \in Slots,
         LoadRows(l) \/ LoadWindows(l) \/ LoadLasts(l) \/ LoadCounts(l)
  PROVE  /\ LoadReads(l) /\ \A o \in Slots \ {l} : loads'[o] = loads[o]
         /\ server' = server /\ feed' = feed /\ channel' = channel /\ newest' = newest /\ cycles' = cycles
         /\ pending' = pending /\ view' = view /\ mirror' = mirror /\ owed' = owed /\ slips' = slips
         /\ window' = window
  <1> DEFINE r == loads[l]
  <1>1. r \in LoadType /\ loads \in [Slots -> LoadType]
    BY DEF HomeTyped
  <1>2. ASSUME NEW new, Reading(l, new), window' = window
        PROVE  /\ loads'[l] = new /\ \A o \in Slots \ {l} : loads'[o] = loads[o]
               /\ server' = server /\ feed' = feed /\ channel' = channel /\ newest' = newest /\ cycles' = cycles
               /\ pending' = pending /\ view' = view /\ mirror' = mirror /\ owed' = owed /\ slips' = slips
               /\ window' = window
    BY <1>1, <1>2 DEF Reading, LoadFrame
  <1>3. CASE LoadRows(l)
    <2> DEFINE f == [c \in Conversations |-> RowOf(c)]
               new == [r EXCEPT !.pc = "windows", !.rows = f]
    <2>1. Reading(l, new) /\ window' = window /\ r.pc = "rows"
      BY <1>3 DEF LoadRows
    <2>2. \A c \in Conversations : f[c] = RowOf(c)
      OBVIOUS
    <2> HIDE DEF f, r
    <2>3. new.pc = "windows" /\ new.rows = f /\ new.lapse = r.lapse
      BY <1>1 DEF LoadType
    <2> HIDE DEF new
    <2>4. QED
      BY <1>2, <2>1, <2>2, <2>3 DEF LoadReads, r
  <1>4. CASE LoadWindows(l)
    <2> DEFINE f == ServerWindows
               new == [r EXCEPT !.pc = "storing", !.wins = f]
    <2>1. Reading(l, new) /\ window' = window /\ r.pc = "windows"
      BY <1>4 DEF LoadWindows
    <2>2. \A c \in Conversations : f[c] = server[c].window
      BY DEF ServerWindows
    <2> HIDE DEF f, r
    <2>3. new.pc = "storing" /\ new.wins = f /\ new.lapse = r.lapse /\ new.rows = r.rows
      BY <1>1 DEF LoadType
    <2> HIDE DEF new
    <2>4. QED
      BY <1>2, <2>1, <2>2, <2>3 DEF LoadReads, r
  <1>5. CASE LoadLasts(l)
    <2> DEFINE f == [c \in Conversations |-> IF r.rows[c] = "absent" THEN NoMessage ELSE LastOf(c)]
               new == [r EXCEPT !.pc = "counts", !.lasts = f]
    <2>1. Reading(l, new) /\ window' = window /\ r.pc = "lasts"
      BY <1>5 DEF LoadLasts
    <2>2. \A c \in Conversations : f[c] = IF r.rows[c] = "absent" THEN NoMessage ELSE LastOf(c)
      OBVIOUS
    <2> HIDE DEF f, r
    <2>3. new.pc = "counts" /\ new.lasts = f /\ new.lapse = r.lapse /\ new.rows = r.rows /\ new.wins = r.wins
      BY <1>1 DEF LoadType
    <2> HIDE DEF new
    <2>4. QED
      BY <1>2, <2>1, <2>2, <2>3 DEF LoadReads, r
  <1>6. CASE LoadCounts(l)
    <2> DEFINE f == [c \in Conversations |-> UnreadOf(c)]
               new == [r EXCEPT !.pc = "commit", !.counts = f]
    <2>1. Reading(l, new) /\ window' = window /\ r.pc = "counts" /\ l = newest
      BY <1>6 DEF LoadCounts, isCurrent
    <2>2. \A c \in Conversations : f[c] = UnreadOf(c)
      OBVIOUS
    <2> HIDE DEF f, r
    <2>3. new.pc = "commit" /\ new.counts = f /\ new.lapse = r.lapse /\ new.rows = r.rows /\ new.wins = r.wins
          /\ new.lasts = r.lasts
      BY <1>1 DEF LoadType
    <2> HIDE DEF new
    <2>4. QED
      BY <1>2, <2>1, <2>2, <2>3 DEF LoadReads, r
  <1>7. QED
    BY <1>3, <1>4, <1>5, <1>6

\* What the server answers is right, and sane.
LEMMA AnswersRight ==
  ASSUME HomeTyped, ServerKept, FeedKept, NEW c \in Conversations
  PROVE  /\ RowOf(c) \in RowReads(c) /\ server[c].window \in WinReads(c) /\ LastOf(c) \in LastReads(c)
         /\ LastOf(c) \in Read(c) /\ NoMessage \in Read(c)
         /\ RowOf(c) # "absent" => server[c].row # "absent"
         /\ Live(c) => LastOf(c).k = Count(c)
         /\ "absent" \in RowReads(c) => NoMessage \in LastReads(c)
         /\ RowOf(c) = "absent" => window[c] \in WinReads(c)
         /\ Badge(c)[Count(c)] = Cardinality(Unread(c))
  <1>1. /\ RowOf(c) \in RowType /\ server[c].window \in WindowType /\ LastOf(c) \in MessageType
        /\ Count(c) \in 0 .. MaxMessages /\ MaxMessages \in Nat /\ window[c] \in WindowType
        /\ UnreadOf(c) = Cardinality(Unread(c)) /\ Unread(c) \subseteq 1 .. Count(c)
    BY ReadTypes, HomeBoundsAssumption DEF HomeTyped
  <1>2. /\ server[c].row \in {"absent", "pending", "accepted", "deleted"}
        /\ server[c].row = "absent" => Count(c) = 0 /\ server[c].window = Open /\ window[c] = Open
        /\ Live(c) <=> server[c].row \in {"pending", "accepted"}
        /\ Live(c) => RowOf(c) = server[c].row
        /\ ~Live(c) => RowOf(c) = "absent" /\ LastOf(c) = NoMessage
    BY ServerFacts
  <1>3. NoMessage \in MessageType /\ NoMessage.k = 0
    BY WindowsTyped DEF NoMessage
  <1>4. /\ Live(c) => LastOf(c).k = Count(c)
        /\ Count(c) = 0 => LastOf(c) = NoMessage
        /\ LastOf(c).k \in 0 .. Count(c) /\ (LastOf(c).k = 0 => LastOf(c) = NoMessage)
    BY <1>1, <1>2, <1>3 DEF LastOf, Count
  <1>5. RowOf(c) \in RowReads(c) /\ server[c].window \in WinReads(c)
    BY <1>1 DEF RowReads, WinReads
  <1>6. LastOf(c) \in LastReads(c)
    BY <1>1, <1>2, <1>4, <1>3 DEF LastReads
  <1>7. LastOf(c) \in Read(c) /\ NoMessage \in Read(c)
    BY <1>1, <1>3, <1>4 DEF Read
  <1>8. ASSUME "absent" \in RowReads(c) PROVE NoMessage \in LastReads(c)
    <2>1. CASE Coming(c, "gone")
      BY <1>3, <2>1, EventRow DEF LastReads
    <2>2. CASE Coming(c, "row")
      <3>1. \A k \in 1 .. Count(c) : Inserting(c, k)
        BY <2>2 DEF Coming, FeedKept, EventKept
      <3>2. CASE Count(c) = 0
        BY <1>3, <1>4, <3>2 DEF LastReads
      <3>3. CASE Count(c) # 0
        BY <1>1, <1>3, <3>1, <3>3 DEF LastReads, Posting
      <3>4. QED
        BY <3>2, <3>3
    <2>3. CASE RowOf(c) = "absent"
      BY <1>2, <1>3, <1>4, <2>3 DEF LastReads
    <2>4. QED
      BY <1>8, <2>1, <2>2, <2>3 DEF RowReads
  <1>9. RowOf(c) = "absent" => window[c] \in WinReads(c)
    BY <1>1, <1>2 DEF WinReads
  <1>10. Badge(c)[Count(c)] = Cardinality(Unread(c))
    <2>1. Counted(c, Count(c)) = Unread(c)
      BY <1>1 DEF Counted
    <2>2. QED
      BY <1>1, <2>1 DEF Badge
  <1>11. QED
    BY <1>2, <1>4, <1>5, <1>6, <1>7, <1>8, <1>9, <1>10

\* A load reads the rows, the windows, the newest messages, the counts.
LEMMA LoadReadKept ==
  ASSUME HomeInv, NEW l \in Slots, LoadRows(l) \/ LoadWindows(l) \/ LoadLasts(l) \/ LoadCounts(l)
  PROVE  HomeInv'
  <1>0. HomeTyped /\ ServerKept /\ FeedKept /\ ReadsSane /\ GatesKept /\ \A c \in Conversations : HomeKept(c)
    BY DEF HomeInv, HomeKept
  <1> DEFINE r == loads[l]
             q == loads'[l]
  <1>1. /\ LoadReads(l) /\ \A o \in Slots \ {l} : loads'[o] = loads[o]
        /\ server' = server /\ feed' = feed /\ channel' = channel /\ newest' = newest /\ cycles' = cycles
        /\ pending' = pending /\ view' = view /\ mirror' = mirror /\ owed' = owed /\ slips' = slips
        /\ window' = window
    BY <1>0, LoadReadIs
  <1>2. HomeTyped' /\ newest \in Slots
    BY <1>0, LoadReadTyped DEF HomeTyped
  <1>3. FeedKept' /\ \A c \in Conversations : Persist(c) /\ Awaited(c)' = Awaited(c)
    BY <1>0, <1>1, FeedSame
  <1>4. \A c \in Conversations :
          /\ Live(c)' = Live(c) /\ Count(c)' = Count(c) /\ Read(c)' = Read(c)
          /\ RowReads(c)' = RowReads(c) /\ WinReads(c)' = WinReads(c) /\ LastReads(c)' = LastReads(c)
          /\ Badge(c)' = Badge(c) /\ Slips(c)' = Slips(c) /\ Followed(c)' = Followed(c)
    <2>1. \A c \in Conversations : Slips(c)' = Slips(c) /\ Followed(c)' = Followed(c)
      BY <1>1 DEF Slips, Followed
    <2>2. QED
      BY <1>1, <1>3, <2>1, Unmoved
  <1>5. \A c \in Conversations : WindowSame(c)
    BY <1>1 DEF WindowSame
  <1>6. ServerKept'
    BY <1>0, <1>1 DEF ServerKept
  <1>7. ReadsSane'
    <2>1. ASSUME NEW c \in Conversations, NEW o \in Slots
          PROVE  /\ loads'[o].pc \in {"windows", "storing", "lasts", "counts", "commit"} /\ loads'[o].rows[c] # "absent" =>
                      server[c].row # "absent"
                 /\ loads'[o].pc \in {"counts", "commit"} => loads'[o].lasts[c] \in Read(c)
      <3>1. /\ loads[o].pc \in {"windows", "storing", "lasts", "counts", "commit"} /\ loads[o].rows[c] # "absent" =>
                 server[c].row # "absent"
            /\ loads[o].pc \in {"counts", "commit"} => loads[o].lasts[c] \in Read(c)
        BY <1>0 DEF ReadsSane
      <3>2. CASE o # l
        BY <1>1, <3>1, <3>2
      <3>3. CASE o = l
        <4>1. /\ RowOf(c) # "absent" => server[c].row # "absent"
              /\ LastOf(c) \in Read(c) /\ NoMessage \in Read(c)
          BY <1>0, AnswersRight
        <4>2. QED
          BY <1>1, <3>1, <3>3, <4>1 DEF LoadReads
      <3>4. QED
        BY <3>2, <3>3
    <2>2. QED
      BY <1>0, <1>1, <1>4, <2>1 DEF ReadsSane
  <1>8. GatesKept'
    <2>1. q.lapse = r.lapse /\ q.pc # "idle" /\ r.pc # "idle"
      BY <1>1 DEF LoadReads
    <2>2. Loading'
      BY <2>1 DEF Loading
    <2>3. loads'[newest].pc # "idle" => loads'[newest].lapse \subseteq owed
      BY <1>0, <1>1, <1>2, <2>1 DEF GatesKept
    <2>4. QED
      BY <1>0, <1>1, <2>1, <2>2, <2>3 DEF GatesKept
  <1>9. ASSUME NEW c \in Conversations PROVE LoadKept(c)'
    <2>1. CASE l # newest
      <3>1. LoadSame(c)
        <4>1. loads'[newest] = loads[newest]
          BY <1>1, <1>2, <2>1
        <4>2. CASE c \notin loads[newest].lapse \cup pending
          BY <1>1, <1>2, <4>1, <4>2 DEF LoadSame
        <4>3. CASE c \in loads[newest].lapse \cup pending
          BY <1>1, <4>1, <4>3 DEF LoadSame
        <4>4. QED
          BY <4>2, <4>3
      <3>2. QED
        BY <1>0, <1>3, <1>5, <3>1, LoadKeeps DEF HomeKept
    <2>2. CASE l = newest
      <3>1. CASE c \in r.lapse \cup pending
        BY <1>1, <2>2, <3>1 DEF LoadKept, LoadReads
      <3>2. CASE c \notin r.lapse \cup pending
        <4>1. /\ Followed(c) =>
                   /\ r.pc \in {"windows", "storing", "lasts", "counts", "commit"} => r.rows[c] \in RowReads(c)
                   /\ r.pc = "storing" => r.wins[c] \in WinReads(c)
                   /\ r.pc \in {"lasts", "counts", "commit"} => {r.wins[c], window[c]} \subseteq WinReads(c)
                   /\ r.pc \in {"counts", "commit"} => r.lasts[c] \in LastReads(c)
              /\ Slips(c) = {} /\ Live(c) /\ r.pc \in {"counts", "commit"} /\ r.rows[c] # "absent" =>
                   /\ r.pc = "counts" => r.lasts[c].k = Count(c)
                   /\ r.pc = "commit" => r.counts[c] = Badge(c)[r.lasts[c].k]
          BY <1>0, <2>2, <3>2 DEF HomeKept, LoadKept
        <4>2. /\ RowOf(c) \in RowReads(c) /\ server[c].window \in WinReads(c) /\ LastOf(c) \in LastReads(c)
              /\ Live(c) => LastOf(c).k = Count(c)
              /\ "absent" \in RowReads(c) => NoMessage \in LastReads(c)
              /\ UnreadOf(c) = Badge(c)[Count(c)]
          BY <1>0, AnswersRight, ReadTypes
        <4>3. LoadReads(l)
          BY <1>1
        <4> HIDE DEF r, q
        <4>4. Followed(c) =>
                   /\ q.pc \in {"windows", "storing", "lasts", "counts", "commit"} => q.rows[c] \in RowReads(c)
                   /\ q.pc = "storing" => q.wins[c] \in WinReads(c)
                   /\ q.pc \in {"lasts", "counts", "commit"} => {q.wins[c], window'[c]} \subseteq WinReads(c)
                   /\ q.pc \in {"counts", "commit"} => q.lasts[c] \in LastReads(c)
          <5>1. CASE r.pc = "rows" /\ q.pc = "windows" /\ q.rows[c] = RowOf(c)
            BY <4>2, <5>1
          <5>2. CASE /\ r.pc = "windows" /\ q.pc = "storing" /\ q.rows = r.rows
                     /\ q.wins[c] = server[c].window
            BY <4>1, <4>2, <5>2
          <5>3. CASE /\ r.pc = "lasts" /\ q.pc = "counts" /\ q.rows = r.rows /\ q.wins = r.wins
                     /\ q.lasts[c] = IF r.rows[c] = "absent" THEN NoMessage ELSE LastOf(c)
            <6>1. Followed(c) => q.rows[c] \in RowReads(c) /\ {q.wins[c], window'[c]} \subseteq WinReads(c)
              BY <1>1, <4>1, <5>3
            <6>2. Followed(c) => q.lasts[c] \in LastReads(c)
              BY <4>1, <4>2, <5>3
            <6>3. QED
              BY <5>3, <6>1, <6>2
          <5>4. CASE /\ r.pc = "counts" /\ q.pc = "commit" /\ q.rows = r.rows /\ q.wins = r.wins
                     /\ q.lasts = r.lasts
            BY <1>1, <4>1, <5>4
          <5>5. QED
            BY <4>3, <5>1, <5>2, <5>3, <5>4 DEF LoadReads, r, q
        <4>5. Slips(c) = {} /\ Live(c) /\ q.pc \in {"counts", "commit"} /\ q.rows[c] # "absent" =>
                   /\ q.pc = "counts" => q.lasts[c].k = Count(c)
                   /\ q.pc = "commit" => q.counts[c] = Badge(c)[q.lasts[c].k]
          BY <4>1, <4>2, <4>3 DEF LoadReads, r, q
        <4>6. q = loads'[newest'] /\ q.lapse = r.lapse /\ pending' = pending
          BY <1>1, <2>2 DEF q, r, LoadReads
        <4>7. QED
          BY <1>4, <4>4, <4>5, <4>6 DEF LoadKept
      <3>3. QED
        BY <3>1, <3>2
    <2>3. QED
      BY <2>1, <2>2
  <1>10. ASSUME NEW c \in Conversations PROVE CycleKept(c)' /\ ViewKept(c)' /\ HiddenKept(c)'
    <2>1. \A g \in Schedulers : PassSame(c, g)
      BY <1>1 DEF PassSame
    <2>2. EntrySame(c)
      BY <1>1 DEF EntrySame, Cycling
    <2>3. CycleKept(c)'
      BY <1>0, <1>3, <1>5, <2>1, CycleKeeps DEF HomeKept
    <2>4. ViewKept(c)'
      BY <1>0, <1>2, <1>3, <1>5, <2>2, ViewKeeps DEF HomeKept, HomeTyped
    <2>5. HiddenKept(c)'
      BY <1>0, <1>1, HiddenKeeps DEF HomeKept
    <2>6. QED
      BY <2>3, <2>4, <2>5
  <1>11. QED
    BY <1>2, <1>3, <1>6, <1>7, <1>8, <1>9, <1>10 DEF HomeInv

-----------------------------------------------------------------------------
(***************************************************************************)
(* Renders, starts of loads, blind answers and outages keep it.            *)
(***************************************************************************)
\* The parts of the invariant.
LEMMA InvParts ==
  ASSUME HomeInv
  PROVE  HomeTyped /\ ServerKept /\ FeedKept /\ ReadsSane /\ GatesKept /\ \A c \in Conversations : HomeKept(c)
  BY DEF HomeInv, HomeKept

\* What was read of the server where the server is the same.
LEMMA ReadSame ==
  ASSUME server' = server, feed' = feed
  PROVE  \A c \in Conversations :
           /\ Live(c)' = Live(c) /\ Count(c)' = Count(c) /\ Unread(c)' = Unread(c)
           /\ RowReads(c)' = RowReads(c) /\ WinReads(c)' = WinReads(c) /\ LastReads(c)' = LastReads(c)
           /\ Fitting(c)' = Fitting(c) /\ Exact(c)' = Exact(c) /\ Badge(c)' = Badge(c)
           /\ Truth(c)' = Truth(c) /\ Read(c)' = Read(c)
  BY FeedStill, Unmoved

\* A render, a join, or nothing.
LEMMA RenderKept ==
  ASSUME HomeInv, Render \/ Join \/ UNCHANGED homeVars
  PROVE  HomeInv'
  <1>0. HomeTyped /\ ServerKept /\ FeedKept /\ ReadsSane /\ GatesKept /\ \A c \in Conversations : HomeKept(c)
    BY InvParts
  <1>1. /\ server' = server /\ feed' = feed /\ newest' = newest /\ cycles' = cycles /\ loads' = loads
        /\ pending' = pending /\ view' = view /\ window' = window /\ owed' = owed /\ slips' = slips
        /\ channel' \in {channel, "live"}
        /\ mirror' = mirror \/ mirror' = Seen
    BY DEF Render, Join, homeVars, listVars
  <1>2. HomeTyped'
    BY <1>0, OtherTyped DEF HomeTyped, homeVars, listVars, bounds
  <1>3. FeedKept' /\ \A c \in Conversations : Persist(c)
    BY <1>0, <1>1, FeedSame
  <1>4. ServerKept' /\ GatesKept'
    BY <1>0, <1>1 DEF ServerKept, GatesKept, Loading
  <1>5. ReadsSane'
    <2>1. \A c \in Conversations : Read(c)' = Read(c) /\ mirror'[c].last \in Read(c)
      BY <1>0, <1>1, ReadSame DEF ReadsSane, Seen
    <2>2. QED
      BY <1>0, <1>1, <2>1 DEF ReadsSane
  <1>6. \A c \in Conversations : LoadSame(c) /\ (\A g \in Schedulers : PassSame(c, g)) /\ EntrySame(c) /\ WindowSame(c)
    <2>1. \A c \in Conversations : LoadSame(c)
      BY <1>0, <1>1 DEF LoadSame, HomeTyped
    <2>2. \A c \in Conversations : \A g \in Schedulers : PassSame(c, g)
      BY <1>1 DEF PassSame
    <2>3. \A c \in Conversations : EntrySame(c) /\ WindowSame(c)
      BY <1>1 DEF EntrySame, Cycling, WindowSame
    <2>4. QED
      BY <2>1, <2>2, <2>3
  <1>7. \A c \in Conversations : LoadKept(c)' /\ CycleKept(c)' /\ ViewKept(c)'
    BY <1>0, <1>2, <1>3, <1>6, Unconcerned
  <1>8. \A c \in Conversations : HiddenKept(c)'
    BY <1>0, <1>1, HiddenKeeps DEF HomeKept
  <1>9. QED
    BY <1>2, <1>3, <1>4, <1>5, <1>7, <1>8 DEF HomeInv

\* A load starts.
LEMMA StartKept ==
  ASSUME HomeInv, NEW l \in Slots, StartLoad(l) \/ GoOnline(l)
  PROVE  HomeInv'
  <1>0. HomeTyped /\ ServerKept /\ FeedKept /\ ReadsSane /\ GatesKept /\ \A c \in Conversations : HomeKept(c)
    BY InvParts
  <1>1. /\ server' = server /\ feed' = feed /\ newest' = l /\ cycles' = cycles
        /\ loads' = [loads EXCEPT ![l] = StartedLoad]
        /\ pending' = pending /\ view' = view /\ window' = window /\ owed' = owed /\ slips' = slips
        /\ channel' = channel \/ channel # "live"
        /\ mirror' = mirror
    BY DEF StartLoad, GoOnline, listVars
  <1>2. HomeTyped'
    BY <1>0, StartsTyped
  <1>3. FeedKept' /\ \A c \in Conversations : Persist(c)
    BY <1>0, <1>1, FeedSame
  <1>4. /\ loads'[l] = StartedLoad /\ StartedLoad.pc = "rows" /\ StartedLoad.lapse = {}
        /\ \A o \in Slots \ {l} : loads'[o] = loads[o]
    BY <1>0, <1>1, LoadTyped DEF HomeTyped
  <1>5. ServerKept' /\ GatesKept'
    <2>1. Loading'
      BY <1>4 DEF Loading
    <2>2. \A o \in Slots : loads'[o].pc = "idle" => loads'[o] = IdleLoad
      BY <1>0, <1>4 DEF GatesKept
    <2>3. loads'[newest'].pc # "idle" => loads'[newest'].lapse \subseteq owed'
      BY <1>1, <1>4
    <2>4. QED
      BY <1>0, <1>1, <2>1, <2>2, <2>3 DEF ServerKept, GatesKept
  <1>6. ReadsSane'
    <2>1. \A c \in Conversations : Read(c)' = Read(c)
      BY <1>1, ReadSame
    <2>2. ASSUME NEW c \in Conversations, NEW o \in Slots
          PROVE  /\ loads'[o].pc \in {"windows", "storing", "lasts", "counts", "commit"} /\ loads'[o].rows[c] # "absent" =>
                      server'[c].row # "absent"
                 /\ loads'[o].pc \in {"counts", "commit"} => loads'[o].lasts[c] \in Read(c)'
      BY <1>0, <1>1, <1>4, <2>1 DEF ReadsSane
    <2>3. QED
      BY <1>0, <1>1, <2>1, <2>2 DEF ReadsSane
  <1>7. \A c \in Conversations : LoadSame(c) /\ (\A g \in Schedulers : PassSame(c, g)) /\ EntrySame(c) /\ WindowSame(c)
    <2>1. \A c \in Conversations : LoadSame(c)
      BY <1>1, <1>4 DEF LoadSame
    <2>2. \A c \in Conversations : \A g \in Schedulers : PassSame(c, g)
      BY <1>1 DEF PassSame
    <2>3. \A c \in Conversations : EntrySame(c) /\ WindowSame(c)
      BY <1>1 DEF EntrySame, Cycling, WindowSame
    <2>4. QED
      BY <2>1, <2>2, <2>3
  <1>8. \A c \in Conversations : LoadKept(c)' /\ CycleKept(c)' /\ ViewKept(c)'
    BY <1>0, <1>2, <1>3, <1>7, Unconcerned
  <1>9. \A c \in Conversations : HiddenKept(c)'
    BY <1>0, <1>1, HiddenKeeps DEF HomeKept
  <1>10. QED
    BY <1>2, <1>3, <1>5, <1>6, <1>8, <1>9 DEF HomeInv

\* A load takes an error for no windows or for no unread messages.
LEMMA LoadBlindKept ==
  ASSUME HomeInv, NEW l \in Slots, LoadNoWindows(l) \/ LoadNoCounts(l)
  PROVE  HomeInv'
  <1>0. HomeTyped /\ ServerKept /\ FeedKept /\ ReadsSane /\ GatesKept /\ \A c \in Conversations : HomeKept(c)
    BY InvParts
  <1>1. /\ \A o \in Slots :
              /\ loads[o].pc = "idle" => loads'[o].pc = "idle" /\ loads'[o] = IdleLoad
              /\ loads'[o].pc # "idle" => loads'[o].lapse = loads[o].lapse \cup Conversations
              /\ loads'[o].pc \in {"windows", "storing", "lasts", "counts", "commit"} =>
                   loads'[o].rows = loads[o].rows
                   /\ loads[o].pc \in {"windows", "storing", "lasts", "counts", "commit"}
              /\ loads'[o].pc \in {"counts", "commit"} =>
                   loads'[o].lasts = loads[o].lasts /\ loads[o].pc \in {"counts", "commit"}
        /\ (window' = window \/ window' = NoWindows)
        /\ owed' = Conversations /\ newest' = newest /\ cycles' = cycles /\ pending' = pending
        /\ view' = view /\ loads[l].pc # "idle" /\ slips' = slips
        /\ server' = server /\ feed' = feed /\ channel' = channel /\ mirror' = mirror
    BY <1>0, LoadBlindIs DEF LoadFrame
  <1>2. HomeTyped' /\ newest \in Slots /\ \A o \in Slots : loads'[o].lapse \subseteq Conversations
    <2>1. HomeTyped'
      BY <1>0, LoadBlindTyped
    <2>2. QED
      BY <1>0, <2>1 DEF HomeTyped, LoadType
  <1>3. FeedKept'
    BY <1>0, <1>1, FeedSame
  <1>4. ServerKept'
    BY <1>0, <1>1 DEF ServerKept, NoWindows
  <1>5. loads'[l].pc # "idle"
    <2>1. LoadNoWindows(l) \/ LoadNoCounts(l)
      OBVIOUS
    <2>2. loads \in [Slots -> LoadType] /\ (\A o \in Slots : Filled(loads[o])) /\ loads[l] \in LoadType
      BY <1>0 DEF HomeTyped
    <2> DEFINE a == [loads[l] EXCEPT !.pc = "lasts", !.wins = NoWindows]
               b == [loads[l] EXCEPT !.pc = "commit", !.counts = [c \in Conversations |-> 0]]
    <2>3. loads' = Lapsed(Conversations, [loads EXCEPT ![l] = a])
          \/ loads' = Lapsed(Conversations, [loads EXCEPT ![l] = b])
      BY <2>1 DEF LoadNoWindows, LoadNoCounts
    <2>4. a.pc = "lasts" /\ b.pc = "commit"
      BY <2>2 DEF LoadType
    <2> HIDE DEF a, b
    <2>5. \A x : x.pc # "idle" =>
            Lapsed(Conversations, [loads EXCEPT ![l] = x])[l] = [x EXCEPT !.lapse = @ \cup Conversations]
      BY <2>2 DEF Lapsed
    <2>6. loads'[l] = [a EXCEPT !.lapse = @ \cup Conversations] \/ loads'[l] = [b EXCEPT !.lapse = @ \cup Conversations]
      BY <2>3, <2>4, <2>5
    <2>7. [a EXCEPT !.lapse = @ \cup Conversations].pc = "lasts" /\ [b EXCEPT !.lapse = @ \cup Conversations].pc = "commit"
      BY <2>2 DEF LoadType, a, b
    <2>8. QED
      BY <2>6, <2>7
  <1>6. GatesKept'
    <2>1. Loading'
      BY <1>5 DEF Loading
    <2>2. \A o \in Slots : loads'[o].pc = "idle" => loads'[o] = IdleLoad
      <3>1. \A o \in Slots : loads[o].pc # "idle" => loads'[o].pc # "idle"
        <4>1. \A o \in Slots \ {l} : loads[o].pc # "idle" => loads'[o].pc # "idle"
          BY <1>0 DEF LoadNoWindows, LoadNoCounts, Lapsed, HomeTyped, LoadType
        <4>2. QED
          BY <1>5, <4>1
      <3>2. QED
        BY <1>1, <3>1
    <2>3. QED
      BY <1>1, <1>2, <2>1, <2>2 DEF GatesKept
  <1>7. ReadsSane'
    <2>1. \A c \in Conversations : Read(c)' = Read(c)
      BY <1>1, ReadSame
    <2>2. ASSUME NEW c \in Conversations, NEW o \in Slots
          PROVE  /\ loads'[o].pc \in {"windows", "storing", "lasts", "counts", "commit"} /\ loads'[o].rows[c] # "absent" =>
                      server'[c].row # "absent"
                 /\ loads'[o].pc \in {"counts", "commit"} => loads'[o].lasts[c] \in Read(c)'
      BY <1>0, <1>1, <2>1 DEF ReadsSane
    <2>3. QED
      BY <1>0, <1>1, <2>1, <2>2 DEF ReadsSane
  <1>8. \A c \in Conversations : Left(c)
    BY <1>1, <1>2 DEF Left
  <1>9. \A c \in Conversations : LoadKept(c)' /\ CycleKept(c)' /\ ViewKept(c)'
    BY <1>8, LeftKept
  <1>10. \A c \in Conversations : HiddenKept(c)'
    BY <1>0, <1>1, HiddenKeeps DEF HomeKept
  <1>11. QED
    BY <1>2, <1>3, <1>4, <1>6, <1>7, <1>9, <1>10 DEF HomeInv

\* The network goes away.
LEMMA OfflineKept == HomeInv /\ GoOffline => HomeInv'
  <1> SUFFICES ASSUME HomeInv, GoOffline PROVE HomeInv'
    OBVIOUS
  <1>0. HomeTyped /\ ServerKept /\ FeedKept /\ ReadsSane /\ GatesKept /\ \A c \in Conversations : HomeKept(c)
    BY InvParts
  <1>1. PICK S \in SUBSET Conversations :
           /\ S = {c \in Conversations : Awaited(c) # {}}
           /\ owed' = owed \cup S /\ loads' = Lapsed(S, loads)
           /\ feed' = <<>> /\ channel' = "off"
           /\ server' = server /\ newest' = newest /\ cycles' = cycles /\ pending' = pending
           /\ view' = view /\ window' = window /\ mirror' = mirror /\ slips' = slips
    BY <1>0, OfflineIs
  <1>2. HomeTyped'
    BY <1>0, OtherTyped
  <1>3. \A c \in Conversations : Awaited(c)' = {}
    <2>1. ToSet(<<>>) = {}
      BY DEF ToSet
    <2>2. QED
      BY <1>1, <2>1 DEF Awaited
  <1>4. FeedKept'
    BY <1>1, <1>3 DEF FeedKept
  <1>5. ServerKept'
    BY <1>0, <1>1 DEF ServerKept
  <1>6. GatesKept' /\ \A c \in Conversations : LoadSame(c) /\ (c \in S => Left(c))
    BY <1>0, <1>1, LoadsLapsed
  <1>7. ReadsSane'
    <2>1. \A c \in Conversations : Read(c)' = Read(c)
      BY <1>1 DEF Read, Count
    <2>2. \A o \in Slots :
            /\ loads'[o].pc = loads[o].pc
            /\ loads[o].pc # "idle" => loads'[o].rows = loads[o].rows /\ loads'[o].lasts = loads[o].lasts
      <3>1. loads \in [Slots -> LoadType] /\ (\A l \in Slots : Filled(loads[l]))
        BY <1>0 DEF HomeTyped
      <3>2. QED
        BY <1>1, <3>1, LapsedIs
    <2>3. ASSUME NEW c \in Conversations, NEW o \in Slots
          PROVE  /\ loads'[o].pc \in {"windows", "storing", "lasts", "counts", "commit"} /\ loads'[o].rows[c] # "absent" =>
                      server'[c].row # "absent"
                 /\ loads'[o].pc \in {"counts", "commit"} => loads'[o].lasts[c] \in Read(c)'
      <3>1. /\ loads[o].pc \in {"windows", "storing", "lasts", "counts", "commit"} /\ loads[o].rows[c] # "absent" =>
                 server[c].row # "absent"
            /\ loads[o].pc \in {"counts", "commit"} => loads[o].lasts[c] \in Read(c)
        BY <1>0 DEF ReadsSane
      <3>2. QED
        BY <1>1, <2>1, <2>2, <3>1
    <2>4. QED
      BY <1>0, <1>1, <2>1, <2>3 DEF ReadsSane
  <1>8. \A c \in Conversations \ S : Persist(c)
    <2>1. \A c \in Conversations \ S : Awaited(c)' = Awaited(c)
      BY <1>1, <1>3
    <2>2. QED
      BY <1>1, <2>1, UnmovedPersist
  <1>9. \A c \in Conversations : (\A g \in Schedulers : PassSame(c, g)) /\ EntrySame(c) /\ WindowSame(c)
    <2>1. \A c \in Conversations : \A g \in Schedulers : PassSame(c, g)
      BY <1>1 DEF PassSame
    <2>2. \A c \in Conversations : EntrySame(c) /\ WindowSame(c)
      BY <1>1 DEF EntrySame, Cycling, WindowSame
    <2>3. QED
      BY <2>1, <2>2
  <1>10. \A c \in Conversations : LoadKept(c)' /\ CycleKept(c)' /\ ViewKept(c)'
    <2>1. \A c \in Conversations \ S : LoadKept(c)' /\ CycleKept(c)' /\ ViewKept(c)'
      BY <1>0, <1>2, <1>6, <1>8, <1>9, Unconcerned
    <2>2. \A c \in S : LoadKept(c)' /\ CycleKept(c)' /\ ViewKept(c)'
      BY <1>6, LeftKept
    <2>3. QED
      BY <2>1, <2>2
  <1>11. \A c \in Conversations : HiddenKept(c)'
    BY <1>0, <1>1, HiddenKeeps DEF HomeKept
  <1>12. QED
    BY <1>2, <1>4, <1>5, <1>6, <1>7, <1>10, <1>11 DEF HomeInv

-----------------------------------------------------------------------------
(***************************************************************************)
(* A load that ends without a commit keeps it.                             *)
(***************************************************************************)
\* A pass that was asked to run again knows what it knew.
LEMMA RescheduledIs ==
  ASSUME HomeTyped, NEW c \in Conversations, Rescheduled(c), NEW g \in Schedulers
  PROVE  LET p == cycles[c][g]
             q == cycles'[c][g]
         IN  /\ p.pass > 0 => q.pass > 0
             /\ \/ q.asked = {} /\ q.row = "absent" /\ q.last = NoMessage /\ q.wins = NoWindows
                \/ /\ q.asked = p.asked /\ q.row = p.row /\ q.last = p.last /\ q.failed = p.failed
                   /\ q.wins = p.wins /\ q.win = p.win /\ q.count = p.count /\ q.raced = p.raced /\ q.pass = p.pass
  <1> DEFINE p == cycles[c][g]
             q == cycles'[c][g]
  <1>1. p \in PassType
    BY DEF HomeTyped
  <1>2. /\ p.pass > 0 => q.pass > 0
        /\ q = p \/ q = Pass(1) \/ q = [p EXCEPT !.rerun = TRUE]
    BY DEF Rescheduled
  <1> HIDE DEF p, q
  <1>3. /\ Pass(1).asked = {} /\ Pass(1).row = "absent" /\ Pass(1).last = NoMessage
        /\ Pass(1).wins = NoWindows
    BY PassTyped, HomeBoundsAssumption
  <1>4. /\ [p EXCEPT !.rerun = TRUE].pass = p.pass
        /\ [p EXCEPT !.rerun = TRUE].row = p.row /\ [p EXCEPT !.rerun = TRUE].last = p.last
        /\ [p EXCEPT !.rerun = TRUE].raced = p.raced /\ [p EXCEPT !.rerun = TRUE].asked = p.asked
        /\ [p EXCEPT !.rerun = TRUE].failed = p.failed /\ [p EXCEPT !.rerun = TRUE].win = p.win
        /\ [p EXCEPT !.rerun = TRUE].count = p.count /\ [p EXCEPT !.rerun = TRUE].wins = p.wins
    BY <1>1, RerunTyped
  <1>5. QED
    BY <1>2, <1>3, <1>4 DEF p, q

\* A load that ends leaves nothing behind but what it hands on.
LEMMA FinishKeeps ==
  ASSUME HomeTyped, ServerKept, FeedKept, ReadsSane, GatesKept, NEW l \in Slots, NEW left \in SUBSET Conversations,
         Finish(l, left), l # newest => owed \subseteq left, server' = server, feed' = feed
  PROVE  /\ GatesKept'
         /\ \A c \in Conversations : LoadSame(c)
         /\ \A c \in Conversations : \A o \in Slots :
              /\ loads'[o].pc \in {"windows", "storing", "lasts", "counts", "commit"} /\ loads'[o].rows[c] # "absent" =>
                   server'[c].row # "absent"
              /\ loads'[o].pc \in {"counts", "commit"} => loads'[o].lasts[c] \in Read(c)'
         /\ \A c \in Conversations : \A g \in Schedulers :
              /\ cycles'[c][g].last \in Read(c)'
              /\ cycles'[c][g].row # "absent" => server'[c].row # "absent"
              /\ cycles'[c][g].asked \cap {"last", "deletions", "window", "count"} # {} =>
                   "row" \in cycles'[c][g].asked /\ cycles'[c][g].row # "absent"
  <1>1. /\ loads'[l] \in {StartedLoad, IdleLoad} /\ \A o \in Slots \ {l} : loads'[o] = loads[o]
        /\ newest' \in Slots /\ (newest' # newest => newest' = l /\ loads'[l] = StartedLoad)
        /\ \A c \in Conversations : Rescheduled(c)
        /\ owed' \subseteq left \cup pending /\ left \subseteq owed' /\ owed' \subseteq Conversations
        /\ pending' \in {pending, {}} /\ (pending' # {} => Loading')
        /\ pending' # pending => \A o \in Slots \ {l} : loads[o].pc = "idle"
    BY FinishIs
  <1>2. newest \in Slots
    BY DEF HomeTyped
  <1>3. StartedLoad.pc = "rows" /\ StartedLoad.lapse = {} /\ IdleLoad.pc = "idle" /\ IdleLoad.lapse = {}
    BY LoadTyped DEF IdleLoad
  <1>4. GatesKept'
    <2>1. \A o \in Slots : loads'[o].pc = "idle" => loads'[o] = IdleLoad
      BY <1>1, <1>3 DEF GatesKept
    <2>2. loads'[newest'].pc # "idle" => loads'[newest'].lapse \subseteq owed'
      <3>1. CASE newest' = l
        BY <1>1, <1>3, <3>1
      <3>2. CASE newest' # l
        BY <1>1, <1>2, <3>2 DEF GatesKept
      <3>3. QED
        BY <3>1, <3>2
    <2>3. QED
      BY <1>1, <2>1, <2>2 DEF GatesKept
  <1>5. ASSUME NEW c \in Conversations PROVE LoadSame(c)
    <2>1. CASE newest' = l
      BY <1>1, <1>3, <2>1 DEF LoadSame
    <2>2. CASE newest' # l
      <3>1. newest' = newest /\ loads'[newest] = loads[newest]
        BY <1>1, <1>2, <2>2
      <3>2. CASE pending' = pending
        BY <1>2, <3>1, <3>2 DEF LoadSame
      <3>3. CASE pending' # pending
        BY <1>1, <1>2, <2>2, <3>1, <3>3 DEF LoadSame
      <3>4. QED
        BY <3>2, <3>3
    <2>3. QED
      BY <2>1, <2>2
  <1>6. ASSUME NEW c \in Conversations, NEW o \in Slots
        PROVE  /\ loads'[o].pc \in {"windows", "storing", "lasts", "counts", "commit"} /\ loads'[o].rows[c] # "absent" =>
                    server'[c].row # "absent"
               /\ loads'[o].pc \in {"counts", "commit"} => loads'[o].lasts[c] \in Read(c)'
    <2>1. Read(c)' = Read(c)
      BY ReadSame
    <2>2. /\ loads[o].pc \in {"windows", "storing", "lasts", "counts", "commit"} /\ loads[o].rows[c] # "absent" =>
               server[c].row # "absent"
          /\ loads[o].pc \in {"counts", "commit"} => loads[o].lasts[c] \in Read(c)
      BY DEF ReadsSane
    <2>3. QED
      BY <1>1, <1>3, <2>1, <2>2
  <1>7. ASSUME NEW c \in Conversations, NEW g \in Schedulers
        PROVE  /\ cycles'[c][g].last \in Read(c)'
               /\ cycles'[c][g].row # "absent" => server'[c].row # "absent"
               /\ cycles'[c][g].asked \cap {"last", "deletions", "window", "count"} # {} =>
                    "row" \in cycles'[c][g].asked /\ cycles'[c][g].row # "absent"
    <2>1. Read(c)' = Read(c) /\ NoMessage \in Read(c)
      BY ReadSame, AnswersRight
    <2>2. /\ cycles[c][g].last \in Read(c)
          /\ cycles[c][g].row # "absent" => server[c].row # "absent"
          /\ cycles[c][g].asked \cap {"last", "deletions", "window", "count"} # {} =>
               "row" \in cycles[c][g].asked /\ cycles[c][g].row # "absent"
      BY DEF ReadsSane
    <2>3. \/ cycles'[c][g].asked = {} /\ cycles'[c][g].row = "absent" /\ cycles'[c][g].last = NoMessage
          \/ /\ cycles'[c][g].asked = cycles[c][g].asked /\ cycles'[c][g].row = cycles[c][g].row
             /\ cycles'[c][g].last = cycles[c][g].last
      BY <1>1, RescheduledIs
    <2>4. QED
      BY <2>1, <2>2, <2>3
  <1>8. QED
    BY <1>4, <1>5, <1>6, <1>7

\* A load is discarded or fails.
LEMMA LoadStopsKept ==
  ASSUME HomeInv, NEW l \in Slots, LoadDiscarded(l) \/ LoadFails(l)
  PROVE  HomeInv'
  <1>0. HomeTyped /\ ServerKept /\ FeedKept /\ ReadsSane /\ GatesKept /\ \A c \in Conversations : HomeKept(c)
    BY InvParts
  <1>1. /\ Finish(l, owed) /\ view' = view /\ window' = window /\ server' = server /\ feed' = feed
        /\ channel' = channel /\ mirror' = mirror /\ slips' = slips
    BY DEF LoadDiscarded, LoadFails, LoadFrame
  <1>2. HomeTyped' /\ owed \in SUBSET Conversations
    BY <1>0, LoadStopsTyped DEF HomeTyped
  <1>3. FeedKept' /\ \A c \in Conversations : Persist(c)
    BY <1>0, <1>1, FeedSame
  <1>4. /\ GatesKept'
        /\ \A c \in Conversations : LoadSame(c)
        /\ \A c \in Conversations : \A o \in Slots :
              /\ loads'[o].pc \in {"windows", "storing", "lasts", "counts", "commit"} /\ loads'[o].rows[c] # "absent" =>
                   server'[c].row # "absent"
              /\ loads'[o].pc \in {"counts", "commit"} => loads'[o].lasts[c] \in Read(c)'
        /\ \A c \in Conversations : \A g \in Schedulers :
              /\ cycles'[c][g].last \in Read(c)'
              /\ cycles'[c][g].row # "absent" => server'[c].row # "absent"
              /\ cycles'[c][g].asked \cap {"last", "deletions", "window", "count"} # {} =>
                   "row" \in cycles'[c][g].asked /\ cycles'[c][g].row # "absent"
    BY <1>0, <1>1, <1>2, FinishKeeps
  <1>5. /\ \A c \in Conversations : Rescheduled(c) /\ (c \in pending => c \in pending' \cup owed' \/ Cycling(c)')
        /\ owed \subseteq owed'
    BY <1>0, <1>1, <1>2, FinishIs
  <1>6. ServerKept'
    BY <1>0, <1>1 DEF ServerKept
  <1>7. ReadsSane'
    <2>1. \A c \in Conversations : view'[c].last \in Read(c)' /\ mirror'[c].last \in Read(c)'
      BY <1>0, <1>1, ReadSame DEF ReadsSane
    <2>2. QED
      BY <1>4, <2>1 DEF ReadsSane
  <1>8. ASSUME NEW c \in Conversations
        PROVE  (\A g \in Schedulers : PassSame(c, g)) /\ EntrySame(c) /\ WindowSame(c)
    <2>1. ASSUME NEW g \in Schedulers PROVE PassSame(c, g)
      BY <1>0, <1>1, <1>5, RescheduledIs DEF PassSame
    <2>2. EntrySame(c)
      <3>1. Cycling(c) => Cycling(c)'
        BY <1>5 DEF Cycling, Rescheduled
      <3>2. QED
        BY <1>1, <1>5, <3>1 DEF EntrySame
    <2>3. QED
      BY <1>1, <2>1, <2>2 DEF WindowSame
  <1>9. \A c \in Conversations : LoadKept(c)' /\ CycleKept(c)' /\ ViewKept(c)'
    BY <1>0, <1>2, <1>3, <1>4, <1>8, Unconcerned
  <1>10. \A c \in Conversations : HiddenKept(c)'
    BY <1>0, <1>1, HiddenKeeps DEF HomeKept
  <1>11. QED
    BY <1>2, <1>3, <1>4, <1>6, <1>7, <1>9, <1>10 DEF HomeInv

-----------------------------------------------------------------------------
(***************************************************************************)
(* A commit keeps it.                                                      *)
(***************************************************************************)
\* A window hides no message that is yet to come.
LEMMA TrimCounts ==
  ASSUME HomeTyped, FeedKept, NEW c \in Conversations, ~Coming(c, "window"), NEW m \in MessageType
  PROVE  /\ Trim(m, server[c].window.cut).k \in 0 .. m.k
         /\ Badge(c)[Trim(m, server[c].window.cut).k] = Badge(c)[m.k]
  <1> DEFINE cut == server[c].window.cut
  <1>1. m.k \in 0 .. MaxMessages /\ MaxMessages \in Nat /\ cut \in Int
    BY ReadTypes, HomeBoundsAssumption DEF MessageType, WindowType
  <1>2. CASE ~isHiddenByChatDeletion(m.k, cut)
    BY <1>1, <1>2 DEF Trim
  <1>3. CASE isHiddenByChatDeletion(m.k, cut)
    <2>1. Trim(m, cut) = NoMessage /\ m.k <= cut /\ NoMessage.k = 0
      BY <1>3 DEF Trim, isHiddenByChatDeletion, NoMessage
    <2>2. ASSUME NEW k \in Int, k <= cut PROVE ~Inserting(c, k)
      <3>1. SUFFICES ASSUME Inserting(c, k) PROVE FALSE
        OBVIOUS
      <3>2. PICK i \in DOMAIN feed : feed[i].c = c /\ feed[i].kind = "insert" /\ feed[i].msg.k = k
        BY <3>1 DEF Inserting, Awaited, ToSet
      <3>3. \E j \in DOMAIN feed : i < j /\ feed[j].c = feed[i].c /\ feed[j].kind = "window"
        BY <2>2, <3>2 DEF FeedKept, HidesLater
      <3>4. QED
        BY <3>2, <3>3 DEF Coming, Awaited, ToSet
    <2>3. Unread(c) \subseteq Int
      BY ReadTypes
    <2>4. Counted(c, 0) = Counted(c, m.k)
      BY <1>1, <2>1, <2>2, <2>3 DEF Counted
    <2>5. QED
      BY <1>1, <2>1, <2>4 DEF Badge
  <1>4. QED
    BY <1>2, <1>3

\* Only the time of the newest message decides what a window shows.
LEMMA VisibleBy ==
  ASSUME NEW status, NEW m, NEW n, NEW w, m.k = n.k
  PROVE  /\ isConversationVisible(status, m, w) <=> isConversationVisible(status, n, w)
         /\ Trim(m, w.cut).k = Trim(n, w.cut).k
         /\ \/ Trim(m, w.cut) = m /\ Trim(n, w.cut) = n
            \/ Trim(m, w.cut) = NoMessage /\ Trim(n, w.cut) = NoMessage
  BY DEF isConversationVisible, Trim, NoMessage

\* The entry that answers stand for, shown or hidden.
LEMMA EntryIs ==
  ASSUME NEW status, NEW m, NEW w, NEW n
  PROVE  /\ status # "absent" /\ isConversationVisible(status, m, w) =>
              /\ Entry(status, m, w, n).row = status /\ Entry(status, m, w, n).unread = n
              /\ Entry(status, m, w, n).last = Trim(m, w.cut)
         /\ status = "absent" \/ ~isConversationVisible(status, m, w) => Entry(status, m, w, n) = Unlisted
         /\ Unlisted.row = "absent" /\ Unlisted.last = NoMessage
         /\ Entry(status, m, w, n).row = "absent" => Entry(status, m, w, n) = Unlisted
  BY DEF Entry, Unlisted

\* Answers that are right make an entry that is.
LEMMA EntryFits ==
  ASSUME HomeTyped, ServerKept, FeedKept, NEW c \in Conversations,
         NEW status \in RowReads(c), NEW last \in LastReads(c), NEW win \in WinReads(c), NEW n \in Nat
  PROVE  Entry(status, last, win, n) \in Fitting(c)
  <1> DEFINE v == Entry(status, last, win, n)
  <1>1. status \in RowType /\ last \in MessageType /\ win \in WindowType
    BY DEF RowReads, LastReads, WinReads
  <1>2. v \in EntryType
    BY <1>1, EntryTyped
  <1>3. /\ status # "absent" /\ isConversationVisible(status, last, win) =>
             v.row = status /\ v.last = Trim(last, win.cut)
        /\ status = "absent" \/ ~isConversationVisible(status, last, win) => v = Unlisted
        /\ Unlisted.row = "absent" /\ Unlisted.last = NoMessage
    BY EntryIs
  <1> DEFINE t == Truth(c)
  <1>4. /\ RowOf(c) # "absent" /\ isConversationVisible(RowOf(c), LastOf(c), server[c].window) =>
             t.row = RowOf(c) /\ t.last = Trim(LastOf(c), server[c].window.cut)
        /\ RowOf(c) = "absent" \/ ~isConversationVisible(RowOf(c), LastOf(c), server[c].window) => t = Unlisted
    BY EntryIs DEF Truth
  <1> HIDE DEF v, t
  <1>5. CASE Coming(c, "gone") \/ Coming(c, "window")
    BY <1>2, <1>5 DEF Fitting, v
  <1>6. CASE ~Coming(c, "gone") /\ ~Coming(c, "window") /\ ~Live(c)
    <2>1. Awaited(c) = {} /\ RowOf(c) = "absent"
      BY <1>6, EventRow, ServerFacts
    <2>2. status = "absent"
      BY <1>6, <2>1 DEF RowReads, Coming
    <2>3. QED
      BY <1>2, <1>3, <1>6, <2>2 DEF Fitting, v
  <1>7. CASE ~Coming(c, "gone") /\ ~Coming(c, "window") /\ Live(c)
    <2>1. server[c].row \in {"pending", "accepted"} /\ RowOf(c) = server[c].row /\ win = server[c].window
      BY <1>7, ServerFacts DEF WinReads
    <2>2. CASE Coming(c, "row")
      BY <1>2, <1>7, <2>2 DEF Fitting, v
    <2>3. CASE ~Coming(c, "row")
      <3>1. status = server[c].row
        BY <1>7, <2>1, <2>3 DEF RowReads
      <3>2. v.row \in {"absent", server[c].row}
        BY <1>3, <3>1
      <3>3. CASE Posting(c)
        BY <1>2, <1>7, <3>2, <3>3 DEF Fitting, v
      <3>4. CASE ~Posting(c)
        <4>1. last.k = Count(c) /\ (last = LastOf(c) \/ Erasing(c))
          BY <2>1, <3>4 DEF LastReads
        <4>2. last.k = LastOf(c).k
          BY <1>7, <4>1, AnswersRight
        <4> DEFINE o == LastOf(c)
                   row0 == server[c].row
        <4>5. last.k = o.k /\ (last = o \/ Erasing(c)) /\ row0 # "absent"
          BY <2>1, <4>1, <4>2
        <4>6. /\ isConversationVisible(row0, last, win) => (v.row = row0 /\ v.last = Trim(last, win.cut))
              /\ ~isConversationVisible(row0, last, win) => v = Unlisted
              /\ isConversationVisible(row0, o, win) => (t.row = row0 /\ t.last = Trim(o, win.cut))
              /\ ~isConversationVisible(row0, o, win) => t = Unlisted
          BY <1>3, <1>4, <2>1, <3>1
        <4> HIDE DEF o, row0
        <4>7. /\ isConversationVisible(row0, last, win) <=> isConversationVisible(row0, o, win)
              /\ Trim(last, win.cut).k = Trim(o, win.cut).k
              /\ \/ Trim(last, win.cut) = last /\ Trim(o, win.cut) = o
                 \/ Trim(last, win.cut) = NoMessage /\ Trim(o, win.cut) = NoMessage
          BY <4>5, VisibleBy
        <4>3. v.row = t.row /\ (v.row # "absent" => v.last.k = t.last.k /\ (v.last = t.last \/ Erasing(c)))
          BY <1>3, <4>5, <4>6, <4>7
        <4>4. QED
          BY <1>2, <1>7, <3>2, <4>3 DEF Fitting, v, t
      <3>5. QED
        BY <3>3, <3>4
    <2>4. QED
      BY <2>2, <2>3
  <1>8. QED
    BY <1>5, <1>6, <1>7

\* A load replaces the list.
LEMMA CommitKept ==
  ASSUME HomeInv, NEW l \in Slots, Commit(l)
  PROVE  HomeInv'
  <1>0. HomeTyped /\ ServerKept /\ FeedKept /\ ReadsSane /\ GatesKept /\ \A c \in Conversations : HomeKept(c)
    BY InvParts
  <1> DEFINE r == loads[l]
             left == {c \in owed : c \in r.lapse \/ Cycling(c)}
  <1>1. /\ r.pc = "commit" /\ l = newest /\ Finish(l, left) /\ window' = window
        /\ view' = [c \in Conversations |-> Entry(r.rows[c], r.lasts[c], r.wins[c], r.counts[c])]
        /\ slips' = slips \cup ({"miscounted"} \X {c \in Conversations : Cycling(c)})
        /\ server' = server /\ feed' = feed /\ channel' = channel /\ mirror' = mirror
    BY DEF Commit, LoadFrame, isCurrent
  <1>2. HomeTyped' /\ left \in SUBSET Conversations
    BY <1>0, CommitTyped DEF HomeTyped
  <1>3. FeedKept' /\ (\A c \in Conversations : Persist(c)) /\ slips \subseteq slips'
    BY <1>0, <1>1, FeedSame
  <1>4. /\ GatesKept'
        /\ \A c \in Conversations : LoadSame(c)
        /\ \A c \in Conversations : \A o \in Slots :
              /\ loads'[o].pc \in {"windows", "storing", "lasts", "counts", "commit"} /\ loads'[o].rows[c] # "absent" =>
                   server'[c].row # "absent"
              /\ loads'[o].pc \in {"counts", "commit"} => loads'[o].lasts[c] \in Read(c)'
        /\ \A c \in Conversations : \A g \in Schedulers :
              /\ cycles'[c][g].last \in Read(c)'
              /\ cycles'[c][g].row # "absent" => server'[c].row # "absent"
              /\ cycles'[c][g].asked \cap {"last", "deletions", "window", "count"} # {} =>
                   "row" \in cycles'[c][g].asked /\ cycles'[c][g].row # "absent"
    BY <1>0, <1>1, <1>2, FinishKeeps
  <1>5. /\ \A c \in Conversations : Rescheduled(c) /\ (c \in pending => c \in pending' \cup owed' \/ Cycling(c)')
        /\ left \subseteq owed'
    BY <1>0, <1>1, <1>2, FinishIs
  <1>6. ServerKept'
    BY <1>0, <1>1 DEF ServerKept
  <1>7. ASSUME NEW c \in Conversations
        PROVE  /\ r.rows[c] \in RowType /\ r.lasts[c] \in MessageType /\ r.wins[c] \in WindowType /\ r.counts[c] \in Nat
               /\ r.lasts[c] \in Read(c) /\ view'[c] = Entry(r.rows[c], r.lasts[c], r.wins[c], r.counts[c])
    <2>1. Filled(r) /\ r.lasts[c] \in Read(c)
      BY <1>0, <1>1 DEF HomeTyped, ReadsSane
    <2>2. QED
      BY <1>1, <2>1 DEF Filled
  <1>8. ReadsSane'
    <2>1. ASSUME NEW c \in Conversations PROVE view'[c].last \in Read(c)' /\ mirror'[c].last \in Read(c)'
      <3>1. Read(c)' = Read(c) /\ NoMessage \in Read(c)
        BY <1>0, <1>1, ReadSame, AnswersRight
      <3>2. view'[c].last \in {NoMessage, r.lasts[c]}
        BY <1>7, EntryIs DEF Trim
      <3>3. QED
        BY <1>0, <1>1, <1>7, <3>1, <3>2 DEF ReadsSane
    <2>2. QED
      BY <1>4, <2>1 DEF ReadsSane
  <1> HIDE DEF r, left
  <1>9. ASSUME NEW c \in Conversations PROVE LoadKept(c)' /\ CycleKept(c)'
    <2>1. WindowSame(c)
      BY <1>1 DEF WindowSame
    <2>2. ASSUME NEW g \in Schedulers PROVE PassSame(c, g)
      <3> DEFINE p == cycles[c][g]
                 q == cycles'[c][g]
      <3>1. \/ q.asked = {}
            \/ /\ q.asked = p.asked /\ q.row = p.row /\ q.last = p.last /\ q.failed = p.failed
               /\ q.wins = p.wins /\ q.win = p.win /\ q.count = p.count /\ q.raced = p.raced /\ q.pass = p.pass
        BY <1>0, <1>5, RescheduledIs
      <3> HIDE DEF p, q
      <3>2. CASE q.asked = {} \/ ~(q.pass > 0) \/ c \in owed'
        BY <3>2 DEF PassSame, q
      <3>3. CASE q.asked # {} /\ q.pass > 0 /\ c \notin owed'
        <4>1. p.pass > 0 /\ Cycling(c)
          BY <3>1, <3>3 DEF Cycling, p
        <4>2. c \notin owed
          BY <1>5, <3>3, <4>1 DEF left
        <4>3. Slips(c)' # {}
          BY <1>1, <4>1, SlipsWere
        <4>4. QED
          BY <3>1, <3>3, <4>1, <4>2, <4>3 DEF PassSame, p, q
      <3>4. QED
        BY <3>2, <3>3
    <2>3. LoadKept(c)'
      BY <1>0, <1>3, <1>4, <2>1, LoadKeeps DEF HomeKept
    <2>4. CycleKept(c)'
      BY <1>0, <1>3, <2>1, <2>2, CycleKeeps DEF HomeKept
    <2>5. QED
      BY <2>3, <2>4
  <1>10. ASSUME NEW c \in Conversations PROVE ViewKept(c)'
    <2> SUFFICES ASSUME c \notin owed' \cup pending', ~Cycling(c)' PROVE ViewKept(c)'
      BY DEF ViewKept
    <2>1. ~Cycling(c)
      BY <1>5 DEF Cycling, Rescheduled
    <2>2. c \notin r.lapse \cup pending
      <3>1. r.lapse \subseteq owed
        BY <1>0, <1>1 DEF GatesKept, r
      <3>2. QED
        BY <1>5, <3>1 DEF left
    <2>3. /\ Followed(c) => /\ r.rows[c] \in RowReads(c) /\ r.lasts[c] \in LastReads(c)
                            /\ r.wins[c] \in WinReads(c) /\ window[c] \in WinReads(c)
          /\ Slips(c) = {} /\ Live(c) /\ r.rows[c] # "absent" => r.counts[c] = Badge(c)[r.lasts[c].k]
      BY <1>0, <1>1, <2>2 DEF HomeKept, LoadKept, r
    <2>4. Slips(c)' = Slips(c) /\ Followed(c)' = Followed(c)
      BY <1>1, <2>1 DEF Slips, Followed
    <2>5. Live(c)' = Live(c) /\ WinReads(c)' = WinReads(c) /\ Fitting(c)' = Fitting(c) /\ Exact(c)' = Exact(c)
      BY <1>1, ReadSame
    <2>6. Followed(c) => view'[c] \in Fitting(c) /\ window'[c] \in WinReads(c)
      BY <1>0, <1>1, <1>7, <2>3, EntryFits
    <2>7. ASSUME Slips(c) = {}, Live(c) PROVE view'[c] \in Exact(c)
      <3>1. view'[c] \in EntryType
        BY <1>7, EntryTyped
      <3>2. \/ view'[c].row = "absent"
            \/ /\ r.rows[c] # "absent" /\ view'[c].unread = r.counts[c]
               /\ view'[c].last = Trim(r.lasts[c], r.wins[c].cut)
        BY <1>7, EntryIs
      <3>3. CASE view'[c].row = "absent" \/ Coming(c, "window")
        BY <3>1, <3>3 DEF Exact
      <3>4. CASE view'[c].row # "absent" /\ ~Coming(c, "window")
        <4>1. r.wins[c] = server[c].window
          BY <2>3, <2>7, <3>4, SlipsAre DEF WinReads, Live
        <4>2. Badge(c)[view'[c].last.k] = Badge(c)[r.lasts[c].k]
          BY <1>0, <1>7, <3>2, <3>4, <4>1, TrimCounts
        <4>3. view'[c].unread = Badge(c)[view'[c].last.k]
          BY <2>3, <2>7, <3>2, <3>4, <4>2
        <4>4. QED
          BY <3>1, <4>3 DEF Exact
      <3>5. QED
        BY <3>3, <3>4
    <2>8. QED
      BY <2>4, <2>5, <2>6, <2>7 DEF ViewKept
  <1>11. ASSUME NEW c \in Conversations PROVE HiddenKept(c)'
    BY <1>7, EntryIs DEF HiddenKept
  <1>12. QED
    BY <1>2, <1>3, <1>4, <1>6, <1>8, <1>9, <1>10, <1>11 DEF HomeInv

-----------------------------------------------------------------------------
(***************************************************************************)
(* The requests of a pass keep it.                                         *)
(***************************************************************************)
\* A pass is answered.
LEMMA FetchKept ==
  ASSUME HomeInv, NEW c \in Conversations, NEW g \in Schedulers,
         \/ fetchConnection(c, g) \/ fetchLastMessage(c, g)
         \/ fetchChatDeletion(c, g) \/ fetchUnread(c, g)
  PROVE  HomeInv'
  <1>0. HomeTyped /\ ServerKept /\ FeedKept /\ ReadsSane /\ GatesKept /\ \A d \in Conversations : HomeKept(d)
    BY InvParts
  <1> DEFINE p == cycles[c][g]
             q == cycles'[c][g]
  <1>1. /\ \A d \in Conversations \ {c} : cycles'[d] = cycles[d]
        /\ \A h \in Schedulers \ {g} : cycles'[c][h] = cycles[c][h]
        /\ p.pass > 0 /\ q.pass = p.pass /\ q.raced = p.raced /\ q.failed = p.failed
        /\ Answered(c, p, q)
        /\ window' = window
        /\ loads' = loads /\ view' = view /\ owed' = owed /\ slips' = slips
        /\ server' = server /\ feed' = feed /\ channel' = channel /\ newest' = newest
        /\ pending' = pending /\ mirror' = mirror
    BY <1>0, FetchIs DEF CycleFrame
  <1>2. HomeTyped'
    BY <1>0, FetchTyped
  <1>3. FeedKept' /\ \A d \in Conversations : Persist(d)
    BY <1>0, <1>1, FeedSame
  <1>4. \A d \in Conversations :
          /\ Live(d)' = Live(d) /\ Count(d)' = Count(d) /\ Unread(d)' = Unread(d) /\ Read(d)' = Read(d)
          /\ RowReads(d)' = RowReads(d) /\ WinReads(d)' = WinReads(d) /\ LastReads(d)' = LastReads(d)
          /\ Badge(d)' = Badge(d) /\ Slips(d)' = Slips(d) /\ Followed(d)' = Followed(d)
    BY <1>1, ReadSame DEF Slips, Followed
  <1>5. \A d \in Conversations : WindowSame(d)
    BY <1>1 DEF WindowSame
  <1>6. ServerKept' /\ GatesKept'
    BY <1>0, <1>1 DEF ServerKept, GatesKept, Loading
  <1>7. /\ RowOf(c) \in RowReads(c) /\ LastOf(c) \in LastReads(c) /\ server[c].window \in WinReads(c)
        /\ LastOf(c) \in Read(c) /\ (RowOf(c) # "absent" => server[c].row # "absent")
        /\ Live(c) => LastOf(c).k = Count(c)
        /\ RowOf(c) = "absent" => window[c] \in WinReads(c)
        /\ Badge(c)[Count(c)] = Cardinality(Unread(c)) /\ UnreadOf(c) = Cardinality(Unread(c))
    BY <1>0, AnswersRight, ReadTypes
  <1>8. /\ p.last \in Read(c)
        /\ p.row # "absent" => server[c].row # "absent"
        /\ p.asked \cap {"last", "deletions", "window", "count"} # {} => "row" \in p.asked /\ p.row # "absent"
        /\ view[c].last \in Read(c)
    BY <1>0 DEF ReadsSane
  <1>9. ReadsSane'
    <2>1. ASSUME NEW d \in Conversations, NEW h \in Schedulers
          PROVE  /\ cycles'[d][h].last \in Read(d)
                 /\ cycles'[d][h].row # "absent" => server[d].row # "absent"
                 /\ cycles'[d][h].asked \cap {"last", "deletions", "window", "count"} # {} =>
                      "row" \in cycles'[d][h].asked /\ cycles'[d][h].row # "absent"
      <3>1. CASE d = c /\ h = g
        <4> HIDE DEF p, q
        <4>1. /\ q.last \in Read(c)
              /\ q.row # "absent" => server[c].row # "absent"
              /\ q.asked \cap {"last", "deletions", "window", "count"} # {} => "row" \in q.asked /\ q.row # "absent"
          BY <1>1, <1>7, <1>8 DEF Answered
        <4>2. QED
          BY <3>1, <4>1 DEF q
      <3>2. CASE d # c \/ h # g
        <4>1. cycles'[d][h] = cycles[d][h]
          BY <1>1, <3>2
        <4>2. QED
          BY <1>0, <4>1 DEF ReadsSane
      <3>3. QED
        BY <3>1, <3>2
    <2>2. QED
      BY <1>0, <1>1, <1>4, <2>1 DEF ReadsSane
  <1>10. \A d \in Conversations : LoadSame(d)
    BY <1>0, <1>1 DEF LoadSame, HomeTyped
  <1>11. \A d \in Conversations : HiddenKept(d)'
    BY <1>0, <1>1, HiddenKeeps DEF HomeKept
  <1>12. ASSUME NEW d \in Conversations \ {c} PROVE LoadKept(d)' /\ CycleKept(d)' /\ ViewKept(d)'
    <2>1. (\A h \in Schedulers : PassSame(d, h)) /\ EntrySame(d)
      BY <1>1 DEF PassSame, EntrySame, Cycling
    <2>2. QED
      BY <1>0, <1>2, <1>3, <1>5, <1>10, <2>1, Unconcerned
  <1>13. LoadKept(c)' /\ ViewKept(c)'
    <2>1. Cycling(c)'
      BY <1>1 DEF Cycling
    <2>2. LoadKept(c)'
      BY <1>0, <1>3, <1>5, <1>10, LoadKeeps DEF HomeKept
    <2>3. QED
      BY <2>1, <2>2 DEF ViewKept
  <1>14. CycleKept(c)'
    <2> SUFFICES ASSUME c \notin owed', NEW h \in Schedulers, cycles'[c][h].pass > 0, ~cycles'[c][h].raced
                 PROVE  /\ Followed(c)' => PassKept(c, cycles[c][h])'
                        /\ Slips(c)' = {} /\ Live(c)' /\ ~cycles'[c][h].failed => PassCounted(c, cycles[c][h])'
      BY DEF CycleKept
    <2>1. CASE h # g
      <3>1. PassSame(c, h)
        BY <1>1, <2>1 DEF PassSame
      <3>2. QED
        BY <1>0, <1>3, <1>5, <3>1, PassKeeps DEF HomeKept
    <2>2. CASE h = g
      <3>1. /\ Followed(c) => PassKept(c, p)
            /\ Slips(c) = {} /\ Live(c) /\ ~p.failed => PassCounted(c, p)
        BY <1>0, <1>1, <2>2 DEF HomeKept, CycleKept
      <3>2. window'[c] = window[c] /\ ServerWindows[c] = server[c].window
        BY <1>1 DEF ServerWindows
      <3>3. view[c].last.k \in Int /\ view[c].last.k <= Count(c) /\ Count(c) \in Int
        BY <1>0, <1>8, ReadTypes DEF Read, MessageType
      <3> HIDE DEF p, q
      <3>4. Followed(c) =>
              /\ "row" \in q.asked =>
                   q.row \in RowReads(c) /\ (q.row = "absent" => window'[c] \in WinReads(c))
              /\ "deletions" \in q.asked /\ "window" \notin q.asked => q.wins[c] \in WinReads(c)
              /\ "window" \in q.asked => {q.win, window'[c]} \subseteq WinReads(c)
              /\ "last" \in q.asked /\ ~q.failed => q.last \in LastReads(c)
        <4>1. ASSUME Followed(c), "row" \in q.asked
              PROVE  q.row \in RowReads(c) /\ (q.row = "absent" => window'[c] \in WinReads(c))
          BY <1>1, <1>7, <3>1, <3>2, <4>1 DEF Answered, PassKept
        <4>2. ASSUME Followed(c), "deletions" \in q.asked, "window" \notin q.asked
              PROVE  q.wins[c] \in WinReads(c)
          BY <1>1, <1>7, <3>1, <3>2, <4>2 DEF Answered, PassKept
        <4>3. ASSUME Followed(c), "window" \in q.asked
              PROVE  {q.win, window'[c]} \subseteq WinReads(c)
          BY <1>1, <3>1, <3>2, <4>3 DEF Answered, PassKept
        <4>4. ASSUME Followed(c), "last" \in q.asked, ~q.failed
              PROVE  q.last \in LastReads(c)
          BY <1>1, <1>7, <3>1, <4>4 DEF Answered, PassKept
        <4>5. QED
          BY <4>1, <4>2, <4>3, <4>4
      <3>5. Slips(c) = {} /\ Live(c) /\ ~q.failed =>
              /\ "last" \in q.asked => view[c].last.k <= q.last.k
              /\ "last" \in q.asked /\ "count" \notin q.asked => q.last.k = Count(c)
              /\ "count" \in q.asked /\ "last" \notin q.asked => q.count = Cardinality(Unread(c))
              /\ "count" \in q.asked /\ "last" \in q.asked => q.count = Badge(c)[q.last.k]
        <4> SUFFICES ASSUME Slips(c) = {}, Live(c), ~q.failed
                     PROVE /\ "last" \in q.asked => view[c].last.k <= q.last.k
                           /\ "last" \in q.asked /\ "count" \notin q.asked => q.last.k = Count(c)
                           /\ "count" \in q.asked /\ "last" \notin q.asked => q.count = Cardinality(Unread(c))
                           /\ "count" \in q.asked /\ "last" \in q.asked => q.count = Badge(c)[q.last.k]
          OBVIOUS
        <4>1. /\ "last" \in p.asked => view[c].last.k <= p.last.k
              /\ "last" \in p.asked /\ "count" \notin p.asked => p.last.k = Count(c)
              /\ "count" \in p.asked /\ "last" \notin p.asked => p.count = Cardinality(Unread(c))
              /\ "count" \in p.asked /\ "last" \in p.asked => p.count = Badge(c)[p.last.k]
          BY <1>1, <3>1 DEF PassCounted
        <4>2. LastOf(c).k = Count(c)
          BY <1>7
        <4>3. QED
          BY <1>1, <1>7, <3>3, <4>1, <4>2 DEF Answered
      <3>6. PassKept(c, cycles[c][g])' <=>
            /\ "row" \in q.asked =>
                 q.row \in RowReads(c)' /\ (q.row = "absent" => window'[c] \in WinReads(c)')
            /\ "deletions" \in q.asked /\ "window" \notin q.asked => q.wins[c] \in WinReads(c)'
            /\ "window" \in q.asked => {q.win, window'[c]} \subseteq WinReads(c)'
            /\ "last" \in q.asked /\ ~q.failed => q.last \in LastReads(c)'
        BY DEF PassKept, q
      <3>7. PassCounted(c, cycles[c][g])' <=>
            /\ "last" \in q.asked => view'[c].last.k <= q.last.k
            /\ "last" \in q.asked /\ "count" \notin q.asked => q.last.k = Count(c)'
            /\ "count" \in q.asked /\ "last" \notin q.asked => q.count = Cardinality(Unread(c)')
            /\ "count" \in q.asked /\ "last" \in q.asked => q.count = Badge(c)'[q.last.k]
        BY DEF PassCounted, q
      <3>8. QED
        BY <1>1, <1>4, <2>2, <3>4, <3>5, <3>6, <3>7 DEF q
    <2>3. QED
      BY <2>1, <2>2
  <1>15. QED
    BY <1>2, <1>3, <1>6, <1>9, <1>11, <1>12, <1>13, <1>14 DEF HomeInv

\* A request of a pass fails.
LEMMA FetchFailsKept ==
  ASSUME HomeInv, NEW c \in Conversations, NEW g \in Schedulers, FetchFails(c, g)
  PROVE  HomeInv'
  <1>0. HomeTyped /\ ServerKept /\ FeedKept /\ ReadsSane /\ GatesKept /\ \A d \in Conversations : HomeKept(d)
    BY InvParts
  <1> DEFINE p == cycles[c][g]
             q == cycles'[c][g]
  <1>1. /\ \A d \in Conversations \ {c} : cycles'[d] = cycles[d]
        /\ \A h \in Schedulers \ {g} : cycles'[c][h] = cycles[c][h]
        /\ p.pass > 0 /\ q.pass = p.pass /\ q.raced = p.raced /\ q.row = p.row /\ q.last = p.last
        /\ q.wins = p.wins /\ Asked(p, q)
        /\ view' = view /\ slips' = slips
        /\ server' = server /\ feed' = feed /\ channel' = channel /\ newest' = newest
        /\ pending' = pending /\ mirror' = mirror
    BY <1>0, FetchFailsIs DEF CycleFrame
  <1>2. PICK S \in SUBSET Conversations :
           \/ /\ S = {} /\ q.failed /\ q.asked = p.asked \cup {"last"} /\ q.win = p.win
              /\ owed' = owed /\ loads' = loads /\ window' = window
           \/ /\ c \in S /\ owed' = owed \cup S /\ loads' = Lapsed(S, loads)
              /\ window' = window \/ (S = Conversations /\ window' = NoWindows)
    BY <1>0, FetchFailsIs
  <1>3. HomeTyped'
    BY <1>0, FetchFailsTyped
  <1>4. FeedKept' /\ (\A d \in Conversations : Persist(d)) /\ \A d \in Conversations : Read(d)' = Read(d)
    BY <1>0, <1>1, FeedSame, ReadSame
  <1>5. ServerKept'
    BY <1>0, <1>1, <1>2 DEF ServerKept, NoWindows
  <1>6. /\ GatesKept' /\ (\A d \in Conversations : LoadSame(d) /\ (d \in S => Left(d)))
        /\ \A o \in Slots :
             /\ loads'[o].pc = loads[o].pc
             /\ loads[o].pc # "idle" => loads'[o].rows = loads[o].rows /\ loads'[o].lasts = loads[o].lasts
    <2>1. CASE S = {} /\ owed' = owed /\ loads' = loads
      BY <1>0, <1>1, <2>1 DEF GatesKept, Loading, LoadSame, HomeTyped
    <2>2. CASE owed' = owed \cup S /\ loads' = Lapsed(S, loads)
      <3>1. loads \in [Slots -> LoadType] /\ (\A l \in Slots : Filled(loads[l]))
        BY <1>0 DEF HomeTyped
      <3>2. \A o \in Slots :
             /\ loads'[o].pc = loads[o].pc
             /\ loads[o].pc # "idle" => loads'[o].rows = loads[o].rows /\ loads'[o].lasts = loads[o].lasts
        BY <2>2, <3>1, LapsedIs
      <3>3. GatesKept' /\ \A d \in Conversations : LoadSame(d) /\ (d \in S => Left(d))
        BY <1>0, <1>1, <2>2, LoadsLapsed
      <3>4. QED
        BY <3>2, <3>3
    <2>3. QED
      BY <1>2, <2>1, <2>2
  <1>7. ReadsSane'
    <2>1. ASSUME NEW d \in Conversations, NEW h \in Schedulers
          PROVE  /\ cycles'[d][h].last \in Read(d)
                 /\ cycles'[d][h].row # "absent" => server[d].row # "absent"
                 /\ cycles'[d][h].asked \cap {"last", "deletions", "window", "count"} # {} =>
                      "row" \in cycles'[d][h].asked /\ cycles'[d][h].row # "absent"
      <3>1. CASE d = c /\ h = g
        <4>1. /\ p.last \in Read(c)
              /\ p.row # "absent" => server[c].row # "absent"
              /\ p.asked \cap {"last", "deletions", "window", "count"} # {} => "row" \in p.asked /\ p.row # "absent"
          BY <1>0 DEF ReadsSane
        <4> HIDE DEF p, q
        <4>2. /\ q.last \in Read(c)
              /\ q.row # "absent" => server[c].row # "absent"
              /\ q.asked \cap {"last", "deletions", "window", "count"} # {} => "row" \in q.asked /\ q.row # "absent"
          BY <1>1, <4>1 DEF Asked, Pending, Requests
        <4>3. QED
          BY <3>1, <4>2 DEF q
      <3>2. CASE d # c \/ h # g
        <4>1. cycles'[d][h] = cycles[d][h]
          BY <1>1, <3>2
        <4>2. QED
          BY <1>0, <4>1 DEF ReadsSane
      <3>3. QED
        BY <3>1, <3>2
    <2>2. ASSUME NEW d \in Conversations, NEW o \in Slots
          PROVE  /\ loads'[o].pc \in {"windows", "storing", "lasts", "counts", "commit"} /\ loads'[o].rows[d] # "absent" =>
                      server[d].row # "absent"
                 /\ loads'[o].pc \in {"counts", "commit"} => loads'[o].lasts[d] \in Read(d)
      <3>1. /\ loads[o].pc \in {"windows", "storing", "lasts", "counts", "commit"} /\ loads[o].rows[d] # "absent" =>
                 server[d].row # "absent"
            /\ loads[o].pc \in {"counts", "commit"} => loads[o].lasts[d] \in Read(d)
        BY <1>0 DEF ReadsSane
      <3>2. QED
        BY <1>6, <3>1
    <2>3. QED
      BY <1>0, <1>1, <1>4, <2>1, <2>2 DEF ReadsSane
  <1>8. \A d \in Conversations : HiddenKept(d)'
    BY <1>0, <1>1, HiddenKeeps DEF HomeKept
  <1>9. ASSUME NEW d \in S PROVE LoadKept(d)' /\ CycleKept(d)' /\ ViewKept(d)'
    BY <1>6, LeftKept
  <1>10. ASSUME NEW d \in Conversations \ S PROVE WindowSame(d) /\ (d \notin owed' => d \notin owed)
    BY <1>2 DEF WindowSame
  <1>11. ASSUME NEW d \in Conversations \ S, d # c PROVE LoadKept(d)' /\ CycleKept(d)' /\ ViewKept(d)'
    <2>1. (\A h \in Schedulers : PassSame(d, h)) /\ EntrySame(d)
      BY <1>1, <1>10, <1>11 DEF PassSame, EntrySame, Cycling
    <2>2. QED
      BY <1>0, <1>3, <1>4, <1>6, <1>10, <2>1, Unconcerned
  <1>12. ASSUME c \notin S PROVE LoadKept(c)' /\ CycleKept(c)' /\ ViewKept(c)'
    <2>1. Cycling(c)'
      BY <1>1 DEF Cycling
    <2>2. LoadKept(c)'
      BY <1>0, <1>4, <1>6, <1>10, <1>12, LoadKeeps DEF HomeKept
    <2>3. CycleKept(c)'
      <3> SUFFICES ASSUME c \notin owed', NEW h \in Schedulers, cycles'[c][h].pass > 0, ~cycles'[c][h].raced
                   PROVE  /\ Followed(c)' => PassKept(c, cycles[c][h])'
                          /\ Slips(c)' = {} /\ Live(c)' /\ ~cycles'[c][h].failed => PassCounted(c, cycles[c][h])'
        BY DEF CycleKept
      <3>1. CASE h # g
        <4>1. PassSame(c, h)
          BY <1>1, <1>10, <1>12, <3>1 DEF PassSame
        <4>2. QED
          BY <1>0, <1>4, <1>10, <1>12, <4>1, PassKeeps DEF HomeKept
      <3>2. CASE h = g
        <4>1. q.failed /\ q.asked = p.asked \cup {"last"} /\ q.win = p.win /\ window' = window /\ c \notin owed
          BY <1>2, <1>10, <1>12
        <4>2. Followed(c) => PassKept(c, p)
          BY <1>0, <1>1, <3>2, <4>1 DEF HomeKept, CycleKept
        <4>3. Followed(c)' = Followed(c) /\ RowReads(c)' = RowReads(c) /\ WinReads(c)' = WinReads(c)
          BY <1>1, ReadSame DEF Followed, Slips
        <4> HIDE DEF p, q
        <4>4. PassKept(c, cycles[c][g])' <=>
              /\ "row" \in q.asked =>
                   q.row \in RowReads(c)' /\ (q.row = "absent" => window'[c] \in WinReads(c)')
              /\ "deletions" \in q.asked /\ "window" \notin q.asked => q.wins[c] \in WinReads(c)'
              /\ "window" \in q.asked => {q.win, window'[c]} \subseteq WinReads(c)'
              /\ "last" \in q.asked /\ ~q.failed => q.last \in LastReads(c)'
          BY DEF PassKept, q
        <4>5. Followed(c)' => PassKept(c, cycles[c][g])'
          BY <1>1, <4>1, <4>2, <4>3, <4>4 DEF PassKept
        <4>6. QED
          BY <3>2, <4>1, <4>5 DEF q
      <3>3. QED
        BY <3>1, <3>2
    <2>4. QED
      BY <2>1, <2>2, <2>3 DEF ViewKept
  <1>13. \A d \in Conversations : LoadKept(d)' /\ CycleKept(d)' /\ ViewKept(d)'
    BY <1>9, <1>11, <1>12
  <1>14. QED
    BY <1>3, <1>4, <1>5, <1>6, <1>7, <1>8, <1>13 DEF HomeInv

-----------------------------------------------------------------------------
(***************************************************************************)
(* An answer that is stored keeps it.                                      *)
(***************************************************************************)
\* A window that an answer replaces was not right, or is right again, or is owed.
LEMMA StoredWindow ==
  ASSUME HomeTyped, NEW wins \in [Conversations -> WindowType], window' = wins,
         server' = server, feed' = feed, NEW d \in Conversations \ Outrun(wins)
  PROVE  WindowSame(d)
  <1>1. WinReads(d)' = WinReads(d) /\ wins[d] \in WindowType
    BY ReadSame
  <1>2. (\E e \in ToSet(feed) : e.kind = "window" /\ e.c = d) => Coming(d, "window")
    BY DEF Coming, Awaited
  <1>3. CASE server[d].row = "deleted" \/ Coming(d, "window")
    BY <1>1, <1>3 DEF WindowSame, WinReads
  <1>4. CASE server[d].row # "deleted" /\ ~Coming(d, "window")
    BY <1>2, <1>4 DEF WindowSame, WinReads, Outrun
  <1>5. QED
    BY <1>3, <1>4

\* A load stores the windows it was answered.
LEMMA StoreWindowsKept ==
  ASSUME HomeInv, CarriedKept, NEW l \in Slots, StoreWindows(l)
  PROVE  HomeInv'
  <1>0. HomeTyped /\ ServerKept /\ FeedKept /\ ReadsSane /\ GatesKept /\ \A c \in Conversations : HomeKept(c)
    BY InvParts
  <1> DEFINE wins == loads[l].wins
             S == Outrun(wins)
             r == loads[newest]
             q == loads'[newest]
  <1>1. /\ loads[l].pc = "storing" /\ wins \in [Conversations -> WindowType]
        /\ window' = wins /\ owed' = owed \cup S
        /\ \A o \in Slots :
              /\ loads[o].pc = "idle" => loads'[o] = IdleLoad
              /\ loads'[o].pc = IF o = l THEN "lasts" ELSE loads[o].pc
              /\ loads[o].pc # "idle" =>
                   /\ loads'[o].rows = loads[o].rows /\ loads'[o].wins = loads[o].wins
                   /\ loads'[o].lasts = loads[o].lasts /\ loads'[o].counts = loads[o].counts
                   /\ loads'[o].lapse = loads[o].lapse \cup S
        /\ newest' = newest /\ cycles' = cycles /\ pending' = pending /\ view' = view
        /\ server' = server /\ feed' = feed /\ channel' = channel /\ mirror' = mirror /\ slips' = slips
    BY <1>0, StoreWindowsIs DEF LoadFrame
  <1>2. HomeTyped' /\ newest \in Slots /\ S \in SUBSET Conversations
    BY <1>0, StoreTyped DEF HomeTyped, Outrun
  <1> HIDE DEF S
  <1>3. FeedKept' /\ (\A c \in Conversations : Persist(c)) /\ \A c \in Conversations : Read(c)' = Read(c)
    BY <1>0, <1>1, FeedSame, ReadSame
  <1>4. ServerKept'
    BY <1>0, <1>1 DEF ServerKept, CarriedKept
  <1>5. ReadsSane'
    BY <1>0, <1>1, <1>3 DEF ReadsSane
  <1>6. GatesKept'
    <2>1. Loading'
      BY <1>1 DEF Loading
    <2>2. q.pc # "idle" => q.lapse \subseteq owed'
      BY <1>0, <1>1, <1>2 DEF GatesKept
    <2>3. QED
      BY <1>1, <2>1, <2>2 DEF GatesKept
  <1>7. \A c \in Conversations \ S : WindowSame(c)
    BY <1>0, <1>1, StoredWindow DEF S
  <1>8. ASSUME NEW c \in S PROVE LoadKept(c)' /\ CycleKept(c)' /\ ViewKept(c)'
    <2>1. c \in owed' /\ (c \in q.lapse \/ q.pc = "idle")
      BY <1>1, <1>2, <1>8 DEF IdleLoad
    <2>2. Left(c)
      BY <1>1, <2>1 DEF Left
    <2>3. QED
      BY <1>2, <1>8, <2>2, LeftKept
  <1>9. ASSUME NEW c \in Conversations \ S PROVE LoadKept(c)'
    <2>1. CASE l # newest
      <3>1. /\ q.pc = r.pc
            /\ r.pc # "idle" =>
                 /\ q.rows = r.rows /\ q.wins = r.wins /\ q.lasts = r.lasts /\ q.counts = r.counts
                 /\ q.lapse = r.lapse \cup S
        BY <1>1, <1>2, <2>1
      <3>2. LoadSame(c)
        BY <1>1, <1>2, <3>1 DEF LoadSame
      <3>3. QED
        BY <1>0, <1>3, <1>7, <3>2, LoadKeeps DEF HomeKept
    <2>2. CASE l = newest
      <3>1. r.pc = "storing" /\ q.pc = "lasts" /\ q.rows = r.rows /\ q.wins = r.wins /\ q.lapse = r.lapse \cup S
        BY <1>1, <2>2
      <3>2. c \notin r.lapse \cup pending /\ Followed(c) => r.rows[c] \in RowReads(c) /\ r.wins[c] \in WinReads(c)
        BY <1>0, <3>1 DEF HomeKept, LoadKept
      <3>3. window'[c] = r.wins[c]
        BY <1>1, <2>2
      <3>4. Followed(c)' = Followed(c) /\ RowReads(c)' = RowReads(c) /\ WinReads(c)' = WinReads(c)
        BY <1>1, ReadSame DEF Followed, Slips
      <3> HIDE DEF r, q
      <3>5. c \notin q.lapse \cup pending' /\ Followed(c)' =>
              /\ q.rows[c] \in RowReads(c)'
              /\ {q.wins[c], window'[c]} \subseteq WinReads(c)'
        BY <1>1, <3>1, <3>2, <3>3, <3>4
      <3>6. q = loads'[newest']
        BY <1>1 DEF q
      <3>7. QED
        BY <3>1, <3>5, <3>6 DEF LoadKept
    <2>3. QED
      BY <2>1, <2>2
  <1>10. ASSUME NEW c \in Conversations \ S PROVE CycleKept(c)' /\ ViewKept(c)'
    <2>1. c \in owed' <=> c \in owed
      BY <1>1, <1>10
    <2>2. (\A g \in Schedulers : PassSame(c, g)) /\ EntrySame(c)
      BY <1>1, <2>1 DEF PassSame, EntrySame, Cycling
    <2>3. CycleKept(c)'
      BY <1>0, <1>3, <1>7, <2>2, CycleKeeps DEF HomeKept
    <2>4. ViewKept(c)'
      BY <1>0, <1>2, <1>3, <1>7, <2>2, ViewKeeps DEF HomeKept, HomeTyped
    <2>5. QED
      BY <2>3, <2>4
  <1>11. \A c \in Conversations : HiddenKept(c)'
    BY <1>0, <1>1, HiddenKeeps DEF HomeKept
  <1>12. QED
    BY <1>2, <1>3, <1>4, <1>5, <1>6, <1>8, <1>9, <1>10, <1>11 DEF HomeInv

\* A pass stores the windows it was answered.
LEMMA StoreChatKept ==
  ASSUME HomeInv, CarriedKept, NEW c \in Conversations, NEW g \in Schedulers, storeChatDeletion(c, g)
  PROVE  HomeInv'
  <1>0. HomeTyped /\ ServerKept /\ FeedKept /\ ReadsSane /\ GatesKept /\ \A d \in Conversations : HomeKept(d)
    BY InvParts
  <1> DEFINE p == cycles[c][g]
             q == cycles'[c][g]
             S == Outrun(p.wins)
  <1>1. /\ \A d \in Conversations \ {c} : cycles'[d] = cycles[d]
        /\ \A h \in Schedulers \ {g} : cycles'[c][h] = cycles[c][h]
        /\ p.pass > 0 /\ "deletions" \in p.asked /\ "window" \notin p.asked
        /\ p.row # "absent" /\ "row" \in p.asked
        /\ q.asked = p.asked \cup {"window"} /\ q.win = p.wins[c]
        /\ q.pass = p.pass /\ q.raced = p.raced /\ q.failed = p.failed /\ q.row = p.row
        /\ q.last = p.last /\ q.count = p.count
        /\ p.wins \in [Conversations -> WindowType]
        /\ window' = p.wins /\ owed' = owed \cup S /\ loads' = Lapsed(S, loads)
        /\ view' = view /\ slips' = slips
        /\ server' = server /\ feed' = feed /\ channel' = channel /\ newest' = newest
        /\ pending' = pending /\ mirror' = mirror
    BY <1>0, StoreChatIs DEF CycleFrame
  <1>2. HomeTyped' /\ S \in SUBSET Conversations
    BY <1>0, StoreTyped DEF Outrun
  <1>3. FeedKept' /\ (\A d \in Conversations : Persist(d)) /\ \A d \in Conversations : Read(d)' = Read(d)
    BY <1>0, <1>1, FeedSame, ReadSame
  <1>4. ServerKept'
    BY <1>0, <1>1 DEF ServerKept, CarriedKept
  <1>5. \A d \in Conversations \ S : WindowSame(d)
    BY <1>0, <1>1, StoredWindow
  <1> HIDE DEF S
  <1>6. /\ GatesKept' /\ (\A d \in Conversations : LoadSame(d) /\ (d \in S => Left(d)))
        /\ \A o \in Slots :
             /\ loads'[o].pc = loads[o].pc
             /\ loads[o].pc # "idle" => loads'[o].rows = loads[o].rows /\ loads'[o].lasts = loads[o].lasts
    <2>1. loads \in [Slots -> LoadType] /\ (\A o \in Slots : Filled(loads[o]))
      BY <1>0 DEF HomeTyped
    <2>2. \A o \in Slots :
             /\ loads'[o].pc = loads[o].pc
             /\ loads[o].pc # "idle" => loads'[o].rows = loads[o].rows /\ loads'[o].lasts = loads[o].lasts
      BY <1>1, <1>2, <2>1, LapsedIs
    <2>3. QED
      BY <1>0, <1>1, <1>2, <2>2, LoadsLapsed
  <1>7. ReadsSane'
    <2>1. ASSUME NEW d \in Conversations, NEW h \in Schedulers
          PROVE  /\ cycles'[d][h].last \in Read(d)
                 /\ cycles'[d][h].row # "absent" => server[d].row # "absent"
                 /\ cycles'[d][h].asked \cap {"last", "deletions", "window", "count"} # {} =>
                      "row" \in cycles'[d][h].asked /\ cycles'[d][h].row # "absent"
      <3>1. CASE d = c /\ h = g
        BY <1>0, <1>1, <3>1 DEF ReadsSane
      <3>2. CASE d # c \/ h # g
        <4>1. cycles'[d][h] = cycles[d][h]
          BY <1>1, <3>2
        <4>2. QED
          BY <1>0, <4>1 DEF ReadsSane
      <3>3. QED
        BY <3>1, <3>2
    <2>2. ASSUME NEW d \in Conversations, NEW o \in Slots
          PROVE  /\ loads'[o].pc \in {"windows", "storing", "lasts", "counts", "commit"} /\ loads'[o].rows[d] # "absent" =>
                      server[d].row # "absent"
                 /\ loads'[o].pc \in {"counts", "commit"} => loads'[o].lasts[d] \in Read(d)
      <3>1. /\ loads[o].pc \in {"windows", "storing", "lasts", "counts", "commit"} /\ loads[o].rows[d] # "absent" =>
                 server[d].row # "absent"
            /\ loads[o].pc \in {"counts", "commit"} => loads[o].lasts[d] \in Read(d)
        BY <1>0 DEF ReadsSane
      <3>2. QED
        BY <1>6, <3>1
    <2>3. QED
      BY <1>0, <1>1, <1>3, <2>1, <2>2 DEF ReadsSane
  <1>8. \A d \in Conversations : HiddenKept(d)'
    BY <1>0, <1>1, HiddenKeeps DEF HomeKept
  <1>9. ASSUME NEW d \in S PROVE LoadKept(d)' /\ CycleKept(d)' /\ ViewKept(d)'
    BY <1>2, <1>6, LeftKept
  <1>10. \A d \in Conversations \ S : d \in owed' <=> d \in owed
    BY <1>1
  <1>11. ASSUME NEW d \in Conversations \ S, d # c PROVE LoadKept(d)' /\ CycleKept(d)' /\ ViewKept(d)'
    <2>1. (\A h \in Schedulers : PassSame(d, h)) /\ EntrySame(d)
      BY <1>1, <1>10, <1>11 DEF PassSame, EntrySame, Cycling
    <2>2. QED
      BY <1>0, <1>2, <1>3, <1>5, <1>6, <2>1, Unconcerned
  <1>12. ASSUME c \notin S PROVE LoadKept(c)' /\ CycleKept(c)' /\ ViewKept(c)'
    <2>1. Cycling(c)'
      BY <1>1 DEF Cycling
    <2>2. LoadKept(c)'
      BY <1>0, <1>3, <1>5, <1>6, <1>12, LoadKeeps DEF HomeKept
    <2>3. CycleKept(c)'
      <3> SUFFICES ASSUME c \notin owed', NEW h \in Schedulers, cycles'[c][h].pass > 0, ~cycles'[c][h].raced
                   PROVE  /\ Followed(c)' => PassKept(c, cycles[c][h])'
                          /\ Slips(c)' = {} /\ Live(c)' /\ ~cycles'[c][h].failed => PassCounted(c, cycles[c][h])'
        BY DEF CycleKept
      <3>1. CASE h # g
        <4>1. PassSame(c, h)
          BY <1>1, <1>10, <1>12, <3>1 DEF PassSame
        <4>2. QED
          BY <1>0, <1>3, <1>5, <1>12, <4>1, PassKeeps DEF HomeKept
      <3>2. CASE h = g
        <4>1. /\ Followed(c) => PassKept(c, p)
              /\ Slips(c) = {} /\ Live(c) /\ ~p.failed => PassCounted(c, p)
          BY <1>0, <1>1, <1>10, <1>12, <3>2 DEF HomeKept, CycleKept
        <4>2. /\ Live(c)' = Live(c) /\ Count(c)' = Count(c) /\ Unread(c)' = Unread(c)
              /\ RowReads(c)' = RowReads(c) /\ WinReads(c)' = WinReads(c) /\ LastReads(c)' = LastReads(c)
              /\ Badge(c)' = Badge(c) /\ Slips(c)' = Slips(c) /\ Followed(c)' = Followed(c)
          BY <1>1, ReadSame DEF Followed, Slips
        <4>3. window'[c] = p.wins[c]
          BY <1>1
        <4> HIDE DEF p, q
        <4>4. Followed(c) =>
                /\ q.row \in RowReads(c) /\ {q.win, window'[c]} \subseteq WinReads(c)
                /\ "last" \in q.asked /\ ~q.failed => q.last \in LastReads(c)
          BY <1>1, <4>1, <4>3 DEF PassKept
        <4>5. Slips(c) = {} /\ Live(c) /\ ~q.failed =>
                /\ "last" \in q.asked => view'[c].last.k <= q.last.k
                /\ "last" \in q.asked /\ "count" \notin q.asked => q.last.k = Count(c)
                /\ "count" \in q.asked /\ "last" \notin q.asked => q.count = Cardinality(Unread(c))
                /\ "count" \in q.asked /\ "last" \in q.asked => q.count = Badge(c)[q.last.k]
          BY <1>1, <4>1 DEF PassCounted
        <4>6. PassKept(c, cycles[c][g])' <=>
                /\ "row" \in q.asked =>
                     q.row \in RowReads(c)' /\ (q.row = "absent" => window'[c] \in WinReads(c)')
                /\ "deletions" \in q.asked /\ "window" \notin q.asked => q.wins[c] \in WinReads(c)'
                /\ "window" \in q.asked => {q.win, window'[c]} \subseteq WinReads(c)'
                /\ "last" \in q.asked /\ ~q.failed => q.last \in LastReads(c)'
          BY DEF PassKept, q
        <4>7. PassCounted(c, cycles[c][g])' <=>
                /\ "last" \in q.asked => view'[c].last.k <= q.last.k
                /\ "last" \in q.asked /\ "count" \notin q.asked => q.last.k = Count(c)'
                /\ "count" \in q.asked /\ "last" \notin q.asked => q.count = Cardinality(Unread(c)')
                /\ "count" \in q.asked /\ "last" \in q.asked => q.count = Badge(c)'[q.last.k]
          BY DEF PassCounted, q
        <4>8. "window" \in q.asked
          BY <1>1
        <4>9. QED
          BY <3>2, <4>2, <4>4, <4>5, <4>6, <4>7, <4>8 DEF q
      <3>3. QED
        BY <3>1, <3>2
    <2>4. QED
      BY <2>1, <2>2, <2>3 DEF ViewKept
  <1>13. \A d \in Conversations : LoadKept(d)' /\ CycleKept(d)' /\ ViewKept(d)'
    BY <1>9, <1>11, <1>12
  <1>14. QED
    BY <1>2, <1>3, <1>4, <1>6, <1>7, <1>8, <1>13 DEF HomeInv

-----------------------------------------------------------------------------
(***************************************************************************)
(* The end of a pass keeps it.                                             *)
(***************************************************************************)
\* An entry made of a count that fits its message is exact.
LEMMA EntryExact ==
  ASSUME HomeTyped, FeedKept, NEW c \in Conversations, Live(c), NEW status \in RowType, NEW last \in MessageType,
         NEW win \in WinReads(c), NEW n \in Nat, n = Badge(c)[last.k]
  PROVE  Entry(status, last, win, n) \in Exact(c)
  <1> DEFINE v == Entry(status, last, win, n)
  <1>1. v \in EntryType
    BY EntryTyped DEF WinReads
  <1>2. v.row = "absent" \/ (v.unread = n /\ v.last = Trim(last, win.cut))
    BY EntryIs
  <1> HIDE DEF v
  <1>3. CASE v.row = "absent" \/ Coming(c, "window")
    BY <1>1, <1>3 DEF Exact, v
  <1>4. CASE v.row # "absent" /\ ~Coming(c, "window")
    <2>1. win = server[c].window
      BY <1>4 DEF WinReads, Live
    <2>2. Badge(c)[v.last.k] = Badge(c)[last.k]
      BY <1>2, <1>4, <2>1, TrimCounts
    <2>3. v.unread = Badge(c)[v.last.k]
      BY <1>2, <1>4, <2>2
    <2>4. QED
      BY <1>1, <2>3 DEF Exact, v
  <1>5. QED
    BY <1>3, <1>4

\* A pass that is not behind the list writes the entry that it read.
LEMMA AppliedIs ==
  ASSUME HomeTyped, NEW c \in Conversations, NEW p \in PassType, NEW cur \in EntryType,
         cur.last \in Read(c), p.last \in Read(c), cur.last.k <= p.last.k, p.row # "absent"
  PROVE  Applied(p, cur) = Entry(p.row, p.last, p.win, p.count)
  <1> DEFINE cut == p.win.cut
             m == p.last
             o == cur.last
  <1>1. /\ o.k \in Nat /\ m.k \in Nat /\ cut \in Int /\ o.k <= m.k
        /\ o.k = 0 => o = NoMessage
    BY HomeBoundsAssumption DEF Read, MessageType, PassType, WindowType
  <1>2. NoMessage.k = 0
    BY DEF NoMessage
  <1> DEFINE chosen == IF Trim(m, cut) = NoMessage THEN o ELSE mergeLastMessage(o, m)
  <1>3. Applied(p, cur) = IF isConversationVisible(p.row, m, p.win)
                          THEN [row |-> p.row, last |-> Trim(chosen, cut), unread |-> p.count]
                          ELSE Unlisted
    BY DEF Applied
  <1>4. Trim(chosen, cut) = Trim(m, cut)
    <2> HIDE DEF m, o, cut
    <2>1. CASE Trim(m, cut) = NoMessage
      <3>1. isHiddenByChatDeletion(m.k, cut) \/ m = NoMessage
        BY <2>1 DEF Trim
      <3>2. CASE isHiddenByChatDeletion(m.k, cut)
        BY <1>1, <2>1, <3>2 DEF Trim, isHiddenByChatDeletion
      <3>3. CASE m = NoMessage
        BY <1>1, <1>2, <2>1, <3>3 DEF Trim
      <3>4. QED
        BY <3>1, <3>2, <3>3
    <2>2. CASE Trim(m, cut) # NoMessage
      BY <1>1, <2>2 DEF mergeLastMessage
    <2>3. QED
      BY <2>1, <2>2
  <1> HIDE DEF chosen
  <1>5. QED
    BY <1>3, <1>4 DEF Entry

\* A pass whose answers are right writes an entry that fits.
LEMMA AppliedFits ==
  ASSUME HomeTyped, ServerKept, FeedKept, NEW c \in Conversations, NEW p \in PassType, NEW cur \in EntryType,
         cur.last \in Read(c), p.last \in Read(c), p.row # "absent",
         p.row \in RowReads(c), p.win \in WinReads(c), p.last \in LastReads(c)
  PROVE  Applied(p, cur) \in Fitting(c)
  <1>1. cur.last.k \in Int /\ p.last.k \in Int /\ cur.last.k <= Count(c) /\ Count(c) \in Int /\ p.count \in Nat
    BY ReadTypes DEF Read, MessageType, PassType
  <1>2. CASE cur.last.k <= p.last.k
    BY <1>1, <1>2, AppliedIs, EntryFits
  <1>3. CASE ~(cur.last.k <= p.last.k)
    <2>1. server[c].row = "deleted" \/ Posting(c)
      BY <1>1, <1>3 DEF LastReads
    <2>2. Applied(p, cur) \in EntryType /\ Applied(p, cur).row \in {"absent", p.row}
      BY AppliedTyped DEF Applied, Unlisted
    <2>3. CASE Coming(c, "gone") \/ (Coming(c, "row") /\ Live(c))
      BY <2>2, <2>3 DEF Fitting
    <2>4. CASE ~Coming(c, "gone") /\ ~(Coming(c, "row") /\ Live(c))
      <3>1. Awaited(c) # {} => Live(c)
        BY <2>4, EventRow, ServerFacts
      <3>2. p.row = RowOf(c)
        BY <2>4, <3>1 DEF RowReads, Coming
      <3>3. Live(c) /\ p.row = server[c].row
        BY <3>2, ServerFacts
      <3>4. Posting(c)
        BY <2>1, <3>3 DEF Live
      <3>5. QED
        BY <2>2, <3>3, <3>4 DEF Fitting
    <2>5. QED
      BY <2>3, <2>4
  <1>4. QED
    BY <1>2, <1>3

\* A pass ends.
LEMMA ApplyKept ==
  ASSUME HomeInv, NEW c \in Conversations, NEW g \in Schedulers, Apply(c, g)
  PROVE  HomeInv'
  <1>0. HomeTyped /\ ServerKept /\ FeedKept /\ ReadsSane /\ GatesKept /\ \A d \in Conversations : HomeKept(d)
    BY InvParts
  <1> DEFINE p == cycles[c][g]
             lost == Final(p) /\ ~p.rerun /\ (p.raced \/ Transient(p))
  <1>1. /\ p \in PassType /\ p.pass > 0 /\ Complete(p)
        /\ \A d \in Conversations \ {c} : cycles'[d] = cycles[d] /\ view'[d] = view[d]
        /\ \A h \in Schedulers \ {g} : cycles'[c][h] = cycles[c][h]
        /\ cycles'[c][g] = NextPass(p)
        /\ view'[c] = CASE Refetch(p) \/ Transient(p) -> view[c]
                        [] ~Refetch(p) /\ p.row = "absent" -> IF p.raced THEN view[c] ELSE Unlisted
                        [] OTHER -> Applied(p, view[c])
        /\ lost => owed' = owed \cup {c} /\ loads' = Lapsed({c}, loads)
        /\ ~lost => owed' = owed /\ loads' = loads
        /\ slips' = slips \cup (IF Loading \/ Twin(c, g) THEN {<<"miscounted", c>>} ELSE {})
        /\ window' = window
        /\ server' = server /\ feed' = feed /\ channel' = channel /\ newest' = newest
        /\ pending' = pending /\ mirror' = mirror
    BY <1>0, ApplyIs DEF CycleFrame
  <1>2. /\ \/ NextPass(p) = IdlePass /\ ~p.rerun /\ (Refetch(p) => Final(p))
           \/ \E n \in 1 .. MaxPasses : NextPass(p) = Pass(n)
    BY <1>1, NextPassIs
  <1>3. /\ NextPass(p).last = NoMessage /\ NextPass(p).row = "absent" /\ NextPass(p).asked = {}
        /\ IdlePass.pass = 0
        /\ NextPass(p).pass > 0 \/ (NextPass(p) = IdlePass /\ ~p.rerun /\ (Refetch(p) => Final(p)))
    <2>1. IdlePass.last = NoMessage /\ IdlePass.row = "absent" /\ IdlePass.asked = {} /\ IdlePass.pass = 0
      BY DEF IdlePass
    <2>2. \A n \in 1 .. MaxPasses : n \in 0 .. MaxPasses /\ n > 0
      BY HomeBoundsAssumption
    <2>3. QED
      BY <1>2, <2>1, <2>2, PassTyped
  <1>4. HomeTyped'
    BY <1>0, ApplyTyped
  <1>5. FeedKept' /\ (\A d \in Conversations : Persist(d)) /\ \A d \in Conversations : Read(d)' = Read(d)
    BY <1>0, <1>1, FeedSame, ReadSame
  <1>6. ServerKept' /\ \A d \in Conversations : WindowSame(d)
    BY <1>0, <1>1 DEF ServerKept, WindowSame
  <1> HIDE DEF lost
  <1>7. /\ GatesKept' /\ (\A d \in Conversations : LoadSame(d)) /\ (lost => Left(c))
        /\ \A o \in Slots :
             /\ loads'[o].pc = loads[o].pc
             /\ loads[o].pc # "idle" => loads'[o].rows = loads[o].rows /\ loads'[o].lasts = loads[o].lasts
    <2>1. CASE ~lost
      BY <1>0, <1>1, <2>1 DEF GatesKept, Loading, LoadSame, HomeTyped
    <2>2. CASE lost
      <3>1. loads \in [Slots -> LoadType] /\ (\A l \in Slots : Filled(loads[l])) /\ {c} \in SUBSET Conversations
        BY <1>0 DEF HomeTyped
      <3>2. \A o \in Slots :
             /\ loads'[o].pc = loads[o].pc
             /\ loads[o].pc # "idle" => loads'[o].rows = loads[o].rows /\ loads'[o].lasts = loads[o].lasts
        BY <1>1, <2>2, <3>1, LapsedIs
      <3>3. GatesKept' /\ \A d \in Conversations : LoadSame(d) /\ (d \in {c} => Left(d))
        BY <1>0, <1>1, <2>2, <3>1, LoadsLapsed
      <3>4. QED
        BY <3>2, <3>3
    <2>3. QED
      BY <2>1, <2>2
  <1>8. view[c].last \in Read(c) /\ p.last \in Read(c) /\ NoMessage \in Read(c) /\ view[c] \in EntryType
    BY <1>0, AnswersRight DEF ReadsSane, HomeTyped
  <1>9. view'[c].last \in {view[c].last, p.last, NoMessage}
    BY <1>1, <1>8, AppliedTyped DEF Unlisted
  <1>10. ReadsSane'
    <2>1. ASSUME NEW d \in Conversations, NEW h \in Schedulers
          PROVE  /\ cycles'[d][h].last \in Read(d)
                 /\ cycles'[d][h].row # "absent" => server[d].row # "absent"
                 /\ cycles'[d][h].asked \cap {"last", "deletions", "window", "count"} # {} =>
                      "row" \in cycles'[d][h].asked /\ cycles'[d][h].row # "absent"
      <3>1. CASE d = c /\ h = g
        <4>1. /\ cycles'[c][g].last = NoMessage /\ cycles'[c][g].row = "absent" /\ cycles'[c][g].asked = {}
          BY <1>1, <1>3
        <4>2. QED
          BY <1>8, <3>1, <4>1
      <3>2. CASE d # c \/ h # g
        <4>1. cycles'[d][h] = cycles[d][h]
          BY <1>1, <3>2
        <4>2. QED
          BY <1>0, <4>1 DEF ReadsSane
      <3>3. QED
        BY <3>1, <3>2
    <2>2. ASSUME NEW d \in Conversations, NEW o \in Slots
          PROVE  /\ loads'[o].pc \in {"windows", "storing", "lasts", "counts", "commit"} /\ loads'[o].rows[d] # "absent" =>
                      server[d].row # "absent"
                 /\ loads'[o].pc \in {"counts", "commit"} => loads'[o].lasts[d] \in Read(d)
      <3>1. /\ loads[o].pc \in {"windows", "storing", "lasts", "counts", "commit"} /\ loads[o].rows[d] # "absent" =>
                 server[d].row # "absent"
            /\ loads[o].pc \in {"counts", "commit"} => loads[o].lasts[d] \in Read(d)
        BY <1>0 DEF ReadsSane
      <3>2. QED
        BY <1>7, <3>1
    <2>3. \A d \in Conversations : view'[d].last \in Read(d) /\ mirror[d].last \in Read(d)
      BY <1>0, <1>1, <1>8, <1>9 DEF ReadsSane
    <2>4. QED
      BY <1>1, <1>5, <2>1, <2>2, <2>3 DEF ReadsSane
  <1>11. ASSUME NEW d \in Conversations \ {c} PROVE LoadKept(d)' /\ CycleKept(d)' /\ ViewKept(d)' /\ HiddenKept(d)'
    <2>1. d \notin owed' => d \notin owed
      BY <1>1
    <2>2. (\A h \in Schedulers : PassSame(d, h)) /\ EntrySame(d)
      BY <1>1, <2>1 DEF PassSame, EntrySame, Cycling
    <2>3. HiddenKept(d)'
      BY <1>0, <1>1, HiddenKeeps DEF HomeKept
    <2>4. QED
      BY <1>0, <1>4, <1>5, <1>6, <1>7, <2>2, <2>3, Unconcerned
  <1>12. HiddenKept(c)'
    <2>1. HiddenKept(c)
      BY <1>0 DEF HomeKept
    <2>2. \/ view'[c] = view[c] \/ view'[c] = Unlisted
          \/ p.row # "absent" /\ view'[c] = Applied(p, view[c])
      BY <1>1
    <2>3. Applied(p, view[c]) = Unlisted \/ Applied(p, view[c]).row = p.row
      BY DEF Applied
    <2>4. "unmatched" \notin Slips(c)' => "unmatched" \notin Slips(c)
      BY <1>1, SlipsAre, SlipsWere
    <2>5. QED
      BY <2>1, <2>2, <2>3, <2>4 DEF HiddenKept
  <1>13. CASE lost
    <2>1. LoadKept(c)' /\ CycleKept(c)' /\ ViewKept(c)'
      BY <1>7, <1>13, LeftKept
    <2>2. QED
      BY <1>4, <1>5, <1>6, <1>7, <1>10, <1>11, <1>12, <2>1 DEF HomeInv
  <1>14. CASE ~lost
    <2>1. LoadKept(c)'
      BY <1>0, <1>5, <1>6, <1>7, LoadKeeps DEF HomeKept
    <2>2. CycleKept(c)'
      <3>1. PassSame(c, g)
        BY <1>1, <1>3 DEF PassSame
      <3>2. ASSUME NEW h \in Schedulers \ {g} PROVE PassSame(c, h)
        <4>1. cycles'[c][h].pass > 0 => Slips(c)' # {}
          BY <1>1, SlipsWere DEF Twin
        <4>2. QED
          BY <1>1, <1>14, <4>1 DEF PassSame
      <3>3. QED
        BY <1>0, <1>5, <1>6, <3>1, <3>2, CycleKeeps DEF HomeKept
    <2>3. ViewKept(c)'
      <3> SUFFICES ASSUME c \notin owed' \cup pending', ~Cycling(c)' PROVE ViewKept(c)'
        BY DEF ViewKept
      <3>1. NextPass(p) = IdlePass /\ ~p.rerun /\ (Refetch(p) => Final(p)) /\ ~Twin(c, g)
        BY <1>1, <1>3 DEF Cycling, Twin
      <3>2. ~Refetch(p) /\ ~p.raced /\ ~Transient(p) /\ c \notin owed
        BY <1>1, <1>14, <3>1 DEF lost, Refetch
      <3>3. /\ Followed(c) => PassKept(c, p)
            /\ Slips(c) = {} /\ Live(c) /\ ~p.failed => PassCounted(c, p)
        BY <1>0, <1>1, <3>2 DEF HomeKept, CycleKept
      <3>4. "row" \in p.asked /\ (p.row # "absent" => {"last", "window", "count"} \subseteq p.asked /\ ~p.failed)
        BY <1>1, <3>2 DEF Complete, Transient
      <3>5. view'[c] = IF p.row = "absent" THEN Unlisted ELSE Applied(p, view[c])
        BY <1>1, <3>2
      <3>6. Followed(c)' = Followed(c) /\ (Slips(c)' = {} => Slips(c) = {})
        <4>1. Followed(c)' <=> Followed(c)
          BY <1>1, SlipsAre, SlipsWere
        <4>2. Slips(c)' = {} => Slips(c) = {}
          BY <1>1, SlipsAre, SlipsWere
        <4>3. QED
          BY <4>1, <4>2 DEF Followed
      <3>7. Live(c)' = Live(c) /\ WinReads(c)' = WinReads(c) /\ Fitting(c)' = Fitting(c) /\ Exact(c)' = Exact(c)
        BY <1>1, ReadSame
      <3> HIDE DEF p
      <3>8. ASSUME Followed(c) PROVE view'[c] \in Fitting(c) /\ window'[c] \in WinReads(c)
        <4>1. PassKept(c, p)
          BY <3>3, <3>8
        <4>2. CASE p.row = "absent"
          <5>1. "absent" \in RowReads(c) /\ window[c] \in WinReads(c)
            BY <3>4, <4>1, <4>2 DEF PassKept
          <5>2. NoMessage \in LastReads(c) /\ server[c].window \in WinReads(c) /\ 0 \in Nat
            BY <1>0, <5>1, AnswersRight
          <5>3. Entry("absent", NoMessage, server[c].window, 0) \in Fitting(c)
            BY <1>0, <5>1, <5>2, EntryFits
          <5>4. Entry("absent", NoMessage, server[c].window, 0) = Unlisted
            BY DEF Entry
          <5>5. QED
            BY <1>1, <3>5, <4>2, <5>1, <5>3, <5>4
        <4>3. CASE p.row # "absent"
          <5>1. /\ p.row \in RowReads(c) /\ {p.win, window[c]} \subseteq WinReads(c) /\ p.last \in LastReads(c)
            BY <3>4, <4>1, <4>3 DEF PassKept
          <5>2. Applied(p, view[c]) \in Fitting(c)
            BY <1>0, <1>1, <1>8, <4>3, <5>1, AppliedFits DEF p
          <5>3. QED
            BY <1>1, <3>5, <4>3, <5>1, <5>2
        <4>4. QED
          BY <4>2, <4>3
      <3>9. ASSUME Slips(c) = {}, Live(c) PROVE view'[c] \in Exact(c)
        <4>1. CASE p.row = "absent"
          <5>1. Unlisted \in EntryType /\ Unlisted.row = "absent"
            BY WindowsTyped DEF Unlisted
          <5>2. QED
            BY <3>5, <4>1, <5>1 DEF Exact
        <4>2. CASE p.row # "absent"
          <5>1. view[c].last.k <= p.last.k /\ p.count = Badge(c)[p.last.k]
            BY <3>3, <3>4, <3>9, <4>2 DEF PassCounted
          <5>2. p.win \in WinReads(c)
            BY <3>3, <3>4, <3>9, <4>2, SlipsAre DEF PassKept
          <5>3. p \in PassType /\ p.row \in RowType /\ p.last \in MessageType /\ p.count \in Nat
            BY <1>1 DEF PassType, p
          <5>4. Applied(p, view[c]) = Entry(p.row, p.last, p.win, p.count)
            BY <1>0, <1>8, <4>2, <5>1, <5>3, AppliedIs DEF p
          <5>5. Entry(p.row, p.last, p.win, p.count) \in Exact(c)
            BY <1>0, <3>9, <5>1, <5>2, <5>3, EntryExact
          <5>6. QED
            BY <3>5, <4>2, <5>4, <5>5
        <4>3. QED
          BY <4>1, <4>2
      <3>10. QED
        BY <3>6, <3>7, <3>8, <3>9 DEF ViewKept
    <2>4. QED
      BY <1>4, <1>5, <1>6, <1>7, <1>10, <1>11, <1>12, <2>1, <2>2, <2>3 DEF HomeInv
  <1>15. QED
    BY <1>13, <1>14

-----------------------------------------------------------------------------
(***************************************************************************)
(* The feed without the event that was taken.                              *)
(***************************************************************************)
\* Where the rest of a sequence was in the whole.
LEMMA IndexOfRest ==
  ASSUME NEW S, NEW q \in Seq(S), q # <<>>
  PROVE  /\ DOMAIN Tail(q) \subseteq Nat /\ DOMAIN q \subseteq Nat
         /\ \A j \in DOMAIN q : 1 < j => j - 1 \in DOMAIN Tail(q) /\ Tail(q)[j - 1] = q[j]
  <1> DEFINE t == Tail(q)
  <1>1. Len(t) = Len(q) - 1 /\ Len(q) \in Nat \ {0} /\ DOMAIN q = 1 .. Len(q)
    OBVIOUS
  <1>2. \A i \in 1 .. Len(t) : t[i] = q[i + 1]
    OBVIOUS
  <1>3. DOMAIN t = 1 .. Len(t)
    OBVIOUS
  <1> HIDE DEF t
  <1>4. ASSUME NEW j \in DOMAIN q, 1 < j PROVE j - 1 \in DOMAIN t /\ t[j - 1] = q[j]
    <2>1. j - 1 \in 1 .. Len(t) /\ (j - 1) + 1 = j
      BY <1>1, <1>4
    <2>2. QED
      BY <1>2, <1>3, <2>1
  <1>5. QED
    BY <1>1, <1>3, <1>4 DEF t

\* The feed without the event that was delivered.
LEMMA FeedRest ==
  ASSUME feed \in Seq(EventType), FeedKept, feed # <<>>, feed' = Tail(feed), NEW e, e = Head(feed)
  PROVE  /\ e \in EventType /\ e \in Awaited(e.c)
         /\ \A d : d # e.c => Awaited(d)' = Awaited(d)
         /\ Awaited(e.c)' \subseteq Awaited(e.c) /\ Awaited(e.c) \subseteq Awaited(e.c)' \cup {e}
         /\ \A f \in Awaited(e.c)' : Before(e, f)
  <1>1. /\ e \in ToSet(feed) /\ ToSet(feed') \subseteq ToSet(feed) /\ ToSet(feed) \subseteq ToSet(feed') \cup {e}
        /\ e = feed[1] /\ 1 \in DOMAIN feed
        /\ \A i \in DOMAIN feed' : i + 1 \in DOMAIN feed /\ feed'[i] = feed[i + 1] /\ i \in Nat /\ 1 < i + 1
    BY RestOfFeed
  <1>2. e \in EventType
    BY <1>1, ElementsTyped
  <1>3. ASSUME NEW f \in Awaited(e.c)' PROVE Before(e, f)
    <2>1. PICK i \in DOMAIN feed' : feed'[i] = f
      BY DEF Awaited, ToSet
    <2>2. i + 1 \in DOMAIN feed /\ feed[i + 1] = f /\ 1 < i + 1
      BY <1>1, <2>1
    <2>3. PICK j \in DOMAIN feed : feed[j] = f /\ 1 < j
      BY <2>2
    <2>4. QED
      BY <1>1, <2>3 DEF FeedKept
  <1>4. QED
    BY <1>1, <1>2, <1>3 DEF Awaited

\* What is still awaited after an event was taken.
LEMMA Remaining ==
  ASSUME NEW e \in EventType, NEW c, c = e.c, e \in Awaited(c), Awaited(c)' \subseteq Awaited(c),
         Awaited(c) \subseteq Awaited(c)' \cup {e},
         \A f \in Awaited(c)' : Before(e, f) /\ f \in EventType
  PROVE  /\ \A kind : Coming(c, kind)' => Coming(c, kind)
         /\ \A kind : e.kind # kind => (Coming(c, kind)' <=> Coming(c, kind))
         /\ \A k : Inserting(c, k)' => Inserting(c, k)
         /\ e.kind # "insert" => \A k : Inserting(c, k)' <=> Inserting(c, k)
         /\ e.kind # "update" => \A k : Updating(c, k)' <=> Updating(c, k)
         /\ e.kind = "insert" =>
              /\ Inserting(c, e.msg.k) /\ e.msg.k \in Int
              /\ \A k : k # e.msg.k => (Inserting(c, k)' <=> Inserting(c, k))
              /\ \A k : Inserting(c, k)' => e.msg.k < k
         /\ e.kind = "gone" => Awaited(c)' = {}
  <1>1. /\ \A kind : Coming(c, kind)' => Coming(c, kind)
        /\ \A kind : e.kind # kind => (Coming(c, kind)' <=> Coming(c, kind))
    BY DEF Coming
  <1>2. /\ \A k : Inserting(c, k)' => Inserting(c, k)
        /\ e.kind # "insert" => \A k : Inserting(c, k)' <=> Inserting(c, k)
    BY DEF Inserting
  <1>3. e.kind # "update" => \A k : Updating(c, k)' <=> Updating(c, k)
    BY DEF Updating
  <1>4. ASSUME e.kind = "insert"
        PROVE  /\ Inserting(c, e.msg.k) /\ e.msg.k \in Int
               /\ \A k : k # e.msg.k => (Inserting(c, k)' <=> Inserting(c, k))
               /\ \A k : Inserting(c, k)' => e.msg.k < k
    <2>1. Inserting(c, e.msg.k) /\ e.msg.k \in Int
      BY <1>4, EventFacts DEF Inserting, MessageType
    <2>2. \A k : k # e.msg.k => (Inserting(c, k)' <=> Inserting(c, k))
      BY <1>4 DEF Inserting
    <2>3. \A k : Inserting(c, k)' => e.msg.k < k
      <3>1. \A f \in Awaited(c)' : f.c = e.c
        BY DEF Awaited
      <3>2. QED
        BY <1>4, <3>1 DEF Inserting, Before
    <2>4. QED
      BY <2>1, <2>2, <2>3
  <1>5. ASSUME e.kind = "gone" PROVE Awaited(c)' = {}
    <2>1. \A f \in Awaited(c)' : f.c = e.c
      BY DEF Awaited
    <2>2. QED
      BY <1>5, <2>1 DEF Before
  <1>6. QED
    BY <1>1, <1>2, <1>3, <1>4, <1>5

\* What the rest of the feed tells is still so.
LEMMA RestKept ==
  ASSUME HomeTyped, FeedKept, feed # <<>>, feed' = Tail(feed), server' = server, slips \subseteq slips',
         channel' = channel, channel = "live"
  PROVE  FeedKept'
  <1>0. feed \in Seq(EventType)
    BY DEF HomeTyped
  <1>1. PICK e : e = Head(feed)
    OBVIOUS
  <1>2. PICK c : c = e.c
    OBVIOUS
  <1>3. /\ e \in EventType /\ e \in Awaited(c)
        /\ \A d : d # c => Awaited(d)' = Awaited(d)
        /\ Awaited(c)' \subseteq Awaited(c) /\ Awaited(c) \subseteq Awaited(c)' \cup {e}
        /\ \A f \in Awaited(c)' : Before(e, f)
    BY <1>0, <1>1, <1>2, FeedRest
  <1>4. \A d : \A f \in Awaited(d) : f \in EventType /\ f.c = d
    BY <1>0, ElementsTyped DEF Awaited, ToSet
  <1>5. c \in Conversations /\ \A f \in Awaited(c) : EventKept(c, f)
    <2>1. c \in Conversations
      BY <1>2, <1>3, EventFacts
    <2>2. QED
      BY <2>1 DEF FeedKept
  <1>6. /\ \A kind : e.kind # kind => (Coming(c, kind)' <=> Coming(c, kind))
        /\ e.kind # "insert" => \A k : Inserting(c, k)' <=> Inserting(c, k)
        /\ e.kind # "update" => \A k : Updating(c, k)' <=> Updating(c, k)
        /\ e.kind = "insert" => e.msg.k \in Int /\ \A k : k # e.msg.k => (Inserting(c, k)' <=> Inserting(c, k))
    BY <1>2, <1>3, <1>4, Remaining
  <1>7. Count(c)' = Count(c) /\ Count(c) \in Nat
    BY <1>5, ReadTypes, HomeBoundsAssumption DEF Count
  <1>8. ASSUME NEW f \in Awaited(c)' PROVE EventKept(c, f)'
    <2>1. EventKept(c, f) /\ Before(e, f) /\ e.c = f.c /\ f \in EventType /\ f \in Awaited(c)
      BY <1>2, <1>3, <1>4, <1>5
    <2>2. /\ e.kind # "gone"
          /\ e.kind = "row" /\ f.kind = "row" => f.row = "accepted"
          /\ e.kind \in {"insert", "update"} =>
               /\ f.kind # "row"
               /\ f.kind = "insert" => e.msg.k < f.msg.k
               /\ f.kind = "update" => e.msg.k <= f.msg.k
      BY <2>1 DEF Before
    <2>3. server[c].row # "absent" /\ (server[c].row = "deleted" <=> Coming(c, "gone")')
      BY <1>6, <2>1, <2>2 DEF EventKept
    <2>4. ASSUME f.kind = "row"
          PROVE  /\ server[c].row # "deleted" =>
                      \E h \in Awaited(c)' : h.kind = "row" /\ h.row = server[c].row
                 /\ f.row = "accepted" => server[c].row \in {"accepted", "deleted"}
                 /\ \A k \in 1 .. Count(c) : Inserting(c, k)'
      <3>1. /\ server[c].row # "deleted" =>
                 \E h \in Awaited(c) : h.kind = "row" /\ h.row = server[c].row
            /\ f.row = "accepted" => server[c].row \in {"accepted", "deleted"}
            /\ \A k \in 1 .. Count(c) : Inserting(c, k)
        BY <2>1, <2>4 DEF EventKept
      <3>2. server[c].row # "deleted" =>
                 \E h \in Awaited(c)' : h.kind = "row" /\ h.row = server[c].row
        BY <1>3, <2>2, <2>4, <3>1
      <3>3. e.kind # "insert"
        BY <2>2, <2>4
      <3>4. QED
        BY <1>6, <3>1, <3>2, <3>3
    <2>5. ASSUME f.kind \in {"insert", "update"}
          PROVE  /\ f.msg.k \in 1 .. Count(c)
                 /\ \A k \in f.msg.k + 1 .. Count(c) : Inserting(c, k)'
      <3>1. /\ f.msg.k \in 1 .. Count(c)
            /\ \A k \in f.msg.k + 1 .. Count(c) : Inserting(c, k)
        BY <2>1, <2>5 DEF EventKept
      <3>2. ASSUME NEW k \in f.msg.k + 1 .. Count(c) PROVE Inserting(c, k)'
        <4>1. e.kind = "insert" => e.msg.k # k
          BY <1>6, <1>7, <2>2, <2>5, <3>1
        <4>2. QED
          BY <1>6, <3>1, <4>1
      <3>3. QED
        BY <3>1, <3>2
    <2>6. ASSUME f.kind = "insert"
          PROVE  /\ ~f.msg.erased
                 /\ f.peer = server[c].msgs[f.msg.k].peer
                 /\ server[c].msgs[f.msg.k].erased => Updating(c, f.msg.k)'
      <3>1. /\ ~f.msg.erased /\ f.peer = server[c].msgs[f.msg.k].peer
            /\ server[c].msgs[f.msg.k].erased => Updating(c, f.msg.k)
            /\ f.msg.k \in Int
        BY <2>1, <2>6, EventFacts DEF EventKept, MessageType
      <3>2. ASSUME Updating(c, f.msg.k) PROVE Updating(c, f.msg.k)'
        <4>1. PICK h \in Awaited(c) : h.kind = "update" /\ h.msg.k = f.msg.k
          BY <3>2 DEF Updating
        <4>2. h # e
          BY <2>2, <2>6, <3>1, <4>1
        <4>3. QED
          BY <1>3, <4>1, <4>2 DEF Updating
      <3>3. QED
        BY <3>1, <3>2
    <2>7. f.kind = "update" =>
            f.msg.erased /\ server[c].msgs[f.msg.k].erased /\ <<"miscounted", c>> \in slips'
      BY <2>1 DEF EventKept
    <2>8. QED
      BY <1>7, <2>3, <2>4, <2>5, <2>6, <2>7 DEF EventKept
  <1>9. \A d \in Conversations : \A f \in Awaited(d)' : EventKept(d, f)'
    <2>1. ASSUME NEW d \in Conversations \ {c}, NEW f \in Awaited(d)' PROVE EventKept(d, f)'
      <3>1. EventKept(d, f)
        BY <1>3 DEF FeedKept
      <3>2. QED
        BY <1>3, <3>1, EventUnmoved
    <2>2. QED
      BY <1>8, <2>1
  <1>10. /\ \A i \in DOMAIN feed' : i + 1 \in DOMAIN feed /\ feed'[i] = feed[i + 1] /\ i \in Nat /\ 1 < i + 1
         /\ \A j \in DOMAIN feed : j \in Nat /\ (1 < j => j - 1 \in DOMAIN feed' /\ feed'[j - 1] = feed[j])
    BY <1>0, RestOfFeed, IndexOfRest
  <1>11. ASSUME NEW i \in DOMAIN feed', NEW j \in DOMAIN feed', i < j PROVE Before(feed'[i], feed'[j])
    <2>1. i + 1 < j + 1 /\ i + 1 \in DOMAIN feed /\ j + 1 \in DOMAIN feed
      BY <1>10, <1>11
    <2>2. Before(feed[i + 1], feed[j + 1])
      BY <2>1 DEF FeedKept
    <2>3. QED
      BY <1>10, <2>2
  <1>12. ASSUME NEW i \in DOMAIN feed' PROVE HidesLater(i)'
    <2> SUFFICES ASSUME feed'[i].kind = "insert", feed'[i].msg.k <= server[feed'[i].c].window.cut
                 PROVE  \E j \in DOMAIN feed' : i < j /\ feed'[j].c = feed'[i].c /\ feed'[j].kind = "window"
      BY DEF HidesLater
    <2>1. i + 1 \in DOMAIN feed /\ feed'[i] = feed[i + 1] /\ i \in Nat
      BY <1>10
    <2>2. HidesLater(i + 1)
      BY <2>1 DEF FeedKept
    <2>3. PICK j \in DOMAIN feed : i + 1 < j /\ feed[j].c = feed[i + 1].c /\ feed[j].kind = "window"
      BY <2>1, <2>2 DEF HidesLater
    <2>4. j \in Nat /\ 1 < j
      BY <1>10, <2>1, <2>3
    <2>5. j - 1 \in DOMAIN feed' /\ feed'[j - 1] = feed[j] /\ i < j - 1
      BY <1>10, <2>1, <2>3, <2>4
    <2>6. QED
      BY <2>1, <2>3, <2>5
  <1>13. QED
    BY <1>9, <1>11, <1>12 DEF FeedKept, Before

-----------------------------------------------------------------------------
(***************************************************************************)
(* What a delivered event does to the entry of its conversation: rows.     *)
(***************************************************************************)
\* Event e was taken from the feed.
Taken(e) ==
  /\ e \in EventType /\ e \in Awaited(e.c)
  /\ Awaited(e.c)' \subseteq Awaited(e.c) /\ Awaited(e.c) \subseteq Awaited(e.c)' \cup {e}
  /\ \A f \in Awaited(e.c)' : Before(e, f) /\ f \in EventType
  /\ server' = server /\ window' = window /\ slips \subseteq slips'
  /\ view' \in [Conversations -> EntryType]

\* The same, with what the event told of.
LEMMA TakenFacts ==
  ASSUME HomeTyped, ServerKept, FeedKept, NEW e, Taken(e), NEW c, c = e.c, NEW n, n = Count(c)
  PROVE  /\ c \in Conversations /\ EventKept(c, e)
         /\ Live(c)' = Live(c) /\ Count(c)' = n /\ Unread(c)' = Unread(c) /\ Truth(c)' = Truth(c)
         /\ \A kind : Coming(c, kind)' => Coming(c, kind)
         /\ \A kind : e.kind # kind => (Coming(c, kind)' <=> Coming(c, kind))
         /\ \A k : Inserting(c, k)' => Inserting(c, k)
         /\ e.kind # "insert" => \A k : Inserting(c, k)' <=> Inserting(c, k)
         /\ e.kind # "update" => \A k : Updating(c, k)' <=> Updating(c, k)
         /\ e.kind = "insert" =>
              /\ Inserting(c, e.msg.k) /\ e.msg.k \in Int
              /\ \A k : k # e.msg.k => (Inserting(c, k)' <=> Inserting(c, k))
              /\ \A k : Inserting(c, k)' => e.msg.k < k
         /\ Posting(c) <=> Inserting(c, n)
         /\ Posting(c)' <=> Inserting(c, n)'
         /\ Erasing(c) <=> Updating(c, n)
         /\ Erasing(c)' <=> Updating(c, n)'
         /\ Coming(c, "gone") \/ Live(c)
         /\ n \in 0 .. MaxMessages /\ n \in Nat /\ MaxMessages \in Nat
         /\ view'[c] \in EntryType /\ view[c] \in EntryType
  <1>1. c \in Conversations /\ EventKept(c, e)
    BY EventFacts DEF Taken, FeedKept
  <1>2. /\ \A kind : Coming(c, kind)' => Coming(c, kind)
        /\ \A kind : e.kind # kind => (Coming(c, kind)' <=> Coming(c, kind))
        /\ \A k : Inserting(c, k)' => Inserting(c, k)
        /\ e.kind # "insert" => \A k : Inserting(c, k)' <=> Inserting(c, k)
        /\ e.kind # "update" => \A k : Updating(c, k)' <=> Updating(c, k)
        /\ e.kind = "insert" =>
             /\ Inserting(c, e.msg.k) /\ e.msg.k \in Int
             /\ \A k : k # e.msg.k => (Inserting(c, k)' <=> Inserting(c, k))
             /\ \A k : Inserting(c, k)' => e.msg.k < k
    BY Remaining DEF Taken
  <1>3. Live(c)' = Live(c) /\ Count(c)' = n /\ Unread(c)' = Unread(c) /\ Truth(c)' = Truth(c)
    BY DEF Taken, Live, Count, Unread, Truth, RowOf, LastOf, UnreadOf
  <1>4. /\ Posting(c) <=> Inserting(c, n)
        /\ Erasing(c) <=> Updating(c, n)
    BY DEF Posting, Erasing
  <1>5. /\ Posting(c)' <=> Inserting(c, n)'
        /\ Erasing(c)' <=> Updating(c, n)'
    BY <1>3 DEF Posting, Erasing, Inserting, Updating
  <1>6. Coming(c, "gone") \/ Live(c)
    BY <1>1, ServerFacts DEF EventKept
  <1>7. n \in 0 .. MaxMessages /\ n \in Nat /\ MaxMessages \in Nat
    BY <1>1, ReadTypes, HomeBoundsAssumption
  <1>8. view'[c] \in EntryType /\ view[c] \in EntryType
    BY <1>1 DEF Taken, HomeTyped
  <1>9. QED
    BY <1>1, <1>2, <1>3, <1>4, <1>5, <1>6, <1>7, <1>8

\* The windows that were right are, unless a window was what was told.
LEMMA WindowTaken ==
  ASSUME HomeTyped, ServerKept, FeedKept, NEW e, Taken(e), NEW c, c = e.c, e.kind # "window"
  PROVE  WinReads(c)' = WinReads(c)
  <1>1. Coming(c, "window")' <=> Coming(c, "window")
    BY TakenFacts
  <1>2. QED
    BY <1>1 DEF WinReads, Taken

\* An event about an entry that is not there leaves it right.
LEMMA AbsentFits ==
  ASSUME HomeTyped, ServerKept, FeedKept, NEW e, Taken(e), NEW c, c = e.c,
         e.kind \in {"gone", "update"}, view'[c].row = "absent",
         e.kind = "update" => view[c] \in Fitting(c) /\ view[c].row = "absent"
  PROVE  view'[c] \in Fitting(c)' /\ view'[c] \in Exact(c)'
  <1>1. PICK n : n = Count(c)
    OBVIOUS
  <1>2. /\ EventKept(c, e) /\ Live(c)' = Live(c) /\ Truth(c)' = Truth(c) /\ view'[c] \in EntryType
        /\ \A kind : e.kind # kind => (Coming(c, kind)' <=> Coming(c, kind))
        /\ \A k : Inserting(c, k)' <=> Inserting(c, k)
        /\ Posting(c)' <=> Posting(c)
    BY <1>1, TakenFacts
  <1>3. view'[c] \in Exact(c)'
    BY <1>2 DEF Exact
  <1>4. CASE e.kind = "gone"
    <2>1. Coming(c, "gone")
      BY <1>4 DEF Coming, Taken
    <2>2. ~Live(c)
      BY <1>2, <2>1 DEF EventKept, Live
    <2>3. QED
      BY <1>2, <1>3, <2>2 DEF Fitting
  <1>5. CASE e.kind = "update"
    <2>1. /\ Coming(c, "gone")' <=> Coming(c, "gone")
          /\ Coming(c, "window")' <=> Coming(c, "window")
          /\ Coming(c, "row")' <=> Coming(c, "row")
      BY <1>2, <1>5
    <2>2. /\ \/ Coming(c, "gone") \/ Coming(c, "window") \/ ~Live(c)
             \/ /\ Live(c)
                /\ Coming(c, "row") \/ Posting(c) \/ Truth(c).row = "absent"
      BY <1>5 DEF Fitting
    <2>3. view'[c] \in Fitting(c)'
      BY <1>2, <2>1, <2>2 DEF Fitting
    <2>4. QED
      BY <1>3, <2>3
  <1>6. QED
    BY <1>4, <1>5

\* A row event writes a row that fits, and takes no badge wrong.
LEMMA RowFits ==
  ASSUME HomeTyped, ServerKept, FeedKept, ReadsSane, NEW e, Taken(e), NEW c, c = e.c, e.kind = "row",
         view'[c] = IF isConversationVisible(e.row, mirror[c].last, window[c])
                    THEN [view[c] EXCEPT !.row = e.row, !.last = Trim(view[c].last, window[c].cut)]
                    ELSE Unlisted,
         window[c] \in WinReads(c)
  PROVE  /\ view'[c] \in Fitting(c)'
         /\ Live(c) /\ view[c] \in Exact(c) /\ (view[c].row = "absent" => view[c] = Unlisted) =>
              view'[c] \in Exact(c)'
  <1>1. PICK n : n = Count(c)
    OBVIOUS
  <1>2. /\ c \in Conversations /\ EventKept(c, e) /\ Live(c)' = Live(c) /\ Truth(c)' = Truth(c)
        /\ Unread(c)' = Unread(c) /\ view'[c] \in EntryType /\ view[c] \in EntryType
        /\ \A kind : e.kind # kind => (Coming(c, kind)' <=> Coming(c, kind))
        /\ \A k : Inserting(c, k)' <=> Inserting(c, k)
        /\ Posting(c) <=> Inserting(c, n)
        /\ Posting(c)' <=> Posting(c)
        /\ Coming(c, "gone") \/ Live(c)
        /\ n \in 0 .. MaxMessages /\ n \in Nat /\ MaxMessages \in Nat
    BY <1>1, TakenFacts
  <1>3. /\ Coming(c, "gone")' <=> Coming(c, "gone")
        /\ Coming(c, "window")' <=> Coming(c, "window")
    BY <1>2
  <1>4. /\ server[c].row = "deleted" <=> Coming(c, "gone")
        /\ server[c].row # "deleted" => \E f \in Awaited(c) : f.kind = "row" /\ f.row = server[c].row
        /\ \A k \in 1 .. n : Inserting(c, k)
    BY <1>1, <1>2 DEF EventKept
  <1>5. e.row \in {"pending", "accepted"}
    BY EventFacts DEF Taken
  <1> DEFINE old == view[c]
             new == view'[c]
             shown == isConversationVisible(e.row, mirror[c].last, window[c])
             cut == window[c].cut
  <1>6. /\ shown => new.row = e.row /\ new.last = Trim(old.last, cut) /\ new.unread = old.unread
        /\ ~shown => new = Unlisted
    BY <1>2 DEF EntryType
  <1>7. Unlisted.row = "absent" /\ Unlisted.last = NoMessage /\ NoMessage.k = 0 /\ Unlisted.unread = 0
    BY DEF Unlisted, NoMessage
  <1>8. CASE Coming(c, "gone") \/ Coming(c, "window")
    <2>1. new \in Fitting(c)'
      BY <1>2, <1>3, <1>8 DEF Fitting
    <2>2. Live(c) => new \in Exact(c)'
      BY <1>2, <1>3, <1>4, <1>8 DEF Exact, Live
    <2>3. QED
      BY <2>1, <2>2
  <1>9. CASE ~Coming(c, "gone") /\ ~Coming(c, "window")
    <2>1. Live(c) /\ window[c] = server[c].window
      BY <1>2, <1>9 DEF WinReads, Live
    <2>2. Coming(c, "row")' \/ e.row = server[c].row
      BY <1>4, <1>9 DEF Taken, Coming
    <2>3. new \in Fitting(c)'
      <3>1. CASE Coming(c, "row")'
        BY <1>2, <2>1, <3>1 DEF Fitting
      <3>2. CASE e.row = server[c].row
        <4>1. new.row \in {"absent", server[c].row}
          BY <1>6, <1>7, <3>2
        <4>2. server'[c].row = server[c].row
          BY DEF Taken
        <4>3. CASE n # 0
          <5>1. Posting(c)'
            BY <1>2, <1>4, <4>3
          <5>2. QED
            BY <1>2, <2>1, <4>1, <4>2, <5>1 DEF Fitting
        <4>4. CASE n = 0
          <5>1. /\ old.last = NoMessage /\ mirror[c].last.k = NoMessage.k
                /\ LastOf(c) = NoMessage /\ RowOf(c) = server[c].row
            <6>1. \A m \in Read(c) : m = NoMessage
              BY <1>1, <4>4, HomeBoundsAssumption DEF Read, MessageType
            <6>2. LastOf(c) \in Read(c)
              BY <1>2, AnswersRight
            <6>3. RowOf(c) = server[c].row
              BY <1>2, <2>1, ServerFacts
            <6>4. old.last \in Read(c) /\ mirror[c].last \in Read(c)
              BY <1>2 DEF ReadsSane
            <6>5. QED
              BY <6>1, <6>2, <6>3, <6>4
          <5>2. shown <=> isConversationVisible(server[c].row, NoMessage, server[c].window)
            BY <2>1, <3>2, <5>1, VisibleBy
          <5>3. /\ server[c].row # "absent"
                /\ shown => Truth(c).row = server[c].row /\ Truth(c).last = Trim(NoMessage, cut)
                /\ ~shown => Truth(c) = Unlisted
            BY <1>5, <2>1, <3>2, <5>1, <5>2, EntryIs DEF Truth
          <5>4. new.row = Truth(c).row /\ (new.row # "absent" => new.last = Truth(c).last)
            BY <1>6, <1>7, <3>2, <5>1, <5>3
          <5>5. QED
            BY <1>2, <2>1, <4>1, <4>2, <5>4 DEF Fitting
        <4>5. QED
          BY <4>3, <4>4
      <3>3. QED
        BY <2>2, <3>1, <3>2
    <2>4. ASSUME old \in Exact(c), old.row = "absent" => old = Unlisted PROVE new \in Exact(c)'
      <3>1. CASE ~shown
        BY <1>2, <1>6, <1>7, <3>1 DEF Exact
      <3>2. CASE shown
        <4>1. \A j : Counted(c, j)' = Counted(c, j)
          BY <1>2 DEF Counted
        <4>2. Badge(c)' = Badge(c)
          BY <4>1 DEF Badge
        <4>3. old.last \in MessageType /\ old.last.k \in 0 .. MaxMessages
          BY <1>2 DEF EntryType, MessageType
        <4>4. Badge(c)[new.last.k] = Badge(c)[old.last.k]
          BY <1>2, <1>6, <1>9, <2>1, <3>2, <4>3, TrimCounts
        <4>5. old.unread = Badge(c)[old.last.k]
          <5>1. CASE old.row # "absent"
            BY <1>9, <2>4, <5>1 DEF Exact
          <5>2. CASE old.row = "absent"
            <6>1. old.last.k = 0 /\ old.unread = 0
              BY <1>7, <2>4, <5>2
            <6>2. Unread(c) \subseteq 1 .. n
              BY <1>1, <1>2, ReadTypes
            <6>3. Counted(c, 0) = {}
              BY <1>2, <1>4, <6>2 DEF Counted
            <6>4. Badge(c)[0] = 0
              BY <1>2, <6>3, FS_EmptySet DEF Badge
            <6>5. QED
              BY <6>1, <6>4
          <5>3. QED
            BY <5>1, <5>2
        <4>6. new.unread = Badge(c)'[new.last.k]
          BY <1>6, <3>2, <4>2, <4>4, <4>5
        <4>7. QED
          BY <1>2, <4>6 DEF Exact
      <3>3. QED
        BY <3>1, <3>2
    <2>5. QED
      BY <2>3, <2>4
  <1>10. QED
    BY <1>8, <1>9

-----------------------------------------------------------------------------
(***************************************************************************)
(* The same: messages, as they are shown.                                  *)
(***************************************************************************)
\* The newest message that the server has, where it is not hidden.
LEMMA NewestShown ==
  ASSUME HomeTyped, ServerKept, NEW c \in Conversations, Live(c), Count(c) # 0,
         ~isHiddenByChatDeletion(Count(c), server[c].window.cut)
  PROVE  /\ Truth(c).row = server[c].row /\ Truth(c).last = LastOf(c)
         /\ LastOf(c) = [k |-> Count(c), erased |-> server[c].msgs[Count(c)].erased]
  <1>1. Count(c) \in Nat
    BY ReadTypes, HomeBoundsAssumption
  <1>2. LastOf(c) = [k |-> Count(c), erased |-> server[c].msgs[Count(c)].erased]
    BY DEF LastOf, Count
  <1>3. LastOf(c).k = Count(c) /\ LastOf(c).k > 0
    BY <1>1, <1>2
  <1>4. RowOf(c) = server[c].row /\ server[c].row # "absent"
    BY DEF RowOf, Live
  <1>5. isConversationVisible(RowOf(c), LastOf(c), server[c].window)
    BY <1>3 DEF isConversationVisible
  <1>6. Trim(LastOf(c), server[c].window.cut) = LastOf(c)
    BY <1>3 DEF Trim
  <1>7. QED
    BY <1>2, <1>4, <1>5, <1>6, EntryIs DEF Truth

\* A message is its time and whether it is erased.
LEMMA MessageIs ==
  ASSUME NEW m \in MessageType
  PROVE  m = [k |-> m.k, erased |-> m.erased] /\ m.erased \in BOOLEAN /\ m.k \in 0 .. MaxMessages
  BY DEF MessageType

\* A new message is shown as the server has it, or a later event corrects it.
LEMMA InsertFits ==
  ASSUME HomeTyped, ServerKept, FeedKept, ReadsSane, NEW e, Taken(e), NEW c, c = e.c, e.kind = "insert",
         view'[c].row = view[c].row, view'[c].last = mergeLastMessage(view[c].last, e.msg),
         view[c].row # "absent", view[c] \in Fitting(c)
  PROVE  view'[c] \in Fitting(c)'
  <1>1. PICK n : n = Count(c)
    OBVIOUS
  <1>2. /\ c \in Conversations /\ EventKept(c, e) /\ Live(c)' = Live(c) /\ Truth(c)' = Truth(c)
        /\ view'[c] \in EntryType /\ view[c] \in EntryType
        /\ \A kind : e.kind # kind => (Coming(c, kind)' <=> Coming(c, kind))
        /\ \A k : k # e.msg.k => (Inserting(c, k)' <=> Inserting(c, k))
        /\ \A k : Updating(c, k)' <=> Updating(c, k)
        /\ Posting(c) <=> Inserting(c, n)
        /\ Posting(c)' <=> Inserting(c, n)'
        /\ Erasing(c) <=> Updating(c, n)
        /\ Erasing(c)' <=> Updating(c, n)'
        /\ Coming(c, "gone") \/ Live(c)
        /\ n \in 0 .. MaxMessages /\ n \in Nat /\ MaxMessages \in Nat
    BY <1>1, TakenFacts
  <1>3. /\ Coming(c, "gone")' <=> Coming(c, "gone")
        /\ Coming(c, "window")' <=> Coming(c, "window")
        /\ Coming(c, "row")' <=> Coming(c, "row")
        /\ Erasing(c)' <=> Erasing(c)
    BY <1>2
  <1> DEFINE old == view[c]
             new == view'[c]
             m == e.msg
  <1>4. /\ m \in MessageType /\ m.k \in 1 .. n /\ ~m.erased
        /\ \A k \in m.k + 1 .. n : Inserting(c, k)
        /\ server[c].msgs[m.k].erased => Updating(c, m.k)
    BY <1>1, <1>2, EventFacts DEF EventKept, Taken
  <1>5. CASE Coming(c, "gone") \/ Coming(c, "window")
    BY <1>2, <1>3, <1>5 DEF Fitting
  <1>6. CASE ~Coming(c, "gone") /\ ~Coming(c, "window")
    <2>1. /\ Live(c)
          /\ Coming(c, "row") \/ old.row = server[c].row
          /\ \/ Coming(c, "row") \/ Posting(c)
             \/ old.row = Truth(c).row /\ old.last.k = Truth(c).last.k /\ (old.last = Truth(c).last \/ Erasing(c))
      BY <1>2, <1>6 DEF Fitting
    <2>2. server'[c].row = server[c].row
      BY DEF Taken
    <2>3. CASE Coming(c, "row") \/ Posting(c)'
      BY <1>2, <1>3, <2>1, <2>2, <2>3 DEF Fitting
    <2>4. CASE ~Coming(c, "row") /\ ~Posting(c)'
      <3>1. m.k = n
        <4>1. m.k \in Int
          BY <1>4
        <4>2. CASE m.k < n
          <5>1. n \in m.k + 1 .. n
            BY <1>2, <4>1, <4>2
          <5>2. QED
            BY <1>2, <1>4, <2>4, <4>2, <5>1
        <4>3. QED
          BY <1>2, <1>4, <4>2
      <3>2. ~isHiddenByChatDeletion(n, server[c].window.cut)
        <4>1. e \in ToSet(feed)
          BY DEF Taken, Awaited
        <4>2. PICK i \in DOMAIN feed : feed[i] = e
          BY <4>1 DEF ToSet
        <4>3. ~(\E j \in DOMAIN feed : feed[j].c = c /\ feed[j].kind = "window")
          BY <1>6 DEF Coming, Awaited, ToSet
        <4>4. HidesLater(i)
          BY <4>2 DEF FeedKept
        <4>5. QED
          BY <3>1, <4>2, <4>3, <4>4 DEF HidesLater, isHiddenByChatDeletion
      <3>3. /\ Truth(c).row = server[c].row /\ Truth(c).last = LastOf(c)
            /\ LastOf(c) = [k |-> n, erased |-> server[c].msgs[n].erased]
        <4>1. n # 0
          BY <1>2, <1>4
        <4>2. QED
          BY <1>1, <1>2, <2>1, <3>2, <4>1, NewestShown
      <3>4. new.last = m
        <4>1. old.last.k \in Int /\ old.last.k <= n
          BY <1>1, <1>2 DEF ReadsSane, Read, MessageType
        <4>2. QED
          BY <1>2, <3>1, <4>1 DEF mergeLastMessage
      <3>5. new.last.k = Truth(c).last.k
        BY <3>1, <3>3, <3>4
      <3>6. new.last = Truth(c).last \/ Erasing(c)
        <4>1. CASE server[c].msgs[n].erased
          BY <1>2, <1>4, <3>1, <4>1
        <4>2. CASE ~server[c].msgs[n].erased
          <5>1. server[c].msgs[n].erased \in BOOLEAN
            BY <1>1, <1>2, <1>4, <3>1, ReadTypes
          <5>2. m = [k |-> n, erased |-> FALSE]
            BY <1>4, <3>1, MessageIs
          <5>3. QED
            BY <3>3, <3>4, <4>2, <5>1, <5>2
        <4>3. QED
          BY <4>1, <4>2
      <3>7. QED
        BY <1>2, <1>3, <2>1, <2>2, <2>4, <3>3, <3>5, <3>6 DEF Fitting
    <2>5. QED
      BY <2>3, <2>4
  <1>7. QED
    BY <1>5, <1>6

\* So is the deletion of a message.
LEMMA UpdateFits ==
  ASSUME HomeTyped, ServerKept, FeedKept, ReadsSane, NEW e, Taken(e), NEW c, c = e.c, e.kind = "update",
         view'[c].row = view[c].row, view'[c].last = mergeLastMessage(view[c].last, e.msg),
         view[c].row # "absent", view[c].last # NoMessage, view[c] \in Fitting(c)
  PROVE  view'[c] \in Fitting(c)'
  <1>1. PICK n : n = Count(c)
    OBVIOUS
  <1>2. /\ c \in Conversations /\ EventKept(c, e) /\ Live(c)' = Live(c) /\ Truth(c)' = Truth(c)
        /\ view'[c] \in EntryType /\ view[c] \in EntryType
        /\ \A kind : e.kind # kind => (Coming(c, kind)' <=> Coming(c, kind))
        /\ \A k : Inserting(c, k)' <=> Inserting(c, k)
        /\ Posting(c) <=> Inserting(c, n)
        /\ Posting(c)' <=> Inserting(c, n)'
        /\ Coming(c, "gone") \/ Live(c)
        /\ n \in 0 .. MaxMessages /\ n \in Nat /\ MaxMessages \in Nat
    BY <1>1, TakenFacts
  <1>3. /\ Coming(c, "gone")' <=> Coming(c, "gone")
        /\ Coming(c, "window")' <=> Coming(c, "window")
        /\ Coming(c, "row")' <=> Coming(c, "row")
    BY <1>2
  <1> DEFINE old == view[c]
             new == view'[c]
             m == e.msg
  <1>4. /\ m \in MessageType /\ m.k \in 1 .. n /\ m.erased /\ server[c].msgs[m.k].erased
        /\ \A k \in m.k + 1 .. n : Inserting(c, k)
    BY <1>1, <1>2, EventFacts DEF EventKept, Taken
  <1>5. CASE Coming(c, "gone") \/ Coming(c, "window")
    BY <1>2, <1>3, <1>5 DEF Fitting
  <1>6. CASE ~Coming(c, "gone") /\ ~Coming(c, "window")
    <2>1. /\ Live(c)
          /\ Coming(c, "row") \/ old.row = server[c].row
          /\ \/ Coming(c, "row") \/ Posting(c)
             \/ old.row = Truth(c).row /\ old.last.k = Truth(c).last.k
      BY <1>2, <1>6 DEF Fitting
    <2>2. server'[c].row = server[c].row
      BY DEF Taken
    <2>3. CASE Coming(c, "row") \/ Posting(c)
      BY <1>2, <1>3, <2>1, <2>2, <2>3 DEF Fitting
    <2>4. CASE ~Coming(c, "row") /\ ~Posting(c)
      <3>1. m.k = n
        <4>1. m.k \in Int
          BY <1>4
        <4>2. CASE m.k < n
          <5>1. n \in m.k + 1 .. n
            BY <1>2, <4>1, <4>2
          <5>2. QED
            BY <1>2, <1>4, <2>4, <5>1
        <4>3. QED
          BY <1>2, <1>4, <4>2
      <3>2. old.last \in Read(c) /\ old.last.k \in Int /\ old.last.k <= n /\ (old.last.k = 0 => old.last = NoMessage)
        BY <1>1, <1>2 DEF ReadsSane, Read, MessageType
      <3>3. n # 0 /\ LastOf(c).k = n
        BY <1>1, <1>2, <1>4, <2>1, AnswersRight
      <3>4. ~isHiddenByChatDeletion(n, server[c].window.cut)
        <4>1. SUFFICES ASSUME isHiddenByChatDeletion(n, server[c].window.cut) PROVE FALSE
          OBVIOUS
        <4>2. Trim(LastOf(c), server[c].window.cut) = NoMessage /\ NoMessage.k = 0
          BY <3>3, <4>1 DEF Trim, NoMessage
        <4>3. Truth(c).last = NoMessage
          BY <4>2, EntryIs DEF Truth
        <4>4. QED
          BY <2>1, <2>4, <3>2, <4>2, <4>3
      <3>5. /\ Truth(c).row = server[c].row /\ Truth(c).last = LastOf(c)
            /\ LastOf(c) = [k |-> n, erased |-> server[c].msgs[n].erased]
        BY <1>1, <1>2, <2>1, <3>3, <3>4, NewestShown
      <3>6. new.last = m
        BY <1>2, <3>1, <3>2 DEF mergeLastMessage
      <3>7. m = LastOf(c)
        <4>1. server[c].msgs[n].erased \in BOOLEAN /\ server[c].msgs[n].erased
          BY <1>1, <1>2, <1>4, <3>1, ReadTypes
        <4>2. m = [k |-> n, erased |-> TRUE]
          BY <1>4, <3>1, MessageIs
        <4>3. QED
          BY <3>5, <4>1, <4>2
      <3>8. QED
        BY <1>2, <1>3, <2>1, <2>2, <2>4, <3>5, <3>6, <3>7 DEF Fitting
    <2>5. QED
      BY <2>3, <2>4
  <1>7. QED
    BY <1>5, <1>6

-----------------------------------------------------------------------------
(***************************************************************************)
(* The same: messages, as they are counted.                                *)
(***************************************************************************)
\* A message counts where it comes as the last, and nowhere else.
LEMMA InsertExact ==
  ASSUME HomeTyped, ServerKept, FeedKept, NEW e, Taken(e), NEW c, c = e.c, e.kind = "insert",
         view'[c].row = view[c].row, view'[c].last = mergeLastMessage(view[c].last, e.msg),
         NEW isNew \in BOOLEAN, isNew <=> isNewLastMessage(view[c].last, e.msg),
         view'[c].unread = IF e.peer /\ isNew THEN view[c].unread + 1 ELSE view[c].unread,
         <<"miscounted", c>> \notin slips, view[c] \in Exact(c)
  PROVE  view'[c] \in Exact(c)'
  <1>1. PICK n : n = Count(c)
    OBVIOUS
  <1>2. /\ c \in Conversations /\ EventKept(c, e) /\ Unread(c)' = Unread(c)
        /\ view'[c] \in EntryType /\ view[c] \in EntryType
        /\ \A kind : e.kind # kind => (Coming(c, kind)' <=> Coming(c, kind))
        /\ Inserting(c, e.msg.k) /\ e.msg.k \in Int
        /\ \A k : k # e.msg.k => (Inserting(c, k)' <=> Inserting(c, k))
        /\ \A k : Inserting(c, k)' => e.msg.k < k
    BY <1>1, TakenFacts
  <1>3. Coming(c, "window")' <=> Coming(c, "window")
    BY <1>2
  <1> DEFINE U == Unread(c)
  <1>4. PICK m : m = e.msg.k
    OBVIOUS
  <1>5. PICK j : j = view[c].last.k
    OBVIOUS
  <1>6. /\ m \in 1 .. n /\ n \in 0 .. MaxMessages /\ MaxMessages \in Nat
        /\ e.peer = server[c].msgs[m].peer
        /\ e.peer \in BOOLEAN /\ server[c].msgs[m].erased \in BOOLEAN
    BY <1>1, <1>2, <1>4, ReadTypes, EventFacts, HomeBoundsAssumption DEF EventKept, Taken
  <1>7. j \in 0 .. MaxMessages /\ U \subseteq 1 .. n /\ n \in Nat
    BY <1>1, <1>2, <1>5, <1>6, ReadTypes DEF EntryType, MessageType
  <1>8. m \in U <=> e.peer
    <2>1. CASE server[c].msgs[m].erased
      <3>1. Updating(c, m)
        BY <1>2, <1>4, <2>1 DEF EventKept
      <3>2. PICK f \in Awaited(c) : f.kind = "update"
        BY <3>1 DEF Updating
      <3>3. EventKept(c, f)
        BY <1>2 DEF FeedKept
      <3>4. QED
        BY <3>2, <3>3 DEF EventKept
    <2>2. CASE ~server[c].msgs[m].erased
      <3>1. m \in U <=> server[c].msgs[m].peer
        BY <1>1, <1>6, <2>2 DEF Unread
      <3>2. QED
        BY <1>6, <3>1
    <2>3. QED
      BY <2>1, <2>2
  <1>9. ASSUME Coming(c, "window") PROVE view'[c] \in Exact(c)'
    BY <1>2, <1>3, <1>9 DEF Exact
  <1>10. ASSUME view[c].row = "absent" PROVE view'[c] \in Exact(c)'
    BY <1>2, <1>10 DEF Exact
  <1>11. ASSUME view[c].unread = Badge(c)[j] PROVE view'[c] \in Exact(c)'
    <2> DEFINE A == Counted(c, j)
    <2>1. IsFiniteSet(A) /\ Cardinality(A) \in Nat /\ Badge(c)[j] = Cardinality(A)
      BY <1>2, <1>7, ReadTypes, FS_CardinalityType DEF Badge
    <2>2. CASE isNew
      <3>1. j < m /\ view'[c].last.k = m
        BY <1>4, <1>5, <1>6, <1>7, <2>2 DEF isNewLastMessage, mergeLastMessage
      <3>2. Counted(c, m)' = A \cup (U \cap {m}) /\ m \notin A
        <4>1. \A k \in U : (k > m => ~Inserting(c, k)') <=> ((k > j => ~Inserting(c, k)) \/ k = m)
          <5>1. ASSUME NEW k \in U PROVE (k > m => ~Inserting(c, k)') <=> ((k > j => ~Inserting(c, k)) \/ k = m)
            <6>1. k \in Int /\ m \in Int /\ j \in Int
              BY <1>6, <1>7
            <6>2. CASE k = m
              BY <6>1, <6>2
            <6>3. CASE k > m
              BY <1>2, <1>4, <3>1, <6>1, <6>3
            <6>4. CASE k < m
              BY <1>2, <1>4, <6>1, <6>4
            <6>5. QED
              BY <6>1, <6>2, <6>3, <6>4
          <5>2. QED
            BY <5>1
        <4>2. m \notin A
          BY <1>2, <1>4, <3>1 DEF Counted
        <4>3. Counted(c, m)' = {k \in U : k > m => ~Inserting(c, k)'}
          BY <1>2 DEF Counted
        <4>4. QED
          BY <4>1, <4>2, <4>3 DEF Counted
      <3>3. Cardinality(Counted(c, m)') = IF e.peer THEN Cardinality(A) + 1 ELSE Cardinality(A)
        <4>1. CASE e.peer
          <5>1. Counted(c, m)' = A \cup {m}
            BY <1>8, <3>2, <4>1
          <5>2. Cardinality(A \cup {m}) = Cardinality(A) + 1
            <6> HIDE DEF A
            <6>1. QED
              BY <2>1, <3>2, FS_AddElement
          <5>3. QED
            BY <4>1, <5>1, <5>2
        <4>2. CASE ~e.peer
          BY <1>8, <3>2, <4>2
        <4>3. QED
          BY <1>6, <4>1, <4>2
      <3>4. Badge(c)'[m] = Cardinality(Counted(c, m)')
        BY <1>6, <1>7, <3>1 DEF Badge
      <3>5. view'[c].unread = Badge(c)'[m]
        BY <1>6, <1>11, <2>1, <2>2, <3>3, <3>4
      <3>6. view'[c].unread = Badge(c)'[view'[c].last.k]
        BY <3>1, <3>5
      <3>7. QED
        BY <1>2, <3>6 DEF Exact
    <2>3. CASE ~isNew
      <3>1. m <= j /\ view'[c].last.k = j
        BY <1>4, <1>5, <1>6, <1>7, <2>3 DEF isNewLastMessage, mergeLastMessage
      <3>2. Counted(c, j)' = A
        <4>1. \A k \in U : k > j => k # m
          BY <1>6, <1>7, <3>1
        <4>2. Counted(c, j)' = {k \in U : k > j => ~Inserting(c, k)'}
          BY <1>2 DEF Counted
        <4>3. QED
          BY <1>2, <1>4, <4>1, <4>2 DEF Counted
      <3>3. Badge(c)'[j] = Cardinality(Counted(c, j)')
        BY <1>7 DEF Badge
      <3>4. view'[c].unread = Badge(c)'[j]
        BY <1>11, <2>1, <2>3, <3>2, <3>3
      <3>5. view'[c].unread = Badge(c)'[view'[c].last.k]
        BY <3>1, <3>4
      <3>6. QED
        BY <1>2, <3>5 DEF Exact
    <2>4. QED
      BY <2>2, <2>3
  <1>12. QED
    BY <1>5, <1>9, <1>10, <1>11 DEF Exact

-----------------------------------------------------------------------------
(***************************************************************************)
(* A delivery keeps what does not depend on the entry.                     *)
(***************************************************************************)
\* What a delivered event leaves among the slips.
LEMMA MisledIs ==
  ASSUME NEW e, NEW c, c = e.c, slips' = slips \cup (Misled(e) \X {e.c})
  PROVE  /\ slips \subseteq slips'
         /\ Ignored(e) /\ (Loading \/ Cycling(c) \/ view[c].row # "absent") => <<"dropped", c>> \in slips'
         /\ /\ ~Ignored(e) /\ mirror[c].shown /\ e.kind \in {"insert", "update"}
            /\ view[c].row = "absent" \/ (e.kind = "update" /\ view[c].last = NoMessage)
            => <<"unmatched", c>> \in slips'
         /\ /\ e.kind = "insert"
            /\ isNewLastMessage(view[c].last, e.msg) # isNewLastMessage(mirror[c].last, e.msg)
            => <<"miscounted", c>> \in slips'
         /\ \A d : d # c => Slips(d)' = Slips(d)
  <1>1. \A why \in Misled(e) : <<why, c>> \in slips'
    OBVIOUS
  <1>2. Ignored(e) /\ (Loading \/ Cycling(c) \/ view[c].row # "absent") => "dropped" \in Misled(e)
    BY DEF Misled
  <1>3. /\ ~Ignored(e) /\ mirror[c].shown /\ e.kind \in {"insert", "update"}
        /\ view[c].row = "absent" \/ (e.kind = "update" /\ view[c].last = NoMessage)
        => "unmatched" \in Misled(e)
    BY DEF Misled
  <1>4. /\ e.kind = "insert"
        /\ isNewLastMessage(view[c].last, e.msg) # isNewLastMessage(mirror[c].last, e.msg)
        => "miscounted" \in Misled(e)
    BY DEF Misled
  <1>5. \A d : d # c => Slips(d)' = Slips(d)
    <2>1. \A d, why : d # c => (<<why, d>> \in slips' <=> <<why, d>> \in slips)
      OBVIOUS
    <2>2. QED
      BY <2>1 DEF Slips
  <1>6. QED
    BY <1>1, <1>2, <1>3, <1>4, <1>5

\* An unaware pass has nothing to keep.
LEMMA UnawareKept ==
  ASSUME NEW c \in Conversations, Unaware(c)
  PROVE  CycleKept(c)'
  <1>1. ASSUME NEW g \in Schedulers, cycles'[c][g].pass > 0, ~cycles'[c][g].raced
        PROVE  cycles'[c][g].asked = {}
    BY <1>1 DEF Unaware
  <1>2. QED
    BY <1>1 DEF CycleKept, PassKept, PassCounted

\* A load in flight is all that a load has to keep.
LEMMA IdleKept ==
  ASSUME HomeTyped, ~Loading, loads' = loads, newest' = newest, NEW c \in Conversations
  PROVE  LoadKept(c)'
  <1>1. loads'[newest'].pc = "idle"
    BY DEF HomeTyped, Loading
  <1>2. QED
    BY <1>1 DEF LoadKept

\* A delivery takes the first event of the feed.
LEMMA DeliverTaken ==
  ASSUME HomeInv, Deliver, NEW e, e = Head(feed)
  PROVE  Taken(e) /\ FeedKept' /\ ServerKept' /\ GatesKept' /\ HomeTyped'
  <1>0. HomeTyped /\ ServerKept /\ FeedKept /\ ReadsSane /\ GatesKept /\ \A c \in Conversations : HomeKept(c)
    BY InvParts
  <1>1. /\ feed' = Tail(feed) /\ feed # <<>> /\ channel = "live" /\ feed \in Seq(EventType)
        /\ server' = server /\ channel' = channel /\ loads' = loads /\ newest' = newest
        /\ window' = window /\ owed' = owed /\ slips \subseteq slips'
        /\ view' \in [Conversations -> EntryType]
        /\ pending' = pending \/ Loading
    BY <1>0, DeliverIs DEF HomeTyped
  <1>2. /\ e \in EventType /\ e \in Awaited(e.c)
        /\ Awaited(e.c)' \subseteq Awaited(e.c) /\ Awaited(e.c) \subseteq Awaited(e.c)' \cup {e}
        /\ \A f \in Awaited(e.c)' : Before(e, f)
    BY <1>0, <1>1, FeedRest
  <1>3. \A f \in Awaited(e.c) : f \in EventType
    BY <1>1, ElementsTyped DEF Awaited, ToSet
  <1>4. Taken(e)
    BY <1>1, <1>2, <1>3 DEF Taken
  <1>5. FeedKept'
    BY <1>0, <1>1, RestKept
  <1>6. ServerKept'
    BY <1>0, <1>1 DEF ServerKept
  <1>7. GatesKept'
    BY <1>0, <1>1 DEF GatesKept, Loading
  <1>8. HomeTyped'
    BY <1>0, DeliverTyped
  <1>9. QED
    BY <1>4, <1>5, <1>6, <1>7, <1>8

-----------------------------------------------------------------------------
(***************************************************************************)
(* A delivery keeps the rest.                                              *)
(***************************************************************************)
\* The entry of a conversation that the event is about, where nothing else
\* is under way.
LEMMA ShownKept ==
  ASSUME HomeTyped, ServerKept, FeedKept, ReadsSane, NEW e, Taken(e), NEW c, c = e.c, ViewKept(c), HiddenKept(c),
         Unaware(c), ~Ignored(e), Shown(e), owed' = owed, pending' = pending,
         slips' = slips \cup (Misled(e) \X {e.c})
  PROVE  ViewKept(c)' /\ HiddenKept(c)'
  <1>1. /\ c \in Conversations /\ EventKept(c, e) /\ Live(c)' = Live(c) /\ e \in EventType
        /\ e.kind \in {"row", "gone", "window", "insert", "update"}
        /\ view[c] \in EntryType
    <2>1. c \in Conversations /\ EventKept(c, e) /\ Live(c)' = Live(c) /\ view[c] \in EntryType
      BY TakenFacts
    <2>2. QED
      BY <2>1, EventFacts DEF Taken
  <1>2. /\ slips \subseteq slips'
        /\ mirror[c].shown /\ e.kind \in {"insert", "update"} /\
             (view[c].row = "absent" \/ (e.kind = "update" /\ view[c].last = NoMessage))
             => <<"unmatched", c>> \in slips'
        /\ e.kind = "insert" /\ isNewLastMessage(view[c].last, e.msg) # isNewLastMessage(mirror[c].last, e.msg)
             => <<"miscounted", c>> \in slips'
    BY MisledIs
  <1>3. Cycling(c) => Cycling(c)'
    BY DEF Cycling, Unaware
  <1>4. /\ e.kind \in {"gone", "update"} => mirror[c].shown
        /\ e.kind = "row" =>
             view'[c] = IF isConversationVisible(e.row, mirror[c].last, window[c])
                        THEN [view[c] EXCEPT !.row = e.row, !.last = Trim(view[c].last, window[c].cut)]
                        ELSE Unlisted
        /\ e.kind = "gone" => view'[c] = Unlisted
        /\ e.kind \in {"insert", "update"} /\ mirror[c].shown =>
             view'[c].row = view[c].row /\ view'[c].last = mergeLastMessage(view[c].last, e.msg)
        /\ e.kind = "insert" /\ mirror[c].shown =>
             view'[c].unread = IF e.peer /\ isNewLastMessage(mirror[c].last, e.msg)
                               THEN view[c].unread + 1 ELSE view[c].unread
        /\ (e.kind = "insert" /\ ~mirror[c].shown) \/ e.kind = "window" => view'[c] = view[c] /\ Cycling(c)'
    BY DEF Ignored, Shown
  <1>5. Unlisted.row = "absent"
    BY DEF Unlisted
  <1>6. ASSUME c \notin owed' \cup pending', ~Cycling(c)', Followed(c)'
        PROVE  /\ view'[c] \in Fitting(c)' /\ window'[c] \in WinReads(c)'
               /\ Slips(c)' = {} /\ Live(c)' => view'[c] \in Exact(c)'
    <2>1. Followed(c) /\ <<"unmatched", c>> \notin slips'
      BY <1>2, <1>6, SlipsAre, SlipsWere
    <2>2. view[c] \in Fitting(c) /\ window[c] \in WinReads(c)
      BY <1>3, <1>6, <2>1 DEF ViewKept
    <2>3. Slips(c)' = {} => Slips(c) = {} /\ <<"miscounted", c>> \notin slips' /\ <<"miscounted", c>> \notin slips
      BY <1>2, SlipsAre, SlipsWere
    <2>4. Slips(c)' = {} /\ Live(c)' => view[c] \in Exact(c)
      BY <1>1, <1>3, <1>6, <2>3 DEF ViewKept
    <2>5. e.kind # "window" /\ (e.kind = "insert" => mirror[c].shown)
      BY <1>4, <1>6
    <2>6. window'[c] \in WinReads(c)'
      BY <2>2, <2>5, WindowTaken DEF Taken
    <2>7. CASE e.kind = "gone"
      <3>1. view'[c].row = "absent"
        BY <1>4, <1>5, <2>7
      <3>2. view'[c] \in Fitting(c)' /\ view'[c] \in Exact(c)'
        BY <2>7, <3>1, AbsentFits
      <3>3. QED
        BY <2>6, <3>2
    <2>8. CASE e.kind = "row"
      <3>1. /\ view'[c] \in Fitting(c)'
            /\ Live(c) /\ view[c] \in Exact(c) /\ (view[c].row = "absent" => view[c] = Unlisted) =>
                 view'[c] \in Exact(c)'
        BY <1>4, <2>2, <2>8, RowFits
      <3>2. view[c].row = "absent" => view[c] = Unlisted
        BY <1>2, <2>1, SlipsAre DEF HiddenKept
      <3>3. QED
        BY <1>1, <2>4, <2>6, <3>1, <3>2
    <2>9. CASE e.kind = "insert"
      <3>1. /\ view'[c].row = view[c].row /\ view'[c].last = mergeLastMessage(view[c].last, e.msg)
            /\ view[c].row # "absent"
        BY <1>2, <1>4, <2>1, <2>5, <2>9
      <3>2. view'[c] \in Fitting(c)'
        BY <2>2, <2>9, <3>1, InsertFits
      <3>3. ASSUME Slips(c)' = {}, Live(c)' PROVE view'[c] \in Exact(c)'
        <4>1. PICK isNew \in BOOLEAN : isNew <=> isNewLastMessage(view[c].last, e.msg)
          <5>1. CASE isNewLastMessage(view[c].last, e.msg)
            BY <5>1
          <5>2. CASE ~isNewLastMessage(view[c].last, e.msg)
            BY <5>2
          <5>3. QED
            BY <5>1, <5>2
        <4>2. isNewLastMessage(view[c].last, e.msg) = isNewLastMessage(mirror[c].last, e.msg)
          BY <1>2, <2>3, <2>9, <3>3
        <4>3. view'[c].unread = IF e.peer /\ isNew THEN view[c].unread + 1 ELSE view[c].unread
          BY <1>4, <2>5, <2>9, <4>1, <4>2
        <4>4. view[c] \in Exact(c) /\ <<"miscounted", c>> \notin slips
          BY <2>3, <2>4, <3>3
        <4>5. QED
          BY <2>9, <3>1, <4>1, <4>3, <4>4, InsertExact
      <3>4. QED
        BY <2>6, <3>2, <3>3
    <2>10. CASE e.kind = "update"
      <3>1. /\ view'[c].row = view[c].row /\ view'[c].last = mergeLastMessage(view[c].last, e.msg)
            /\ view[c].row # "absent" /\ view[c].last # NoMessage
        BY <1>2, <1>4, <2>1, <2>10
      <3>2. view'[c] \in Fitting(c)'
        BY <2>2, <2>10, <3>1, UpdateFits
      <3>3. <<"miscounted", c>> \in slips'
        BY <1>1, <1>2, <2>10 DEF EventKept
      <3>4. QED
        BY <2>3, <2>6, <3>2, <3>3
    <2>11. QED
      BY <1>1, <2>5, <2>7, <2>8, <2>9, <2>10
  <1>7. ViewKept(c)'
    BY <1>6, SlipsWere DEF ViewKept
  <1>8. HiddenKept(c)'
    <2> SUFFICES ASSUME <<"unmatched", c>> \notin slips', view'[c].row = "absent" PROVE view'[c] = Unlisted
      BY SlipsWere DEF HiddenKept
    <2>1. view[c].row = "absent" => view[c] = Unlisted
      BY <1>2, SlipsAre DEF HiddenKept
    <2>2. CASE e.kind = "row"
      <3>1. [view[c] EXCEPT !.row = e.row, !.last = Trim(view[c].last, window[c].cut)].row = e.row
        BY <1>1 DEF EntryType
      <3>2. e.row # "absent"
        BY <1>1, <2>2, EventFacts
      <3>3. QED
        BY <1>4, <2>2, <3>1, <3>2
    <2>3. CASE e.kind = "gone"
      BY <1>4, <2>3
    <2>4. CASE e.kind \in {"insert", "update"} /\ mirror[c].shown
      BY <1>2, <1>4, <2>4
    <2>5. CASE (e.kind = "insert" /\ ~mirror[c].shown) \/ e.kind = "window"
      BY <1>4, <2>1, <2>5
    <2>6. QED
      BY <1>1, <1>4, <2>2, <2>3, <2>4, <2>5
  <1>9. QED
    BY <1>7, <1>8

\* The reads of a delivery are of messages that the server has.
LEMMA DeliverSane ==
  ASSUME HomeInv, Deliver
  PROVE  ReadsSane'
  <1>0. HomeTyped /\ ServerKept /\ FeedKept /\ ReadsSane /\ GatesKept /\ \A c \in Conversations : HomeKept(c)
    BY InvParts
  <1>1. PICK e : e = Head(feed)
    OBVIOUS
  <1>2. PICK c : c = e.c
    OBVIOUS
  <1>3. /\ server' = server /\ loads' = loads /\ mirror' = mirror
        /\ \A d \in Conversations \ {c} : view'[d] = view[d] /\ cycles'[d] = cycles[d]
        /\ \/ Ignored(e) /\ cycles' = cycles /\ view' = view
           \/ ~Ignored(e) /\ Loading /\ view' = view /\ Unaware(c)
           \/ ~Ignored(e) /\ ~Loading /\ Unaware(c) /\ Shown(e)
    BY <1>0, <1>1, <1>2, DeliverIs
  <1>4. Taken(e) /\ HomeTyped'
    BY <1>1, DeliverTaken
  <1>5. /\ c \in Conversations /\ EventKept(c, e) /\ e.kind \in {"row", "gone", "window", "insert", "update"}
        /\ e.kind \in {"insert", "update"} => e.msg \in MessageType
        /\ view[c] \in EntryType
    <2>1. c \in Conversations /\ EventKept(c, e) /\ view[c] \in EntryType
      BY <1>0, <1>2, <1>4, TakenFacts
    <2>2. QED
      BY <1>4, <2>1, EventFacts DEF Taken
  <1>6. \A d \in Conversations : Read(d)' = Read(d) /\ Count(d)' = Count(d)
    BY <1>3 DEF Read, Count
  <1>7. NoMessage \in Read(c) /\ view[c].last \in Read(c)
    BY <1>0, <1>5, AnswersRight DEF ReadsSane
  <1>8. e.kind \in {"insert", "update"} => e.msg \in Read(c)
    <2>1. e.kind \in {"insert", "update"} => e.msg.k \in 1 .. Count(c)
      BY <1>5 DEF EventKept
    <2>2. Count(c) \in Nat
      BY <1>0, <1>5, ReadTypes, HomeBoundsAssumption
    <2>3. QED
      BY <1>5, <2>1, <2>2 DEF Read
  <1>9. view'[c].last \in Read(c)
    <2>1. CASE view'[c] = view[c]
      BY <1>7, <2>1
    <2>2. CASE ~Ignored(e) /\ Shown(e)
      <3>1. Unlisted.last = NoMessage
        BY DEF Unlisted
      <3>2. CASE e.kind = "row"
        <4>1. [view[c] EXCEPT !.row = e.row, !.last = Trim(view[c].last, window[c].cut)].last
                = Trim(view[c].last, window[c].cut)
          BY <1>5 DEF EntryType
        <4>2. Trim(view[c].last, window[c].cut) \in Read(c)
          BY <1>7 DEF Trim
        <4>3. QED
          BY <1>2, <1>7, <2>2, <3>1, <3>2, <4>1, <4>2 DEF Shown
      <3>3. CASE e.kind = "gone"
        BY <1>2, <1>7, <2>2, <3>1, <3>3 DEF Shown
      <3>4. CASE e.kind \in {"insert", "update"} /\ mirror[c].shown
        <4>1. view'[c].last = mergeLastMessage(view[c].last, e.msg)
          BY <1>2, <2>2, <3>4 DEF Shown
        <4>2. QED
          BY <1>7, <1>8, <3>4, <4>1 DEF mergeLastMessage
      <3>5. CASE (e.kind = "insert" /\ ~mirror[c].shown) \/ e.kind = "window"
        BY <1>2, <1>7, <2>2, <3>5 DEF Shown
      <3>6. QED
        BY <1>2, <1>5, <2>2, <3>2, <3>3, <3>4, <3>5 DEF Ignored
    <2>3. QED
      BY <1>3, <2>1, <2>2
  <1>10. ASSUME NEW d \in Conversations, NEW g \in Schedulers
         PROVE  /\ cycles'[d][g].last \in Read(d)'
                /\ cycles'[d][g].row # "absent" => server'[d].row # "absent"
                /\ cycles'[d][g].asked \cap {"last", "deletions", "window", "count"} # {} =>
                     "row" \in cycles'[d][g].asked /\ cycles'[d][g].row # "absent"
    <2>1. /\ cycles[d][g].last \in Read(d)
          /\ cycles[d][g].row # "absent" => server[d].row # "absent"
          /\ cycles[d][g].asked \cap {"last", "deletions", "window", "count"} # {} =>
               "row" \in cycles[d][g].asked /\ cycles[d][g].row # "absent"
      BY <1>0 DEF ReadsSane
    <2>2. CASE cycles'[d] = cycles[d]
      BY <1>3, <1>6, <2>1, <2>2
    <2>3. CASE d = c /\ Unaware(c)
      <3>1. \/ cycles'[d][g].asked = {} /\ cycles'[d][g].row = "absent" /\ cycles'[d][g].last = NoMessage
            \/ /\ cycles'[d][g].asked = cycles[d][g].asked /\ cycles'[d][g].row = cycles[d][g].row
               /\ cycles'[d][g].last = cycles[d][g].last
        BY <2>3 DEF Unaware
      <3>2. QED
        BY <1>3, <1>6, <1>7, <2>1, <2>3, <3>1
    <2>4. QED
      BY <1>3, <2>2, <2>3
  <1>11. ASSUME NEW d \in Conversations, NEW l \in Slots
         PROVE  /\ loads'[l].pc \in {"windows", "storing", "lasts", "counts", "commit"} /\ loads'[l].rows[d] # "absent" =>
                     server'[d].row # "absent"
                /\ loads'[l].pc \in {"counts", "commit"} => loads'[l].lasts[d] \in Read(d)'
    BY <1>0, <1>3, <1>6 DEF ReadsSane
  <1>12. \A d \in Conversations : view'[d].last \in Read(d)' /\ mirror'[d].last \in Read(d)'
    BY <1>0, <1>3, <1>6, <1>9 DEF ReadsSane
  <1>13. QED
    BY <1>10, <1>11, <1>12 DEF ReadsSane

-----------------------------------------------------------------------------
(***************************************************************************)
(* A delivery keeps the invariant.                                         *)
(***************************************************************************)
\* An event is delivered.
LEMMA DeliverKept == HomeInv /\ Deliver => HomeInv'
  <1> SUFFICES ASSUME HomeInv, Deliver PROVE HomeInv'
    OBVIOUS
  <1>0. HomeTyped /\ ServerKept /\ FeedKept /\ ReadsSane /\ GatesKept /\ \A c \in Conversations : HomeKept(c)
    BY InvParts
  <1>1. PICK e : e = Head(feed)
    OBVIOUS
  <1>2. PICK c : c = e.c
    OBVIOUS
  <1>3. /\ feed' = Tail(feed) /\ feed # <<>>
        /\ server' = server /\ loads' = loads /\ newest' = newest /\ window' = window /\ owed' = owed
        /\ slips' = slips \cup (Misled(e) \X {e.c})
        /\ \A d \in Conversations \ {c} : view'[d] = view[d] /\ cycles'[d] = cycles[d]
        /\ \/ Ignored(e) /\ pending' = pending /\ cycles' = cycles /\ view' = view
           \/ ~Ignored(e) /\ Loading /\ pending' = pending \cup {c} /\ view' = view /\ Unaware(c)
           \/ ~Ignored(e) /\ ~Loading /\ pending' = pending /\ Unaware(c) /\ Shown(e)
    BY <1>0, <1>1, <1>2, DeliverIs
  <1>4. Taken(e) /\ FeedKept' /\ ServerKept' /\ GatesKept' /\ HomeTyped'
    BY <1>1, DeliverTaken
  <1>5. c \in Conversations /\ newest \in Slots /\ newest' \in Slots
    BY <1>0, <1>2, <1>3, <1>4, EventFacts DEF Taken, HomeTyped
  <1>6. slips \subseteq slips' /\ \A d : d # c => Slips(d)' = Slips(d)
    BY <1>2, <1>3, MisledIs
  <1>7. ReadsSane'
    BY DeliverSane
  <1>8. ASSUME NEW d \in Conversations \ {c} PROVE HomeKept(d)'
    <2>1. Awaited(d)' = Awaited(d)
      BY <1>0, <1>1, <1>2, <1>3, FeedRest DEF HomeTyped
    <2>2. Persist(d)
      BY <1>3, <1>6, <2>1, UnmovedPersist
    <2>3. d \in pending' <=> d \in pending
      BY <1>3
    <2>4. LoadSame(d)
      BY <1>3, <1>5, <2>3 DEF LoadSame
    <2>5. \A g \in Schedulers : PassSame(d, g)
      BY <1>3 DEF PassSame
    <2>6. EntrySame(d) /\ WindowSame(d)
      BY <1>3, <2>3 DEF EntrySame, WindowSame, Cycling
    <2>7. LoadKept(d)' /\ CycleKept(d)' /\ ViewKept(d)'
      BY <1>0, <1>4, <2>2, <2>4, <2>5, <2>6, Unconcerned
    <2>8. HiddenKept(d)'
      BY <1>0, <1>3, <1>6, HiddenKeeps DEF HomeKept
    <2>9. QED
      BY <2>7, <2>8 DEF HomeKept
  <1>9. HomeKept(c)'
    <2>0. LoadKept(c) /\ CycleKept(c) /\ ViewKept(c) /\ HiddenKept(c)
      BY <1>0, <1>5 DEF HomeKept
    <2>1. CASE Ignored(e) /\ pending' = pending /\ cycles' = cycles /\ view' = view
      <3>1. HiddenKept(c)'
        BY <1>5, <1>6, <2>0, <2>1, HiddenKeeps
      <3>2. CASE Loading \/ Cycling(c) \/ view[c].row # "absent"
        <4>1. <<"dropped", c>> \in slips'
          BY <1>2, <1>3, <2>1, <3>2, MisledIs
        <4>2. ~Followed(c)' /\ ~(Slips(c)' = {})
          BY <4>1, SlipsWere
        <4>3. LoadKept(c)' /\ CycleKept(c)' /\ ViewKept(c)'
          BY <4>2 DEF LoadKept, CycleKept, ViewKept
        <4>4. QED
          BY <3>1, <4>3 DEF HomeKept
      <3>3. CASE ~Loading /\ ~Cycling(c) /\ view[c].row = "absent"
        <4>1. LoadKept(c)'
          BY <1>0, <1>3, <1>5, <3>3, IdleKept
        <4>2. CycleKept(c)'
          BY <2>1, <3>3 DEF CycleKept, Cycling
        <4>3. ViewKept(c)'
          <5>1. Followed(c)' => Followed(c)
            BY <1>6, SlipsAre, SlipsWere
          <5>2. Slips(c)' = {} => Followed(c)'
            BY SlipsWere
          <5>3. ASSUME Followed(c)', c \notin owed' \cup pending'
                PROVE  view'[c] \in Fitting(c)' /\ view'[c] \in Exact(c)' /\ window'[c] \in WinReads(c)'
            <6>1. view[c] \in Fitting(c) /\ window[c] \in WinReads(c)
              BY <1>3, <2>0, <2>1, <3>3, <5>1, <5>3 DEF ViewKept
            <6>2. e.kind \in {"gone", "update"} /\ view'[c].row = "absent"
              BY <2>1, <3>3 DEF Ignored
            <6>3. view'[c] \in Fitting(c)' /\ view'[c] \in Exact(c)'
              BY <1>0, <1>2, <1>4, <3>3, <6>1, <6>2, AbsentFits
            <6>4. WinReads(c)' = WinReads(c)
              BY <1>0, <1>2, <1>4, <6>2, WindowTaken
            <6>5. QED
              BY <1>3, <6>1, <6>3, <6>4
          <5>4. QED
            BY <5>2, <5>3 DEF ViewKept
        <4>4. QED
          BY <3>1, <4>1, <4>2, <4>3 DEF HomeKept
      <3>4. QED
        BY <3>2, <3>3
    <2>2. CASE ~Ignored(e) /\ Loading /\ pending' = pending \cup {c} /\ view' = view /\ Unaware(c)
      <3>1. LoadKept(c)' /\ ViewKept(c)'
        BY <2>2 DEF LoadKept, ViewKept
      <3>2. CycleKept(c)'
        BY <1>5, <2>2, UnawareKept
      <3>3. HiddenKept(c)'
        BY <1>5, <1>6, <2>0, <2>2, HiddenKeeps
      <3>4. QED
        BY <3>1, <3>2, <3>3 DEF HomeKept
    <2>3. CASE ~Ignored(e) /\ ~Loading /\ pending' = pending /\ Unaware(c) /\ Shown(e)
      <3>1. LoadKept(c)'
        BY <1>0, <1>3, <1>5, <2>3, IdleKept
      <3>2. CycleKept(c)'
        BY <1>5, <2>3, UnawareKept
      <3>3. ViewKept(c)' /\ HiddenKept(c)'
        BY <1>0, <1>2, <1>3, <1>4, <2>0, <2>3, ShownKept
      <3>4. QED
        BY <3>1, <3>2, <3>3 DEF HomeKept
    <2>4. QED
      BY <1>3, <2>1, <2>2, <2>3
  <1>10. \A d \in Conversations : LoadKept(d)' /\ CycleKept(d)' /\ ViewKept(d)' /\ HiddenKept(d)'
    BY <1>5, <1>8, <1>9 DEF HomeKept
  <1>11. QED
    BY <1>4, <1>7, <1>10 DEF HomeInv

-----------------------------------------------------------------------------
(***************************************************************************)
(* Answers on their way stay what the server could say.                    *)
(***************************************************************************)
\* The windows a load or a pass carries are as they were, none, or just read.
Carries ==
  /\ \A l \in Slots : loads'[l].pc = "storing" =>
       \A c \in Conversations :
         \/ loads'[l].wins[c] = server[c].window
         \/ loads[l].pc = "storing" /\ loads'[l].wins[c] = loads[l].wins[c]
  /\ \A d, c \in Conversations, g \in Schedulers :
       cycles'[d][g].wins[c] \in {cycles[d][g].wins[c], Open, server[c].window}

\* So none is carried of a row that is not there.
LEMMA CarriedKeeps ==
  ASSUME HomeTyped, ServerKept, CarriedKept, Carries,
         \A c \in Conversations : server[c].row # "absent" => server'[c].row # "absent"
  PROVE  CarriedKept'
  <1> SUFFICES ASSUME NEW c \in Conversations, server'[c].row = "absent"
               PROVE  /\ \A l \in Slots : loads'[l].pc = "storing" => loads'[l].wins[c] = Open
                      /\ \A d \in Conversations, g \in Schedulers : cycles'[d][g].wins[c] = Open
    BY DEF CarriedKept
  <1>1. server[c].row = "absent" /\ server[c].window = Open
    BY ServerFacts
  <1>2. QED
    BY <1>1 DEF CarriedKept, Carries

\* More left to a later load, the loads carry what they carried.
LEMMA LapsedCarries ==
  ASSUME HomeTyped, NEW S \in SUBSET Conversations, loads' = Lapsed(S, loads)
  PROVE  \A l \in Slots : loads'[l].pc = "storing" => loads[l].pc = "storing" /\ loads'[l].wins = loads[l].wins
  <1>1. loads \in [Slots -> LoadType] /\ (\A l \in Slots : Filled(loads[l]))
    BY DEF HomeTyped
  <1>2. QED
    BY <1>1, LapsedIs

\* A load that ends carries nothing, and requests that are repeated carry what they did.
LEMMA FinishCarries ==
  ASSUME HomeTyped, NEW l \in Slots, NEW left \in SUBSET Conversations, Finish(l, left)
  PROVE  Carries
  <1>1. /\ loads'[l] \in {StartedLoad, IdleLoad} /\ \A o \in Slots \ {l} : loads'[o] = loads[o]
        /\ \A c \in Conversations : Rescheduled(c)
    BY FinishIs
  <1>2. StartedLoad.pc = "rows" /\ IdleLoad.pc = "idle"
    BY LoadTyped DEF IdleLoad
  <1>3. \A d \in Conversations, g \in Schedulers : cycles'[d][g].wins \in {cycles[d][g].wins, NoWindows}
    BY <1>1, RescheduledIs
  <1>4. QED
    BY <1>1, <1>2, <1>3 DEF Carries, NoWindows

\* Every step carries windows on as they were, or drops them, or reads them.
LEMMA StepCarries ==
  ASSUME HomeInv, [HomeNext]_homeVars
  PROVE  /\ Carries
         /\ \A c \in Conversations : server[c].row # "absent" => server'[c].row # "absent"
  <1>0. HomeTyped /\ ServerKept
    BY InvParts
  <1>1. ASSUME loads' = loads, cycles' = cycles PROVE Carries
    BY <1>1 DEF Carries
  <1>2. CASE UNCHANGED homeVars \/ Render \/ Join
    BY <1>1, <1>2 DEF homeVars, Render, Join
  <1>3. CASE Deliver
    <2>1. PICK e : e = Head(feed)
      OBVIOUS
    <2>2. /\ server' = server /\ loads' = loads /\ \A d \in Conversations \ {e.c} : cycles'[d] = cycles[d]
          /\ cycles' = cycles \/ Unaware(e.c)
      BY <1>0, <1>3, <2>1, DeliverIs
    <2>3. \A d \in Conversations, g \in Schedulers : cycles'[d][g].wins \in {cycles[d][g].wins, NoWindows}
      BY <2>2 DEF Unaware
    <2>4. QED
      BY <2>2, <2>3 DEF Carries, NoWindows
  <1>4. CASE ServerStep
    <2>1. PICK c \in Conversations :
            \/ Request(c) \/ Accept(c) \/ Delete(c) \/ Erase(c) \/ (\E peer \in BOOLEAN : Post(c, peer))
            \/ deleteChatForMe(c) \/ revealChatForMe(c) \/ restoreChatForMe(c)
      BY <1>4 DEF ServerStep
    <2>2. PICK new \in ConversationType, e \in EventType :
            Change(c, new, e) /\ Turned(c, new, e) /\ Len(new.msgs) <= MaxMessages
      BY <1>0, <2>1, ServerStepIs
    <2>3. HomeTyped'
      BY <1>0, <2>2, ChangeTyped
    <2>4. cycles' = cycles /\ (loads' = loads \/ loads' = Lapsed({c}, loads))
      BY <2>2 DEF Change
    <2>5. Carries
      BY <1>0, <1>1, <2>4, LapsedCarries DEF Carries
    <2>6. QED
      BY <1>0, <2>2, <2>3, <2>5, ChangeCounts
  <1>5. CASE GoOffline
    <2>1. PICK S \in SUBSET Conversations : loads' = Lapsed(S, loads) /\ server' = server /\ cycles' = cycles
      BY <1>0, <1>5, OfflineIs
    <2>2. QED
      BY <1>0, <2>1, LapsedCarries DEF Carries
  <1>6. ASSUME NEW l \in Slots, LoadRows(l) \/ LoadWindows(l) \/ LoadLasts(l) \/ LoadCounts(l)
        PROVE  Carries /\ server' = server
    <2>1. LoadReads(l) /\ (\A o \in Slots \ {l} : loads'[o] = loads[o]) /\ server' = server /\ cycles' = cycles
      BY <1>0, <1>6, LoadReadIs
    <2>2. loads'[l].pc = "storing" => \A c \in Conversations : loads'[l].wins[c] = server[c].window
      BY <2>1 DEF LoadReads
    <2>3. QED
      BY <2>1, <2>2 DEF Carries
  <1>7. ASSUME NEW l \in Slots, StoreWindows(l) PROVE Carries /\ server' = server
    BY <1>0, <1>7, StoreWindowsIs DEF Carries, LoadFrame
  <1>8. ASSUME NEW l \in Slots, Commit(l) \/ LoadDiscarded(l) \/ LoadFails(l) PROVE Carries /\ server' = server
    <2>1. PICK left \in SUBSET Conversations : Finish(l, left) /\ server' = server
      <3>1. owed \in SUBSET Conversations
        BY <1>0 DEF HomeTyped
      <3>2. \A T : {c \in owed : c \in T \/ Cycling(c)} \in SUBSET Conversations
        BY <3>1
      <3>3. QED
        BY <1>8, <3>1, <3>2 DEF Commit, LoadDiscarded, LoadFails, LoadFrame
    <2>2. QED
      BY <1>0, <2>1, FinishCarries
  <1>9. ASSUME NEW l \in Slots, StartLoad(l) \/ GoOnline(l) PROVE Carries /\ server' = server
    <2>1. loads' = [loads EXCEPT ![l] = StartedLoad] /\ cycles' = cycles /\ server' = server
      BY <1>9 DEF StartLoad, GoOnline
    <2>2. StartedLoad.pc = "rows" /\ loads \in [Slots -> LoadType]
      BY <1>0, LoadTyped DEF HomeTyped
    <2>3. QED
      BY <2>1, <2>2 DEF Carries
  <1>10. ASSUME NEW l \in Slots, LoadNoWindows(l) \/ LoadNoCounts(l) PROVE Carries /\ server' = server
    BY <1>0, <1>10, LoadBlindIs DEF Carries, LoadFrame
  <1>11. ASSUME NEW c \in Conversations, NEW g \in Schedulers,
                \/ fetchConnection(c, g) \/ fetchLastMessage(c, g)
                \/ fetchChatDeletion(c, g) \/ fetchUnread(c, g)
         PROVE  Carries /\ server' = server
    <2>1. /\ loads' = loads /\ server' = server /\ Answered(c, cycles[c][g], cycles'[c][g])
          /\ \A d \in Conversations \ {c} : cycles'[d] = cycles[d]
          /\ \A h \in Schedulers \ {g} : cycles'[c][h] = cycles[c][h]
      BY <1>0, <1>11, FetchIs DEF CycleFrame
    <2>2. cycles'[c][g].wins \in {cycles[c][g].wins, ServerWindows}
      BY <2>1 DEF Answered
    <2>3. \A d \in Conversations, h \in Schedulers : cycles'[d][h].wins \in {cycles[d][h].wins, ServerWindows}
      BY <2>1, <2>2
    <2>4. QED
      BY <2>1, <2>3 DEF Carries, ServerWindows
  <1>12. ASSUME NEW c \in Conversations, NEW g \in Schedulers, storeChatDeletion(c, g)
         PROVE  Carries /\ server' = server
    <2>1. /\ loads' = Lapsed(Outrun(cycles[c][g].wins), loads) /\ server' = server
          /\ cycles'[c][g].wins = NoWindows
          /\ \A d \in Conversations \ {c} : cycles'[d] = cycles[d]
          /\ \A h \in Schedulers \ {g} : cycles'[c][h] = cycles[c][h]
      BY <1>0, <1>12, StoreChatIs DEF CycleFrame
    <2>2. Outrun(cycles[c][g].wins) \in SUBSET Conversations
      BY DEF Outrun
    <2>3. \A d \in Conversations, h \in Schedulers : cycles'[d][h].wins \in {cycles[d][h].wins, NoWindows}
      BY <2>1
    <2>4. QED
      BY <1>0, <2>1, <2>2, <2>3, LapsedCarries DEF Carries, NoWindows
  <1>13. ASSUME NEW c \in Conversations, NEW g \in Schedulers, Apply(c, g) PROVE Carries /\ server' = server
    <2>1. /\ cycles[c][g] \in PassType /\ cycles[c][g].pass > 0 /\ cycles'[c][g] = NextPass(cycles[c][g])
          /\ \A d \in Conversations \ {c} : cycles'[d] = cycles[d]
          /\ \A h \in Schedulers \ {g} : cycles'[c][h] = cycles[c][h]
          /\ loads' = loads \/ loads' = Lapsed({c}, loads)
          /\ server' = server
      BY <1>0, <1>13, ApplyIs DEF CycleFrame
    <2>2. cycles'[c][g].wins = NoWindows
      <3>1. cycles'[c][g] \in {IdlePass} \cup {Pass(n) : n \in 1 .. MaxPasses}
        BY <2>1, NextPassIs
      <3>2. \A n \in 1 .. MaxPasses : Pass(n).wins = NoWindows
        BY PassTyped, HomeBoundsAssumption
      <3>3. QED
        BY <3>1, <3>2 DEF IdlePass
    <2>3. \A d \in Conversations, h \in Schedulers : cycles'[d][h].wins \in {cycles[d][h].wins, NoWindows}
      BY <2>1, <2>2
    <2>4. \A l \in Slots : loads'[l].pc = "storing" => loads[l].pc = "storing" /\ loads'[l].wins = loads[l].wins
      BY <1>0, <2>1, LapsedCarries
    <2>5. QED
      BY <2>1, <2>3, <2>4 DEF Carries, NoWindows
  <1>14. ASSUME NEW c \in Conversations, NEW g \in Schedulers, FetchFails(c, g) PROVE Carries /\ server' = server
    <2>1. /\ cycles'[c][g].wins = cycles[c][g].wins /\ server' = server
          /\ \A d \in Conversations \ {c} : cycles'[d] = cycles[d]
          /\ \A h \in Schedulers \ {g} : cycles'[c][h] = cycles[c][h]
          /\ loads' = loads \/ \E S \in SUBSET Conversations : loads' = Lapsed(S, loads)
      BY <1>0, <1>14, FetchFailsIs DEF CycleFrame
    <2>2. \A l \in Slots : loads'[l].pc = "storing" => loads[l].pc = "storing" /\ loads'[l].wins = loads[l].wins
      BY <1>0, <2>1, LapsedCarries
    <2>3. \A d \in Conversations, h \in Schedulers : cycles'[d][h].wins = cycles[d][h].wins
      BY <2>1
    <2>4. QED
      BY <2>1, <2>2, <2>3 DEF Carries
  <1>15. QED
    BY <1>2, <1>3, <1>4, <1>5, <1>6, <1>7, <1>8, <1>9, <1>10, <1>11, <1>12, <1>13, <1>14
    DEF HomeNext, SystemStep, LoadStep, CycleStep

-----------------------------------------------------------------------------
(***************************************************************************)
(* The invariant holds, and what it means when nothing is under way.       *)
(***************************************************************************)
\* Home mounts.
LEMMA MountKept == HomeInit => HomeInv
  <1> SUFFICES ASSUME HomeInit PROVE HomeInv
    OBVIOUS
  <1>1. /\ server \in [Conversations -> ConversationType]
        /\ \A c \in Conversations : Possible(server[c]) /\ Len(server[c].msgs) <= MaxMessages
    BY StartsAssumption DEF HomeInit, Possible
  <1>2. newest \in Slots
    BY HomeBoundsAssumption DEF HomeInit
  <1>3. /\ loads \in [Slots -> LoadType]
        /\ \A l \in Slots : Filled(loads[l]) /\ loads[l] \in {IdleLoad, StartedLoad}
        /\ loads[newest] = StartedLoad
    BY <1>2, LoadTyped DEF HomeInit
  <1>4. StartedLoad.pc = "rows" /\ StartedLoad.lapse = {} /\ IdleLoad.pc = "idle"
    BY LoadTyped DEF IdleLoad
  <1>5. cycles \in [Conversations -> [Schedulers -> PassType]]
    BY PassTyped DEF HomeInit
  <1>6. /\ IdlePass.pass = 0 /\ IdlePass.asked = {} /\ IdlePass.row = "absent" /\ IdlePass.last = NoMessage
    BY DEF IdlePass
  <1>7. HomeTyped
    <2>1. view \in [Conversations -> EntryType] /\ window \in [Conversations -> WindowType]
      BY WindowsTyped DEF HomeInit, NoWindows
    <2>2. mirror \in [Conversations -> MirrorType]
      BY WindowsTyped DEF HomeInit, MirrorType
    <2>3. feed \in Seq(EventType)
      BY DEF HomeInit
    <2>4. outages \in 0 .. MaxOutages /\ channel = "joining"
      BY HomeBoundsAssumption DEF HomeInit
    <2>5. owed \subseteq Conversations /\ pending \subseteq Conversations
      BY DEF HomeInit
    <2>6. QED
      BY <1>1, <1>2, <1>3, <1>5, <2>1, <2>2, <2>3, <2>4, <2>5 DEF HomeTyped
  <1>8. ServerKept
    BY <1>1 DEF ServerKept, HomeInit, NoWindows
  <1>9. \A c : Awaited(c) = {}
    BY DEF Awaited, ToSet, HomeInit
  <1>10. FeedKept
    BY <1>9 DEF FeedKept, HomeInit
  <1>11. ReadsSane
    <2>1. \A c \in Conversations : NoMessage \in Read(c)
      <3>1. NoMessage.k = 0
        BY DEF NoMessage
      <3>2. \A c \in Conversations : Count(c) \in Nat
        BY <1>7, ReadTypes, HomeBoundsAssumption
      <3>3. QED
        BY <3>1, <3>2, WindowsTyped DEF Read
    <2>2. \A c \in Conversations : view[c].last = NoMessage /\ mirror[c].last = NoMessage
      BY DEF HomeInit, Unlisted
    <2>3. \A c \in Conversations : \A g \in Schedulers : cycles[c][g] = IdlePass
      BY DEF HomeInit
    <2>4. QED
      BY <1>3, <1>4, <1>6, <2>1, <2>2, <2>3 DEF ReadsSane
  <1>12. GatesKept
    BY <1>3, <1>4 DEF GatesKept, HomeInit
  <1>13. \A c \in Conversations : LoadKept(c) /\ CycleKept(c) /\ ViewKept(c) /\ HiddenKept(c)
    <2>1. \A c \in Conversations : c \in owed /\ view[c] = Unlisted
      BY DEF HomeInit
    <2>2. \A c \in Conversations : LoadKept(c)
      BY <1>3, <1>4 DEF LoadKept
    <2>3. QED
      BY <2>1, <2>2 DEF CycleKept, ViewKept, HiddenKept
  <1>14. QED
    BY <1>7, <1>8, <1>10, <1>11, <1>12, <1>13 DEF HomeInv

\* And carries no windows.
LEMMA MountCarries == HomeInit => CarriedKept
  <1> SUFFICES ASSUME HomeInit PROVE CarriedKept
    OBVIOUS
  <1>1. \A l \in Slots : loads[l].pc # "storing"
    BY LoadTyped DEF HomeInit, IdleLoad
  <1>2. \A d \in Conversations, g \in Schedulers : cycles[d][g].wins = NoWindows
    BY DEF HomeInit, IdlePass
  <1>3. QED
    BY <1>1, <1>2 DEF CarriedKept, NoWindows

\* The invariant is inductive.
LEMMA HomeStepKept == HomeInv /\ CarriedKept /\ [HomeNext]_homeVars => HomeInv' /\ CarriedKept'
  <1> SUFFICES ASSUME HomeInv, CarriedKept, [HomeNext]_homeVars PROVE HomeInv' /\ CarriedKept'
    OBVIOUS
  <1>1. ASSUME UNCHANGED homeVars \/ Render \/ Join PROVE HomeInv'
    BY <1>1, RenderKept
  <1>2. ASSUME Deliver PROVE HomeInv'
    BY <1>2, DeliverKept
  <1>3. ASSUME ServerStep PROVE HomeInv'
    BY <1>3, ServerStepKept
  <1>4. ASSUME GoOffline PROVE HomeInv'
    BY <1>4, OfflineKept
  <1>5. ASSUME NEW l \in Slots, LoadStep(l) PROVE HomeInv'
    <2>1. CASE LoadRows(l) \/ LoadWindows(l) \/ LoadLasts(l) \/ LoadCounts(l)
      BY <2>1, LoadReadKept
    <2>2. CASE Commit(l)
      BY <2>2, CommitKept
    <2>3. CASE LoadDiscarded(l)
      BY <2>3, LoadStopsKept
    <2>4. CASE StoreWindows(l)
      BY <2>4, StoreWindowsKept
    <2>5. QED
      BY <1>5, <2>1, <2>2, <2>3, <2>4 DEF LoadStep
  <1>6. ASSUME NEW l \in Slots, StartLoad(l) \/ GoOnline(l) PROVE HomeInv'
    BY <1>6, StartKept
  <1>7. ASSUME NEW l \in Slots, LoadFails(l) PROVE HomeInv'
    BY <1>7, LoadStopsKept
  <1>8. ASSUME NEW l \in Slots, LoadNoWindows(l) \/ LoadNoCounts(l) PROVE HomeInv'
    BY <1>8, LoadBlindKept
  <1>9. ASSUME NEW c \in Conversations, NEW g \in Schedulers, CycleStep(c, g) PROVE HomeInv'
    <2>1. CASE \/ fetchConnection(c, g) \/ fetchLastMessage(c, g)
               \/ fetchChatDeletion(c, g) \/ fetchUnread(c, g)
      BY <2>1, FetchKept
    <2>2. CASE Apply(c, g)
      BY <2>2, ApplyKept
    <2>3. CASE storeChatDeletion(c, g)
      BY <2>3, StoreChatKept
    <2>4. QED
      BY <1>9, <2>1, <2>2, <2>3 DEF CycleStep
  <1>10. ASSUME NEW c \in Conversations, NEW g \in Schedulers, FetchFails(c, g) PROVE HomeInv'
    BY <1>10, FetchFailsKept
  <1>11. HomeInv'
    BY <1>1, <1>2, <1>3, <1>4, <1>5, <1>6, <1>7, <1>8, <1>9, <1>10 DEF HomeNext, SystemStep
  <1>12. CarriedKept'
    BY StepCarries, CarriedKeeps, InvParts
  <1>13. QED
    BY <1>11, <1>12

\* The invariant holds.
LEMMA HomeInvHolds == HomeSpec => []HomeInv
  <1>1. HomeInit => HomeInv /\ CarriedKept
    BY MountKept, MountCarries
  <1>2. HomeInv /\ CarriedKept /\ [HomeNext]_homeVars => (HomeInv /\ CarriedKept)'
    BY HomeStepKept
  <1>3. QED
    BY <1>1, <1>2, PTL DEF HomeSpec

\* Every variable of the list, the loads and the passes keeps its type, for any number
\* of conversations, loads, changes and outages.
THEOREM HomeTypeCorrect == HomeSpec => []HomeTypeOK
  <1>1. HomeInv => HomeTypeOK
    <2> SUFFICES ASSUME HomeInv PROVE HomeTypeOK
      OBVIOUS
    <2>1. HomeTyped
      BY DEF HomeInv
    <2>2. \A c \in Conversations :
            /\ server[c] \in ConversationType /\ Len(server[c].msgs) <= MaxMessages
            /\ view[c] \in EntryType /\ window[c] \in WindowType /\ mirror[c] \in MirrorType
            /\ \A g \in Schedulers : cycles[c][g] \in PassType
      BY <2>1 DEF HomeTyped
    <2>3. \A p \in PassType : p.pass \in 0 .. MaxPasses
      BY DEF PassType
    <2>4. channel \in {"off", "joining", "live"} /\ owed \subseteq Conversations /\ pending \subseteq Conversations
          /\ newest \in Slots
      BY <2>1 DEF HomeTyped
    <2>5. QED
      BY <2>2, <2>3, <2>4 DEF HomeTypeOK, EntryType, MirrorType
  <1>2. QED
    BY <1>1, HomeInvHolds, PTL

\* What the invariant says of a conversation when nothing is under way.
LEMMA SettledEntry ==
  ASSUME HomeInv, Settled, NEW c \in Conversations \ owed, Followed(c)
  PROVE  /\ Live(c) => view[c].row = Truth(c).row /\ (view[c].row # "absent" => view[c].last = Truth(c).last)
         /\ ~Live(c) => view[c].row = "absent"
         /\ Slips(c) = {} /\ Live(c) /\ view[c].row # "absent" => view[c].unread = UnreadOf(c)
  <1>0. HomeTyped /\ GatesKept /\ ReadsSane /\ ViewKept(c) /\ view[c] \in EntryType
    BY DEF HomeInv, HomeTyped
  <1>1. Awaited(c) = {}
    BY DEF Settled, Awaited, ToSet
  <1>2. /\ \A kind : ~Coming(c, kind)
        /\ \A k : ~Inserting(c, k)
        /\ ~Posting(c) /\ ~Erasing(c)
    BY <1>1 DEF Coming, Inserting, Updating, Posting, Erasing
  <1>3. c \notin owed \cup pending /\ ~Cycling(c)
    BY <1>0 DEF Settled, GatesKept
  <1>4. view[c] \in Fitting(c) /\ (Slips(c) = {} /\ Live(c) => view[c] \in Exact(c))
    BY <1>0, <1>3 DEF ViewKept
  <1>5. ASSUME Slips(c) = {}, Live(c), view[c].row # "absent" PROVE view[c].unread = UnreadOf(c)
    <2>1. view[c].unread = Badge(c)[view[c].last.k]
      BY <1>2, <1>4, <1>5 DEF Exact
    <2>2. view[c].last.k \in 0 .. MaxMessages
      BY <1>0 DEF EntryType, MessageType
    <2>3. PICK j \in 0 .. MaxMessages : j = view[c].last.k
      BY <2>2
    <2>4. Counted(c, j) = Unread(c)
      BY <1>2 DEF Counted
    <2>5. Badge(c)[j] = Cardinality(Unread(c))
      BY <2>4 DEF Badge
    <2>6. QED
      BY <1>0, <2>1, <2>3, <2>5, ReadTypes
  <1>6. QED
    BY <1>2, <1>4, <1>5 DEF Fitting

\* When nothing is under way the list of Home is the server's, for any number of
\* conversations, overlapping loads and passes, changes and outages, but for the
\* conversations left to the next load and those that a named cause misled.
THEOREM ListSettlesTrue == HomeSpec => []SettledIsTrue
  <1>1. HomeInv => SettledIsTrue
    <2> SUFFICES ASSUME HomeInv, Settled, NEW c \in Conversations \ owed, Slips(c) \subseteq {"miscounted"}
                 PROVE  Agrees(c)
      BY DEF SettledIsTrue
    <2>1. Followed(c)
      BY DEF Followed
    <2>2. ~Live(c) => Truth(c).row = "absent"
      <3>1. ~Live(c) => RowOf(c) = "absent"
        BY DEF RowOf
      <3>2. QED
        BY <3>1, EntryIs DEF Truth
    <2>3. QED
      BY <2>1, <2>2, SettledEntry DEF Agrees
  <1>2. QED
    BY <1>1, HomeInvHolds, PTL

\* Under the same conditions, when no cause struck, every badge counts the unread
\* messages of the server.
THEOREM BadgeSettlesExact == HomeSpec => []UnreadIsExact
  <1>1. HomeInv => UnreadIsExact
    <2> SUFFICES ASSUME HomeInv, Settled, NEW c \in Conversations \ owed, Slips(c) = {}, view[c].row # "absent"
                 PROVE  view[c].unread = UnreadOf(c)
      BY DEF UnreadIsExact
    <2>1. Followed(c)
      BY DEF Followed
    <2>2. QED
      BY <2>1, SettledEntry
  <1>2. QED
    BY <1>1, HomeInvHolds, PTL

=============================================================================
