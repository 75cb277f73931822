----------------------------- MODULE Connections -----------------------------
(***************************************************************************)
(* The connection of two users on the server: the connections row of their *)
(* pair, their user_blocks rows, and the triggers, policies and functions  *)
(* of the migrations (0001, 0008, 0009, 0014) that decide every write, as  *)
(* the calls of lib/api.ts reach them.                                     *)
(*                                                                         *)
(* Calls run as concurrent READ COMMITTED transactions: each query of a    *)
(* function or trigger sees what is committed when it runs, an UPDATE      *)
(* waits for the row's lock and looks at the row again when it has it, and *)
(* locks are held to the commit. A call is at the query it is about to     *)
(* run. A step that commits is one action with the last query before it,   *)
(* except where a trigger has already read the blocks.                     *)
(***************************************************************************)
EXTENDS Naturals, FiniteSets

CONSTANTS
  Alice, Bob,   \* the two users
  Calls,        \* slots for calls in flight, of any tab of either user
  NOBODY,       \* no user, no call
  RowIds        \* bound: ids of connections rows, reused when unknown to all

Users == {Alice, Bob}

ASSUME PairAssumption == Alice # Bob /\ NOBODY \notin Users \cup Calls

ASSUME RowIdsAssumption ==
  /\ RowIds \subseteq Nat \ {0} /\ RowIds # {}
  /\ IsFiniteSet(RowIds) /\ IsFiniteSet(Calls)
  /\ Cardinality(RowIds) >= 2 * Cardinality(Calls)

VARIABLES
  row,       \* the connections row of the pair; id 0: there is none
  blocks,    \* user_blocks: <<blocker, blocked>>
  gone,      \* users whose account is deleted
  call,      \* the calls in flight
  rowLock,   \* the call that holds the lock of the row
  history,   \* the row has messages
  consent,   \* history: users whose last word on the row was yes
  shut       \* history: users that declined and blocked, until they unblock

vars == <<row, blocks, gone, call, rowLock, history, consent, shut>>

Peer(u) == IF u = Alice THEN Bob ELSE Alice

Statuses == {"pending", "accepted", "declined", "expired", "ended"}

NoRow == [id |-> 0, from |-> NOBODY, to |-> NOBODY, status |-> "ended"]

Idle == [op |-> "none", pc |-> "idle", by |-> NOBODY, id |-> 0,
         seen |-> NoRow, blocking |-> FALSE, barred |-> FALSE]

Ops == {"send", "accept", "decline", "cancel", "post", "leave"}

\* Either user blocks the other.
Blocked == blocks # {}

\* Lift the bar from the calls in flight once no block stands any more.
Unbarred(b) ==
  IF b = {} THEN [c \in Calls |-> [call[c] EXCEPT !.barred = FALSE]] ELSE call

\* An id that is in no row and that no call has read.
Fresh ==
  CHOOSE i \in RowIds :
    i # row.id /\ \A c \in Calls : i \notin {call[c].id, call[c].seen.id}

-----------------------------------------------------------------------------

Init ==
  /\ \/ row = NoRow
     \/ row = [id |-> CHOOSE i \in RowIds : TRUE, from |-> Alice, to |-> Bob,
               status |-> "expired"]
  /\ blocks = {} /\ gone = {} /\ rowLock = NOBODY
  /\ call = [c \in Calls |-> Idle]
  /\ history = FALSE /\ consent = {} /\ shut = {}

At(c, op, pc) == call[c].op = op /\ call[c].pc = pc

Goto(c, pc) == call' = [call EXCEPT ![c].pc = pc]

Done(c) == call' = [call EXCEPT ![c] = Idle]

Unlocked == rowLock = NOBODY

\* The row the call means is there, as far as committed data go.
Found(c) == row.id # 0 /\ row.id = call[c].id

\* A tab issues a call on what it last saw: any op, by either side of the row.
Begin(c, u, op, blocking) ==
  /\ call[c] = Idle /\ u \notin gone
  /\ (op # "send") => (row.id # 0)
  /\ blocking => op = "decline"
  /\ call' = [call EXCEPT ![c] =
       [op |-> op, pc |-> "begin", by |-> u, id |-> row.id, seen |-> NoRow,
        blocking |-> blocking, barred |-> Blocked]]
  /\ UNCHANGED <<row, blocks, gone, rowLock, history, consent, shut>>

(* send_connection_request *)

SendCheck(c) ==
  /\ At(c, "send", "begin")
  /\ IF Peer(call[c].by) \in gone \/ Blocked THEN Done(c) ELSE Goto(c, "lock")
  /\ UNCHANGED <<row, blocks, gone, rowLock, history, consent, shut>>

\* Mutant of PairLocked: no advisory lock.
NoPairLock == FALSE

\* pg_advisory_xact_lock on the pair: held from here to the end of the call.
PairLocked == \E c \in Calls : At(c, "send", "write") \/ At(c, "send", "commit")

\* What the function does not write over: a live connection, their live request.
Standing(r, u) == r.status = "accepted" \/ (r.status = "pending" /\ r.to = u)

SendRead(c) ==
  /\ At(c, "send", "lock") /\ ~PairLocked
  /\ IF row.id # 0 /\ Standing(row, call[c].by)
     THEN Done(c)
     ELSE call' = [call EXCEPT ![c].pc = "write", ![c].seen = row]
  /\ UNCHANGED <<row, blocks, gone, rowLock, history, consent, shut>>

\* Mutant of Requested: turning the row round forgets user_b.
HalfTurned(r, seen, u) == [r EXCEPT !.status = "pending", !.from = u]

\* The update the function has chosen by the row it saw: its own attempt is
\* only set to pending, any other is turned round.
Requested(r, seen, u) ==
  IF seen.from = u /\ seen.status # "ended"
  THEN [r EXCEPT !.status = "pending"]
  ELSE [r EXCEPT !.status = "pending", !.from = u, !.to = Peer(u)]

\* Mutant of GuardRefuses: only inserts are looked at.
InsertRefused(old, new) == Blocked /\ old.id # new.id

\* guard_blocked_connection_write: a new row, a new status or a new direction.
GuardRefuses(old, new) ==
  /\ Blocked
  /\ new.status \in {"pending", "accepted"}
  /\ \/ old.id # new.id
     \/ old.status # new.status
     \/ old.from # new.from \/ old.to # new.to

SendUpdate(c) ==
  /\ At(c, "send", "write") /\ call[c].seen.id # 0
  /\ IF row.id # call[c].seen.id
     THEN Done(c) /\ UNCHANGED rowLock          \* no row: returns the id all the same
     ELSE /\ Unlocked
          /\ IF GuardRefuses(row, Requested(row, call[c].seen, call[c].by))
             THEN Done(c) /\ UNCHANGED rowLock
             ELSE Goto(c, "commit") /\ rowLock' = c
  /\ UNCHANGED <<row, blocks, gone, history, consent, shut>>

SendInsert(c) ==
  /\ At(c, "send", "write") /\ call[c].seen.id = 0
  /\ IF Blocked THEN Done(c) ELSE Goto(c, "commit")
  /\ UNCHANGED <<row, blocks, gone, rowLock, history, consent, shut>>

\* connections_pair_unique: the insert of a second row of the pair fails.
SendCommit(c) ==
  /\ At(c, "send", "commit")
  /\ Done(c)
  /\ LET u == call[c].by
         inserting == call[c].seen.id = 0
     IN  IF inserting /\ row.id # 0
         THEN UNCHANGED <<row, history, consent>>
         ELSE /\ row' = IF inserting
                        THEN [id |-> Fresh, from |-> u, to |-> Peer(u),
                              status |-> "pending"]
                        ELSE Requested(row, call[c].seen, u)
              /\ history' = (history /\ ~inserting)
              /\ consent' = {u}
  /\ rowLock' = IF rowLock = c THEN NOBODY ELSE rowLock
  /\ UNCHANGED <<blocks, gone, shut>>

(* acceptConnection: UPDATE ... SET accepted WHERE id = .. AND pending *)

\* No row matches what is committed: no error, and the tab shows an accepted
\* connection.
Unmatched(c) == ~Found(c) \/ row.status # "pending"

AcceptMisses(c) ==
  /\ At(c, "accept", "begin") /\ Unmatched(c)
  /\ Done(c)
  /\ UNCHANGED <<row, blocks, gone, rowLock, history, consent, shut>>

\* Mutant of MayAnswer: either side answers a pending request.
AnyoneAnswers(r, u) == r.status = "pending"

\* guard_connection_update: only the recipient accepts or declines.
MayAnswer(r, u) == r.to = u /\ r.status = "pending"

AcceptUpdate(c) ==
  /\ At(c, "accept", "begin") /\ ~Unmatched(c) /\ Unlocked
  /\ IF ~MayAnswer(row, call[c].by)
        \/ GuardRefuses(row, [row EXCEPT !.status = "accepted"])
     THEN Done(c) /\ UNCHANGED rowLock
     ELSE Goto(c, "commit") /\ rowLock' = c
  /\ UNCHANGED <<row, blocks, gone, history, consent, shut>>

\* on_connection_accepted writes the event message in the same transaction.
AcceptCommit(c) ==
  /\ At(c, "accept", "commit")
  /\ Done(c) /\ rowLock' = NOBODY
  /\ row' = [row EXCEPT !.status = "accepted"]
  /\ history' = TRUE
  /\ consent' = consent \cup {call[c].by}
  /\ UNCHANGED <<blocks, gone, shut>>

(* decline_connection *)

\* With a block its row is inserted here, which an account that is gone refuses.
DeclineRead(c) ==
  /\ At(c, "decline", "begin")
  /\ IF /\ Found(c) /\ MayAnswer(row, call[c].by)
        /\ call[c].blocking => Peer(call[c].by) \notin gone
     THEN Goto(c, "write") ELSE Done(c)
  /\ UNCHANGED <<row, blocks, gone, rowLock, history, consent, shut>>

DeclinerBlocks(c) ==
  IF call[c].blocking THEN {<<call[c].by, Peer(call[c].by)>>} ELSE {}

\* The row is no longer pending: the block is stored and nothing is declined.
DeclineMisses(c) ==
  /\ At(c, "decline", "write") /\ Unmatched(c)
  /\ Done(c)
  /\ blocks' = blocks \cup DeclinerBlocks(c)
  /\ UNCHANGED <<row, gone, rowLock, history, consent, shut>>

\* Turned round in the meantime, the update is refused and takes the block with it.
DeclineCommit(c) ==
  /\ At(c, "decline", "write") /\ ~Unmatched(c) /\ Unlocked
  /\ Done(c)
  /\ IF MayAnswer(row, call[c].by)
     THEN /\ row' = [row EXCEPT !.status = "declined"]
          /\ blocks' = blocks \cup DeclinerBlocks(c)
          /\ consent' = consent \ {call[c].by}
          /\ shut' = IF call[c].blocking THEN shut \cup {call[c].by} ELSE shut
     ELSE UNCHANGED <<row, blocks, consent, shut>>
  /\ UNCHANGED <<gone, rowLock, history>>

(* cancelConnectionRequest: connections_delete_own_request decides *)

Cancel(c) ==
  /\ At(c, "cancel", "begin")
  /\ Done(c)
  /\ IF ~Unmatched(c) /\ row.from = call[c].by
     THEN /\ Unlocked
          /\ row' = NoRow /\ history' = FALSE /\ consent' = {}
     ELSE UNCHANGED <<row, history, consent>>
  /\ UNCHANGED <<blocks, gone, rowLock, shut>>

(* sendMessage: guard_message_insert reads the row, then the blocks *)

PostRead(c) ==
  /\ At(c, "post", "begin")
  /\ IF Found(c) /\ row.status = "accepted" THEN Goto(c, "write") ELSE Done(c)
  /\ UNCHANGED <<row, blocks, gone, rowLock, history, consent, shut>>

\* Mutant of PostGuard: a message is not checked for blocks.
PostUnguarded(c) ==
  /\ At(c, "post", "write")
  /\ Goto(c, "commit")
  /\ UNCHANGED <<row, blocks, gone, rowLock, history, consent, shut>>

PostGuard(c) ==
  /\ At(c, "post", "write")
  /\ IF Blocked THEN Done(c) ELSE Goto(c, "commit")
  /\ UNCHANGED <<row, blocks, gone, rowLock, history, consent, shut>>

PostCommit(c) ==
  /\ At(c, "post", "commit")
  /\ Done(c)
  /\ history' = (history \/ Found(c))
  /\ UNCHANGED <<row, blocks, gone, rowLock, consent, shut>>

(* delete_own_account *)

LeaveNotice(c) ==
  /\ At(c, "leave", "begin")
  /\ Goto(c, "write")
  /\ UNCHANGED <<row, blocks, gone, rowLock, history, consent, shut>>

\* The blocks of both sides cascade away; a block being inserted holds the account.
LeaveCommit(c) ==
  /\ At(c, "leave", "write")
  /\ \A d \in Calls : At(d, "decline", "write") => ~call[d].blocking
  /\ IF row.id # 0 /\ row.status = "accepted"
     THEN Unlocked /\ row' = [row EXCEPT !.status = "ended"]
     ELSE UNCHANGED row
  /\ gone' = gone \cup {call[c].by}
  /\ blocks' = {} /\ shut' = {}
  /\ call' = [Unbarred({}) EXCEPT ![c] = Idle]
  /\ UNCHANGED <<rowLock, history, consent>>

(* blockUser, unblockUser: one statement each *)

Block(u) ==
  /\ u \notin gone /\ Peer(u) \notin gone
  /\ <<u, Peer(u)>> \notin blocks
  /\ blocks' = blocks \cup {<<u, Peer(u)>>}
  /\ UNCHANGED <<row, gone, call, rowLock, history, consent, shut>>

Unblock(u) ==
  /\ u \notin gone
  /\ <<u, Peer(u)>> \in blocks
  /\ blocks' = blocks \ {<<u, Peer(u)>>}
  /\ call' = Unbarred(blocks')
  /\ shut' = shut \ {u}
  /\ UNCHANGED <<row, gone, rowLock, history, consent>>

-----------------------------------------------------------------------------

Step(c) ==
  \/ SendCheck(c) \/ SendRead(c) \/ SendUpdate(c) \/ SendInsert(c) \/ SendCommit(c)
  \/ AcceptMisses(c) \/ AcceptUpdate(c) \/ AcceptCommit(c)
  \/ DeclineRead(c) \/ DeclineMisses(c) \/ DeclineCommit(c)
  \/ Cancel(c)
  \/ PostRead(c) \/ PostGuard(c) \/ PostCommit(c)
  \/ LeaveNotice(c) \/ LeaveCommit(c)

Next ==
  \/ \E c \in Calls, u \in Users, op \in Ops, b \in BOOLEAN : Begin(c, u, op, b)
  \/ \E c \in Calls : Step(c)
  \/ \E u \in Users : Block(u) \/ Unblock(u)

Spec == Init /\ [][Next]_vars
-----------------------------------------------------------------------------
(* Properties *)

TypeOK ==
  /\ row \in [id : RowIds \cup {0}, from : Users \cup {NOBODY},
             to : Users \cup {NOBODY}, status : Statuses]
  /\ row.id = 0 <=> row = NoRow
  /\ row.id # 0 => row.from \in Users /\ row.to = Peer(row.from)
  /\ blocks \subseteq {<<u, Peer(u)>> : u \in Users}
  /\ gone \subseteq Users /\ consent \subseteq Users /\ shut \subseteq Users
  /\ \A c \in Calls :
       /\ call[c].op \in Ops \cup {"none"}
       /\ call[c].pc \in {"idle", "begin", "lock", "write", "commit"}
       /\ call[c].by \in Users \cup {NOBODY}
  /\ rowLock \in Calls \cup {NOBODY}
  /\ history \in BOOLEAN

\* A call that began under a block which still stands never gets to write a
\* request, an acceptance or a message, whichever of its checks ran when: the
\* check of send_connection_request comes before its wait for the lock, and
\* those of the triggers run at the write (migration 0008, sections 2 and 3).
NothingPastABlock ==
  \A c \in Calls : call[c].pc = "commit" => ~call[c].barred

\* Declining with a block settles the pair until the block is lifted: no request
\* or acceptance that was in flight brings the row back (decline_connection
\* stores both in one transaction, and the guard reads blocks under the row lock).
DeclinedAndBlockedStays ==
  shut # {} => row.status \notin {"pending", "accepted"}

\* A connection is accepted only when the latest word of both users was yes: who
\* asked did not cancel, who accepted was the one asked, and a row turned round
\* is not accepted by its new requester (guard_connection_update).
AcceptedByBoth ==
  row.status = "accepted" => consent = Users

\* Two requests at once never meet in the unique index of the pair: whoever
\* inserts still finds no row (the advisory lock of send_connection_request).
RequestsDoNotCollide ==
  \A c \in Calls :
    At(c, "send", "commit") /\ call[c].seen.id = 0 => row.id = 0

\* "Already connected: consent states must not be downgraded": an accepted
\* connection ends or stays (send_connection_request).
ConsentKept ==
  [][row.status = "accepted" => row'.status \in {"accepted", "ended"}]_vars
=============================================================================
