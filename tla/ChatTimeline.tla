----------------------------- MODULE ChatTimeline -----------------------------
(***************************************************************************)
(* The message list of an open chat (components/Chat.tsx) and the merges   *)
(* it is built with (lib/chatRealtime.ts): the load of the newest page,    *)
(* older pages, the realtime channel, own sends and deletions for          *)
(* everyone, with the buffers that hold events back while a page is in     *)
(* flight.                                                                 *)
(*                                                                         *)
(* A message is its number in (created_at, id) order, which is the order   *)
(* of the commits here; all a row says is whether it is deleted for        *)
(* everyone. A list of rows is a function from messages to that. The chat  *)
(* stays open throughout: leaving it discards the state, and the lifecycle *)
(* token every late result.                                                *)
(***************************************************************************)
EXTENDS Integers, Sequences, FiniteSets, SequencesExt, FiniteSetsExt

CONSTANTS
  PageSize,      \* rows of a page (PAGE_SIZE)
  Initially,     \* messages the conversation holds when the chat is opened
  MaxMessages, MaxErasures, MaxOutages, MaxFailures    \* bounds

ASSUME TimelineAssumption ==
  /\ PageSize \in Nat \ {0}
  /\ {Initially, MaxMessages, MaxErasures, MaxOutages, MaxFailures} \subseteq Nat
  /\ Initially <= MaxMessages
  /\ MaxMessages <= Initially + PageSize    \* no more than a page comes in

VARIABLES
  server,     \* the rows of the conversation: is message i deleted?
  channel,    \* the realtime subscription: off, joining, on
  wire,       \* its events that have not been delivered
  online,     \* the connectivity signal
  list,       \* messages, the React state
  load,       \* the load effect: where it is, and the page it has read
  failed,     \* loadError: the list is not shown
  pending,    \* pendingRealtimeRef: events held back by the load
  older,      \* loadOlder: where it is, its cursor, the page it has read
  pendingOlder, \* pendingOlderRef: updates held back by it
  hasMore,    \* there is an older page
  latch,      \* loadingOlderRef
  sending, erasing,   \* own calls whose answer is outstanding; 0: none
  missed,     \* history: messages the tab was not told of since the page it shows
  missedSince,\* history: of those, since the page the load has read
  told,       \* history: deletions the channel has delivered
  budget      \* outages and failures left

vars == <<server, channel, wire, online, list, load, failed, pending, older,
          pendingOlder, hasMore, latch, sending, erasing, missed, missedSince,
          told, budget>>

Messages == 1 .. MaxMessages

NoRows == [i \in {} |-> FALSE]

Ids(events) == {events[k].id : k \in DOMAIN events}

Has(events, kind, id) == \E k \in DOMAIN events : events[k].kind = kind /\ events[k].id = id

Erased == Cardinality({i \in DOMAIN server : server[i]})

\* The list is on the screen, and the scroll element with it.
Shown == load.pc = "idle" /\ ~failed

-----------------------------------------------------------------------------
(* lib/chatRealtime.ts *)

mergeIncomingMessage(rows, id, erased) ==
  IF id \in DOMAIN rows THEN rows
  ELSE [i \in DOMAIN rows \cup {id} |-> IF i = id THEN erased ELSE rows[i]]

applyMessageUpdate(rows, id, erased) ==
  IF id \in DOMAIN rows THEN [rows EXCEPT ![id] = erased] ELSE rows

\* Mutant of captureRealtimeRow: the newest event of a message wins its place.
ReplaceQueued(queue, event) ==
  LET k == SelectInSeq(queue, LAMBDA e : e.id = event.id)
  IN  IF k = 0 THEN Append(queue, event) ELSE [queue EXCEPT ![k] = event]

\* A replayed INSERT is dropped, an UPDATE replaces an UPDATE in its place and
\* goes behind an INSERT.
captureRealtimeRow(queue, event) ==
  LET k == SelectInSeq(queue, LAMBDA e : e.id = event.id)
  IN  IF k = 0 THEN Append(queue, event)
      ELSE IF event.kind = "INSERT" THEN queue
      ELSE IF queue[k].kind = "INSERT" THEN Append(queue, event)
      ELSE [queue EXCEPT ![k] = event]

\* What the events, taken in their order, make of a page: an INSERT adds its row,
\* and an UPDATE finds the rows of the page and those added before it.
mergeLoadedPage(page, queue) ==
  [i \in DOMAIN page \cup {i \in Ids(queue) : Has(queue, "INSERT", i)} |->
     \/ i \in DOMAIN page /\ page[i]
     \/ \E k \in DOMAIN queue :
          /\ queue[k].kind = "UPDATE" /\ queue[k].id = i
          /\ i \in DOMAIN page \/ \E l \in 1 .. k : queue[l].kind = "INSERT" /\ queue[l].id = i]

\* The rows of the list win over those of the page.
mergeOlderPage(rows, page, queue) ==
  mergeLoadedPage(
    [i \in DOMAIN rows \cup DOMAIN page |-> IF i \in DOMAIN rows THEN rows[i] ELSE page[i]],
    queue)

\* getMessagesPage: the newest rows before a message.
PageBefore(i) ==
  LET from == Max({1, i - PageSize}) IN [j \in from .. (i - 1) |-> server[j]]

MoreBefore(i) == i - 1 > PageSize

-----------------------------------------------------------------------------
(* What is committed on the server, and the channel *)

\* A change is sent to the joined channel, and to nobody otherwise.
Publish(kind, id) ==
  IF channel = "on"
  THEN /\ wire' = Append(wire, [kind |-> kind, id |-> id])
       /\ UNCHANGED <<missed, missedSince>>
  ELSE /\ missed' = missed \cup {id} /\ missedSince' = missedSince \cup {id}
       /\ UNCHANGED wire

\* The subscription is dropped with what it has not delivered.
Resubscribe(state) ==
  /\ channel' = state
  /\ wire' = <<>>
  /\ missed' = missed \cup Ids(wire) /\ missedSince' = missedSince \cup Ids(wire)

Insert ==
  /\ Len(server) < MaxMessages
  /\ server' = Append(server, FALSE)
  /\ Publish("INSERT", Len(server) + 1)

Erase(i) ==
  /\ ~server[i] /\ Erased < MaxErasures
  /\ server' = [server EXCEPT ![i] = TRUE]
  /\ Publish("UPDATE", i)

\* The peer, or another device of the user.
PostElsewhere ==
  /\ Insert
  /\ UNCHANGED <<channel, online, list, load, failed, pending, older, pendingOlder,
                 hasMore, latch, sending, erasing, told, budget>>

EraseElsewhere(i) ==
  /\ Erase(i)
  /\ UNCHANGED <<channel, online, list, load, failed, pending, older, pendingOlder,
                 hasMore, latch, sending, erasing, told, budget>>

Joined ==
  /\ channel = "joining"
  /\ channel' = "on"
  /\ UNCHANGED <<server, wire, online, list, load, failed, pending, older, pendingOlder,
                 hasMore, latch, sending, erasing, missed, missedSince, told, budget>>

-----------------------------------------------------------------------------
(* The load effect *)

Init ==
  /\ server = [i \in 1 .. Initially |-> FALSE]
  /\ channel = "joining" /\ wire = <<>> /\ online = TRUE
  /\ list = NoRows
  /\ load = [pc |-> "fetch", page |-> NoRows, more |-> FALSE]
  /\ failed = FALSE /\ pending = <<>>
  /\ older = [pc |-> "idle", cursor |-> 0, page |-> NoRows, outrun |-> FALSE]
  /\ pendingOlder = <<>> /\ hasMore = FALSE /\ latch = FALSE
  /\ sending = 0 /\ erasing = 0
  /\ missed = {} /\ missedSince = {} /\ told = {}
  /\ budget = [outages |-> MaxOutages, failures |-> MaxFailures]

StartedLoad == [pc |-> "fetch", page |-> NoRows, more |-> FALSE]

\* The profile query answers: a new peer object, on which the subscription depends.
LoadPeer ==
  /\ load.pc = "fetch"
  /\ load' = [load EXCEPT !.pc = "peer"]
  /\ Resubscribe("joining")
  /\ UNCHANGED <<server, online, list, failed, pending, older, pendingOlder,
                 hasMore, latch, sending, erasing, told, budget>>

LoadPage ==
  /\ load.pc = "peer"
  /\ load' = [pc |-> "page", page |-> PageBefore(Len(server) + 1),
              more |-> MoreBefore(Len(server) + 1)]
  /\ missedSince' = {}
  /\ UNCHANGED <<server, channel, wire, online, list, failed, pending, older,
                 pendingOlder, hasMore, latch, sending, erasing, missed, told, budget>>

LoadCommit ==
  /\ load.pc = "page"
  /\ list' = mergeLoadedPage(load.page, pending)
  /\ pending' = <<>>
  /\ hasMore' = load.more
  /\ load' = [load EXCEPT !.pc = "idle", !.page = NoRows]
  /\ older' = [older EXCEPT !.outrun = (older.pc # "idle")]
  /\ missed' = missedSince
  /\ UNCHANGED <<server, channel, wire, online, failed, pendingOlder, latch,
                 sending, erasing, missedSince, told, budget>>

\* The gate opens, and what was held back stays in the queue.
LoadFails ==
  /\ load.pc # "idle" /\ budget.failures > 0
  /\ budget' = [budget EXCEPT !.failures = @ - 1]
  /\ load' = [load EXCEPT !.pc = "idle", !.page = NoRows]
  /\ failed' = TRUE
  /\ UNCHANGED <<server, channel, wire, online, list, pending, older, pendingOlder,
                 hasMore, latch, sending, erasing, missed, missedSince, told>>

Retry ==
  /\ failed /\ online
  /\ failed' = FALSE
  /\ load' = StartedLoad
  /\ UNCHANGED <<server, channel, wire, online, list, pending, older, pendingOlder,
                 hasMore, latch, sending, erasing, missed, missedSince, told, budget>>

\* The browser is offline, or only a request has failed: then the channel is
\* joined again.
Disconnect(state) ==
  /\ online /\ budget.outages > 0
  /\ budget' = [budget EXCEPT !.outages = @ - 1]
  /\ online' = FALSE
  /\ Resubscribe(state)
  /\ UNCHANGED <<server, list, load, failed, pending, older, pendingOlder,
                 hasMore, latch, sending, erasing, told>>

\* Connectivity returns: the load effect runs again, whatever is in flight.
Reconnect ==
  /\ ~online
  /\ online' = TRUE
  /\ Resubscribe("joining")
  /\ load' = StartedLoad /\ failed' = FALSE
  /\ UNCHANGED <<server, list, pending, older, pendingOlder, hasMore, latch,
                 sending, erasing, told, budget>>

-----------------------------------------------------------------------------
(* The realtime handlers *)

\* Mutant of Held: no buffer for an older page in flight.
NotHeld(event) == FALSE

\* An update the older page in flight may be ahead of.
Held(event) ==
  /\ event.kind = "UPDATE"
  /\ older.pc # "idle" /\ event.id \notin DOMAIN list

Deliver ==
  /\ wire # <<>>
  /\ wire' = Tail(wire)
  /\ LET event == Head(wire) IN
       /\ told' = IF event.kind = "UPDATE" THEN told \cup {event.id} ELSE told
       /\ \/ /\ load.pc # "idle"
             /\ pending' = captureRealtimeRow(pending, event)
             /\ UNCHANGED <<pendingOlder, list>>
          \/ /\ load.pc = "idle" /\ Held(event)
             /\ pendingOlder' = captureRealtimeRow(pendingOlder, event)
             /\ UNCHANGED <<pending, list>>
          \/ /\ load.pc = "idle" /\ ~Held(event)
             /\ list' = mergeLoadedPage(list, <<event>>)
             /\ UNCHANGED <<pending, pendingOlder>>
  /\ UNCHANGED <<server, channel, online, load, failed, older, hasMore, latch,
                 sending, erasing, missed, missedSince, budget>>

-----------------------------------------------------------------------------
(* Older pages *)

StartOlder ==
  /\ Shown /\ online /\ hasMore /\ ~latch /\ DOMAIN list # {}
  /\ latch' = TRUE
  /\ older' = [pc |-> "fetch", cursor |-> Min(DOMAIN list), page |-> NoRows,
               outrun |-> FALSE]
  /\ UNCHANGED <<server, channel, wire, online, list, load, failed, pending,
                 pendingOlder, hasMore, sending, erasing, missed, missedSince, told,
                 budget>>

OlderPage ==
  /\ older.pc = "fetch"
  /\ older' = [older EXCEPT !.pc = "page", !.page = PageBefore(older.cursor)]
  /\ UNCHANGED <<server, channel, wire, online, list, load, failed, pending,
                 pendingOlder, hasMore, latch, sending, erasing, missed, missedSince,
                 told, budget>>

\* Messages between an older page and a list that was loaded again meanwhile.
Skipped ==
  IF DOMAIN list = {} THEN {}
  ELSE {i \in older.cursor .. Min(DOMAIN list) - 1 : i \in DOMAIN server}

\* The latch is released when the list is laid out, for which it has to be on
\* the screen.
OlderCommit ==
  /\ older.pc = "page"
  /\ list' = mergeOlderPage(list, older.page, pendingOlder)
  /\ pendingOlder' = <<>>
  /\ hasMore' = MoreBefore(older.cursor)
  /\ latch' = (~Shown /\ DOMAIN older.page # {})
  /\ missed' = IF older.outrun THEN missed \cup Skipped \cup DOMAIN older.page ELSE missed
  /\ older' = [older EXCEPT !.pc = "idle", !.page = NoRows, !.outrun = FALSE]
  /\ UNCHANGED <<server, channel, wire, online, load, failed, pending, sending,
                 erasing, missedSince, told, budget>>

\* Mutant of OlderFails: what was held back is neither drained nor dropped.
OlderForgets ==
  /\ older.pc # "idle" /\ budget.failures > 0
  /\ budget' = [budget EXCEPT !.failures = @ - 1]
  /\ latch' = FALSE
  /\ older' = [older EXCEPT !.pc = "idle", !.page = NoRows, !.outrun = FALSE]
  /\ UNCHANGED <<server, channel, wire, online, list, load, failed, pending,
                 pendingOlder, hasMore, sending, erasing, missed, missedSince, told>>

OlderFails ==
  /\ older.pc # "idle" /\ budget.failures > 0
  /\ budget' = [budget EXCEPT !.failures = @ - 1]
  /\ list' = mergeOlderPage(list, NoRows, pendingOlder)
  /\ pendingOlder' = <<>> /\ latch' = FALSE
  /\ older' = [older EXCEPT !.pc = "idle", !.page = NoRows, !.outrun = FALSE]
  /\ UNCHANGED <<server, channel, wire, online, load, failed, pending, hasMore,
                 sending, erasing, missed, missedSince, told>>

-----------------------------------------------------------------------------
(* Own messages: handleSend, handleDeleteEveryone *)

Send ==
  /\ Shown /\ online /\ sending = 0
  /\ Insert
  /\ sending' = Len(server) + 1
  /\ UNCHANGED <<channel, online, list, load, failed, pending, older, pendingOlder,
                 hasMore, latch, erasing, told, budget>>

\* The answer adds the row as it was inserted, whatever the list has become.
SendDone ==
  /\ sending # 0
  /\ list' = mergeIncomingMessage(list, sending, FALSE)
  /\ sending' = 0
  /\ UNCHANGED <<server, channel, wire, online, load, failed, pending, older,
                 pendingOlder, hasMore, latch, erasing, missed, missedSince, told,
                 budget>>

EraseHere(i) ==
  /\ Shown /\ online /\ erasing = 0
  /\ i \in DOMAIN list
  /\ Erase(i)
  /\ erasing' = i
  /\ UNCHANGED <<channel, online, list, load, failed, pending, older, pendingOlder,
                 hasMore, latch, sending, told, budget>>

EraseDone ==
  /\ erasing # 0
  /\ list' = applyMessageUpdate(list, erasing, TRUE)
  /\ erasing' = 0
  /\ UNCHANGED <<server, channel, wire, online, load, failed, pending, older,
                 pendingOlder, hasMore, latch, sending, missed, missedSince, told,
                 budget>>

-----------------------------------------------------------------------------

Next ==
  \/ PostElsewhere \/ \E i \in DOMAIN server : EraseElsewhere(i)
  \/ Joined \/ Deliver
  \/ LoadPeer \/ LoadPage \/ LoadCommit \/ LoadFails \/ Retry
  \/ Disconnect("off") \/ Disconnect("joining") \/ Reconnect
  \/ StartOlder \/ OlderPage \/ OlderCommit \/ OlderFails
  \/ Send \/ SendDone \/ (\E i \in DOMAIN server : EraseHere(i)) \/ EraseDone

Spec == Init /\ [][Next]_vars

-----------------------------------------------------------------------------
(* Properties *)

Events == [kind : {"INSERT", "UPDATE"}, id : Messages]

RowsOf(rows) == DOMAIN rows \subseteq Messages /\ \A i \in DOMAIN rows : rows[i] \in BOOLEAN

TypeOK ==
  /\ server \in Seq(BOOLEAN) /\ Len(server) <= MaxMessages
  /\ channel \in {"off", "joining", "on"}
  /\ wire \in Seq(Events) /\ pending \in Seq(Events) /\ pendingOlder \in Seq(Events)
  /\ RowsOf(list) /\ RowsOf(load.page) /\ RowsOf(older.page)
  /\ load.pc \in {"idle", "fetch", "peer", "page"}
  /\ older.pc \in {"idle", "fetch", "page"}
  /\ {online, failed, hasMore, latch} \subseteq BOOLEAN
  /\ older.pc # "idle" => latch
  /\ pendingOlder # <<>> => older.pc # "idle"
  /\ {sending, erasing} \subseteq Messages \cup {0}
  /\ missed \cup missedSince \cup told \subseteq Messages

\* Nothing is on its way to the tab.
Quiet ==
  /\ Shown /\ older.pc = "idle" /\ channel = "on" /\ wire = <<>>
  /\ sending = 0 /\ erasing = 0

\* When everything has arrived, the list is what the server holds from its first
\* row on: no gap, no message without its deletion, in whatever order the page,
\* the older page, the events and the answers to own calls came in. Excepted are
\* the changes the channel never carried, and what an older page leaves behind
\* when the list was loaded again under it.
SettledIsTrue ==
  Quiet /\ DOMAIN list # {} =>
    \A i \in Min(DOMAIN list) .. Len(server) :
      i \in missed \/ (i \in DOMAIN list /\ list[i] = server[i])

\* A deletion the channel has delivered is never shown undone by a page that was
\* read before it (F-02 and the pagination race, chatRealtime.ts).
NoResurrection ==
  \A i \in told \cap DOMAIN list :
    \/ list[i]
    \/ i \in Ids(pending) \cup Ids(pendingOlder)
    \/ i \in missed
=============================================================================
