--------------------------- MODULE HomeReconcile ---------------------------
(***************************************************************************)
(* The conversation list: the full loads of src/components/Home.tsx, the   *)
(* realtime bridge, the reconcile scheduler and the load lifecycle of      *)
(* src/lib/homeRealtime.ts, over a server that other devices change.       *)
(*                                                                         *)
(* A load and a reconciliation read the server in several requests, and    *)
(* events arrive between them. Loads replace the list, a reconciliation    *)
(* writes one conversation, an event is applied at once, or only noted     *)
(* while a load runs. The event handlers look at a mirror of the list that *)
(* is refreshed after a render.                                            *)
(*                                                                         *)
(* Message k of a conversation is created at time k and its row at time 0, *)
(* so a hidden-until cutoff is the number of messages it hides. The answer *)
(* to a query of the deletion windows, of a load or a pass, is stored when *)
(* it arrives, whatever was stored since it was read. Profiles, "deleted   *)
(* for me" ids, the offline snapshot and a change of account are left out. *)
(***************************************************************************)
EXTENDS Integers, Sequences, FiniteSets, SequencesExt

CONSTANTS
  Conversations,
  Starts,           \* what the server may hold when Home mounts
  Slots,            \* bound: loads in flight at once
  MaxPasses,        \* maxPasses of createReconcileScheduler
  DrainCap,         \* LOAD_DRAIN_RECONCILE_CAP
  MaxMessages,      \* bound: messages of a conversation
  MaxChanges,       \* bound: changes of the server and mishaps
  MaxOutages,       \* bound: times the network goes away
  MaxMishaps        \* bound: those, loads the user causes and requests that fail

ASSUME HomeBoundsAssumption ==
  /\ {MaxPasses, DrainCap, MaxMessages} \subseteq Nat \ {0}
  /\ {MaxChanges, MaxOutages, MaxMishaps} \subseteq Nat
  /\ Slots # {}

VARIABLES
  server,    \* rows, messages and deletion windows of each conversation
  feed,      \* events the channel has yet to deliver
  channel,   \* the realtime channel: off, joining, live
  loads,     \* the loads in flight, with what they have read
  newest,    \* the load that was started last
  cycles,    \* the reconcile cycle of each conversation, by scheduler
  pending,   \* conversations noted while a load runs
  view,      \* the rendered list
  window,    \* deletionsRef
  mirror,    \* visibleIdsRef and lastMessagesRef
  owed,      \* history: conversations left to the next load, see Owe
  slips,     \* history: what can mislead the list although every event arrives
  changes, outages, mishaps

bounds == <<changes, outages, mishaps>>
listVars == <<view, window, mirror>>
homeVars == <<server, feed, channel, loads, newest, cycles, pending, listVars,
          owed, slips, bounds>>

-----------------------------------------------------------------------------
WindowType == [cut : -1 .. MaxMessages, revealed : BOOLEAN]
MessageType == [k : 0 .. MaxMessages, erased : BOOLEAN]
RowType == {"absent", "pending", "accepted"}

Unseen == -1

NoMessage == [k |-> 0, erased |-> FALSE]

Open == [cut |-> Unseen, revealed |-> FALSE]

NoWindows == [c \in Conversations |-> Open]

Absent == [row |-> "absent", msgs |-> <<>>, window |-> Open]

Unlisted == [row |-> "absent", last |-> NoMessage, unread |-> 0]

ConversationType == [row    : RowType \cup {"deleted"},
                     msgs   : Seq([peer : BOOLEAN, erased : BOOLEAN]),
                     window : WindowType]

(* Messages are posted to accepted connections only, and what a window      *)
(* hides there was there when it was set. A conversation is modelled through *)
(* one life: that a row which ended is asked for again, with the messages   *)
(* it had, is left out.                                                     *)
Possible(conv) ==
  /\ conv.row = "absent" => conv = Absent
  /\ conv.row = "pending" => conv.msgs = <<>>
  /\ conv.window.cut <= Len(conv.msgs)
  /\ Len(conv.msgs) <= MaxMessages

ASSUME StartsAssumption ==
  \A start \in Starts :
    /\ start \in [Conversations -> ConversationType]
    /\ \A c \in Conversations : Possible(start[c])

Live(c) == server[c].row \in {"pending", "accepted"}

(* What RLS shows of a row.                                                *)
RowOf(c) == IF Live(c) THEN server[c].row ELSE "absent"

LastOf(c) ==
  LET n == Len(server[c].msgs)
  IN  IF n = 0 \/ ~Live(c) THEN NoMessage
      ELSE [k |-> n, erased |-> server[c].msgs[n].erased]

(* connection_unread: the peer's messages that are not deleted.            *)
UnreadOf(c) ==
  Cardinality({k \in DOMAIN server[c].msgs :
                 server[c].msgs[k].peer /\ ~server[c].msgs[k].erased})

isHiddenByChatDeletion(time, cut) == cut # Unseen /\ time <= cut

isConversationVisible(row, last, w) ==
  \/ w.cut = Unseen \/ w.revealed
  \/ row = "pending"
  \/ last.k > 0 /\ ~isHiddenByChatDeletion(last.k, w.cut)

Trim(last, cut) == IF isHiddenByChatDeletion(last.k, cut) THEN NoMessage ELSE last

(* The entry of the list that a set of answers stands for.                 *)
Entry(row, last, w, unread) ==
  IF row # "absent" /\ isConversationVisible(row, last, w)
  THEN [row |-> row, last |-> Trim(last, w.cut), unread |-> unread]
  ELSE Unlisted

Truth(c) == Entry(RowOf(c), LastOf(c), server[c].window, UnreadOf(c))

mergeLastMessage(cur, msg) == IF msg.k >= cur.k THEN msg ELSE cur

(* Mutant: an event counts although the message is already the last.       *)
CountAgain(cur, msg) == msg.k >= cur.k

isNewLastMessage(cur, msg) == msg.k > cur.k

-----------------------------------------------------------------------------
IdleLoad == [pc |-> "idle", rows |-> <<>>, wins |-> <<>>, lasts |-> <<>>,
             counts |-> <<>>, lapse |-> {}]

StartedLoad == [IdleLoad EXCEPT !.pc = "rows"]

Loading == \E l \in Slots : loads[l].pc # "idle"

IdlePass == [pass |-> 0, rerun |-> FALSE, raced |-> FALSE, asked |-> {}, row |-> "absent",
         last |-> NoMessage, failed |-> FALSE, wins |-> NoWindows, win |-> Open, count |-> 0]

Pass(n) == [IdlePass EXCEPT !.pass = n]

Schedulers == 0 .. MaxOutages

Cycling(c) == \E g \in Schedulers : cycles[c][g].pass > 0

(* S is left to a load that starts later: nobody will tell Home about it,  *)
(* or Home gave it up. A load in flight may have read before.              *)
Lapsed(S, ls) ==
  [l \in Slots |-> IF ls[l].pc = "idle" THEN IdleLoad
                   ELSE [ls[l] EXCEPT !.lapse = @ \cup S]]

(* scheduler.request for each of S, on top of cycles cs.                   *)
Scheduled(S, cs) ==
  [c \in Conversations |->
     IF c \in S
     THEN [cs[c] EXCEPT ![outages] =
             IF @.pass = 0 THEN Pass(1) ELSE [@ EXCEPT !.rerun = TRUE]]
     ELSE cs[c]]

(* eventGate().bump: every pass in flight sees that the counter moved.     *)
Bumped(c) ==
  [cycles EXCEPT ![c] = [g \in Schedulers |->
     IF @[g].pass > 0 THEN [@[g] EXCEPT !.raced = TRUE] ELSE @[g]]]

-----------------------------------------------------------------------------
(* The server changes, and tells the channel.                              *)

Torn(p) == p.pass > 0 /\ ("last" \in p.asked) # ("count" \in p.asked)

(* Some load or pass has read one of last message and count, not both.     *)
HalfRead(c) ==
  \/ \E l \in Slots : loads[l].pc = "counts"
  \/ \E g \in Schedulers : Torn(cycles[c][g])

Change(c, new, event) ==
  /\ changes + mishaps < MaxChanges
  /\ changes' = changes + 1
  /\ server' = [server EXCEPT ![c] = new]
  /\ IF channel = "live"
     THEN feed' = Append(feed, event) /\ UNCHANGED <<loads, owed>>
     ELSE /\ owed' = owed \cup {c}
          /\ loads' = Lapsed({c}, loads)
          /\ UNCHANGED feed
  /\ slips' = slips \cup IF event.kind = "update" \/ HalfRead(c)
                          THEN {<<"miscounted", c>>} ELSE {}
  /\ UNCHANGED <<channel, newest, cycles, pending, listVars, outages, mishaps>>

RowEvent(c, row) == [kind |-> "row", c |-> c, row |-> row]

Request(c) ==
  /\ server[c].row = "absent"
  /\ Change(c, [server[c] EXCEPT !.row = "pending"], RowEvent(c, "pending"))

Accept(c) ==
  /\ server[c].row = "pending"
  /\ Change(c, [server[c] EXCEPT !.row = "accepted"], RowEvent(c, "accepted"))

Delete(c) ==
  /\ Live(c)
  /\ Change(c, [server[c] EXCEPT !.row = "deleted"], [kind |-> "gone", c |-> c])

Post(c, peer) ==
  /\ server[c].row = "accepted"
  /\ Len(server[c].msgs) < MaxMessages
  /\ Change(c, [server[c] EXCEPT !.msgs = Append(@, [peer |-> peer, erased |-> FALSE])],
            [kind |-> "insert", c |-> c, peer |-> peer,
             msg |-> [k |-> Len(server[c].msgs) + 1, erased |-> FALSE]])

(* deleteMessageForEveryone of the newest message.                         *)
Erase(c) ==
  LET n == Len(server[c].msgs)
  IN  /\ Live(c) /\ n > 0
      /\ ~server[c].msgs[n].erased
      /\ Change(c, [server[c] EXCEPT !.msgs[n].erased = TRUE],
                [kind |-> "update", c |-> c, msg |-> [k |-> n, erased |-> TRUE]])

SetWindow(c, w) ==
  /\ Live(c) /\ w # server[c].window
  /\ Change(c, [server[c] EXCEPT !.window = w], [kind |-> "window", c |-> c])

deleteChatForMe(c) ==
  SetWindow(c, [cut |-> Len(server[c].msgs), revealed |-> FALSE])

revealChatForMe(c) ==
  server[c].window.cut # Unseen /\ SetWindow(c, [server[c].window EXCEPT !.revealed = TRUE])

restoreChatForMe(c) == SetWindow(c, Open)

-----------------------------------------------------------------------------
(* The realtime bridge.                                                    *)

(* Mutant: nothing is queued for the drain.                                *)
NoteNothing(c) == UNCHANGED pending

noteEvent(c) == pending' = IF Loading THEN pending \cup {c} ELSE pending

applyConnectionRow(c, row) ==
  view' = [view EXCEPT ![c] =
    IF isConversationVisible(row, mirror[c].last, window[c])
    THEN [view[c] EXCEPT !.row = row, !.last = Trim(view[c].last, window[c].cut)]
    ELSE Unlisted]

applyConnectionGone(c) == view' = [view EXCEPT ![c] = Unlisted]

onMessage(c, msg, countUnread) ==
  view' = [view EXCEPT
    ![c].last = mergeLastMessage(@, msg),
    ![c].unread = IF countUnread /\ isNewLastMessage(mirror[c].last, msg)
                  THEN @ + 1 ELSE @]

(* An update or a delete of a row the list does not show is dropped before *)
(* it is noted.                                                            *)
Ignored(e) == e.kind \in {"gone", "update"} /\ ~mirror[e.c].shown

Noted(e) ==
  /\ noteEvent(e.c)
  /\ IF Loading
     THEN cycles' = Bumped(e.c) /\ UNCHANGED view
     ELSE CASE e.kind = "row"    -> applyConnectionRow(e.c, e.row) /\ cycles' = Bumped(e.c)
            [] e.kind = "gone"   -> applyConnectionGone(e.c) /\ cycles' = Bumped(e.c)
            [] e.kind = "update" -> onMessage(e.c, e.msg, FALSE) /\ cycles' = Bumped(e.c)
            [] e.kind = "insert" /\ mirror[e.c].shown ->
                 onMessage(e.c, e.msg, e.peer) /\ cycles' = Bumped(e.c)
            [] OTHER -> cycles' = Scheduled({e.c}, Bumped(e.c)) /\ UNCHANGED view

(* How an event can mislead: it is dropped while something that read the   *)
(* server before it is to be written; a message goes to a row that is not  *)
(* there, or an update to a preview that is not; the mirror has yet to see *)
(* a message that was counted.                                             *)
Misled(e) ==
  LET shown == view[e.c]
  IN  {why \in {"dropped", "unmatched", "miscounted"} :
         CASE why = "dropped"    -> Ignored(e) /\ (Loading \/ Cycling(e.c) \/ shown.row # "absent")
           [] why = "unmatched"  -> /\ ~Ignored(e) /\ mirror[e.c].shown
                                    /\ \/ e.kind \in {"insert", "update"} /\ shown.row = "absent"
                                       \/ e.kind = "update" /\ shown.last = NoMessage
           [] why = "miscounted" -> /\ e.kind = "insert"
                                    /\ isNewLastMessage(shown.last, e.msg)
                                         # isNewLastMessage(mirror[e.c].last, e.msg)}

Deliver ==
  /\ channel = "live" /\ feed # <<>>
  /\ feed' = Tail(feed)
  /\ LET e == Head(feed)
     IN  /\ slips' = slips \cup (Misled(e) \X {e.c})
         /\ IF Ignored(e) THEN UNCHANGED <<pending, cycles, view>> ELSE Noted(e)
  /\ UNCHANGED <<server, channel, loads, newest, window, mirror, owed, bounds>>

(* The effect that mirrors the state after a render.                       *)
Seen == [c \in Conversations |->
           [shown |-> view[c].row # "absent", last |-> view[c].last]]

Render ==
  /\ mirror # Seen
  /\ mirror' = Seen
  /\ UNCHANGED <<server, feed, channel, loads, newest, cycles, pending, view,
                 window, owed, slips, bounds>>

-----------------------------------------------------------------------------
(* Loads.                                                                  *)

isCurrent(l) == newest = l

Free(l) == loads[l].pc = "idle" /\ l = CHOOSE o \in Slots : loads[o].pc = "idle"

Mishap ==
  /\ mishaps < MaxMishaps /\ changes + mishaps < MaxChanges
  /\ mishaps' = mishaps + 1

(* load(), called on the way out of Settings or after an action.           *)
StartLoad(l) ==
  /\ Mishap
  /\ channel # "off"
  /\ Free(l)
  /\ loads' = [loads EXCEPT ![l] = StartedLoad]
  /\ newest' = l
  /\ UNCHANGED <<server, feed, channel, cycles, pending, listVars, owed,
                 slips, changes, outages>>

(* finish: the last load in flight opens the gate and drains what was      *)
(* noted; too many conversations are one more load. Without a channel the  *)
(* scheduler is gone and the requests with it.                             *)
Finish(l, left) ==
  LET another == \E o \in Slots \ {l} : loads[o].pc # "idle"
      reload  == Cardinality(pending) > DrainCap
  IN  /\ loads' = [loads EXCEPT ![l] =
                     IF ~another /\ reload THEN StartedLoad ELSE IdleLoad]
      /\ newest' = IF ~another /\ reload THEN l ELSE newest
      /\ pending' = IF another THEN pending ELSE {}
      /\ IF another
         THEN owed' = left /\ UNCHANGED cycles
         ELSE IF reload \/ channel = "off"
              THEN owed' = left \cup pending /\ UNCHANGED cycles
              ELSE owed' = left /\ cycles' = Scheduled(pending, cycles)

LoadFrame == UNCHANGED <<server, feed, channel, mirror, changes, outages>>

Reading(l, new) ==
  /\ loads' = [loads EXCEPT ![l] = new]
  /\ UNCHANGED <<newest, cycles, pending, view, owed, mishaps>>
  /\ LoadFrame /\ UNCHANGED slips

LoadRows(l) ==
  /\ loads[l].pc = "rows"
  /\ Reading(l, [loads[l] EXCEPT !.pc = "windows",
                                 !.rows = [c \in Conversations |-> RowOf(c)]])
  /\ UNCHANGED window

ServerWindows == [c \in Conversations |-> server[c].window]

(* The query of the deletion windows, of all conversations at once.        *)
LoadWindows(l) ==
  /\ loads[l].pc = "windows"
  /\ Reading(l, [loads[l] EXCEPT !.pc = "storing", !.wins = ServerWindows])
  /\ UNCHANGED window

(* Conversations whose window was right, which an older answer replaces,   *)
(* and of which no event will tell Home again.                             *)
Outrun(wins) ==
  {c \in Conversations : /\ window[c] = server[c].window /\ wins[c] # window[c]
                         /\ ~\E e \in ToSet(feed) : e.kind = "window" /\ e.c = c}

(* deletionsRef takes each answer as it comes, with no check that it is    *)
(* still the newest.                                                       *)
Store(wins, ls) ==
  /\ window' = wins
  /\ owed' = owed \cup Outrun(wins)
  /\ loads' = Lapsed(Outrun(wins), ls)

StoreWindows(l) ==
  /\ loads[l].pc = "storing"
  /\ Store(loads[l].wins, [loads EXCEPT ![l].pc = "lasts"])
  /\ UNCHANGED <<newest, cycles, pending, view, mishaps>>
  /\ LoadFrame /\ UNCHANGED slips

(* getLastMessages asks for the rows that were read.                       *)
LoadLasts(l) ==
  /\ loads[l].pc = "lasts"
  /\ Reading(l, [loads[l] EXCEPT !.pc = "counts",
       !.lasts = [c \in Conversations |->
                    IF loads[l].rows[c] = "absent" THEN NoMessage ELSE LastOf(c)]])
  /\ UNCHANGED window

LoadCounts(l) ==
  /\ loads[l].pc = "counts" /\ isCurrent(l)
  /\ Reading(l, [loads[l] EXCEPT !.pc = "commit",
                                 !.counts = [c \in Conversations |-> UnreadOf(c)]])
  /\ UNCHANGED window

Commit(l) ==
  LET r == loads[l]
  IN  /\ r.pc = "commit" /\ isCurrent(l)
      /\ view' = [c \in Conversations |-> Entry(r.rows[c], r.lasts[c], r.wins[c], r.counts[c])]
      /\ Finish(l, {c \in owed : c \in r.lapse \/ Cycling(c)})
      /\ UNCHANGED <<window, mishaps>>
      /\ slips' = slips \cup ({"miscounted"} \X {c \in Conversations : Cycling(c)})
      /\ LoadFrame

(* A load that is no longer the newest notices at its next check, which    *)
(* none is between the windows and the last messages.                      *)
LoadDiscarded(l) ==
  /\ loads[l].pc \in {"windows", "counts", "commit"} /\ ~isCurrent(l)
  /\ Finish(l, owed)
  /\ UNCHANGED <<view, window, mishaps>>
  /\ LoadFrame /\ UNCHANGED slips

LoadFails(l) ==
  /\ loads[l].pc \in {"rows", "lasts"}
  /\ Mishap
  /\ Finish(l, owed)
  /\ UNCHANGED <<view, window>>
  /\ LoadFrame /\ UNCHANGED slips

(* loadDeletions takes an answer that is an error for no windows.          *)
LoadNoWindows(l) ==
  /\ loads[l].pc = "windows"
  /\ Mishap
  /\ window' = NoWindows
  /\ loads' = Lapsed(Conversations,
                 [loads EXCEPT ![l] = [@ EXCEPT !.pc = "lasts", !.wins = window']])
  /\ owed' = Conversations
  /\ UNCHANGED <<newest, cycles, pending, view>>
  /\ LoadFrame /\ UNCHANGED slips

(* A count that fails, and its fallback too, is none unread.               *)
LoadNoCounts(l) ==
  /\ loads[l].pc = "counts" /\ isCurrent(l)
  /\ Mishap
  /\ loads' = Lapsed(Conversations,
                 [loads EXCEPT ![l] = [@ EXCEPT !.pc = "commit",
                                         !.counts = [c \in Conversations |-> 0]]])
  /\ owed' = Conversations
  /\ UNCHANGED <<newest, cycles, pending, view, window>>
  /\ LoadFrame /\ UNCHANGED slips

-----------------------------------------------------------------------------
(* One pass of runReconcile: the row, then three requests in any order.    *)

CycleFrame == UNCHANGED <<server, feed, channel, newest, pending, mirror,
                          changes, outages>>

Learn(c, g, new) ==
  /\ cycles' = [cycles EXCEPT ![c][g] = new]
  /\ UNCHANGED <<loads, view, owed, mishaps>>
  /\ CycleFrame /\ UNCHANGED slips

(* asked holds the requests that were answered.                            *)
Pending(p, request) ==
  /\ p.pass > 0
  /\ request \notin p.asked
  /\ request # "row" => "row" \in p.asked /\ p.row # "absent"

Answer(p, request) == [p EXCEPT !.asked = @ \cup {request}]

fetchConnection(c, g) ==
  LET p == cycles[c][g]
  IN  /\ Pending(p, "row")
      /\ Learn(c, g, [Answer(p, "row") EXCEPT !.row = RowOf(c)])
      /\ UNCHANGED window

fetchLastMessage(c, g) ==
  LET p == cycles[c][g]
  IN  /\ Pending(p, "last")
      /\ Learn(c, g, [Answer(p, "last") EXCEPT !.last = LastOf(c)])
      /\ UNCHANGED window

(* The windows of all conversations; what was read is on its way.          *)
fetchChatDeletion(c, g) ==
  LET p == cycles[c][g]
  IN  /\ Pending(p, "window") /\ Pending(p, "deletions")
      /\ Learn(c, g, [Answer(p, "deletions") EXCEPT !.wins = ServerWindows])
      /\ UNCHANGED window

storeChatDeletion(c, g) ==
  LET p == cycles[c][g]
  IN  /\ Pending(p, "window") /\ "deletions" \in p.asked
      /\ Store(p.wins, loads)
      /\ cycles' = [cycles EXCEPT ![c][g] =
                      [Answer(p, "window") EXCEPT !.win = p.wins[c], !.wins = NoWindows]]
      /\ UNCHANGED <<view, mishaps>>
      /\ CycleFrame /\ UNCHANGED slips

fetchUnread(c, g) ==
  LET p == cycles[c][g]
  IN  /\ Pending(p, "count")
      /\ Learn(c, g, [Answer(p, "count") EXCEPT !.count = UnreadOf(c)])
      /\ UNCHANGED window

(* A request of a pass fails: no row reads as a row that is gone, no       *)
(* deletions as no windows, no count as none unread.                       *)
FetchFails(c, g) ==
  LET p == cycles[c][g]
      blinded(request) == IF request = "window" THEN Conversations ELSE {c}
  IN  /\ Mishap
      /\ \/ /\ Pending(p, "last")
            /\ cycles' = [cycles EXCEPT ![c][g] = [Answer(p, "last") EXCEPT !.failed = TRUE]]
            /\ UNCHANGED <<owed, loads, window>>
         \/ \E request \in {"row", "window", "count"} :
              /\ Pending(p, request)
              /\ request = "window" => Pending(p, "deletions")
              /\ cycles' = [cycles EXCEPT ![c][g] = Answer(p, request)]
              /\ window' = IF request = "window" THEN NoWindows ELSE window
              /\ owed' = owed \cup blinded(request)
              /\ loads' = Lapsed(blinded(request), loads)
      /\ UNCHANGED view
      /\ CycleFrame /\ UNCHANGED slips

Complete(p) ==
  /\ p.pass > 0 /\ "row" \in p.asked
  /\ p.row # "absent" => {"last", "window", "count"} \subseteq p.asked

(* Mutant: the last pass is one too late.                                  *)
OnePassMore(p) == p.pass > MaxPasses

Final(p) == p.pass >= MaxPasses

Transient(p) == p.row # "absent" /\ p.failed

(* What run returns: the pass is to be repeated.                           *)
Refetch(p) == ~Final(p) /\ (p.raced \/ Transient(p))

(* The scheduler's loop: another pass, another cycle, or done.             *)
NextPass(p) ==
  CASE ~Refetch(p) /\ ~p.rerun -> IdlePass
    [] (Refetch(p) \/ p.rerun) /\ ~Final(p) -> Pass(p.pass + 1)
    [] Final(p) /\ p.rerun -> Pass(1)
    [] OTHER -> IdlePass

Applied(p, cur) ==
  IF isConversationVisible(p.row, p.last, p.win)
  THEN [row    |-> p.row,
        last   |-> LET cut == p.win.cut
                   IN  Trim(IF Trim(p.last, cut) = NoMessage THEN cur.last
                            ELSE mergeLastMessage(cur.last, p.last), cut),
        unread |-> p.count]
  ELSE Unlisted

(* A scheduler from before an outage is still at this conversation.        *)
Twin(c, g) == \E h \in Schedulers \ {g} : cycles[c][h].pass > 0

(* The pass ends. The last one applies what it read although it was raced, *)
(* and gives up when it failed.                                            *)
Apply(c, g) ==
  LET p == cycles[c][g]
      lost == Final(p) /\ ~p.rerun /\ (p.raced \/ Transient(p))
  IN  /\ Complete(p)
      /\ view' = [view EXCEPT ![c] =
           CASE Refetch(p) \/ Transient(p) -> @
             [] ~Refetch(p) /\ p.row = "absent" -> IF p.raced THEN @ ELSE Unlisted
             [] OTHER -> Applied(p, @)]
      /\ cycles' = [cycles EXCEPT ![c][g] = NextPass(p)]
      /\ owed' = IF lost THEN owed \cup {c} ELSE owed
      /\ loads' = IF lost THEN Lapsed({c}, loads) ELSE loads
      /\ UNCHANGED <<window, mishaps>>
      /\ slips' = slips \cup IF Loading \/ Twin(c, g) THEN {<<"miscounted", c>>} ELSE {}
      /\ CycleFrame

-----------------------------------------------------------------------------
(* The network goes: the channel is removed with what it had to deliver,   *)
(* and its scheduler is forgotten, not stopped.                            *)
GoOffline ==
  LET lost == {e.c : e \in ToSet(feed)}
  IN  /\ outages < MaxOutages /\ Mishap
      /\ channel # "off"
      /\ channel' = "off"
      /\ feed' = <<>>
      /\ owed' = owed \cup lost
      /\ loads' = Lapsed(lost, loads)
      /\ UNCHANGED <<server, newest, cycles, pending, listVars, slips,
                     changes, outages>>

GoOnline(l) ==
  /\ channel = "off"
  /\ Free(l)
  /\ channel' = "joining"
  /\ outages' = outages + 1
  /\ loads' = [loads EXCEPT ![l] = StartedLoad]
  /\ newest' = l
  /\ UNCHANGED <<server, feed, cycles, pending, listVars, owed, slips,
                 changes, mishaps>>

Join ==
  /\ channel = "joining"
  /\ channel' = "live"
  /\ UNCHANGED <<server, feed, loads, newest, cycles, pending, listVars, owed,
                 slips, bounds>>

-----------------------------------------------------------------------------
(* Home mounts: the first load starts while the channel is being joined.   *)
HomeInit ==
  /\ server \in Starts
  /\ feed = <<>>
  /\ channel = "joining"
  /\ newest = CHOOSE l \in Slots : TRUE
  /\ loads = [l \in Slots |-> IF l = newest THEN StartedLoad ELSE IdleLoad]
  /\ cycles = [c \in Conversations |-> [g \in Schedulers |-> IdlePass]]
  /\ pending = {}
  /\ view = [c \in Conversations |-> Unlisted]
  /\ window = NoWindows
  /\ mirror = [c \in Conversations |-> [shown |-> FALSE, last |-> NoMessage]]
  /\ owed = Conversations
  /\ slips = {}
  /\ changes = 0 /\ outages = 0 /\ mishaps = 0

ServerStep ==
  \E c \in Conversations :
    \/ Request(c) \/ Accept(c) \/ Delete(c) \/ Erase(c)
    \/ \E peer \in BOOLEAN : Post(c, peer)
    \/ deleteChatForMe(c) \/ revealChatForMe(c) \/ restoreChatForMe(c)

LoadStep(l) ==
  \/ LoadRows(l) \/ LoadWindows(l) \/ StoreWindows(l) \/ LoadLasts(l)
  \/ LoadCounts(l) \/ Commit(l) \/ LoadDiscarded(l)

CycleStep(c, g) ==
  \/ fetchConnection(c, g) \/ fetchLastMessage(c, g) \/ fetchChatDeletion(c, g)
  \/ storeChatDeletion(c, g) \/ fetchUnread(c, g) \/ Apply(c, g)

(* What the running program does with no help from anybody.                *)
SystemStep ==
  \/ Deliver \/ Render \/ Join
  \/ \E l \in Slots : LoadStep(l)
  \/ \E c \in Conversations, g \in Schedulers : CycleStep(c, g)

HomeNext ==
  \/ SystemStep
  \/ ServerStep
  \/ GoOffline
  \/ \E l \in Slots : \/ StartLoad(l) \/ GoOnline(l) \/ LoadFails(l)
                       \/ LoadNoWindows(l) \/ LoadNoCounts(l)
  \/ \E c \in Conversations, g \in Schedulers : FetchFails(c, g)

HomeSpec == HomeInit /\ [][HomeNext]_homeVars

-----------------------------------------------------------------------------
(* Properties.                                                             *)

(* Every variable has its type.                                            *)
HomeTypeOK ==
  /\ \A c \in Conversations :
       /\ server[c] \in ConversationType /\ Len(server[c].msgs) <= MaxMessages
       /\ view[c] \in [row : RowType, last : MessageType, unread : Nat]
       /\ window[c] \in WindowType
       /\ mirror[c] \in [shown : BOOLEAN, last : MessageType]
       /\ \A g \in Schedulers : cycles[c][g].pass \in 0 .. MaxPasses
  /\ channel \in {"off", "joining", "live"}
  /\ {owed, pending} \subseteq SUBSET Conversations
  /\ newest \in Slots

Settled ==
  /\ channel = "live" /\ feed = <<>>
  /\ ~Loading /\ mirror = Seen
  /\ \A c \in Conversations : ~Cycling(c)

Slips(c) == {why \in {"dropped", "unmatched", "miscounted"} : <<why, c>> \in slips}

Agrees(c) ==
  /\ view[c].row = Truth(c).row
  /\ view[c].row # "absent" => view[c].last = Truth(c).last

(* When nothing is under way the list shows each conversation as the       *)
(* server has it, however events, loads and reconciliations overlapped,    *)
(* but for those Home has left to its next load.                           *)
SettledIsTrue ==
  Settled => \A c \in Conversations \ owed :
               Slips(c) \subseteq {"miscounted"} => Agrees(c)

(* The badge counts each new message of the peer once, whether a load, a   *)
(* reconciliation or the event brings it, unless it came between the two   *)
(* requests that read the newest message and the count.                    *)
UnreadIsExact ==
  Settled => \A c \in Conversations \ owed :
               Slips(c) = {} /\ view[c].row # "absent" => view[c].unread = UnreadOf(c)

=============================================================================
