------------------------------- MODULE Outbox -------------------------------
(***************************************************************************)
(* Sending in one conversation: the direct sends of handleSend, and the    *)
(* offline queue, with its sealed record (src/lib/outbox.ts), the drain    *)
(* effect of one tab (src/hooks/useOutbox.ts) and the connectivity signal  *)
(* that starts it (src/lib/connectivity.ts).                               *)
(*                                                                         *)
(* Every change of the record loads the whole list, and stores the whole   *)
(* list after an await. A drain holds a copy of the list; a new run of the *)
(* effect cancels it, but it only notices between two sends, and goes on   *)
(* with what it awaits. Slots are the drains in flight.                    *)
(***************************************************************************)
EXTENDS Naturals, Sequences, FiniteSets, SequencesExt

CONSTANTS
  Messages,       \* messages the user types, numbered as they are typed
  Slots,          \* bound: drains in flight at once
  MaxMishaps      \* bound: outages, sends or cache writes that fail, requests of
                  \* the rest of the app, effect runs it causes, tabs that die,
                  \* and reads or writes of the record that fail, together

ASSUME OutboxBoundsAssumption ==
  /\ Messages \subseteq Nat /\ IsFiniteSet(Slots)
  /\ MaxMishaps \in Nat

VARIABLES
  record,    \* the stored queue
  posted,    \* rows inserted on the server, in order
  drafts,    \* handleSend of each message, with the list its enqueue loaded
  drains,    \* the drains, each with its copy of the queue
  browser,   \* navigator.onLine
  failed,    \* requestFailed: a request failed while the browser said online
  shown,     \* the status the effect last ran with
  accepted,  \* history: messages whose enqueue has returned, in order
  direct,    \* history: messages whose row a direct send has inserted
  stopped,   \* history: "paused" from the error that stops a drain to the next
             \* online event or successful request, then "resumed"
  raced,     \* history: a list was stored over one it was not computed from
  late,      \* history: a message was stored with the chat open and not offline
  doubtful,  \* history: sends that were interrupted after they may have arrived
  unreadable, \* history: a read or a write of the record failed
  mishaps

queueVars == <<record, raced, unreadable>>
networkVars == <<browser, failed, shown>>
historyVars == <<accepted, direct, stopped, late, doubtful>>

vars == <<queueVars, posted, drafts, drains, networkVars, historyVars, mishaps>>

-----------------------------------------------------------------------------
Status ==
  CASE ~browser            -> "offline"
    [] browser /\ failed   -> "unreachable"
    [] browser /\ ~failed  -> "online"

Idle == [pc |-> "idle", todo |-> <<>>, copy |-> <<>>, live |-> FALSE]

Draft == [pc |-> "draft", copy |-> <<>>]

Busy == {s \in Slots : drains[s].pc # "idle"}

Resumed == IF stopped = "paused" THEN "resumed" ELSE stopped

\* Drains between the start of a send and the removal of its entry.
Sending == {s \in Slots : drains[s].pc \in {"posting", "answered", "removing"}}

Mishap == mishaps < MaxMishaps /\ mishaps' = mishaps + 1

\* loadOutbox: an unreadable record is an empty queue.
Reads(list) ==
  /\ list \in {record, <<>>}
  /\ \/ list = record /\ UNCHANGED <<mishaps, unreadable>>
     \/ list # record /\ Mishap /\ unreadable' = TRUE

\* persistOutbox of a list computed from copy; a failed write is swallowed.
Stores(list, copy) ==
  \/ /\ record' = list
     /\ raced' = (raced \/ record # copy)
     /\ UNCHANGED <<mishaps, unreadable>>
  \/ /\ Mishap
     /\ unreadable' = TRUE
     /\ UNCHANGED <<record, raced>>

-----------------------------------------------------------------------------
\* The message in the composer.
Composed(m) ==
  drafts[m].pc = "draft" /\ \A k \in Messages : k < m => drafts[k].pc # "draft"

\* handleSend enqueues while the rendered status is offline or unreachable.
EnqueueLoad(m) ==
  /\ Composed(m)
  /\ shown \in {"offline", "unreachable"}
  /\ \E list \in {record, <<>>} :
       /\ Reads(list)
       /\ drafts' = [drafts EXCEPT ![m] = [pc |-> "loaded", copy |-> list]]
  /\ UNCHANGED <<record, raced, posted, drains, networkVars, historyVars>>

EnqueueStore(m) ==
  /\ drafts[m].pc = "loaded"
  /\ Stores(Append(drafts[m].copy, m), drafts[m].copy)
  /\ accepted' = Append(accepted, m)
  /\ drafts' = [drafts EXCEPT ![m] = [pc |-> "queued", copy |-> <<>>]]
  /\ late' = (late \/ shown \in {"online", "unreachable"})
  /\ UNCHANGED <<posted, drains, networkVars, direct, stopped, doubtful>>

\* While it is online handleSend prepares and inserts by itself, whatever is queued.
DirectPrepare(m) ==
  /\ Composed(m)
  /\ shown = "online"
  /\ drafts' = [drafts EXCEPT ![m].pc = "sending"]
  /\ UNCHANGED <<queueVars, posted, drains, networkVars, historyVars, mishaps>>

(***************************************************************************)
(* The outcome. A failure leaves the text in the composer although the row *)
(* may be on the server, since the answer was lost or the cache write that *)
(* follows has thrown. A chat that was left in time inserts nothing, one   *)
(* left later does not see the answer.                                     *)
(***************************************************************************)
DirectPost(m) ==
  LET back == IF drafts[m].pc = "sending" THEN "draft" ELSE "gone"
      Inserted == posted' = Append(posted, m) /\ direct' = direct \cup {m}
      Becomes(label) == drafts' = [drafts EXCEPT ![m].pc = label]
  IN  /\ drafts[m].pc \in {"sending", "left"}
      /\ \/ /\ Inserted /\ Becomes("sent") /\ stopped' = Resumed
            /\ UNCHANGED <<failed, mishaps, doubtful>>
         \/ /\ drafts[m].pc = "left" /\ Becomes("gone")
            /\ UNCHANGED <<posted, direct, stopped, failed, mishaps, doubtful>>
         \/ /\ Mishap /\ Becomes(back)
            /\ failed' \in {failed, TRUE}
            /\ \/ Inserted /\ doubtful' = doubtful + 1
               \/ UNCHANGED <<posted, direct, doubtful>>
            /\ UNCHANGED stopped
      /\ UNCHANGED <<queueVars, drains, browser, shown, accepted, late>>

-----------------------------------------------------------------------------
Cancelled == [s \in Slots |-> [drains[s] EXCEPT !.live = FALSE]]

\* Mutant: no new drain while an earlier one is busy.
EffectOnce ==
  /\ shown # Status
  /\ shown' = Status
  /\ IF Status = "offline" \/ Busy # {}
     THEN drains' = Cancelled
     ELSE \E s \in Slots :
            drains' = [Cancelled EXCEPT ![s] = [Idle EXCEPT !.pc = "loading", !.live = TRUE]]
  /\ doubtful' = doubtful + Cardinality({s \in Sending : drains[s].live})
  /\ UNCHANGED <<queueVars, posted, drafts, browser, failed, accepted, direct, stopped,
                 late, mishaps>>

(***************************************************************************)
(* The drain effect. Connectivity, the connection row, the manager and the *)
(* engine status are its dependencies: a change of any cancels the drain   *)
(* under way and starts another, unless the browser is offline.            *)
(***************************************************************************)
Effect ==
  /\ \/ shown # Status /\ UNCHANGED mishaps
     \/ shown = Status /\ Mishap
  /\ shown' = Status
  /\ IF Status = "offline"
     THEN drains' = Cancelled
     ELSE /\ Busy # Slots
          /\ LET s == CHOOSE s \in Slots \ Busy : TRUE IN
               drains' = [Cancelled EXCEPT ![s] = [Idle EXCEPT !.pc = "loading", !.live = TRUE]]
  /\ doubtful' = doubtful + Cardinality({s \in Sending : drains[s].live})
  /\ UNCHANGED <<queueVars, posted, drafts, browser, failed, accepted, direct, stopped,
                 late>>

\* The chat is left: the cleanup of the effect runs, the drain goes on.
Leave ==
  /\ shown # "closed"
  /\ Mishap
  /\ shown' = "closed"
  /\ drains' = Cancelled
  /\ doubtful' = doubtful + Cardinality({s \in Sending : drains[s].live})
  /\ drafts' = [m \in Messages |->
       IF drafts[m].pc = "sending" THEN [drafts[m] EXCEPT !.pc = "left"] ELSE drafts[m]]
  /\ UNCHANGED <<queueVars, posted, browser, failed, accepted, direct, stopped, late>>

Move(s, label) == drains' = [drains EXCEPT ![s].pc = label]

\* The end of a drain, however it came about, reports a network success.
Finish(s) ==
  /\ drains' = [drains EXCEPT ![s] = Idle]
  /\ failed' = FALSE

\* An empty queue ends the drain before it reports anything.
DrainLoad(s) ==
  /\ drains[s].pc = "loading"
  /\ \E list \in {record, <<>>} :
       /\ Reads(list)
       /\ drains' = [drains EXCEPT ![s] =
            IF list = <<>> THEN Idle ELSE [@ EXCEPT !.pc = "next", !.todo = list]]
  /\ UNCHANGED <<record, raced, posted, drafts, networkVars, historyVars>>

\* Mutant: the loop does not end with the list.
DrainNextPastEnd(s) ==
  /\ drains[s].pc = "next"
  /\ IF drains[s].live THEN Move(s, "posting") /\ UNCHANGED failed ELSE Finish(s)
  /\ UNCHANGED <<queueVars, posted, drafts, browser, shown, historyVars, mishaps>>

\* The head of the loop: the one place before a send that asks for cancelled.
DrainNext(s) ==
  /\ drains[s].pc = "next"
  /\ IF drains[s].live /\ drains[s].todo # <<>>
     THEN Move(s, "posting") /\ UNCHANGED failed
     ELSE Finish(s)
  /\ UNCHANGED <<queueVars, posted, drafts, browser, shown, historyVars, mishaps>>

\* Mutant: the entry is taken off the queue before it is sent.
DrainPostRemoves(s) ==
  /\ drains[s].pc = "posting"
  /\ record' = SelectSeq(record, LAMBDA m : m # Head(drains[s].todo))
  /\ \/ /\ posted' = Append(posted, Head(drains[s].todo))
        /\ UNCHANGED mishaps
        /\ Move(s, "answered")
     \/ /\ Mishap
        /\ Move(s, "failed")
        /\ UNCHANGED posted
  /\ UNCHANGED <<unreadable, raced, drafts, networkVars, historyVars>>

(***************************************************************************)
(* prepareSend and sendMessage. The row may be inserted and the answer     *)
(* lost; the insert may fail, for want of a network or by refusal; and the *)
(* encryption may throw.                                                   *)
(***************************************************************************)
DrainPost(s) ==
  /\ drains[s].pc = "posting"
  /\ \/ /\ posted' = Append(posted, Head(drains[s].todo))
        /\ Move(s, "answered")
        /\ stopped' = Resumed
        /\ UNCHANGED <<failed, mishaps, doubtful>>
     \/ /\ Mishap
        /\ Move(s, "failed")
        /\ UNCHANGED stopped
        /\ \/ /\ posted' = Append(posted, Head(drains[s].todo))
              /\ failed' = TRUE
              /\ doubtful' = doubtful + 1
           \/ /\ failed' \in {failed, TRUE}
              /\ UNCHANGED <<posted, doubtful>>
  /\ UNCHANGED <<queueVars, drafts, browser, shown, accepted, direct, late>>

\* A drain cancelled meanwhile leaves the entry where it is. Otherwise the
\* plaintext is cached, which may throw, and the record is loaded.
DrainAnswered(s) ==
  /\ drains[s].pc = "answered"
  /\ IF ~drains[s].live
     THEN Finish(s) /\ UNCHANGED <<mishaps, unreadable, doubtful>>
     ELSE \/ /\ \E list \in {record, <<>>} :
                  /\ Reads(list)
                  /\ drains' = [drains EXCEPT ![s].pc = "removing", ![s].copy = list]
             /\ UNCHANGED <<failed, doubtful>>
          \/ /\ Mishap
             /\ doubtful' = doubtful + 1
             /\ Move(s, "failed")
             /\ UNCHANGED <<unreadable, failed>>
  /\ UNCHANGED <<record, raced, posted, drafts, browser, shown, accepted, direct,
                 stopped, late>>

\* Mutant: only the copy in memory moves on.
DrainRemoveForgets(s) ==
  /\ drains[s].pc = "removing"
  /\ drains' = [drains EXCEPT ![s].pc = "next", ![s].todo = Tail(@), ![s].copy = <<>>]
  /\ UNCHANGED <<queueVars, posted, drafts, networkVars, historyVars, mishaps>>

\* removeFromOutbox stores the list without the entry; ids are unique.
DrainRemove(s) ==
  /\ drains[s].pc = "removing"
  /\ LET d == drains[s] IN
       Stores(RemoveFirst(d.copy, Head(d.todo)), d.copy)
  /\ drains' = [drains EXCEPT ![s].pc = "next", ![s].todo = Tail(@), ![s].copy = <<>>]
  /\ UNCHANGED <<posted, drafts, networkVars, historyVars>>

\* Mutant: an error skips the entry instead of stopping the drain.
DrainFailedSkips(s) ==
  /\ drains[s].pc = "failed"
  /\ drains' = [drains EXCEPT ![s].pc = "next", ![s].todo = Tail(@)]
  /\ UNCHANGED <<queueVars, posted, drafts, networkVars, historyVars, mishaps>>

\* An error: a cancelled drain just ends, the others load the record to note it.
DrainFailed(s) ==
  /\ drains[s].pc = "failed"
  /\ IF ~drains[s].live
     THEN Finish(s) /\ UNCHANGED <<mishaps, unreadable>>
     ELSE /\ \E list \in {record, <<>>} :
               /\ Reads(list)
               /\ drains' = [drains EXCEPT ![s].pc = "noting", ![s].copy = list]
          /\ UNCHANGED failed
  /\ UNCHANGED <<record, raced, posted, drafts, browser, shown, historyVars>>

\* updateOutboxError stores the list it loaded, and the drain stops.
DrainNote(s) ==
  /\ drains[s].pc = "noting"
  /\ LET d == drains[s] IN
       IF Contains(d.copy, Head(d.todo)) THEN Stores(d.copy, d.copy) ELSE UNCHANGED <<queueVars, mishaps>>
  /\ Finish(s)
  /\ stopped' = "paused"
  /\ UNCHANGED <<posted, drafts, browser, shown, accepted, direct, late, doubtful>>

-----------------------------------------------------------------------------
GoOffline ==
  /\ browser
  /\ Mishap
  /\ browser' = FALSE
  /\ UNCHANGED <<queueVars, posted, drafts, drains, failed, shown, historyVars>>

\* handleBrowserOnline
GoOnline ==
  /\ ~browser
  /\ browser' = TRUE
  /\ failed' = FALSE
  /\ stopped' = Resumed
  /\ UNCHANGED <<queueVars, posted, drafts, drains, shown, accepted, direct, late, doubtful,
                 mishaps>>

\* reportNetworkFailure or reportNetworkSuccess after another request of the app.
OtherRequest ==
  /\ browser
  /\ Mishap
  /\ failed' = ~failed
  /\ stopped' = IF failed THEN Resumed ELSE stopped
  /\ UNCHANGED <<queueVars, posted, drafts, drains, browser, shown, accepted, direct, late,
                 doubtful>>

\* The tab dies; what was being enqueued or sent is typed again.
Crash ==
  /\ Mishap
  /\ drafts' = [m \in Messages |->
       IF drafts[m].pc \in {"loaded", "sending", "left"} THEN Draft ELSE drafts[m]]
  /\ drains' = [s \in Slots |-> Idle]
  /\ shown' = "closed"
  /\ failed' = FALSE
  /\ stopped' = Resumed
  /\ doubtful' = doubtful + Cardinality({s \in Slots : drains[s].pc \in {"answered", "removing"}
                                                         /\ drains[s].live})
  /\ UNCHANGED <<queueVars, posted, browser, accepted, direct, late>>

-----------------------------------------------------------------------------
Init ==
  /\ record = <<>> /\ posted = <<>> /\ accepted = <<>> /\ direct = {}
  /\ drafts = [m \in Messages |-> Draft]
  /\ drains = [s \in Slots |-> Idle]
  /\ browser \in BOOLEAN /\ failed = FALSE /\ shown = "closed"
  /\ stopped = "never" /\ late = FALSE /\ raced = FALSE /\ doubtful = 0
  /\ unreadable = FALSE /\ mishaps = 0

DrainStep(s) ==
  \/ DrainLoad(s) \/ DrainNext(s) \/ DrainPost(s) \/ DrainAnswered(s)
  \/ DrainRemove(s) \/ DrainFailed(s) \/ DrainNote(s)

Next ==
  \/ \E m \in Messages : EnqueueLoad(m) \/ EnqueueStore(m) \/ DirectPrepare(m) \/ DirectPost(m)
  \/ \E s \in Slots : DrainStep(s)
  \/ Effect \/ Leave \/ GoOffline \/ GoOnline \/ OtherRequest \/ Crash

Spec == Init /\ [][Next]_vars

(***************************************************************************)
(* Storage and network requests settle, so every continuation runs, and    *)
(* React renders a status that changed. Users, faults and the rest of the  *)
(* app owe nothing.                                                        *)
(***************************************************************************)
Rerender == shown \notin {"closed", Status} /\ Effect

Fairness ==
  /\ \A m \in Messages : WF_vars(EnqueueStore(m))
  /\ \A s \in Slots : WF_vars(DrainStep(s))
  /\ WF_vars(Rerender)

FairSpec == Spec /\ Fairness

-----------------------------------------------------------------------------
\* What stands before m in a list of names.
Earlier(names, m) ==
  {names[i] : i \in {i \in DOMAIN names : \E k \in DOMAIN names : i < k /\ names[k] = m}}

\* No list was stored over a newer one, and the record was always readable.
Undisturbed == ~raced /\ ~unreadable

\* The type invariant of the queue, the drains and the connectivity signal.
TypeOK ==
  /\ record \in Seq(Messages) /\ posted \in Seq(Messages)
  /\ accepted \in Seq(Messages) /\ IsInjective(accepted)
  /\ drafts \in [Messages -> [copy : Seq(Messages),
       pc : {"draft", "loaded", "queued", "sending", "left", "sent", "gone"}]]
  /\ drains \in [Slots -> [pc : {"idle", "loading", "next", "posting", "answered", "removing",
                                 "failed", "noting"},
                           todo : Seq(Messages), copy : Seq(Messages), live : BOOLEAN]]
  /\ \A s \in Slots : drains[s].pc \notin {"idle", "loading", "next"} => drains[s].todo # <<>>
  /\ browser \in BOOLEAN /\ failed \in BOOLEAN
  /\ shown \in {"closed", "offline", "unreachable", "online"} /\ direct \subseteq Messages
  /\ stopped \in {"never", "paused", "resumed"} /\ late \in BOOLEAN /\ raced \in BOOLEAN
  /\ doubtful \in Nat

(***************************************************************************)
(* A message whose enqueue returned is in the record until it is on the    *)
(* server, whatever fails, is cancelled or dies on the way, as long as no  *)
(* two changes of the record overlap (outbox.ts:77-123).                   *)
(***************************************************************************)
NoneLost == Undisturbed => ToSet(accepted) \subseteq ToSet(record) \cup ToSet(posted)

(***************************************************************************)
(* A message is inserted twice only for a send whose outcome nobody acted  *)
(* on: an answer that was lost, after which it is sent or queued again, a  *)
(* drain cancelled or dead between the insert and the removal, or a cache  *)
(* write that threw (useOutbox.ts:106, Chat.tsx:1020-1112).                *)
(***************************************************************************)
SentOncePerDoubt == Undisturbed => Len(posted) <= Cardinality(ToSet(posted)) + doubtful

(***************************************************************************)
(* The queue is inserted in the order it was accepted (outbox.ts:9): when  *)
(* a row of it comes, and when it comes again, each message accepted       *)
(* before has one. Only a direct send overtakes, Chat.tsx:1027.            *)
(***************************************************************************)
StrictFifo ==
  Undisturbed =>
    \A i \in DOMAIN posted : posted[i] \notin direct =>
      /\ posted[i] \in ToSet(accepted)
      /\ \A k \in Earlier(accepted, posted[i]) : \E j \in 1 .. (i - 1) : posted[j] = k

(***************************************************************************)
(* Once the browser stays online and the chat open, the queue empties,     *)
(* unless a drain stopped at an error, or a message was stored after the   *)
(* drain of this transition may have loaded the list (useOutbox.ts:84-92). *)
(***************************************************************************)
QueueDrains ==
  <>[](browser /\ shown # "closed")
    => <>[](record = <<>> \/ stopped # "never" \/ late \/ raced \/ unreadable)
=============================================================================
