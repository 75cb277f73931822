------------------------------ MODULE ChatDisplay ------------------------------
(***************************************************************************)
(* How the messages of a chat get their text: the display effect of        *)
(* components/Chat.tsx, which walks the list and resolves one message      *)
(* after the other (decryptForDisplay in lib/e2ee/message-flow.ts), the    *)
(* gate that keeps a freshly loaded page behind a skeleton until every     *)
(* bubble is settled, own sends, and the engine that context/E2EEContext   *)
(* starts.                                                                 *)
(*                                                                         *)
(* The effect runs again whenever the list, the connection or the manager  *)
(* changes: the walk before it is told so, but only notices after an       *)
(* await. Leaving the chat and opening it again makes a new instance of    *)
(* the component, with the old walks still under way. What a walk awaits   *)
(* is modelled, what it shows is not.                                      *)
(***************************************************************************)
EXTENDS Integers, FiniteSets, FiniteSetsExt

CONSTANTS
  Incoming,     \* messages of the peer: numbers in display order
  Own,          \* envelopes sent from this device
  Initially,    \* the messages on the server at first
  MaxOpens, MaxMishaps    \* bounds

Messages == Incoming \cup Own

ASSUME DisplayAssumption ==
  /\ Messages \subseteq Nat \ {0} /\ IsFiniteSet(Messages)
  /\ Initially \subseteq Messages
  /\ MaxOpens \in Nat \ {0} /\ MaxMishaps \in Nat

VARIABLES
  server,      \* the messages of the conversation
  erased,      \* those deleted for everyone
  cached,      \* messages with a plaintext in the message cache
  spent,       \* messages whose key the ratchet has used
  engine,      \* E2EEStatus; the manager exists when it is ready
  open,        \* number of the instance of the chat
  gate,        \* loading; settling: revealPending; open: the list is shown
  list,        \* messages, the React state
  plain,       \* messages that have a text to show
  undecryptable, \* messages that have the notice
  resolved,    \* resolvedRef
  asked,       \* decryptedRef, of every instance
  walk,        \* the running display effect
  stale,       \* walks that were replaced and still await something
  sending,     \* the own send under way
  lost,        \* history: decrypts whose result its walk did not show
  twice,       \* history: decrypts under way when the chat was opened anew
  failed,      \* history: messages the engine has really failed at
  abandoned,   \* history: own sends whose answer came after the chat was left
  budget       \* changes of the connection, erasures and failures left

displayVars == <<plain, undecryptable, resolved, asked, walk, stale>>
historyVars == <<lost, twice, failed, abandoned>>

vars == <<server, erased, cached, spent, engine, open, gate, list, displayVars,
          sending, historyVars, budget>>

Statuses == {"initializing", "ready", "error"}

Resting == [pc |-> "rest", row |-> 0, manager |-> FALSE, open |-> 1]

NotSending == [pc |-> "none", row |-> 0, open |-> 1]

-----------------------------------------------------------------------------
(* The walk *)

\* A walk over these messages that stands before message i: the next one that
\* has no result yet is looked up in the cache.
WalkFrom(i, rows, done, managed) ==
  LET todo == {m \in rows \ done : m >= i}
  IN  [pc |-> IF todo = {} THEN "rest" ELSE "cache",
       row |-> IF todo = {} THEN 0 ELSE Min(todo),
       manager |-> managed, open |-> open]

\* Its decrypt is under way.
Decrypting(w) == w.pc \in {"decrypt", "store"}

\* The effect runs again on this list; what the walk before it awaits goes on.
Restart(rows, managed) ==
  /\ walk' = WalkFrom(1, rows, resolved, managed)
  /\ stale' = IF walk.pc = "rest" THEN stale ELSE stale \cup {walk}
  /\ lost' = (lost \cup (IF Decrypting(walk) THEN {walk.row} ELSE {})) \ cached

Managed == engine = "ready"

Advance == walk' = WalkFrom(walk.row + 1, list \ erased, resolved', walk.manager)

Settle(w, readable) ==
  /\ resolved' = resolved \cup {w.row}
  /\ plain' = IF readable THEN plain \cup {w.row} ELSE plain
  /\ undecryptable' = IF readable THEN undecryptable ELSE undecryptable \cup {w.row}

\* Mutant of mayAsk: the engine is asked again.
AskAgain(w) == w.manager

\* decryptedRef: one decrypt of a message per instance.
mayAsk(w) == w.manager /\ w.row \notin asked[w.open]

\* getCachedPlaintext has answered.
LookedUp(w) ==
  IF w.row \in cached \/ w.row \notin Incoming THEN "show"
  ELSE IF mayAsk(w) THEN "decrypt" ELSE "skip"

Claimed(w) ==
  IF LookedUp(w) = "decrypt" THEN [asked EXCEPT ![w.open] = @ \cup {w.row}] ELSE asked

CacheRead ==
  /\ walk.pc = "cache"
  /\ asked' = Claimed(walk)
  /\ IF LookedUp(walk) = "skip"
     THEN walk' = WalkFrom(walk.row + 1, list \ erased, resolved, walk.manager)
     ELSE walk' = [walk EXCEPT !.pc = LookedUp(walk)]
  /\ UNCHANGED <<server, erased, cached, spent, engine, open, gate, list, plain,
                 undecryptable, resolved, stale, sending, historyVars, budget>>

\* decryptForDisplay without the engine: an own envelope that is not cached stays
\* closed.
Show ==
  /\ walk.pc = "show"
  /\ Settle(walk, walk.row \in cached)
  /\ Advance
  /\ UNCHANGED <<server, erased, cached, spent, engine, open, gate, list, asked, stale,
                 sending, historyVars, budget>>

\* decryptForDisplay asks the cache again before the engine.
FoundLate ==
  /\ walk.pc = "decrypt" /\ walk.row \in cached
  /\ Settle(walk, TRUE)
  /\ Advance
  /\ UNCHANGED <<server, erased, cached, spent, engine, open, gate, list, asked,
                 stale, sending, historyVars, budget>>

\* decryptFromPeer: a key works once.
Decrypt ==
  /\ walk.pc = "decrypt" /\ walk.row \notin cached \cup spent
  /\ spent' = spent \cup {walk.row}
  /\ walk' = [walk EXCEPT !.pc = "store"]
  /\ UNCHANGED <<server, erased, cached, engine, open, gate, list, plain,
                 undecryptable, resolved, asked, stale, sending, historyVars, budget>>

DecryptRefused ==
  /\ walk.pc = "decrypt" /\ walk.row \in spent
  /\ Settle(walk, FALSE)
  /\ Advance
  /\ UNCHANGED <<server, erased, cached, spent, engine, open, gate, list, asked,
                 stale, sending, historyVars, budget>>

DecryptFails ==
  /\ walk.pc = "decrypt" /\ budget > 0
  /\ budget' = budget - 1
  /\ failed' = failed \cup {walk.row}
  /\ Settle(walk, FALSE)
  /\ Advance
  /\ UNCHANGED <<server, erased, cached, spent, engine, open, gate, list, asked,
                 stale, sending, lost, twice, abandoned>>

\* cachePlaintextBestEffort
Store ==
  /\ walk.pc = "store"
  /\ cached' = cached \cup {walk.row}
  /\ Settle(walk, TRUE)
  /\ Advance
  /\ UNCHANGED <<server, erased, spent, engine, open, gate, list, asked, stale,
                 sending, historyVars, budget>>

-----------------------------------------------------------------------------
(* A walk that was replaced: it finishes what it awaits, a decrypt it has not *)
(* begun included, and shows nothing of it.                                   *)

StaleRead(w) ==
  /\ w.pc = "cache" /\ LookedUp(w) = "decrypt"
  /\ asked' = Claimed(w)
  /\ stale' = (stale \ {w}) \cup {[w EXCEPT !.pc = "decrypt"]}
  /\ lost' = lost \cup {w.row}
  /\ twice' = IF w.open # open THEN twice \cup {w.row} ELSE twice
  /\ UNCHANGED <<cached, spent, failed, budget>>

\* It notices that it was replaced.
StaleEnds(w) ==
  /\ \/ w.pc = "cache" /\ LookedUp(w) # "decrypt"
     \/ w.pc = "show"
     \/ w.pc = "decrypt" /\ w.row \in cached \cup spent
  /\ stale' = stale \ {w}
  /\ UNCHANGED <<asked, cached, spent, lost, twice, failed, budget>>

StaleDecrypt(w) ==
  /\ w.pc = "decrypt" /\ w.row \notin cached \cup spent
  /\ spent' = spent \cup {w.row}
  /\ stale' = (stale \ {w}) \cup {[w EXCEPT !.pc = "store"]}
  /\ UNCHANGED <<asked, cached, lost, twice, failed, budget>>

StaleFails(w) ==
  /\ w.pc = "decrypt" /\ budget > 0
  /\ budget' = budget - 1
  /\ failed' = failed \cup {w.row}
  /\ stale' = stale \ {w}
  /\ UNCHANGED <<asked, cached, spent, lost, twice>>

StaleStore(w) ==
  /\ w.pc = "store"
  /\ cached' = cached \cup {w.row}
  /\ stale' = stale \ {w}
  /\ UNCHANGED <<asked, spent, lost, twice, failed, budget>>

StaleStep ==
  /\ \E w \in stale :
       StaleRead(w) \/ StaleEnds(w) \/ StaleDecrypt(w) \/ StaleFails(w) \/ StaleStore(w)
  /\ UNCHANGED <<server, erased, engine, open, gate, list, plain, undecryptable,
                 resolved, walk, sending, abandoned>>

-----------------------------------------------------------------------------
(* What starts the effect *)

\* Mutant of EngineReady: the manager is not a dependency of the effect.
ReadyUnnoticed ==
  /\ engine = "initializing"
  /\ engine' = "ready"
  /\ UNCHANGED <<server, erased, cached, spent, open, gate, list, displayVars,
                 sending, historyVars, budget>>

EngineReady ==
  /\ engine = "initializing"
  /\ engine' = "ready"
  /\ Restart(list \ erased, TRUE)
  /\ UNCHANGED <<server, erased, cached, spent, open, gate, list, plain,
                 undecryptable, resolved, asked, sending, twice, failed, abandoned,
                 budget>>

EngineFails ==
  /\ engine = "initializing" /\ budget > 0
  /\ budget' = budget - 1
  /\ engine' = "error"
  /\ UNCHANGED <<server, erased, cached, spent, open, gate, list, displayVars,
                 sending, historyVars>>

\* retry: the manager was null and stays so.
RetryEngine ==
  /\ engine = "error"
  /\ engine' = "initializing"
  /\ UNCHANGED <<server, erased, cached, spent, open, gate, list, displayVars,
                 sending, historyVars, budget>>

\* The page of a load replaces the list and arms the gate.
LoadCommit ==
  /\ gate = "loading"
  /\ gate' = "settling"
  /\ list' = server
  /\ Restart(server \ erased, Managed)
  /\ UNCHANGED <<server, erased, cached, spent, engine, open, plain, undecryptable,
                 resolved, asked, sending, twice, failed, abandoned, budget>>

\* Connectivity returns.
Reload ==
  /\ gate # "loading" /\ budget > 0
  /\ budget' = budget - 1
  /\ gate' = "loading"
  /\ UNCHANGED <<server, erased, cached, spent, engine, open, list, displayVars,
                 sending, historyVars>>

\* A realtime row of connections, or setConn of a load.
ConnChanges ==
  /\ budget > 0
  /\ budget' = budget - 1
  /\ Restart(list \ erased, Managed)
  /\ UNCHANGED <<server, erased, cached, spent, engine, open, gate, list, plain,
                 undecryptable, resolved, asked, sending, twice, failed, abandoned>>

\* A realtime INSERT of the peer; while a load is in flight it is held back and
\* comes with the page.
PeerPosts(m) ==
  /\ m \in Incoming \ server
  /\ server' = server \cup {m}
  /\ IF gate = "loading" THEN UNCHANGED <<list, walk, stale, lost>>
     ELSE list' = list \cup {m} /\ Restart(list' \ erased, Managed)
  /\ UNCHANGED <<erased, cached, spent, engine, open, gate, plain, undecryptable,
                 resolved, asked, sending, twice, failed, abandoned, budget>>

\* The INSERT of an own message comes back, perhaps before the answer.
Echo(m) ==
  /\ gate # "loading" /\ m \in server \ list
  /\ list' = list \cup {m}
  /\ Restart(list' \ erased, Managed)
  /\ UNCHANGED <<server, erased, cached, spent, engine, open, gate, plain,
                 undecryptable, resolved, asked, sending, twice, failed, abandoned,
                 budget>>

\* A realtime UPDATE, or the user's own deletion.
Erase(m) ==
  /\ gate # "loading" /\ m \in list \ erased /\ budget > 0
  /\ budget' = budget - 1
  /\ erased' = erased \cup {m}
  /\ Restart(list \ erased', Managed)
  /\ UNCHANGED <<server, cached, spent, engine, open, gate, list, plain,
                 undecryptable, resolved, asked, sending, twice, failed, abandoned>>

\* Mutant of Reopen: the refs outlive the instance.
ReopenKeepsRefs ==
  /\ open < MaxOpens
  /\ open' = open + 1
  /\ gate' = "loading" /\ list' = {}
  /\ plain' = {} /\ undecryptable' = {}
  /\ walk' = [Resting EXCEPT !.open = open + 1]
  /\ stale' = IF walk.pc = "rest" THEN stale ELSE stale \cup {walk}
  /\ UNCHANGED <<server, erased, cached, spent, engine, resolved, asked, sending,
                 historyVars, budget>>

\* The chat is left and opened again: everything but the walks starts over.
Reopen ==
  /\ open < MaxOpens
  /\ open' = open + 1
  /\ gate' = "loading" /\ list' = {}
  /\ plain' = {} /\ undecryptable' = {} /\ resolved' = {}
  /\ walk' = [Resting EXCEPT !.open = open + 1]
  /\ stale' = IF walk.pc = "rest" THEN stale ELSE stale \cup {walk}
  /\ lost' = {}
  /\ twice' = twice \cup {w.row : w \in {v \in stale \cup {walk} : Decrypting(v)}}
  /\ UNCHANGED <<server, erased, cached, spent, engine, asked, sending, failed,
                 abandoned, budget>>

-----------------------------------------------------------------------------
(* The gate, and own sends *)

\* resolveBubbleText: the bubble has a final outcome.
Settled(m) == m \in plain \cup undecryptable \/ engine = "error"

Reveal ==
  /\ gate = "settling"
  /\ \A m \in list \ erased : Settled(m)
  /\ gate' = "open"
  /\ UNCHANGED <<server, erased, cached, spent, engine, open, list, displayVars,
                 sending, historyVars, budget>>

\* handleSend, to the insert.
Send(m) ==
  /\ gate = "open" /\ engine = "ready"
  /\ sending = NotSending /\ m \in Own \ server
  /\ server' = server \cup {m}
  /\ sending' = [pc |-> "posted", row |-> m, open |-> open]
  /\ UNCHANGED <<erased, cached, spent, engine, open, gate, list, displayVars,
                 historyVars, budget>>

\* A send that has lost its chat leaves before the cache write.
SendAnswered ==
  /\ sending.pc = "posted"
  /\ IF sending.open = open
     THEN /\ cached' = cached \cup {sending.row}
          /\ sending' = [sending EXCEPT !.pc = "cached"]
          /\ UNCHANGED abandoned
     ELSE /\ sending' = NotSending
          /\ abandoned' = abandoned \cup {sending.row}
          /\ UNCHANGED cached
  /\ UNCHANGED <<server, erased, spent, engine, open, gate, list, displayVars,
                 lost, twice, failed, budget>>

SendShown ==
  /\ sending.pc = "cached"
  /\ sending' = NotSending
  /\ IF sending.open = open
     THEN /\ plain' = plain \cup {sending.row}
          /\ list' = list \cup {sending.row}
          /\ IF sending.row \in list THEN UNCHANGED <<walk, stale, lost>>
             ELSE Restart(list' \ erased, Managed)
          /\ UNCHANGED abandoned
     ELSE UNCHANGED <<plain, list, walk, stale, lost, abandoned>>
  /\ UNCHANGED <<server, erased, cached, spent, engine, open, gate, undecryptable,
                 resolved, asked, twice, failed, budget>>

-----------------------------------------------------------------------------

Init ==
  /\ server = Initially /\ erased = {}
  /\ cached \in SUBSET Initially /\ spent = cached \cap Incoming
  /\ engine = "initializing" /\ open = 1 /\ gate = "loading" /\ list = {}
  /\ plain = {} /\ undecryptable = {} /\ resolved = {}
  /\ asked = [o \in 1 .. MaxOpens |-> {}]
  /\ walk = Resting /\ stale = {} /\ sending = NotSending
  /\ lost = {} /\ twice = {} /\ failed = {} /\ abandoned = Initially \cap Own
  /\ budget = MaxMishaps

Next ==
  \/ CacheRead \/ Show \/ FoundLate \/ Decrypt \/ DecryptRefused \/ DecryptFails \/ Store
  \/ StaleStep
  \/ EngineReady \/ EngineFails \/ RetryEngine
  \/ LoadCommit \/ Reload \/ ConnChanges \/ Reopen \/ Reveal
  \/ \E m \in Messages : PeerPosts(m) \/ Echo(m) \/ Erase(m) \/ Send(m)
  \/ SendAnswered \/ SendShown

Spec == Init /\ [][Next]_vars

-----------------------------------------------------------------------------
(* Properties *)

Walks ==
  [pc : {"rest", "cache", "show", "decrypt", "store"}, row : Messages \cup {0},
   manager : BOOLEAN, open : 1 .. MaxOpens]

\* The sets of the display state, and that a message with a text or a notice,
\* or a walk that awaits, is about a message of the list.
TypeOK ==
  /\ list \subseteq server /\ server \subseteq Messages
  /\ erased \subseteq server /\ cached \cup spent \subseteq server
  /\ engine \in Statuses /\ open \in 1 .. MaxOpens
  /\ gate \in {"loading", "settling", "open"}
  /\ plain \cup undecryptable \cup resolved \subseteq list
  /\ asked \in [1 .. MaxOpens -> SUBSET Incoming]
  /\ {walk} \cup stale \subseteq Walks
  /\ walk.pc # "rest" => walk.row \in list
  /\ sending \in [pc : {"none", "posted", "cached"}, row : Own \cup {0}, open : 1 .. MaxOpens]
  /\ budget \in 0 .. MaxMishaps

AtRest == walk.pc = "rest" /\ stale = {}

\* "PENDING ... Transient" (lib/chatDisplay.ts): with the engine ready and the
\* effect at rest, no bubble is left without an outcome, whatever restarted the
\* effect meanwhile, except for a message whose decrypt a replaced walk had begun
\* and whose plaintext came, if at all, after the last restart.
PendingIsTransient ==
  AtRest /\ engine = "ready" =>
    \A m \in list \ erased : Settled(m) \/ m \in lost

\* The notice is only shown for what cannot be read: the engine has failed at the
\* message, or a decrypt of it was under way when the chat was opened anew, or it
\* is an own message that was not kept when it was sent, or is being sent.
NoticeIsTrue ==
  \A m \in undecryptable \ plain :
    m \in failed \cup twice \cup abandoned \cup {sending.row}
=============================================================================
