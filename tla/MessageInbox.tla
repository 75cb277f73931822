---------------------------- MODULE MessageInbox ----------------------------
(***************************************************************************)
(* One direction of a conversation, from the sender's counter to the       *)
(* receiver's plaintext cache: encryptForPeer and decryptFromPeer of       *)
(* src/lib/e2ee/session-manager.ts, the C-1 counters of seq-counter.ts,    *)
(* decryptForDisplay of message-flow.ts, and the sealed message cache of   *)
(* message-cache.ts with one in-memory map per tab. Each tab also holds a  *)
(* copy of the device's prekeys, read from the device store when the tab   *)
(* initialises: what another tab consumes later is still in it.            *)
(*                                                                         *)
(* decryptFromPeer runs under the Web Lock, but its durable writes (the    *)
(* counter, the ratchet, the Kyber usage, the one-time keys, the counter   *)
(* again) are separate, and the cache is written after the lock is gone: a *)
(* tab may die between any two of them. RatchetSession looks inside a      *)
(* commit; here it is one step.                                            *)
(***************************************************************************)
EXTENDS Naturals, FiniteSets

CONSTANTS
  Tabs,             \* tabs the receiver has open
  Own,              \* messages the receiver sends while reading
  None,             \* no row
  Depleted,         \* handshakes claimed when the one-time pools were empty
  WarmStart,        \* TRUE when a tab starts on Home, which loads the cache
  MaxSends,         \* bound: counters the sender allocates
  MaxHandshakes,    \* bound: sessions the sender establishes
  MaxMishaps,       \* bound: tabs that die at work, cache writes that fail
  MaxUnreadable,    \* bound: loads of the cache record that fail
  MaxPeerResets,    \* bound: resetPeerSecurityState by the receiver
  MaxDeviceResets   \* bound: resetDeviceIdentity by the receiver

ASSUME WarmStartAssumption == WarmStart \in BOOLEAN
ASSUME DepletedAssumption == Depleted \subseteq 1..MaxHandshakes
ASSUME InboxBoundsAssumption ==
  /\ MaxHandshakes \in Nat \ {0}
  /\ {MaxSends, MaxMishaps, MaxUnreadable, MaxPeerResets, MaxDeviceResets} \subseteq Nat

VARIABLES
  sender,    \* the sender's session: its handshake, chain index, counter
  rows,      \* messages on the server
  hwm,       \* the receiver's inbound high-water mark for this sender
  ratchet,   \* the receiver's durable session: handshakes known, messages seen
  disk,      \* the device store: handshakes in the Kyber usage record, and
             \* handshakes whose one-time keys are removed
  copy,      \* the same of each tab's device, hydrated from the store
  stored,    \* messages whose plaintext the sealed cache record holds
  at,        \* how far each tab's current attempt has come
  reading,   \* the row of each tab's current attempt
  mem,       \* each tab's in-memory cache
  warm,      \* TRUE once a tab has loaded the cache record
  tried,     \* rows a tab has resolved since it started
  consumed,  \* history: handshakes whose keys a device copy has used
  untold,    \* history: consumed handshakes that the store has not known of
  old,       \* history: handshakes consumed elsewhere since a tab's hydration
  behind,    \* history: the record may hold rows that a tab's map lacks
  overwritten, \* history: rows that a tab left behind dropped from the record
  opened,    \* history: rows whose message key was used up
  refused,   \* history: rows the counter refused
  orderly,   \* history: rows were decrypted in counter order, and nothing was reset
  mishaps, unreadable, peerResets, deviceResets

senderVars == <<sender, rows>>
deviceVars == <<disk, copy, consumed, untold, old>>
receiverVars == <<hwm, ratchet, deviceVars>>
cacheVars == <<stored, mem, warm, behind, overwritten>>
attemptVars == <<at, reading, tried>>
historyVars == <<opened, refused, orderly>>
bounds == <<mishaps, unreadable, peerResets, deviceResets>>

vars == <<senderVars, receiverVars, cacheVars, attemptVars, historyVars, bounds>>

-----------------------------------------------------------------------------
Row == [session : 1..MaxHandshakes, n : 0..MaxSends, kind : {"PREKEY", "WHISPER"},
        c : 1..MaxSends]

ASSUME NoneAssumption == None \notin Row

\* Mutant: the envelope is stamped with the counter as it was before.
NextRowStale ==
  [session |-> sender.session, n |-> sender.n,
   kind |-> IF sender.acked THEN "WHISPER" ELSE "PREKEY", c |-> sender.seq]

\* Until the peer has answered, every message carries the handshake.
NextRow ==
  [session |-> sender.session, n |-> sender.n,
   kind |-> IF sender.acked THEN "WHISPER" ELSE "PREKEY", c |-> sender.seq + 1]

\* Mutant: the counter is saved after the message went out, so a crash loses it.
SendSavesLate ==
  /\ sender.seq < MaxSends
  /\ \E saved \in {0, 1} :
       sender' = [sender EXCEPT !.seq = @ + saved, !.n = @ + 1]
  /\ rows' = rows \cup {NextRow}
  /\ UNCHANGED <<receiverVars, cacheVars, attemptVars, historyVars, bounds>>

(***************************************************************************)
(* encryptForPeer and the insert after it. The counter is saved before the *)
(* ratchet moves, and the ratchet before the row goes out, so a send may   *)
(* end after the first or the second of the three.                         *)
(***************************************************************************)
Send ==
  /\ sender.seq < MaxSends
  /\ \/ sender' = [sender EXCEPT !.seq = @ + 1] /\ UNCHANGED rows
     \/ sender' = [sender EXCEPT !.seq = @ + 1, !.n = @ + 1] /\ UNCHANGED rows
     \/ sender' = [sender EXCEPT !.seq = @ + 1, !.n = @ + 1] /\ rows' = rows \cup {NextRow}
  /\ UNCHANGED <<receiverVars, cacheVars, attemptVars, historyVars, bounds>>

\* The sender decrypts an answer written under its session.
Answered ==
  /\ sender.session \in ratchet.known
  /\ ~sender.acked
  /\ sender' = [sender EXCEPT !.acked = TRUE]
  /\ UNCHANGED <<rows, receiverVars, cacheVars, attemptVars, historyVars, bounds>>

\* The sender resets the peer and establishes anew; its counter goes on.
Reestablish ==
  /\ sender.session < MaxHandshakes
  /\ sender' = [sender EXCEPT !.session = @ + 1, !.n = 0, !.acked = FALSE]
  /\ orderly' = FALSE
  /\ UNCHANGED <<rows, receiverVars, cacheVars, attemptVars, opened, refused, bounds>>

-----------------------------------------------------------------------------
\* The Web Lock: nobody is between the counter check and the last write.
LockFree == \A t \in Tabs : at[t] \notin {"admitted", "marking", "evicting", "settling"}

Valid == ratchet.known # {}

Goto(t, label) == at' = [at EXCEPT ![t] = label]

Finish(t) ==
  /\ Goto(t, "idle")
  /\ reading' = [reading EXCEPT ![t] = None]

\* Mutant: the tab's map is not filled from the record.
HydratedNot(t) == mem[t]

\* getCachedPlaintext: the tab's map, after loading the record once.
Hydrated(t) == IF warm[t] THEN mem[t] ELSE mem[t] \cup stored

\* The one load of the record fails, at the start of a tab or later: the map
\* stays as it is, and the settled promise keeps it from being tried again.
LoadFails(t) ==
  /\ at[t] = "idle"
  /\ ~warm[t]
  /\ unreadable < MaxUnreadable
  /\ unreadable' = unreadable + 1
  /\ warm' = [warm EXCEPT ![t] = TRUE]
  /\ behind' = [behind EXCEPT ![t] = TRUE]
  /\ UNCHANGED <<senderVars, receiverVars, stored, mem, overwritten, attemptVars, historyVars,
                 mishaps, peerResets, deviceResets>>

\* The display loop takes up a row it has not resolved: from the cache, or
\* by asking for the lock to decrypt it.
LookUp(t) ==
  /\ at[t] = "idle"
  /\ \E r \in rows \ tried[t] :
       /\ tried' = [tried EXCEPT ![t] = @ \cup {r}]
       /\ IF r \in Hydrated(t)
          THEN UNCHANGED <<at, reading, orderly>>
          ELSE /\ Goto(t, "waiting")
               /\ reading' = [reading EXCEPT ![t] = r]
               /\ orderly' = (orderly /\ \A s \in opened \cup UNION {tried[u] : u \in Tabs} :
                                            s.c < r.c)
  /\ mem' = [mem EXCEPT ![t] = Hydrated(t)]
  /\ warm' = [warm EXCEPT ![t] = TRUE]
  /\ behind' = [behind EXCEPT ![t] = @ /\ warm[t]]
  /\ UNCHANGED <<senderVars, receiverVars, stored, overwritten, opened, refused, bounds>>

\* Mutant: a gap in the counters is taken for a rollback.
CounterAcceptsNext(r) == Valid /\ r.kind = "WHISPER" => r.c = hwm + 1

\* checkInboundSeq before decrypting, asked of whispers on a session only.
CounterAccepts(r) == Valid /\ r.kind = "WHISPER" => r.c > hwm

\* A whisper moves the mark before it is decrypted; a handshake does not.
Admit(t) ==
  /\ at[t] = "waiting"
  /\ LockFree
  /\ CounterAccepts(reading[t])
  /\ Valid \/ reading[t].kind = "PREKEY"
  /\ hwm' = IF Valid /\ reading[t].kind = "WHISPER" THEN reading[t].c ELSE hwm
  /\ Goto(t, "admitted")
  /\ UNCHANGED <<senderVars, ratchet, deviceVars, cacheVars, reading, tried, historyVars, bounds>>

\* ROLLBACK_DETECTED, or NEEDS_ESTABLISH for a whisper without a session.
Refuse(t) ==
  /\ at[t] = "waiting"
  /\ LockFree
  /\ \/ ~CounterAccepts(reading[t]) /\ refused' = refused \cup {reading[t]}
     \/ ~Valid /\ reading[t].kind = "WHISPER" /\ UNCHANGED refused
  /\ Finish(t)
  /\ UNCHANGED <<senderVars, receiverVars, cacheVars, tried, opened, orderly, bounds>>

\* The engine opens a message once, in any order, of a handshake the session
\* knows, or of one that this tab's copy of the device can still accept: it
\* has the one-time keys and no mark of their use.
EngineOpens(t, r) ==
  /\ <<r.session, r.n>> \notin ratchet.seen
  /\ \/ r.session \in ratchet.known
     \/ r.kind = "PREKEY" /\ r.session \notin copy[t].used \cup copy[t].gone

\* decryptAndCommit on a session, decryptEstablishingMessage and adoption
\* without one. A new handshake uses up its keys in the tab's device copy on
\* both paths, but only an establishment goes on to tell the store.
Open(t) ==
  /\ at[t] = "admitted"
  /\ EngineOpens(t, reading[t])
  /\ LET r == reading[t]
         new == {r.session} \ ratchet.known IN
       /\ ratchet' = [known |-> ratchet.known \cup {r.session},
                      seen  |-> ratchet.seen \cup {<<r.session, r.n>>}]
       /\ opened' = opened \cup {r}
       /\ copy' = [copy EXCEPT ![t].used = @ \cup new]
       /\ consumed' = consumed \cup new
       /\ untold' = IF Valid THEN untold \cup new ELSE untold
       /\ old' = [u \in Tabs |-> IF u = t THEN old[u] ELSE old[u] \cup new]
       /\ Goto(t, CASE ~Valid -> "marking"
                    [] Valid /\ r.kind = "PREKEY" -> "settling"
                    [] OTHER -> "returned")
  /\ UNCHANGED <<senderVars, hwm, disk, cacheVars, reading, tried, refused, orderly, bounds>>

OpenFails(t) ==
  /\ at[t] = "admitted"
  /\ ~EngineOpens(t, reading[t])
  /\ Finish(t)
  /\ UNCHANGED <<senderVars, receiverVars, cacheVars, tried, historyVars, bounds>>

\* saveKyberUsage replaces the usage record by that of this tab's copy: what
\* only another tab has marked is forgotten.
SaveUsage(t) ==
  /\ at[t] = "marking"
  /\ disk' = [disk EXCEPT !.used = copy[t].used]
  /\ untold' = untold \cup (disk.used \ (disk.gone \cup copy[t].used))
  /\ Goto(t, IF reading[t].session \in Depleted THEN "settling" ELSE "evicting")
  /\ UNCHANGED <<senderVars, hwm, ratchet, copy, consumed, old, cacheVars, reading, tried,
                 historyVars, bounds>>

\* removeKyberPreKey and removeOneTimePreKey: a handshake needs every one-time
\* key it names, so the first of the two ends it.
Evict(t) ==
  /\ at[t] = "evicting"
  /\ disk' = [disk EXCEPT !.gone = @ \cup {reading[t].session}]
  /\ Goto(t, "settling")
  /\ UNCHANGED <<senderVars, hwm, ratchet, copy, consumed, untold, old, cacheVars, reading, tried,
                 historyVars, bounds>>

\* "A PREKEY resets the chain": its counter becomes the mark.
SettleCounter(t) ==
  /\ at[t] = "settling"
  /\ hwm' = reading[t].c
  /\ Goto(t, "returned")
  /\ UNCHANGED <<senderVars, ratchet, deviceVars, cacheVars, reading, tried, historyVars, bounds>>

-----------------------------------------------------------------------------
\* cachePlaintext: the map first, then the snapshot of the whole map.
Remember(t) ==
  /\ at[t] = "returned"
  /\ mem' = [mem EXCEPT ![t] = @ \cup {reading[t]}]
  /\ Goto(t, "persisting")
  /\ UNCHANGED <<senderVars, receiverVars, stored, warm, behind, overwritten, reading, tried,
                 historyVars, bounds>>

\* handleSend caches what the receiver sent, without loading the record first.
RememberOwn(t) ==
  /\ at[t] = "idle"
  /\ \E m \in Own \ mem[t] : mem' = [mem EXCEPT ![t] = @ \cup {m}]
  /\ Goto(t, "persisting")
  /\ UNCHANGED <<senderVars, receiverVars, stored, warm, behind, overwritten, reading, tried,
                 historyVars, bounds>>

\* History of a write: the other tabs are left behind by it, and rows that a
\* tab left behind itself does not have are overwritten.
Overwrites(t) ==
  /\ behind' = [u \in Tabs |-> u # t \/ behind[u]]
  /\ overwritten' = IF behind[t] THEN overwritten \cup (stored \ mem[t]) ELSE overwritten

\* Mutant: only the newest plaintext is sealed.
PersistNewest(t) ==
  /\ at[t] = "persisting"
  /\ stored' = {reading[t]} \ {None}
  /\ Overwrites(t)
  /\ Finish(t)
  /\ UNCHANGED <<senderVars, receiverVars, mem, warm, tried, historyVars, bounds>>

\* persistSnapshot replaces the record with this tab's map.
Persist(t) ==
  /\ at[t] = "persisting"
  /\ stored' = mem[t]
  /\ Overwrites(t)
  /\ Finish(t)
  /\ UNCHANGED <<senderVars, receiverVars, mem, warm, tried, historyVars, bounds>>

\* cachePlaintextBestEffort swallows a failed write.
PersistFails(t) ==
  /\ at[t] = "persisting"
  /\ mishaps < MaxMishaps
  /\ mishaps' = mishaps + 1
  /\ Finish(t)
  /\ UNCHANGED <<senderVars, receiverVars, cacheVars, tried, historyVars, unreadable, peerResets,
                 deviceResets>>

-----------------------------------------------------------------------------
\* warmMessageCache, called by Home before anything else.
StartMap == IF WarmStart THEN stored ELSE {}

Steady == {"idle", "starting"}

\* The tab is closed, reloaded or killed, and opened again, without a device.
\* A handshake that was adopted but not marked yet stays unknown to the store.
Restart(t) ==
  /\ IF at[t] \in Steady THEN UNCHANGED mishaps
     ELSE mishaps < MaxMishaps /\ mishaps' = mishaps + 1
  /\ Goto(t, "starting")
  /\ reading' = [reading EXCEPT ![t] = None]
  /\ untold' = IF at[t] = "marking" THEN untold \cup {reading[t].session} ELSE untold
  /\ copy' = [copy EXCEPT ![t] = [used |-> {}, gone |-> {}]]
  /\ mem' = [mem EXCEPT ![t] = StartMap]
  /\ warm' = [warm EXCEPT ![t] = WarmStart]
  /\ behind' = [behind EXCEPT ![t] = ~WarmStart]
  /\ tried' = [tried EXCEPT ![t] = {}]
  /\ UNCHANGED <<senderVars, hwm, ratchet, disk, consumed, old, stored, overwritten, historyVars,
                 unreadable, peerResets, deviceResets>>

\* Mutant: hydrateDevice does not import the saved usage.
FreshDeviceUnmarked == [disk EXCEPT !.used = {}]

\* hydrateFromStore: the keys that are left, and the usage record.
FreshDevice == disk

\* A device hydrated in tab t.
Rehydrated(t) ==
  /\ copy' = [copy EXCEPT ![t] = FreshDevice]
  /\ old' = [old EXCEPT ![t] = {}]

\* initialize, under the lock.
Hydrate(t) ==
  /\ at[t] = "starting"
  /\ LockFree
  /\ Rehydrated(t)
  /\ Goto(t, "idle")
  /\ UNCHANGED <<senderVars, hwm, ratchet, disk, consumed, untold, cacheVars, reading, tried,
                 historyVars, bounds>>

\* resetPeerSecurityState by tab t, seen from the receiving side: the session
\* and the mark go, and this tab's device, no other's, is hydrated anew.
ResetPeer(t) ==
  /\ peerResets < MaxPeerResets
  /\ at[t] # "starting"
  /\ LockFree
  /\ ratchet' = [known |-> {}, seen |-> {}]
  /\ hwm' = 0
  /\ Rehydrated(t)
  /\ orderly' = FALSE
  /\ peerResets' = peerResets + 1
  /\ UNCHANGED <<senderVars, disk, consumed, untold, cacheVars, attemptVars, opened, refused,
                 mishaps, unreadable, deviceResets>>

\* resetDeviceIdentity in tab t: a new identity and an empty usage record, so
\* no earlier handshake is of use; the tab's in-memory caches go, the sealed
\* cache and the counters stay. Another tab keeps the old identity: it still
\* accepts what it accepted, and none of the handshakes to come.
ResetDevice(t) ==
  /\ deviceResets < MaxDeviceResets
  /\ at[t] = "idle"
  /\ LockFree
  /\ ratchet' = [known |-> {}, seen |-> {}]
  /\ LET anew == [used |-> {}, gone |-> 1..sender.session] IN
       /\ disk' = anew
       /\ copy' = [u \in Tabs |-> IF u = t THEN anew
                     ELSE [copy[u] EXCEPT !.gone = @ \cup ((1..MaxHandshakes) \ anew.gone)]]
  /\ old' = [old EXCEPT ![t] = {}]
  /\ mem' = [mem EXCEPT ![t] = {}]
  /\ warm' = [warm EXCEPT ![t] = FALSE]
  /\ behind' = [behind EXCEPT ![t] = TRUE]
  /\ orderly' = FALSE
  /\ deviceResets' = deviceResets + 1
  /\ UNCHANGED <<senderVars, hwm, consumed, untold, stored, overwritten, attemptVars, opened,
                 refused, mishaps, unreadable, peerResets>>

-----------------------------------------------------------------------------
Init ==
  /\ sender = [session |-> 1, n |-> 0, acked |-> FALSE, seq |-> 0]
  /\ rows = {}
  /\ hwm = 0
  /\ ratchet = [known |-> {}, seen |-> {}]
  /\ disk = [used |-> {}, gone |-> {}]
  /\ copy = [t \in Tabs |-> disk]
  /\ consumed = {} /\ untold = {} /\ old = [t \in Tabs |-> {}]
  /\ stored = {} /\ overwritten = {}
  /\ at = [t \in Tabs |-> "idle"]
  /\ reading = [t \in Tabs |-> None]
  /\ mem = [t \in Tabs |-> {}]
  /\ warm = [t \in Tabs |-> WarmStart]
  /\ behind = [t \in Tabs |-> ~WarmStart]
  /\ tried = [t \in Tabs |-> {}]
  /\ opened = {} /\ refused = {} /\ orderly = TRUE
  /\ mishaps = 0 /\ unreadable = 0 /\ peerResets = 0 /\ deviceResets = 0

TabStep(t) ==
  \/ LoadFails(t) \/ LookUp(t) \/ Admit(t) \/ Refuse(t) \/ Open(t) \/ OpenFails(t) \/ SaveUsage(t)
  \/ Evict(t) \/ SettleCounter(t) \/ Remember(t) \/ RememberOwn(t) \/ Persist(t)
  \/ PersistFails(t) \/ Restart(t) \/ Hydrate(t) \/ ResetPeer(t) \/ ResetDevice(t)

Next ==
  \/ Send \/ Answered \/ Reestablish
  \/ \E t \in Tabs : TabStep(t)

Spec == Init /\ [][Next]_vars

-----------------------------------------------------------------------------
Keys == [used : SUBSET (1..MaxHandshakes), gone : SUBSET (1..MaxHandshakes)]

Labels == {"idle", "starting", "waiting", "admitted", "marking", "evicting", "settling",
           "returned", "persisting"}

\* Every variable stays within its type.
TypeOK ==
  /\ sender \in [session : 1..MaxHandshakes, n : 0..MaxSends, acked : BOOLEAN,
                 seq : 0..MaxSends]
  /\ rows \subseteq Row /\ opened \subseteq rows /\ refused \subseteq rows
  /\ hwm \in 0..MaxSends
  /\ ratchet.known \subseteq 1..MaxHandshakes
  /\ ratchet.seen \subseteq {<<r.session, r.n>> : r \in rows}
  /\ disk \in Keys /\ copy \in [Tabs -> Keys]
  /\ consumed \subseteq 1..MaxHandshakes /\ untold \subseteq 1..MaxHandshakes
  /\ old \in [Tabs -> SUBSET (1..MaxHandshakes)]
  /\ stored \subseteq rows \cup Own /\ overwritten \subseteq rows \cup Own
  /\ at \in [Tabs -> Labels]
  /\ reading \in [Tabs -> rows \cup {None}]
  /\ mem \in [Tabs -> SUBSET (rows \cup Own)]
  /\ warm \in [Tabs -> BOOLEAN] /\ behind \in [Tabs -> BOOLEAN] /\ orderly \in BOOLEAN
  /\ tried \in [Tabs -> SUBSET rows]

(***************************************************************************)
(* "A gap is acceptable, a reuse is not": counters order the messages of a *)
(* sender as its chains do, across crashes at every point of a send and    *)
(* across handshakes. The receiver's check relies on it.                   *)
(***************************************************************************)
CounterFollowsChain ==
  \A r, s \in rows :
    r.c < s.c <=> r.session < s.session \/ (r.session = s.session /\ r.n < s.n)

(***************************************************************************)
(* Rows that are tried once each in the order they were sent are never     *)
(* taken for a rollback, whatever gaps lost sends have left.               *)
(***************************************************************************)
InOrderNeverRefused == orderly /\ mishaps = 0 => refused = {}

(***************************************************************************)
(* A message key works once, so its plaintext must survive: a tab that     *)
(* dies, or a cache write that fails, costs at most the one message it was *)
(* about. Everything else that was opened is cached or on its way there,   *)
(* unless a tab whose map lacks part of the record replaced the record: a  *)
(* cold tab, one that could not read it or that reset the device, or one   *)
(* whose record another tab has replaced since.                            *)
(***************************************************************************)
InFlight ==
  {reading[t] : t \in {u \in Tabs : at[u] \in {"marking", "evicting", "settling", "returned"}}}

Readable == stored \cup InFlight \cup UNION {mem[t] : t \in Tabs}

OneLossPerMishap == Cardinality(opened \ (Readable \cup overwritten)) <= mishaps

(***************************************************************************)
(* "so it is never re-imported on reload" (session-manager.ts): a handshake *)
(* whose keys were consumed establishes a session again, after whatever    *)
(* resets, restarts and rehydrations, only where a tab could not know. The *)
(* tab's device was hydrated before another tab consumed it, or the store  *)
(* was not told: a crash right after the adoption, a handshake accepted on *)
(* a live session, or a usage record replaced from another tab's copy.     *)
(***************************************************************************)
SpentStaysSpent ==
  [][\A t \in Tabs :
       at[t] = "admitted" /\ at'[t] # "admitted" =>
         consumed \cap (ratchet'.known \ ratchet.known) \subseteq untold \cup old[t]]_vars
=============================================================================
