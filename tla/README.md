# enough. — formal models

TLA+ models of *enough.*, an end-to-end encrypted messenger (React client,
Supabase backend, libsignal compiled to WASM), with TLC configurations and TLAPS
proofs. Paths are relative to the repository root: `src/` is the client,
`supabase/` the database.

`tlc -config X.cfg M` checks a run, `tlapm M.tla` the proofs of a module (section 5
lists them). `PROJECT.json` lists the runs, what each
definition stands for in the code, the mutants that show each property can fail,
the hazards and the finding.

## 1. The system

| Part | State | Operations | Talks to |
|---|---|---|---|
| Durable ratchet state — `lib/crypto/ratchet-state.ts`, `revision.ts`, `sealed-state.ts` | per connection: a sealed envelope and a high-water mark `(epoch, revision)`, one sealing key per user, in IndexedDB | load with a status, two-phase compare-and-swap commit, adopt, delete | sequencer, session manager |
| Sequencer — `lib/crypto/ratchet-session.ts`, `lib/e2ee/engine-adapter.ts` | an attempt: disposable engine, ciphertext or plaintext not let out yet | encrypt-and-commit, decrypt-and-commit, establish | ratchet state, libsignal |
| Session manager, messages — `lib/e2ee/session-manager.ts` | Web Lock, in-process mutex, per tab a copy of the device's prekeys | encryptForPeer, decryptFromPeer, establishment, resets | sequencer, counters, device keys, trust |
| Sequence counters — `lib/e2ee/seq-counter.ts` | one outbound counter, an inbound mark per sender | allocate, check, reset inbound | session manager |
| Message flow and cache — `lib/e2ee/message-flow.ts`, `message-cache.ts` | per tab a plaintext map; one sealed record of the whole map | look up, decrypt for display, cache, persist, release | session manager, Chat, Home |
| Device keys — `session-manager.ts:315-400, 768-951, 1111-1179`, `device-store.ts`, `prekeys-api.ts`, migration 0011 | identity, registration id, signed prekeys with metadata, one-time pools, the published copies | initialise, rotate, retire, refill, publish, claim, reset | server, session manager |
| Peer trust — `session-manager.ts:1055-1076`, `safetyNumber.ts`, `useSafetyNumber.ts` | trust mark and identity key per peer | apply, verify, recover | session manager, Chat |
| Contexts — `context/E2EEContext.tsx`, `AuthContext.tsx`, `App.tsx` | the user, the session manager in use, status, attempt | sign in and out, initialise, retry, reset the device, release | session manager, cache, Chat |
| Outbox — `lib/outbox.ts`, `hooks/useOutbox.ts` | one sealed list per user; the drain effect's copy | enqueue, drain, remove, note error | connectivity, session manager, api |
| Connectivity — `lib/connectivity.ts` | `requestFailed`, `navigator.onLine` | report failure / success, browser events | every network user |
| Chat timeline — `lib/chatRealtime.ts`, `Chat.tsx`, `useMessageActions.ts` | message list, pages, buffers of held-back events | load, page, realtime insert / update, own send, delete for everyone | api, realtime |
| Chat display — `Chat.tsx`, `chatDisplay.ts`, `message-flow.ts` | plaintext map, notices, what was asked and resolved, reveal gate, lifecycle token | the display effect, own send, reveal | message flow, contexts |
| Home — `lib/homeRealtime.ts`, `homePreview.ts`, `Home.tsx` | row list, deletion windows, event gate, reconcile scheduler | realtime events, full and narrow reconcile | api, realtime |
| Connections and blocks — migrations 0001, 0008, 0009, 0014, `api.ts`, `useConnectionActions.ts` | one row per pair, blocks | request, accept, decline, cancel, message, block, leave | Home, Chat |
| Offline snapshots — `lib/offlineStore.ts` | sealed read caches | save, load | Home, Chat |
| The rest | — | api and errors, UI, SQL for profiles, contact e-mail function, primitives, E2EE-1 identity and prekeys | — |

### What is hard, and what correctness means there

* **Ratchet state and sequencer.** Several tabs share one store and JavaScript
  gives the processor away at every `await`; a tab dies anywhere; a profile
  restore brings back old state that authenticates. *Correct:* a message key is
  never let out twice, whatever loads as VALID has spent all keys that left,
  one history per handshake.
* **Receive path.** Counter, ratchet, usage record, one-time keys and cache are
  separate durable writes with crash points in between, rows are looked at in display
  order, and each tab has its own copy of the prekeys and its own map of the cache.
  *Correct:* genuine messages are not refused, a plaintext is lost only to a
  mishap of its own, a used handshake stays used.
* **Device keys.** Local save, metadata switch, publication and retirement are
  separate steps on two machines. *Correct:* what the server advertises the
  device can still answer, a one-time key serves one handshake.
* **Contexts.** The user changes while initialisations, decrypts, resets and cache
  writes of the session before are awaited. *Correct:* no engine or plaintext
  crosses accounts, history survives, 'initializing' ends.
* **Outbox.** A list that every change loads and stores whole, a drain that is
  cancelled and restarted by its own network failures. *Correct:* nothing
  accepted is lost, nothing is sent twice without a doubt about the first, FIFO,
  the queue empties.
* **Timeline, display and Home.** Results of loads, realtime events, decrypts and
  own sends arrive in any order, after the conversation was left too. *Correct:* the
  list converges to the server's, each bubble gets its text or a notice that is
  true, each new message is counted once.
* **Connections.** Two users act at once under triggers, policies and locks.
  *Correct:* one row per pair, no message or request across a block, an accepted
  connection is the last word of both.
* **Peer trust.** A changed identity stays visible and refused until confirmed.

`PROJECT.json` lists these as hazards, each at its line with the property that
covers it, or a note on why none does.

## 2. Plan

| # | Module | State |
|---|---|---|
| 1 | `DoubleRatchet`, `RatchetState`, `RatchetSession`, abstract `KeyLedger`, proved | done |
| 2 | `MessageInbox` (uses the result of 1: a commit is one step), proved | done |
| 3 | `Outbox`: direct sends, queue, connectivity, proved | done for one tab, one conversation |
| 4 | `DeviceKeys`, proved | done |
| 5 | `Connections`, proved | done |
| 6 | `ChatTimeline`, `ChatDisplay`, proved | done |
| 7 | `HomeReconcile`, proved (in `ConnectionsProofs`) | done |
| 8 | `EngineLifecycle` (user, engine and plaintext memory), proved | done |
| 9 | `PeerTrust`, offline snapshots, account deletion over a live session | open, see 6 |

Every invariant a passing run checks is also a theorem, see 5.

## 3. Modules and how they correspond to the code

**`DoubleRatchet`** — libsignal as far as key use goes (external). A state is a
handshake, the number of sending keys used, and the set of incoming keys
consumed. `UsableKeys` are the keys an engine over that state can derive.

**`RatchetState`** — one IndexedDB transaction is one step. `LoadStatus` follows
`loadRatchetState` check by check; `CanPrepare` / `Sealed` are phase 1 of
`commitRatchetState`, `CasHolds` / `Put` phase 2, which compares the stored bytes
(here: envelopes, told apart by their random IV) and the mark with what phase 1
read. `CanEstablish`, `Established`, `AdoptHolds` are `adoptNewSession`,
`DeleteSession` is `deleteRatchetSession`, which removes the mark as well.
Revisions end at `MaxRevision`, standing for 2^64 − 1; `CanIncrement` is
`incrementRevision`'s refusal.

**`RatchetSession`** — clients (tabs) run `Load`, `Prepare`, `Commit`,
`Externalise`, and the establishment of either side, with a step boundary at
every `await` and `Crash` possible at each. `Serialised` says whether the session
manager's Web Lock surrounds the attempt: with it the sequencer runs as in the
app, without it only the compare-and-swap protects the store, which is what
`docs/e2ee-crash-rollback-hardening.md` claims suffices. `StorageFault` loses the
record, restores an older one, garbles the mark or evicts the key.

**`KeyLedger`** — the promise without storage: each handshake is a chain of
states, taking a key advances the chain first, and a taken key is let out once or
never. `RatchetSession` maps to it by the latest envelope committed for each
handshake, the outcomes of attempts between commit and release, and the released
keys (`KeepsLedger`).

**`MessageInbox`** — one direction of a conversation: sender's counter and chain,
rows on the server, and per receiving tab `LookUp` (cache or decrypt), `Admit` /
`Refuse` (counter check under the lock), `Open`, `SaveUsage`, `Evict`, `SettleCounter`,
then outside the lock `Remember` and `Persist`, which replaces the sealed record by the
tab's whole map. `disk` is what the device store says of the handshakes: which are
in the Kyber usage record, and which have lost their one-time keys. `copy` is the same
of each tab's device, read from the store by `Hydrate` and, after a reset, by the
resetting tab alone. An establishment changes the copy of its own tab (`Open`), then
replaces the usage record by that copy's (`SaveUsage`) and removes the keys (`Evict`);
a handshake that names only the last-resort key (`Depleted`) has none to remove.
`Restart` is a closed or killed tab, `LoadFails` a cache record
that could not be read (also the failed warm start of Home), `ResetPeer` and
`ResetDevice` the two resets.

**`DeviceKeys`** — `disk` is the device store, `server` the key tables, `device` the
hydrated copy in memory. The manager works under the lock, so it is at one place,
`pc`, in one operation, `op`, with a step per durable write and per request:
`initializeLocked` with its legacy migration, rotation and pools, the five
`Requests` of `publishDeviceMaterial`, refill and rotation on their own, the
receipt of an establishing message with the removal of its keys, `ResetDevice`.
Peers claim `Bundle`, which is `claim_prekey_bundle` as one transaction, between
any two of them. `Crash` may take the tab and `PublishFails` a request, anywhere.

**`Connections`** — the row of one pair, `blocks`, and calls that run as
READ COMMITTED transactions: `pc` is the query a call runs next, `rowLock` the lock
of the row an UPDATE takes, `PairLocked` the advisory lock of
`send_connection_request`. `GuardRefuses` is `guard_blocked_connection_write`,
`MayAnswer` `guard_connection_update`, `PostGuard` `guard_message_insert`. `consent`
and `shut` are history: whose last word was yes, who declined with a block.

**`ChatTimeline`** — one open chat. A message is its number, a row whether it is
deleted for everyone. `LoadPeer` / `LoadPage` / `LoadCommit` is the load effect,
`StartOlder` / `OlderPage` / `OlderCommit` is `loadOlder` with its latch,
`Deliver` a realtime event, held back by `captureRealtimeRow` and
`pendingOlderRef` while a page is in flight. `missed` are changes no event carried:
the channel was off or joining. `mergeLoadedPage` says what the merge of a page and
its events amounts to; `MergeAssumption` of `MCChatTimeline` compares it with the code's
loop over the events, for all pages and buffers of the instance.

**`ChatDisplay`** — the display effect: `walk` is the running one, `stale` those
replaced that still await something. `Advance` / `CacheRead` / `Decrypt` / `Store` /
`Show` are its awaits, with the cache look-up the code makes twice. `Reopen` is a
new instance of Chat (`App.tsx:133` keys it), `EngineReady` and `EngineFails` the
provider, `SendAnswered` and `SendShown` the end of `handleSend`.

**`HomeReconcile`** — `LoadRows` … `Commit` are the four reads of a full load,
`fetchConnection`, `fetchLastMessage`, `fetchChatDeletion` and `fetchUnread` the
reads of a reconciliation pass. The deletion windows are read in one step and stored
in `deletionsRef` in a later one (`StoreWindows`, `storeChatDeletion`), by superseded
loads too and with no look at what was stored meanwhile. `Apply` is the end of a pass with the rerun, the final pass and
the overflow of `createReconcileScheduler`; `Deliver` is the realtime bridge over a
mirror that `Render` refreshes. Requests fail, the network goes away, the user
reloads. `owed` and `slips` are history, see 4.

**`EngineLifecycle`** — the user of `AuthContext`, and the effect of `E2EEProvider`:
`RunEffect` is one run with the cleanup of the one before it, some time after the
user or the attempt changed. `managers` are session managers that initialise or are
in use (`seat` is `sessionRef`); `LoadIdentity` and `Publish` are `initialize` under
the lock, `Seated` and `Failed` the continuation with its `active` check. `AskReset`,
`Wipe`, `EndReset` are `resetDeviceState`. `Forget` is `resetInMemoryCaches`;
`StartLoad` / `FinishLoad`, `Snapshot` / `PutCache` are the hydration and the write
queue of the sealed cache, where `stale` ones began before the last release.
`Begin`, `Check`, `Engine`, `Keep` are a decrypt or a send. `locks` is the Web Lock
of each user as a queue.

**`Outbox`** — `record` is the sealed list. `EnqueueLoad` / `EnqueueStore`,
`DrainAnswered` / `DrainRemove` and `DrainFailed` / `DrainNote` are the halves of
the three read-change-write operations, `DirectPrepare` / `DirectPost` the sends
of `handleSend` while the status is online. `Effect` is a run of the React effect: it
cancels the drain under way and starts one in a free slot; a cancelled drain goes
on with what it awaits and stops at the next check (`live`). `shown` is the status
the last render saw, `Status` the current one, so a status may come and go
unseen. `OtherRequest` is every other user of the connectivity signal. `Finish`
keeps the unconditional `reportNetworkSuccess()` of the drain's end. `Reads` and
`Stores` fail like the code: an unreadable record is an empty one.

The modules `MC...` hold model values, starts and symmetry sets; a run without one
checks the module itself. Operators marked "Mutant" are plausible bugs; no
specification uses them.

## 4. Runs

| Run | Instance | Properties |
|---|---|---|
| `ratchet_cas` | 2 tabs, no lock, any 1 storage fault, no reset | `ReleasedIsSpent`, `LinearHistory`, `NeverOlder`, `KeepsLedger`: the compare-and-swap alone keeps keys single-use |
| `ratchet_locked` | 2 tabs, lock, 2 resets | `KeyReleasedOnce` survives the deletion of the mark |
| `inbox_one_tab` | 1 warm tab, 3 counters, 2 handshakes, 1 mishap, both resets, an unreadable record | `CounterFollowsChain`, `InOrderNeverRefused`, `OneLossPerMishap` |
| `inbox_two_tabs` | 2 cold tabs, 2 counters, 2 handshakes (one without one-time keys), 1 mishap, 1 session reset | `SpentStaysSpent`: a consumed handshake comes back only where nobody could know; `OneLossPerMishap` over two maps and one record |
| `chat_timeline` | pages of 1 row, 3 rows at the start, up to 4, 2 deletions, 1 outage, 1 failure | `SettledIsTrue` when nothing is under way; `NoResurrection` of a delivered deletion |
| `connections` | 2 calls in flight, 4 row ids, no bound on their number | `NothingPastABlock`, `DeclinedAndBlockedStays`, `AcceptedByBoth`, `RequestsDoNotCollide` |
| `conn_consent` | the same | **violation** of `ConsentKept`, see below |
| `device_keys` | 2 peers, pools of 2 and 1, 1 reset, 2 rotations, 2 claims, 1 mishap; new and legacy devices | `ClaimCompletes`, `PublishedCompletely`, `PublishedIsServed`, `NoKeyHandedTwice` |
| `chat_display` | 2 incoming messages, 1 own, 2 visits, 1 mishap | `PendingIsTransient`, `NoticeIsTrue` |
| `home_list` | 2 conversations (one asked for, one absent; or one listed, one ended), 2 loads, 2 passes, 2 messages, 3 changes, or 2 and 1 mishap, which may be an outage | `SettledIsTrue`, `UnreadIsExact` |
| `outbox` | fair; 2 messages, sent directly or queued, 2 drains, any 2 mishaps | `NoneLost`, `SentOncePerDoubt`, `StrictFifo`, and that the queue empties (`QueueDrains`) |
| `engine_lifecycle` | fair; 2 accounts, 2 sign-ins, 2 managers, 2 calls, 1 mishap | `SessionIsolated`, `HistorySurvives`, and that initialisation ends (`EngineSettles`) |

Each run but `conn_consent` also checks the `TypeOK` of its module once (`HomeTypeOK` on
Home; `ratchet_cas` and `inbox_one_tab` for both runs of theirs).

**Excuses.** Several guarantees of this code hold only up to causes it accepts, or
overlooks. A property that ignored them would be false, one that exempted whole
kinds of behaviour would be empty. So the models carry history variables that
name the cause where it bites, and properties are exact otherwise: `missed` in the
timeline, `untold`, `old` and `overwritten` in the inbox, `owed` and `slips` on Home, `lost`, `twice`, `failed`, `abandoned` in the
display, `torn` and `leaky` in the contexts, `raced`, `unreadable`, `doubtful`, `late`
and `stopped` in `Outbox`. A mutant that adds one more cause is found.

Two of them need a word. *Inbox*: a consumed handshake may establish again only in a
tab whose copy was hydrated before another tab consumed it (`old`), or where the store
does not know (`untold`: a crash right after the adoption, a handshake accepted on a
live session, or a usage record replaced by that of a tab that had not seen it). A row
is `overwritten` when the record is replaced by a tab whose map is `behind`: cold, from
a failed load, after a device reset, or older than another tab's write. A tab
that has read the record since it started or reset the device is not behind until
another tab writes. *Home*: `owed` takes in a
conversation whose window was right when an older answer replaced it (`Outrun`), unless an
event is yet to tell of it; with that excuse taken away TLC finds the run, also with two
loads only.

**Bounds, and why they suffice.** Two tabs are enough for each race of a
compare-and-swap or a map snapshot: a third repeats the role of the second.
`MaxFresh = 7` allows several establishments and commits, `MaxRevision = 4` lets a
session reach its ceiling. Three counters give an early, a late and a lost
message. Pages of one row make each page boundary one of the list, and four rows
give a page behind the first load. A device reset is left to the run of one tab:
the runs of two would not end in minutes with it (with one counter they do, and
pass), and the theorems on `SpentStaysSpent` and `OneLossPerMishap` hold with it for
any number of tabs. Two calls on one row and pair are every
conflict of two transactions, and `ConnectionsProofs` removes that bound. Pools of
two and one run empty within two claims, and two rotations retire a key. Two
messages give an order to violate, two drains a cancelled and a live one. Two
sign-ins are a switch of accounts; with one call the instance also passes with two
mishaps. On Home `DrainCap = 1` overflows
with the second request. Deadlock is not checked: all bounds may be used up.

**Fairness.** Only the `FairSpec` of `Outbox` and `EngineLifecycle` have any. IndexedDB
and network requests settle, so the continuation after an `await` runs
(`EnqueueStore`, `DrainStep`; `ManagerStep`, `CallStep`, `ResetStep`); React renders
and runs effects after a state change (`Rerender`, `RunEffect`). Users, the browser
and faults owe nothing. `QueueDrains` is conditional on staying online with the
chat open, `EngineSettles` on the user staying.

### Divergences

`conn_consent` is a bug in the code: `send_connection_request` reads the row
without locking it and later updates it by id. When the requester sends a pending
request again while the peer accepts it, an accepted connection turns back into a
pending one, although 0008:325 says "consent states must not be downgraded".

The models also contain these disagreements between code and comments or
documents; the properties are stated so that they hold beside them.

* `deleteRatchetSession` removes the high-water mark, so versions repeat, and without
  the lock an attempt of the old session passes the compare-and-swap of the new one
  (`ratchet-state.ts:735-736` "no stale pair can ever compare as current";
  `e2ee-crash-rollback-hardening.md:464-468` calls the lock an optimisation).
* A whisper looked at after a later one is refused unread (`session-manager.ts:489`);
  `e2ee-session-architecture.md:757-758` requires that it decrypts.
* The inbound mark is saved before the decrypt (`session-manager.ts:481`), while
  `seq-counter.ts:33-34, 82` calls it the highest counter decrypted.
* After a device reset the next cache write replaces the sealed history
  (`message-cache.ts:443-456, 365-379`); `session-manager.ts:636-637` says it is kept.
  A tab whose one load of the record failed does the same, and of two tabs each drops
  what the other has sealed since it loaded.
* One-time keys and usage marks are consumed in the copy of one tab. Another tab that was
  hydrated earlier still accepts the handshake once the session is reset, and when it
  saves its own usage record it drops the marks of the first; `session-manager.ts:1012-1015`
  says a consumed key is "never re-imported on reload". A PreKey message on a live session
  does not reach the store at all (`:505`, against `e2ee-engine-decision.md:737`), and
  adoption and tombstones are separate writes (against `:593` there, "atomically").
* `deletionsRef` takes the answer that arrives last, not the one that was read last
  (`Home.tsx:293-297, 490-495`), so an acceptance may list a conversation that another
  device has just hidden, until the next load; `homeRealtime.ts:505` says a stale
  snapshot "can never overwrite newer realtime state".
* Two overlapping changes of the outbox lose a message (`outbox.ts:77-123`, against
  `:5` and `:31-32`); a failed drain reports success and restarts itself
  (`useOutbox.ts:134`, against `outbox.ts:9-11, 28-29`). A message sent while online
  overtakes those still queued (`Chat.tsx:1027`), so the order of the queue is one
  among queued messages only.
* The composer clears its box after `onSend` returns (`MessageComposer.tsx:48-56`):
  what was typed meanwhile goes with it, and a second submit sends the text again.
* Keys saved by `generatePools` before a crash are never published
  (`session-manager.ts:349-376`, against `:1125-1126`). Unclaimed one-time rows of an
  identity that was reset stay claimable, though `prekeys-api.ts:29-30` says the
  caller deletes them; when the deactivation of the old identity is lost as well,
  its signed prekey is served next to the new identity.
* A rotation whose publication fails after its first row leaves a running device
  without the key that is served. The refill counts local keys, so claims nobody
  uses drain the server's pool. A crash between identity and registration id makes
  every later start fail until the device is reset.
* Realtime DELETE and UPDATE events of conversations that are not rendered are
  dropped before `noteEvent` (`homeRealtime.ts:261-267`), so a full load in flight
  does not see that its snapshot has been overtaken; the final pass of the scheduler
  applies a snapshot it knows was raced, though `:505` says a stale snapshot
  "can never overwrite newer realtime state". After an outage the old scheduler is
  forgotten, not stopped (`Home.tsx:678-681`), so two reconciliations of a conversation
  do run in parallel, against `homeRealtime.ts:525`, and the badge can be off.
* A failed `getConnection` counts as a deleted conversation and removes its row
  until the next load; a failed count shows 0.
* A replaced display walk drops the notice it comes back with, and the new walk skips
  its message: the bubble stays "decrypting", which `chatDisplay.ts:15-18` calls
  transient. A chat opened twice decrypts a message twice, and the second one fails
  and is shown as undecryptable though the text gets cached (`Chat.tsx:650-651`). An
  own send answered after the chat was left is not cached (`Chat.tsx:1097`, against
  `:1103-1106`) and is unreadable from then on.
* An older page in flight over a reload leaves a gap in the list, or brings a
  deletion back to life; one that commits while the list is hidden leaves the latch
  closed. Both are named causes of `ChatTimeline`.
* A sign-out while the engine initialises or after it failed does not release the
  in-memory caches (`E2EEContext.tsx:52-62` "released whenever the session ends"). A
  decrypt in flight at a sign-out writes a map of one message over the sealed
  cache. A chat opened by its URL whose first act is a send does the same.
* `acceptConnection` of a row that is gone reports success; a cancellation racing a
  repeated request returns the id of a deleted row; a plain block does not wait for
  writes whose trigger ran before it; a pending request of a deleted account can be
  accepted.

## 5. Proofs

Eight modules hold theorems. All are for every value of the constants that
satisfies the named assumptions; an assumption in a table is a hypothesis of the
theorem, and the text under the table says why it is there. Each inductive invariant
was first checked by TLC on the instance of its run.

### `RatchetSessionProofs`

For any number of clients, any set and number of storage faults, any bounds, with
or without the lock:

| Theorem | Statement | Assumes |
|---|---|---|
| `TypeCorrect` | `Spec => []TypeOK` | — |
| `KeysReleasedOnce` | `Spec => []KeyReleasedOnce` | `MaxResets = 0` |
| `ReleasedAreSpent` | `Spec => []ReleasedIsSpent` | `MaxResets = 0` |
| `HistoryIsLinear` | `Spec => []LinearHistory` | `MaxResets = 0` |
| `StalePairsRefused` | `Spec => []NoStalePair` | `MaxResets = 0` |
| `StateNeverOlder` | `Spec => NeverOlder` | `MaxResets = 0` |

`MaxResets = 0` is needed: `NoStalePair` fails once sessions are deleted
without the lock, see the first divergence.

*Argument.* `TypeOK` is not inductive alone, because an attempt's `work` may
hold `None`: `AttemptTyped` ties it to the attempt's `pc`. The
safety theorems follow from one inductive invariant `IInv`:

* `StoreInv`: the stored envelope was committed and the mark bounds all commits
  (`MarkInv`), an epoch is one handshake (`EpochInv`), along an epoch revisions
  identify envelopes and only spend more keys (`ChainInv`), sessions are fresh
  (`FreshInv`);
* `WorkInv(c)`, by the stage of `c`'s attempt: what was loaded had been committed
  and its key was usable there, what is sealed is its one-key successor, what is
  committed is the *first* envelope of its epoch with the key spent;
* `ReleasedInv`: each released key has such a first envelope, made by its attempt.

Two attempts with one key would have two first envelopes at possibly different
revisions; `ChainInv` makes them equal, and their IV is the attempt. The step that
earns it is `CommitInv`: the compare-and-swap succeeds only over the envelope
loaded, since the mark is above all others. `PutGrew`, `WorkStable` and
`ReleasedStays` carry the other clients' facts over a commit.

*Constant assumptions.* Bounds are natural numbers, `MaxRevision` is positive,
`None` is not an envelope.

The second half of the module is about the abstract ledger:

| Theorem | Statement | Assumes |
|---|---|---|
| `LedgerKept` | `KeepsLedger => []Ledger!LedgerInv` | — |
| `LedgerLetsOutOnce` | `KeepsLedger => []Ledger!LetOutOnce` | — |
| `LedgerImplemented` | `Spec => KeepsLedger` | `MaxResets = 0` |
| `LockedInductive` | `Spec => []LockedInv` | lock, no `"restored"` fault |
| `LedgerImplementedUnderLock` | `Spec => KeepsLedger` | the same |
| `KeysReleasedOnceUnderLock` | `Spec => []KeyReleasedOnce` | the same |
| `ReleasedAreSpentUnderLock` | `Spec => []ReleasedIsSpent` | the same |
| `HistoryIsLinearUnderLock` | `Spec => []LinearHistory` | the same |
| `StalePairsRefusedUnderLock` | `Spec => []NoStalePair` | the same |
| `StateNeverOlderUnderLock` | `Spec => NeverOlder` | the same |

The first two say what keeping the ledger is worth: no key is let out twice. The
compare-and-swap alone implements the ledger as long as no session is
deleted, and the Web Lock does through any number of deletions, for any number of
tabs, crashes, lost records, garbled marks and evicted keys. The fault left out is
real: TLC finds that a session which is deleted (with its mark) and established
again, whose old record then comes back, loads as VALID at the old state and
releases a key a second time.

*Argument.* The refinement maps a commit to taking a key and needs `LedgerReady`:
one envelope per handshake and revision (`OneLine`), a swap that would pass takes an
unused key of the *last* envelope of its handshake (`CommitsExtend`), and handshakes
under way are new. Without the lock these follow from `IInv`. With it, and
deletions, `IInv` is false (marks start over), so `LockedInv` argues otherwise: one
attempt at a time, the stored envelope is the last of its handshake, and it is
either still what the attempt loaded or gone.

### `MessageInboxProofs`

| Theorem | Statement | Assumes |
|---|---|---|
| `InboxTypeCorrect` | `Spec => []TypeOK` | — |
| `CountersFollowChains` | `Spec => []CounterFollowsChain` | — |
| `SpentHandshakesStaySpent` | `Spec => SpentStaysSpent` | — |
| `OrderNeverRefused` | `Spec => []InOrderNeverRefused` | one tab |
| `LossesBounded` | `Spec => []OneLossPerMishap` | — |

`OneTab` for the order of rows: two tabs that each go through the rows in order do not
together. Nothing else is assumed: any number of tabs, warm or cold, unreadable records,
resets of session and device.

*Argument.* `RowsBehind`: all rows lie behind the sender's counter, handshake and chain.
`CacheInv`: a tab that is not behind has all of the record in its map
(`MapHoldsRecord`), so a write of it loses nothing; a write of one that is behind
charges what it drops to `overwritten`, and what else is neither stored, in a map, nor
on its way was lost to a mishap of its own (`LossesCounted`).
`DeviceInv`: of a consumed handshake the store knows, unless it was not told
(`StoreKnows`) or the tab that consumed it has yet to tell it, and that tab's copy
holds the mark (`MarksHeld`); each copy knows what the store knew when it was hydrated
and what its tab has consumed since (`Aware`), so a handshake it still accepts is new to
everybody, or consumed elsewhere since, or never told. `InOrder`: while rows were tried
in order, the high-water mark is at most the newest opened row or the row just admitted,
and the row under way is newer than both.

### `EngineLifecycleProofs`

| Theorem | Statement |
|---|---|
| `LifecycleInductive` | `Spec => []LifecycleInv` |
| `LifecycleTypeCorrect` | `Spec => []TypeOK` |
| `SessionsIsolated` | `Spec => []SessionIsolated` |
| `HistoriesSurvive` | `Spec => []HistorySurvives` |

*Argument.* The lock of a user is a queue of distinct waiters, and whoever publishes,
decrypts or wipes is at its head (`Holding`). At most one manager stands, for the
user of the last effect run (`Standing`), on the stored identity unless another run
is owed (`Identified`). Of every other user there is no plaintext and nothing under
way that could bring any (`OthersClean`). For users whose memory was released with
nothing under way, one write at a time is sealed, it has all that the cache has, and
what is only in memory has a write to come (`WritesInTurn`): this is what makes a
row that the ratchet has spent survive. `SlotsAssumption`: managers, calls and the
reset are told apart.

### `DeviceKeysProofs`

| Theorem | Statement |
|---|---|
| `DeviceInductive` | `Spec => []DeviceInv` |
| `DeviceTypeCorrect` | `Spec => []TypeOK` |
| `ClaimsComplete` | `Spec => []ClaimCompletes` |
| `PublishedWhole` | `Spec => []PublishedCompletely` |
| `PublishedServed` | `Spec => []PublishedIsServed` |
| `NoKeyTwice` | `Spec => []NoKeyHandedTwice` |

For any pools, thresholds, retention, number of peers, resets, rotations and mishaps.

*Argument.* `DeviceInv` is `Typed` (ids are unique within a kind) with: how far an
initialisation or rotation has come (`Progress`); the promises of the store, that
published signed prekeys stay stored while within the retention (`SpksPromised`) and
the last-resort key is the published one (`LastResortKept`); the life of one-time
keys (`OneTimeInv`): a key that was handed out is claimed on the server, never in
the cached material, and the private half of a key that is held or can still be
claimed is stored; `FilledInv`, stored keys are in the material or newer than it; and
`ServedInv`, the served row is active and born last. None of the promised properties
is inductive without the ones before it: a claim completes only because the *cache*
publications are made of held no key that was already given away or used up.

### `OutboxProofs`

| Theorem | Statement |
|---|---|
| `OutboxInductive` | `Spec => []OutboxInv` |
| `OutboxTypeCorrect` | `Spec => []TypeOK` |
| `QueueLosesNothing` | `Spec => []NoneLost` |
| `DuplicatesAreDoubts` | `Spec => []SentOncePerDoubt` |
| `QueueInOrder` | `Spec => []StrictFifo` |

For any number of messages, drains in flight and mishaps.

*Argument.* Every list (record, copies, what a drain still sends) names accepted
messages, each once (`QueuesKept`, unconditionally; it is also why removing the
first entry of an id removes the message). What a drain was answered for is on the
server (`Delivered`), so a removal loses nothing. Duplicates are counted: a message is
`Clean` when it was sent and no live drain will send it again. `Counted` says that
rows, and the sends still `Pending` in cancelled drains, do not exceed clean messages
and doubts. At most one drain is live (`OneLive`), so each send makes a new message
clean, uses up a pending send or is a doubt, and a cancellation that makes a send
pending, or a clean message unclean, is a doubt too. The order needs no excuse at
all, as every list is a copy of some earlier record: `TurnsKept` says that what was
accepted before an element of a list stands before it there or has a row already, so
whichever drain posts next, in turn or out of a copy long overtaken, posts nothing
ahead of its turn. No theorem has a hypothesis on the constants; `Undisturbed` is part
of the properties, see Excuses.

### `ChatTimelineProofs`

| Theorem | Statement |
|---|---|
| `TimelineInductive` | `Spec => []TimelineInv` |
| `TimelineTypeCorrect` | `Spec => []TypeOK` |
| `SettledListIsTrue` | `Spec => []SettledIsTrue` |
| `NoDeletionUndone` | `Spec => []NoResurrection` |

For any page size, number of messages, deletions, outages and failures.

*Argument.* A page is a snapshot, and what it does not show is on its way: `PageKept`
says of a page in flight that each change it has not seen is in the buffer of its
load, still to be delivered, or missed; `OlderKept` the same of an older page and its
own buffer; `ListKept` of the list itself. `EventsKept` and `EventsOrdered` make the
feed complete and in order, so that merging a page with its buffer (`mergeLoadedPage`)
gives a list that again lacks only what is in the feed. `RowsExact` says that rows are
numbered as they are created and `OpenedWith` how far down a list reaches.
`TimelineAssumption`: the constants are natural numbers, pages are not empty, the
conversation the chat opens with is within the bound, and the list stays
within one older page of the first load (see 6).

### `ChatDisplayProofs`

| Theorem | Statement |
|---|---|
| `DisplayInductive` | `Spec => []DisplayInv` |
| `DisplayTypeCorrect` | `Spec => []TypeOK` |
| `PendingGoes` | `Spec => []PendingIsTransient` |
| `NoticesAreTrue` | `Spec => []NoticeIsTrue` |

For any messages, sends, visits and mishaps.

*Argument.* An instance of the chat asks for a decrypt once, so no two walks of it
decrypt one message, and one that an earlier instance has under way is a known cause
(`DecryptsClaimed`). What the ratchet has spent is in the sealed cache or about to be
stored by a walk (`SpentIsStored`), so the running walk is refused only what happens
twice (`RefusedTwice`); with `OwnKept` for own messages a notice is then true
(`NoticeKept`). `AskedHasOutcome` and `WalkedHasOutcome` follow a message from the
moment the effect comes by: it is ahead of the walk, in its hands, has its text or its
notice, or is due to a named cause. `PendingIsTransient` alone is not inductive,
because a walk that ends forgets what it did. `DisplayAssumption`:
messages are numbered, finitely many, and the bounds are numbers.

### `ConnectionsProofs`

For two users and any number of transactions in flight:

| Theorem | Statement |
|---|---|
| `TypeCorrect` | `Spec => []TypeOK` |
| `RequestsNeverCollide` | `Spec => []RequestsDoNotCollide` |
| `BlocksHold` | `Spec => []NothingPastABlock` |
| `DeclineStands` | `Spec => []DeclinedAndBlockedStays` |
| `AcceptanceIsMutual` | `Spec => []AcceptedByBoth` |

*Argument.* All five follow from one inductive invariant, whose parts are the
reasons the SQL has for being correct:

* `PairInv`: the advisory lock of the pair lets one request past its read, and
  nobody else makes a row or turns it around meanwhile. Hence no request meets the
  unique index.
* `LockInv`: who is about to commit an update holds the row's lock and still
  finds what its trigger has read. Without it an acceptance could land on a row that
  another request has replaced.
* `ConsentInv`: a pending request is the word of its sender. With `LockInv`, the
  acceptance adds the word of the other.
* `BarInv`: a call that began under a block is `barred` as long as a block stands, and
  a barred request has not passed its check; the guards stop the others when they
  write.
* `ShutInv`: after a decline with a block the pair stays blocked, and no request
  or acceptance is about to commit. It is not enough that the row is declined: a
  request that had read it earlier would open it again.

*Constant assumptions.* `PairAssumption`: the two users differ and are not
`NOBODY`. `RowIdsAssumption`: ids are positive, the calls are finitely many, and
there are enough ids that one is free whenever a row is inserted (`FreshExists`, a
count of the ids in use), standing for the fresh UUIDs of the database.

The second part of the module is about `HomeReconcile`, the list that shows these
connections:

| Theorem | Statement |
|---|---|
| `HomeTypeCorrect` | `HomeSpec => []HomeTypeOK` |
| `ListSettlesTrue` | `HomeSpec => []SettledIsTrue` |
| `BadgeSettlesExact` | `HomeSpec => []UnreadIsExact` |

For any conversations, slots for loads, passes, messages, changes, outages and mishaps.

*Argument.* Neither property says anything while something is under way, so the
inductive invariant `HomeInv` says for each thing under way what it is worth.
`FeedKept`: an event tells what is still so, or a later one of the conversation
follows, in order. An answer is *right* when it is what the server holds, or when an event
yet to come will put it right (`RowReads`, `WinReads`, `LastReads`; `Fitting` for an
entry of the list). Then `LoadKept` says that what the newest load has read is right,
unless the conversation was noted (`pending`) or has lapsed; `CycleKept` the same of a
pass that was not raced; and `ViewKept` of the entry itself, while no load and no pass
is to write it. When nothing is under way, no event is to come and right means
equal. The badge needs one more idea: with an event still to come, the exact count is
not the server's, but the count that the event will complete. `Badge(c)[j]` is the
number of unread messages without those after `j` whose insert is yet to come, and loads,
passes and entries keep their count equal to it at their own newest message
(`PassCounted`, `Exact`). An answer about windows that is read but
not stored yet reaches the entries of all conversations when it is stored: those whose
window it takes from right to wrong lapse and are owed (`Store`), the others keep a
window that is right (`StoredWindow`), and `CarriedKept` says that it hides nothing of
a conversation that is not there. `GatesKept`: conversations are pending only while a load is
in flight, which will drain them. `HiddenKept`: an entry that is not shown keeps no remainder.

*Constant assumptions.* `HomeBoundsAssumption`: the bounds are numbers, and there is a slot.
`StartsAssumption`: what the server holds when Home mounts is `Possible`: a pending row
has no messages, and a window hides only messages that exist (see 6 for what this leaves
out).

### Only model-checked

* Liveness (`QueueDrains`, `EngineSettles`): fairness and `ENABLED` are beyond the proof
  system.
* `MergeAssumption`: the code's loop over the events of a page is recursion over data,
  beyond the provers; TLC compares it with the closed form.

## 6. Not modelled

* **Peer trust.** It changes one record per peer under the session's lock; whether a
  changed key is noticed depends on the engine's identity store in memory, which is
  external: the property would be assumed, not checked.
* **Offline snapshots.** Best-effort read caches; nothing reads them for a decision.
* **`RatchetState`.** Schema upgrades, blocked opens, account wipe.
* **`MessageInbox`.** v1 envelopes without counter, malformed counters, the
  localStorage migration of the cache, the steps within a device reset, pool keys that
  are refilled after a tab was hydrated (it refuses handshakes that name them).
* **`Outbox`.** Two tabs or several conversations on one record, single unreadable
  entries, a second submit of one text while the first is awaited.
* **`DeviceKeys`.** The blocked check of a claim, a second tab's hydrated copy.
  `rotateSignedPreKey()` has no caller but tests.
* **`Connections`.** Client pre-checks and the fallback for old databases, profiles and
  name changes, the self-row of My Notes, the guard of message updates, the policy
  for direct inserts, the views of the clients.
* **`ChatTimeline`.** The cut-off of deleted conversations, messages deleted for me, the
  badge, read state, scrolling, opening from an offline snapshot, the one-commit lag
  of its mirror, rows whose `created_at` is out of order. `ASSUME` keeps
  the list within one older page of the first load, which excludes a hole in an older page.
* **`ChatDisplay`.** My Notes and legacy rows, failed loads, older pages; device
  reset and switch of users are `EngineLifecycle`'s, crashes between engine and
  cache `MessageInbox`'s, channel delays `ChatTimeline`'s.
* **`HomeReconcile`.** Profiles, messages deleted for me, opening from a snapshot, a
  switch of users, reads on other devices, a pass that throws (its requests return
  their errors), and a row that ended, was declined or expired
  and is asked for again with the messages it had. That the event gate reopens is liveness
  over a space too large here.
* **`EngineLifecycle`.** One tab. A reset or retry is clicked only once the effect
  has run; the first user is fixed, users being interchangeable; the writes of one
  user from before a release share one queue. `deleteAccount`, which signs out
  whoever is signed in when it ends, and `loadProfile`, whose late answer is not
  checked against the user, are left out, as are OTP and the recovery session.
* **Cryptography.** Encryption authenticates and is unique per IV; the engine derives
  each key once. Primitives and the E2EE-1 prekeys are data, not control.
* **I/O, rendering, formatting, SQL for profiles, the e-mail function.** No control
  worth a model, or out of reach. Most of the client's lines are of this kind.
