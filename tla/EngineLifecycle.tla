---------------------------- MODULE EngineLifecycle ----------------------------
(***************************************************************************)
(* The life of the encryption engine and of the plaintext in memory over   *)
(* sign-in, sign-out, account switch, retry and device reset: the provider *)
(* of context/E2EEContext.tsx, the Web Lock of the session manager, the    *)
(* hydration, release and write queue of lib/e2ee/message-cache.ts, and    *)
(* the user of context/AuthContext.tsx. One tab, one browser profile,      *)
(* several accounts one after the other.                                   *)
(*                                                                         *)
(* The provider's effect runs some time after the user or the attempt has  *)
(* changed. It destroys the session manager in use and releases the memory *)
(* of its user; whatever was awaited before goes on: an initialisation     *)
(* nobody waits for any more, a decrypt whose engine may be gone, a cache  *)
(* write. A message is one row; how keys survive crashes is MessageInbox,  *)
(* how they are made and published is DeviceKeys.                          *)
(***************************************************************************)
EXTENDS Naturals, Sequences, FiniteSets, SequencesExt

CONSTANTS
  Users, NOBODY,
  Incoming, Own,  \* rows to decrypt, and rows to send
  Managers,       \* slots for session managers, initialising or in use
  Calls,          \* slots for decrypts and sends under way
  MaxSignIns,     \* bound: sign-ins
  MaxMishaps      \* bound: publications that fail, and vaults that break

ASSUME LifecycleAssumption ==
  /\ IsFiniteSet(Users) /\ NOBODY \notin Users
  /\ Incoming \cap Own = {}
  /\ MaxSignIns \in Nat /\ MaxMishaps \in Nat

\* A lock is queued for by managers, calls and the reset: they are told apart.
ASSUME SlotsAssumption ==
  /\ NOBODY \notin Managers
  /\ Managers \cap Calls = {} /\ "reset" \notin Managers \cup Calls

VARIABLES
  user,       \* the signed-in user, NOBODY if none
  effect,     \* the user of the effect's last run; owed: another attempt is due
  managers,   \* per slot the user, how far its initialisation is, whether the
              \* run of the effect that made it still stands, and its identity
  seat,       \* sessionRef: the slot of the manager in use, NOBODY if none
  status,     \* E2EEStatus; "local" and "other" are errors, by what is offered
  reset,      \* the device reset under way
  locks,      \* per user the Web Lock: its holder, then who waits
  vault,      \* per user what IndexedDB holds: identity, sessions, sealed cache;
              \* spent: rows that cannot be decrypted again
  memory,     \* per user the map, whether it exists and whether it is hydrated
  loading,    \* hydrations under way; stale: from before the last release
  calls,      \* decrypts and sends under way
  writes,     \* cache writes under way, likewise
  torn,       \* history: users whose memory was released, or written without
              \* having been hydrated, while a row was under way
  leaky,      \* history: users whose memory was last left, or released with a
              \* hydration or a row under way
  signIns, mishaps

deviceVars == <<seat, status, managers>>
cacheVars == <<memory, loading, writes>>
historyVars == <<torn, leaky>>
bounds == <<signIns, mishaps>>

vars == <<user, effect, deviceVars, reset, locks, vault, cacheVars, calls, historyVars, bounds>>

Rows == Incoming \cup Own

NoManager == [user |-> NOBODY, pc |-> "none", live |-> FALSE, ident |-> 0]
NoReset == [user |-> NOBODY, pc |-> "none"]
NoCall == [user |-> NOBODY, pc |-> "none", row |-> 0, manager |-> NOBODY]

Holds(u, x) == locks[u] # <<>> /\ Head(locks[u]) = x
Ask(u, x) == locks' = [locks EXCEPT ![u] = Append(@, x)]
Release(u) == locks' = [locks EXCEPT ![u] = Tail(@)]

Mishap == mishaps < MaxMishaps /\ mishaps' = mishaps + 1

-----------------------------------------------------------------------------
(* Accounts *)

SignIn(u) ==
  /\ user = NOBODY /\ signIns < MaxSignIns
  /\ signIns = 0 => u = CHOOSE v \in Users : TRUE    \* users are interchangeable
  /\ user' = u
  /\ signIns' = signIns + 1
  /\ UNCHANGED <<effect, deviceVars, reset, locks, vault, cacheVars, calls, historyVars, mishaps>>

SignOut ==
  /\ user # NOBODY
  /\ user' = NOBODY
  /\ UNCHANGED <<effect, deviceVars, reset, locks, vault, cacheVars, calls, historyVars, bounds>>

-----------------------------------------------------------------------------
(* The plaintext in memory *)

Rowing(u) == \E c \in Calls : calls[c].user = u
Writing(u) == \E w \in writes : w.user = u
Hydrating(u) == \E l \in loading : l.user = u

\* Mutant: the promise of the hydration is kept.
EmptyLoaded == [rows |-> {}, exists |-> FALSE, loaded |-> TRUE]

Empty == [rows |-> {}, exists |-> FALSE, loaded |-> FALSE]

Outdated(set, u) == {[x EXCEPT !.stale = @ \/ x.user = u] : x \in set}

\* resetInMemoryCaches: the map, its hydration and its write queue are forgotten.
Forget(u) ==
  /\ memory' = [memory EXCEPT ![u] = Empty]
  /\ loading' = Outdated(loading, u)
  /\ writes' = Outdated(writes, u)
  /\ torn' = IF Rowing(u) \/ Writing(u) THEN torn \cup {u} ELSE torn
  /\ leaky' = IF Rowing(u) \/ Hydrating(u) THEN leaky \cup {u} ELSE leaky \ {u}

\* ensureLoaded, by Home or by the first look-up of a chat.
StartLoad(u) ==
  LET load == [user |-> u, stale |-> FALSE]
  IN  /\ user = u /\ effect.user = u
      /\ ~memory[u].loaded /\ load \notin loading
      /\ loading' = loading \cup {load}
      /\ UNCHANGED <<user, effect, deviceVars, reset, locks, vault, memory, writes, calls,
                     historyVars, bounds>>

\* A hydration that began before a release fills the new map all the same.
FinishLoad(load) ==
  LET u == load.user
  IN  /\ loading' = loading \ {load}
      /\ memory' = [memory EXCEPT
           ![u].rows = @ \cup vault[u].cache, ![u].exists = TRUE,
           ![u].loaded = @ \/ ~load.stale]
      /\ UNCHANGED <<user, effect, deviceVars, reset, locks, vault, writes, calls, historyVars,
                     bounds>>

\* persistSnapshot: one write after the other, of the map as it then is.
Snapshot(w) ==
  /\ w.pc = "queued"
  /\ ~\E v \in writes : v.user = w.user /\ v.stale = w.stale /\ v.pc = "sealing"
  /\ writes' = (writes \ {w}) \cup
       (IF memory[w.user].exists
        THEN {[w EXCEPT !.pc = "sealing", !.rows = memory[w.user].rows]} ELSE {})
  /\ UNCHANGED <<user, effect, deviceVars, reset, locks, vault, memory, loading, calls,
                 historyVars, bounds>>

PutCache(w) ==
  /\ w.pc = "sealing"
  /\ vault' = [vault EXCEPT ![w.user].cache = w.rows]
  /\ writes' = writes \ {w}
  /\ UNCHANGED <<user, effect, deviceVars, reset, locks, memory, loading, calls, historyVars,
                 bounds>>

-----------------------------------------------------------------------------
(* The provider *)

Free == {m \in Managers : managers[m].pc = "none" /\ ~\E c \in Calls : calls[c].manager = m}

\* The managers once the effect is cleaned up: none stands, the one in use is destroyed.
Unseated ==
  [m \in Managers |-> IF m = seat THEN NoManager ELSE [managers[m] EXCEPT !.live = FALSE]]

(***************************************************************************)
(* The effect on the user and the attempt: it releases the session in use, *)
(* if there is one, and makes a manager that asks for the user's lock.     *)
(***************************************************************************)
RunEffect ==
  /\ user # effect.user \/ effect.owed
  /\ effect' = [user |-> user, owed |-> FALSE]
  /\ IF seat # NOBODY
     THEN Forget(managers[seat].user)
     ELSE /\ leaky' = IF user # effect.user THEN leaky \cup ({effect.user} \ {NOBODY}) ELSE leaky
          /\ UNCHANGED <<cacheVars, torn>>
  /\ seat' = NOBODY
  /\ status' = "initializing"
  /\ IF user = NOBODY
     THEN managers' = Unseated /\ UNCHANGED locks
     ELSE /\ Free # {}
          /\ LET m == CHOOSE f \in Free : TRUE IN
               /\ managers' = [Unseated EXCEPT ![m] =
                    [user |-> user, pc |-> "queued", live |-> TRUE, ident |-> 0]]
               /\ Ask(user, m)
  /\ UNCHANGED <<user, reset, vault, calls, bounds>>

\* initializeLocked up to the publication. A record of the device that can no
\* longer be read stays unreadable, and is an error of local state.
LoadIdentity(m) ==
  LET u == managers[m].user
      ident == IF vault[u].ident = 0 THEN 1 ELSE vault[u].ident
  IN  /\ managers[m].pc = "queued" /\ Holds(u, m)
      /\ \/ /\ IF vault[u].broken THEN UNCHANGED mishaps ELSE vault[u].ident # 0 /\ Mishap
            /\ managers' = [managers EXCEPT ![m].pc = "local"]
            /\ vault' = [vault EXCEPT ![u].broken = TRUE]
            /\ Release(u)
         \/ /\ ~vault[u].broken
            /\ managers' = [managers EXCEPT ![m].pc = "publishing", ![m].ident = ident]
            /\ vault' = [vault EXCEPT ![u].ident = ident]
            /\ UNCHANGED <<locks, mishaps>>
      /\ UNCHANGED <<user, effect, seat, status, reset, cacheVars, calls, historyVars, signIns>>

\* Mutant: a failed publication leaves the lock held.
PublishKeepsLock(m) ==
  /\ managers[m].pc = "publishing"
  /\ \/ /\ managers' = [managers EXCEPT ![m].pc = "up"]
        /\ Release(managers[m].user)
        /\ UNCHANGED mishaps
     \/ /\ Mishap
        /\ managers' = [managers EXCEPT ![m].pc = "other", ![m].ident = 0]
        /\ UNCHANGED locks
  /\ UNCHANGED <<user, effect, seat, status, reset, vault, cacheVars, calls, historyVars, signIns>>

Publish(m) ==
  /\ managers[m].pc = "publishing"
  /\ Release(managers[m].user)
  /\ \/ managers' = [managers EXCEPT ![m].pc = "up"] /\ UNCHANGED mishaps
     \/ Mishap /\ managers' = [managers EXCEPT ![m].pc = "other", ![m].ident = 0]
  /\ UNCHANGED <<user, effect, seat, status, reset, vault, cacheVars, calls, historyVars, signIns>>

\* Mutant: whoever finishes takes the seat.
SeatedAnyway(m) ==
  /\ managers[m].pc = "up"
  /\ seat' = m /\ status' = "ready"
  /\ managers' = [managers EXCEPT ![m].pc = "seated"]
  /\ UNCHANGED <<user, effect, reset, locks, vault, cacheVars, calls, historyVars, bounds>>

\* The continuation of initialize: a manager that no longer stands is destroyed.
Seated(m) ==
  /\ managers[m].pc = "up"
  /\ IF managers[m].live
     THEN /\ seat' = m /\ status' = "ready"
          /\ managers' = [managers EXCEPT ![m].pc = "seated"]
     ELSE managers' = [managers EXCEPT ![m] = NoManager] /\ UNCHANGED <<seat, status>>
  /\ UNCHANGED <<user, effect, reset, locks, vault, cacheVars, calls, historyVars, bounds>>

\* Mutant: a failure is not told from an initialisation that goes on.
FailedSilently(m) ==
  /\ managers[m].pc \in {"local", "other"}
  /\ managers' = [managers EXCEPT ![m] = NoManager]
  /\ UNCHANGED <<user, effect, seat, status, reset, locks, vault, cacheVars, calls, historyVars,
                 bounds>>

Failed(m) ==
  /\ managers[m].pc \in {"local", "other"}
  /\ status' = IF managers[m].live THEN managers[m].pc ELSE status
  /\ managers' = [managers EXCEPT ![m] = NoManager]
  /\ UNCHANGED <<user, effect, seat, reset, locks, vault, cacheVars, calls, historyVars, bounds>>

Retry ==
  /\ user # NOBODY /\ effect = [user |-> user, owed |-> FALSE]
  /\ status \in {"local", "other"}
  /\ effect' = [effect EXCEPT !.owed = TRUE]
  /\ UNCHANGED <<user, deviceVars, reset, locks, vault, cacheVars, calls, historyVars, bounds>>

\* resetDeviceState, by a manager of its own; offered for errors of local state.
AskReset ==
  /\ user # NOBODY /\ effect = [user |-> user, owed |-> FALSE]
  /\ status = "local" /\ reset = NoReset
  /\ reset' = [user |-> user, pc |-> "queued"]
  /\ Ask(user, "reset")
  /\ UNCHANGED <<user, effect, deviceVars, vault, cacheVars, calls, historyVars, bounds>>

\* resetDeviceIdentity: sessions and identity are wiped and an identity is made.
Wipe ==
  LET u == reset.user
  IN  /\ reset.pc = "queued" /\ Holds(u, "reset")
      /\ vault' = [vault EXCEPT ![u].ident = @ + 1, ![u].broken = FALSE, ![u].sessions = FALSE]
      /\ Forget(u)
      /\ reset' = [reset EXCEPT !.pc = "wiped"]
      /\ UNCHANGED <<user, effect, deviceVars, locks, calls, bounds>>

\* Published or not, another attempt follows, whoever is signed in by then.
EndReset ==
  /\ reset.pc = "wiped"
  /\ Release(reset.user)
  /\ reset' = NoReset
  /\ effect' = [effect EXCEPT !.owed = TRUE]
  /\ UNCHANGED <<user, deviceVars, vault, cacheVars, calls, historyVars, bounds>>

-----------------------------------------------------------------------------
(* Decrypts and sends *)

Idle == {c \in Calls : calls[c] = NoCall}

\* decryptForDisplay of a row that is not cached, or handleSend.
Begin(row) ==
  /\ Idle # {} /\ user # NOBODY
  /\ seat # NOBODY /\ managers[seat].user = user
  /\ row \in Incoming => memory[user].loaded /\ row \notin memory[user].rows
  /\ row \in Own => row \notin vault[user].spent
                    /\ ~\E d \in Calls : calls[d].user = user /\ calls[d].row = row
  /\ LET c == CHOOSE i \in Idle : TRUE IN
       /\ calls' = [calls EXCEPT ![c] =
            [user |-> user, pc |-> "asked", row |-> row, manager |-> seat]]
       /\ Ask(user, c)
  /\ UNCHANGED <<user, effect, deviceVars, reset, vault, cacheVars, historyVars, bounds>>

\* Under the lock the inbound mark moves first; a replay, or a row of a session
\* that was wiped, is refused.
Check(c) ==
  LET u == calls[c].user
      row == calls[c].row
  IN  /\ calls[c].pc = "asked" /\ Holds(u, c)
      /\ IF row \in Incoming /\ (row \in vault[u].spent \/ ~vault[u].sessions)
         THEN calls' = [calls EXCEPT ![c] = NoCall] /\ Release(u) /\ UNCHANGED vault
         ELSE /\ calls' = [calls EXCEPT ![c].pc = "checked"]
              /\ vault' = [vault EXCEPT ![u].spent =
                   IF row \in Incoming THEN @ \cup {row} ELSE @]
              /\ UNCHANGED locks
      /\ UNCHANGED <<user, effect, deviceVars, reset, cacheVars, historyVars, bounds>>

\* The engine of a manager that was destroyed meanwhile throws.
Engine(c) ==
  LET u == calls[c].user
  IN  /\ calls[c].pc = "checked"
      /\ Release(u)
      /\ IF managers[calls[c].manager].ident = 0
         THEN calls' = [calls EXCEPT ![c] = NoCall] /\ UNCHANGED vault
         ELSE /\ calls' = [calls EXCEPT ![c].pc = "done"]
              /\ vault' = [vault EXCEPT ![u].spent = @ \cup {calls[c].row}]
      /\ UNCHANGED <<user, effect, deviceVars, reset, cacheVars, historyVars, bounds>>

(***************************************************************************)
(* cachePlaintext sets the row in a map that need not be hydrated, and     *)
(* queues a write of the map. A send whose chat was left, as at every      *)
(* change of user, ends before that.                                       *)
(***************************************************************************)
Keep(c) ==
  LET u == calls[c].user
      own == calls[c].row \in Own
  IN  /\ calls[c].pc = "done"
      /\ calls' = [calls EXCEPT ![c] = NoCall]
      /\ \/ /\ own /\ (user # u \/ seat # calls[c].manager)
            /\ torn' = torn \cup {u}
            /\ UNCHANGED <<memory, writes>>
         \/ /\ own => user = u
            /\ memory' = [memory EXCEPT ![u].rows = @ \cup {calls[c].row}, ![u].exists = TRUE]
            /\ writes' = writes \cup
                 {[user |-> u, stale |-> FALSE, pc |-> "queued", rows |-> {}]}
            /\ torn' = IF memory[u].loaded THEN torn ELSE torn \cup {u}
      /\ UNCHANGED <<user, effect, deviceVars, reset, locks, vault, loading, leaky, bounds>>

-----------------------------------------------------------------------------
Init ==
  /\ user = NOBODY /\ effect = [user |-> NOBODY, owed |-> FALSE]
  /\ managers = [m \in Managers |-> NoManager]
  /\ seat = NOBODY /\ status = "initializing" /\ reset = NoReset
  /\ locks = [u \in Users |-> <<>>]
  /\ vault = [u \in Users |-> [ident |-> 0, broken |-> FALSE, sessions |-> TRUE,
                               spent |-> {}, cache |-> {}]]
  /\ memory = [u \in Users |-> Empty]
  /\ loading = {} /\ writes = {} /\ calls = [c \in Calls |-> NoCall]
  /\ torn = {} /\ leaky = {}
  /\ signIns = 0 /\ mishaps = 0

ManagerStep(m) == LoadIdentity(m) \/ Publish(m) \/ Seated(m) \/ Failed(m)

CallStep(c) == Check(c) \/ Engine(c) \/ Keep(c)

ResetStep == Wipe \/ EndReset

Next ==
  \/ \E u \in Users : SignIn(u) \/ StartLoad(u)
  \/ SignOut \/ RunEffect \/ Retry \/ AskReset \/ ResetStep
  \/ \E m \in Managers : ManagerStep(m)
  \/ \E load \in loading : FinishLoad(load)
  \/ \E w \in writes : Snapshot(w) \/ PutCache(w)
  \/ \E row \in Rows : Begin(row)
  \/ \E c \in Calls : CallStep(c)

Spec == Init /\ [][Next]_vars

(***************************************************************************)
(* React runs an effect whose dependency changed, and whatever a manager,  *)
(* a call or a reset awaits settles. Users owe nothing.                    *)
(***************************************************************************)
Fairness ==
  /\ WF_vars(RunEffect) /\ WF_vars(ResetStep)
  /\ \A m \in Managers : WF_vars(ManagerStep(m))
  /\ \A c \in Calls : WF_vars(CallStep(c))

FairSpec == Spec /\ Fairness

-----------------------------------------------------------------------------
\* The managers, calls and the reset that hold or await the lock of a user.
Contenders(u) ==
  {m \in Managers : managers[m].user = u /\ managers[m].pc \in {"queued", "publishing"}}
    \cup {c \in Calls : calls[c].user = u /\ calls[c].pc \in {"asked", "checked"}}
    \cup (IF reset.user = u THEN {"reset"} ELSE {})

\* The type invariant; a lock is queued for exactly by those who are to use it.
TypeOK ==
  /\ user \in Users \cup {NOBODY}
  /\ effect \in [user : Users \cup {NOBODY}, owed : BOOLEAN]
  /\ managers \in [Managers -> [user : Users \cup {NOBODY}, live : BOOLEAN, ident : Nat,
       pc : {"none", "queued", "publishing", "up", "seated", "local", "other"}]]
  /\ status \in {"initializing", "ready", "local", "other"}
  /\ (status = "ready") = (seat # NOBODY)
  /\ reset \in [user : Users \cup {NOBODY}, pc : {"none", "queued", "wiped"}]
  /\ \A u \in Users : IsInjective(locks[u]) /\ ToSet(locks[u]) = Contenders(u)
  /\ vault \in [Users -> [ident : Nat, broken : BOOLEAN, sessions : BOOLEAN,
                          spent : SUBSET Rows, cache : SUBSET Rows]]
  /\ memory \in [Users -> [rows : SUBSET Rows, exists : BOOLEAN, loaded : BOOLEAN]]
  /\ loading \subseteq [user : Users, stale : BOOLEAN]
  /\ writes \subseteq [user : Users, stale : BOOLEAN, pc : {"queued", "sealing"},
                       rows : SUBSET Rows]
  /\ calls \in [Calls -> [user : Users \cup {NOBODY}, row : Rows \cup {0},
       pc : {"none", "asked", "checked", "done"}, manager : Managers \cup {NOBODY}]]
  /\ torn \subseteq Users /\ leaky \subseteq Users

\* The manager in use is the one the last run of the effect made, for its user.
SeatIsCurrent ==
  seat # NOBODY => managers[seat].live /\ managers[seat].user = effect.user

\* No other manager is initialised, but for one about to be seated or destroyed.
NoIdleEngine ==
  \A m \in Managers : managers[m].pc = "seated" => m = seat

\* The manager in use holds the identity that is stored, until the effect the
\* reset owes has run.
EngineMatchesVault ==
  seat # NOBODY /\ ~effect.owed /\ reset.pc # "wiped" =>
    managers[seat].ident = vault[managers[seat].user].ident

\* The plaintext of whoever is gone was released, unless the session ended before
\* the engine was in use, or a hydration or a row was under way.
PlaintextReleased ==
  \A u \in Users \ (leaky \cup {user, effect.user}) : memory[u].rows = {}

(***************************************************************************)
(* "no in-memory WASM state of one user is ever reused for another", and   *)
(* the memory of a user is released with the session (E2EEContext.tsx:17,  *)
(* 52-62), however initialisations, switches and resets overlap.           *)
(***************************************************************************)
SessionIsolated == SeatIsCurrent /\ NoIdleEngine /\ EngineMatchesVault /\ PlaintextReleased

\* Rows of a user whose plaintext is in a call or in a write.
InFlight(u) ==
  {calls[c].row : c \in {d \in Calls : calls[d].user = u /\ calls[d].pc \in {"checked", "done"}}}

(***************************************************************************)
(* A row that cannot be decrypted again is in the sealed cache, in memory  *)
(* or on its way there, over every sign-out, retry, switch and reset that  *)
(* met no call or write of the user under way (message-cache.ts:5-9).      *)
(***************************************************************************)
HistorySurvives ==
  \A u \in Users \ torn :
    vault[u].spent \subseteq vault[u].cache \cup memory[u].rows \cup InFlight(u)

(***************************************************************************)
(* 'initializing' is transient (E2EEContext.tsx:33-39): for a user who     *)
(* stays, the engine gets ready or its failure is shown, time and again,   *)
(* whatever is still queued at the lock from sessions before.              *)
(***************************************************************************)
EngineSettles ==
  \A u \in Users : <>[](user = u) => []<>(status # "initializing")
=============================================================================
