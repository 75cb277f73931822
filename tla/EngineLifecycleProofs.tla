------------------------ MODULE EngineLifecycleProofs ------------------------
(***************************************************************************)
(* What the provider, the lock and the sealed cache keep for any number of *)
(* accounts, sign-ins, managers, rows and resets: nothing of one user is   *)
(* reused for another, and a row that cannot be decrypted again is stored. *)
(***************************************************************************)
EXTENDS EngineLifecycle, TLAPS

-----------------------------------------------------------------------------
(***************************************************************************)
(* The lock of a user: whoever publishes, decrypts or wipes is at its      *)
(* head, and whoever is at work has a user and a row.                      *)
(***************************************************************************)
Waiter == Managers \cup Calls \cup {"reset"}

ManagerType ==
  [user : Users \cup {NOBODY}, live : BOOLEAN, ident : Nat,
   pc : {"none", "queued", "publishing", "up", "seated", "local", "other"}]

VaultType ==
  [ident : Nat, broken : BOOLEAN, sessions : BOOLEAN, spent : SUBSET Rows, cache : SUBSET Rows]

MemoryType == [rows : SUBSET Rows, exists : BOOLEAN, loaded : BOOLEAN]

LoadType == [user : Users, stale : BOOLEAN]

WriteType == [user : Users, stale : BOOLEAN, pc : {"queued", "sealing"}, rows : SUBSET Rows]

CallType ==
  [user : Users \cup {NOBODY}, row : Rows \cup {0},
   pc : {"none", "asked", "checked", "done"}, manager : Managers \cup {NOBODY}]

Workers ==
  /\ \A m \in Managers : managers[m].pc # "none" => managers[m].user \in Users
  /\ \A c \in Calls : calls[c] # NoCall =>
       /\ calls[c].pc # "none"
       /\ calls[c].user \in Users /\ calls[c].row \in Rows /\ calls[c].manager \in Managers
  /\ reset # NoReset => reset.pc # "none" /\ reset.user \in Users

Holding ==
  /\ \A m \in Managers : managers[m].pc = "publishing" => Holds(managers[m].user, m)
  /\ \A c \in Calls : calls[c].pc = "checked" => Holds(calls[c].user, c)
  /\ reset.pc = "wiped" => Holds(reset.user, "reset")

LocksTyped == locks \in [Users -> Seq(Waiter)]

(***************************************************************************)
(* At most one manager stands, for the user of the last run of the effect; *)
(* its identity is the stored one unless another run of the effect is due. *)
(***************************************************************************)
Standing ==
  /\ seat \in Managers \cup {NOBODY}
  /\ seat # NOBODY => managers[seat].pc = "seated" /\ managers[seat].live
  /\ NoIdleEngine
  /\ \A m \in Managers : managers[m].live => managers[m].user = effect.user
  /\ \A m, n \in Managers : managers[m].live /\ managers[n].live => m = n

Identified ==
  \A m \in Managers :
    /\ managers[m].pc \in {"publishing", "up", "seated"} => managers[m].ident # 0
    /\ managers[m].pc = "publishing" => managers[m].ident = vault[managers[m].user].ident
    /\ managers[m].live /\ managers[m].pc \in {"up", "seated"}
         /\ ~effect.owed /\ reset.pc # "wiped"
       => managers[m].ident = vault[managers[m].user].ident

(***************************************************************************)
(* Of a user who is neither the effect's nor leaky there is no plaintext,  *)
(* and nothing under way that could bring any.                             *)
(***************************************************************************)
Clean(u) == memory[u].rows = {} /\ ~Hydrating(u) /\ ~Rowing(u)

OthersClean == \A u \in Users \ (leaky \cup {effect.user}) : Clean(u)

(***************************************************************************)
(* Of a user whose memory was released with nothing under way, and only    *)
(* written when hydrated: calls run on the engine in use, one write at a   *)
(* time is sealed, each has all that the cache has, and what is only in    *)
(* memory has a write to come.                                             *)
(***************************************************************************)
WritesOf(u, label) == {w \in writes : w.user = u /\ w.pc = label}

Hydrated(u) ==
  /\ Writing(u) => memory[u].loaded /\ memory[u].exists
  /\ memory[u].loaded => vault[u].cache \subseteq memory[u].rows

WritesInTurn(u) ==
  /\ \A w \in writes : w.user = u => ~w.stale
  /\ \A v, w \in WritesOf(u, "sealing") : v = w
  /\ \A w \in WritesOf(u, "sealing") :
       vault[u].cache \subseteq w.rows /\ w.rows \subseteq memory[u].rows
  /\ \/ WritesOf(u, "queued") # {}
     \/ \A row \in memory[u].rows :
          row \in vault[u].cache \/ \E w \in WritesOf(u, "sealing") : row \in w.rows

CallsSeated(u) ==
  \A c \in Calls : calls[c].user = u => calls[c].manager = seat /\ managers[seat].user = u

Stored(u) == vault[u].spent \subseteq vault[u].cache \cup memory[u].rows \cup InFlight(u)

Cached(u) == Hydrated(u) /\ WritesInTurn(u)

HistoryInv == \A u \in Users \ torn : Cached(u) /\ CallsSeated(u) /\ Stored(u)

-----------------------------------------------------------------------------
(* The queue of a lock *)

\* Whoever asks is the last in the queue.
LEMMA AppendAsks ==
  ASSUME NEW S, NEW s \in Seq(S), IsInjective(s), NEW x \in S, x \notin ToSet(s)
  PROVE  /\ Append(s, x) \in Seq(S) /\ Append(s, x) # <<>>
         /\ IsInjective(Append(s, x))
         /\ ToSet(Append(s, x)) = ToSet(s) \cup {x}
         /\ s # <<>> => Head(Append(s, x)) = Head(s)
  <1> DEFINE t == Append(s, x)
  <1>1. /\ t \in Seq(S) /\ Len(s) \in Nat /\ Len(t) = Len(s) + 1 /\ t # <<>>
        /\ DOMAIN s = 1..Len(s) /\ DOMAIN t = 1..(Len(s) + 1)
        /\ \A i \in 1..Len(s) : t[i] = s[i]
        /\ t[Len(s) + 1] = x
    OBVIOUS
  <1> HIDE DEF t
  <1>2. \A i \in 1..Len(s) : s[i] # x
    BY <1>1 DEF ToSet
  <1>3. IsInjective(t)
    BY <1>1, <1>2 DEF IsInjective
  <1>4. ASSUME NEW y PROVE y \in ToSet(t) <=> y \in ToSet(s) \cup {x}
    <2>1. y \in ToSet(t) <=> \E i \in 1..(Len(s) + 1) : y = t[i]
      BY <1>1 DEF ToSet
    <2>2. y \in ToSet(s) <=> \E i \in 1..Len(s) : y = s[i]
      BY <1>1 DEF ToSet
    <2>3. QED
      BY <1>1, <2>1, <2>2
  <1>5. ToSet(t) = ToSet(s) \cup {x}
    BY <1>4
  <1>6. s # <<>> => Head(t) = Head(s)
    BY <1>1
  <1>7. QED
    BY <1>1, <1>3, <1>5, <1>6 DEF t

\* Whoever releases leaves the queue as it was behind it.
LEMMA TailReleases ==
  ASSUME NEW S, NEW s \in Seq(S), s # <<>>, IsInjective(s)
  PROVE  /\ Tail(s) \in Seq(S) /\ IsInjective(Tail(s))
         /\ ToSet(Tail(s)) = ToSet(s) \ {Head(s)}
  <1> DEFINE t == Tail(s)
  <1>1. /\ t \in Seq(S) /\ Len(s) \in Nat \ {0} /\ Len(t) = Len(s) - 1
        /\ DOMAIN s = 1..Len(s) /\ DOMAIN t = 1..(Len(s) - 1)
        /\ \A i \in 1..(Len(s) - 1) : t[i] = s[i + 1]
        /\ Head(s) = s[1]
    OBVIOUS
  <1> HIDE DEF t
  <1>2. \A i, j \in 1..Len(s) : s[i] = s[j] => i = j
    BY <1>1 DEF IsInjective
  <1>3. IsInjective(t)
    BY <1>1, <1>2 DEF IsInjective
  <1>4. ASSUME NEW y PROVE y \in ToSet(t) <=> y \in ToSet(s) /\ y # Head(s)
    <2>1. y \in ToSet(t) <=> \E i \in 1..(Len(s) - 1) : y = s[i + 1]
      BY <1>1 DEF ToSet
    <2>2. y \in ToSet(s) <=> \E i \in 1..Len(s) : y = s[i]
      BY <1>1 DEF ToSet
    <2>3. ASSUME NEW j \in 1..Len(s), y = s[j], y # s[1]
          PROVE  \E i \in 1..(Len(s) - 1) : y = s[i + 1]
      <3>1. j - 1 \in 1..(Len(s) - 1) /\ y = s[(j - 1) + 1]
        BY <1>1, <2>3
      <3>2. QED
        BY <3>1
    <2>4. ASSUME NEW i \in 1..(Len(s) - 1), y = s[i + 1]
          PROVE  y # s[1] /\ \E j \in 1..Len(s) : y = s[j]
      <3>1. i + 1 \in 1..Len(s) /\ i + 1 # 1 /\ 1 \in 1..Len(s)
        BY <1>1
      <3>2. QED
        BY <1>2, <2>4, <3>1
    <2>5. QED
      BY <1>1, <2>1, <2>2, <2>3, <2>4
  <1>5. ToSet(t) = ToSet(s) \ {Head(s)}
    BY <1>4
  <1>6. QED
    BY <1>1, <1>3, <1>5 DEF t

\* Who holds or awaits the lock of a user, one by one.
Contends(y, u) ==
  \/ y \in Managers /\ managers[y].user = u /\ managers[y].pc \in {"queued", "publishing"}
  \/ y \in Calls /\ calls[y].user = u /\ calls[y].pc \in {"asked", "checked"}
  \/ y = "reset" /\ reset.user = u

LEMMA ContendersAre ==
  ASSUME NEW u \in Users
  PROVE  /\ Contenders(u) = {y \in Waiter : Contends(y, u)}
         /\ Contenders(u)' = {y \in Waiter : Contends(y, u)'}
  BY DEF Contenders, Contends, Waiter

LockQueues ==
  /\ LocksTyped
  /\ \A u \in Users : IsInjective(locks[u]) /\ ToSet(locks[u]) = Contenders(u)

\* A step that changes no contender leaves the locks alone.
LEMMA LocksStay ==
  ASSUME LockQueues, UNCHANGED locks,
         \A u \in Users, y \in Waiter : Contends(y, u)' <=> Contends(y, u)
  PROVE  /\ LockQueues'
         /\ \A u \in Users, y \in Waiter : Holds(u, y) => Holds(u, y)'
  <1>1. \A u \in Users : Contenders(u)' = Contenders(u)
    BY ContendersAre
  <1>2. QED
    BY <1>1 DEF LockQueues, LocksTyped, Holds

\* A new contender asks.
LEMMA LockAsked ==
  ASSUME LockQueues, NEW v \in Users, NEW x \in Waiter,
         Ask(v, x), ~Contends(x, v), Contends(x, v)',
         \A u \in Users, y \in Waiter :
           (u = v /\ y = x) \/ (Contends(y, u)' <=> Contends(y, u))
  PROVE  /\ LockQueues'
         /\ \A u \in Users, y \in Waiter : Holds(u, y) => Holds(u, y)'
  <1>0. /\ x \notin Contenders(v) /\ Contenders(v)' = Contenders(v) \cup {x}
        /\ \A u \in Users \ {v} : Contenders(u)' = Contenders(u)
    BY ContendersAre
  <1>1. /\ locks[v] \in Seq(Waiter) /\ IsInjective(locks[v]) /\ x \notin ToSet(locks[v])
        /\ locks' = [locks EXCEPT ![v] = Append(locks[v], x)]
    BY <1>0 DEF LockQueues, LocksTyped, Ask
  <1>2. /\ Append(locks[v], x) \in Seq(Waiter) /\ Append(locks[v], x) # <<>>
        /\ IsInjective(Append(locks[v], x))
        /\ ToSet(Append(locks[v], x)) = ToSet(locks[v]) \cup {x}
        /\ locks[v] # <<>> => Head(Append(locks[v], x)) = Head(locks[v])
    BY <1>1, AppendAsks
  <1>3. locks' \in [Users -> Seq(Waiter)] /\ locks'[v] = Append(locks[v], x)
        /\ \A u \in Users \ {v} : locks'[u] = locks[u]
    BY <1>1, <1>2 DEF LockQueues, LocksTyped
  <1>4. QED
    BY <1>0, <1>2, <1>3 DEF LockQueues, LocksTyped, Holds

\* The holder leaves; nobody else held this lock.
LEMMA LockReleased ==
  ASSUME LockQueues, NEW v \in Users, NEW x \in Waiter,
         Release(v), Holds(v, x), ~Contends(x, v)',
         \A u \in Users, y \in Waiter :
           (u = v /\ y = x) \/ (Contends(y, u)' <=> Contends(y, u))
  PROVE  /\ LockQueues'
         /\ \A u \in Users, y \in Waiter : Holds(u, y) => (u = v /\ y = x) \/ Holds(u, y)'
  <1>0. /\ Contenders(v)' = Contenders(v) \ {x}
        /\ \A u \in Users \ {v} : Contenders(u)' = Contenders(u)
    BY ContendersAre
  <1>1. /\ locks[v] \in Seq(Waiter) /\ IsInjective(locks[v]) /\ locks[v] # <<>>
        /\ Head(locks[v]) = x /\ locks' = [locks EXCEPT ![v] = Tail(locks[v])]
    BY DEF LockQueues, LocksTyped, Release, Holds
  <1>2. /\ Tail(locks[v]) \in Seq(Waiter) /\ IsInjective(Tail(locks[v]))
        /\ ToSet(Tail(locks[v])) = ToSet(locks[v]) \ {x}
    BY <1>1, TailReleases
  <1>3. locks' \in [Users -> Seq(Waiter)] /\ locks'[v] = Tail(locks[v])
        /\ \A u \in Users \ {v} : locks'[u] = locks[u]
    BY <1>1, <1>2 DEF LockQueues, LocksTyped
  <1>4. QED
    BY <1>0, <1>1, <1>2, <1>3 DEF LockQueues, LocksTyped, Holds

-----------------------------------------------------------------------------
(***************************************************************************)
(* The types, the work and the locks.                                      *)
(***************************************************************************)
TypesApart ==
  /\ user \in Users \cup {NOBODY}
  /\ effect \in [user : Users \cup {NOBODY}, owed : BOOLEAN]
  /\ managers \in [Managers -> ManagerType]
  /\ reset \in [user : Users \cup {NOBODY}, pc : {"none", "queued", "wiped"}]
  /\ vault \in [Users -> VaultType]
  /\ memory \in [Users -> MemoryType]
  /\ loading \subseteq LoadType
  /\ writes \subseteq WriteType
  /\ calls \in [Calls -> CallType]
  /\ torn \subseteq Users /\ leaky \subseteq Users

AtLocks == TypesApart /\ LockQueues /\ Workers /\ Holding

LEMMA AtLocksStart == Init => AtLocks
  <1> SUFFICES ASSUME Init PROVE AtLocks
    OBVIOUS
  <1> USE DEF Init
  <1>1. TypesApart
    BY DEF TypesApart, ManagerType, CallType, WriteType, LoadType,
      VaultType, MemoryType, NoManager, NoReset, NoCall, Empty
  <1>2. \A u \in Users : Contenders(u) = {}
    BY LifecycleAssumption, ContendersAre DEF Contends, NoManager, NoCall, NoReset
  <1>3. <<>> \in Seq(Waiter) /\ IsInjective(<<>>) /\ ToSet(<<>>) = {}
    BY DEF IsInjective, ToSet
  <1>4. LockQueues
    BY <1>2, <1>3 DEF LockQueues, LocksTyped
  <1>5. Workers /\ Holding
    BY DEF Workers, Holding, NoManager, NoCall, NoReset
  <1>6. QED
    BY <1>1, <1>4, <1>5 DEF AtLocks

LEMMA ManagerStands ==
  ASSUME NEW m \in ManagerType
  PROVE  [m EXCEPT !.live = FALSE] \in ManagerType
  BY DEF ManagerType

LEMMA VaultChanges ==
  ASSUME NEW v \in VaultType, NEW r \in SUBSET Rows, NEW n \in Nat
  PROVE  /\ [v EXCEPT !.cache = r] \in VaultType
         /\ [v EXCEPT !.spent = r] \in VaultType
         /\ [v EXCEPT !.ident = n] \in VaultType
         /\ [v EXCEPT !.broken = TRUE] \in VaultType
         /\ [v EXCEPT !.ident = n, !.broken = FALSE, !.sessions = FALSE] \in VaultType
  BY DEF VaultType

LEMMA LoadChanges ==
  /\ \A u \in Users : [user |-> u, stale |-> FALSE] \in LoadType
  /\ \A u, l : l \in LoadType => [l EXCEPT !.stale = @ \/ l.user = u] \in LoadType
  BY DEF LoadType

LEMMA WriteOutdated ==
  ASSUME NEW w \in WriteType, NEW u
  PROVE  [w EXCEPT !.stale = @ \/ w.user = u] \in WriteType
  BY DEF WriteType

LEMMA WriteSeals ==
  ASSUME NEW w \in WriteType, NEW r \in SUBSET Rows
  PROVE  [w EXCEPT !.pc = "sealing", !.rows = r] \in WriteType
  BY DEF WriteType

\* The steps that touch no manager, call, reset or lock.
Elsewhere ==
  \/ \E u \in Users : SignIn(u) \/ StartLoad(u)
  \/ SignOut \/ Retry
  \/ \E load \in loading : FinishLoad(load)
  \/ \E w \in writes : Snapshot(w) \/ PutCache(w)

LEMMA AtLocksElsewhere ==
  ASSUME AtLocks, Elsewhere
  PROVE  AtLocks'
  <1>1. UNCHANGED <<managers, calls, reset, locks>>
    BY DEF Elsewhere, SignIn, StartLoad, SignOut, Retry, FinishLoad, Snapshot, PutCache, deviceVars
  <1>2. TypesApart'
    <2> USE DEF AtLocks, TypesApart
    <2>0. ASSUME NEW u \in Users, SignIn(u)
          PROVE  TypesApart'
      BY <2>0 DEF SignIn, deviceVars, cacheVars, historyVars
    <2>1. ASSUME NEW u \in Users, StartLoad(u)
          PROVE  TypesApart'
      <3>1. loading' \subseteq LoadType
        BY <2>1, LoadChanges DEF StartLoad
      <3>2. QED
        BY <2>1, <3>1 DEF StartLoad, deviceVars, historyVars
    <2>2. ASSUME SignOut \/ Retry
          PROVE  TypesApart'
      BY <2>2 DEF SignOut, Retry, deviceVars, cacheVars, historyVars
    <2>3. ASSUME NEW load \in loading, FinishLoad(load)
          PROVE  TypesApart'
      <3>1. load.user \in Users
        BY DEF LoadType
      <3>2. memory' \in [Users -> MemoryType]
        BY <2>3, <3>1 DEF FinishLoad, LoadType, MemoryType, VaultType
      <3>3. QED
        BY <2>3, <3>2 DEF FinishLoad, deviceVars, historyVars
    <2>4. ASSUME NEW w \in writes, Snapshot(w)
          PROVE  TypesApart'
      <3>1. w.user \in Users /\ memory[w.user].rows \in SUBSET Rows
        BY DEF WriteType, MemoryType
      <3>2. [w EXCEPT !.pc = "sealing", !.rows = memory[w.user].rows] \in WriteType
        BY <3>1, WriteSeals
      <3>3. writes' \subseteq WriteType
        BY <2>4, <3>2 DEF Snapshot
      <3>4. QED
        BY <2>4, <3>3 DEF Snapshot, deviceVars, historyVars
    <2>5. ASSUME NEW w \in writes, PutCache(w)
          PROVE  TypesApart'
      <3>1. w.user \in Users /\ w.rows \in SUBSET Rows
        BY DEF WriteType
      <3>2. vault' \in [Users -> VaultType]
        BY <2>5, <3>1, VaultChanges DEF PutCache
      <3>3. QED
        BY <2>5, <3>2 DEF PutCache, deviceVars, historyVars
    <2>6. QED
      BY <2>0, <2>1, <2>2, <2>3, <2>4, <2>5 DEF Elsewhere
  <1>3. \A u \in Users, y \in Waiter : Contends(y, u)' <=> Contends(y, u)
    BY <1>1 DEF Contends
  <1>4. LockQueues' /\ Workers' /\ Holding'
    <2>1. LockQueues'
      BY <1>1, <1>3, LocksStay DEF AtLocks
    <2>2. Workers' /\ Holding'
      BY <1>1 DEF AtLocks, Workers, Holding, Holds
    <2>3. QED
      BY <2>1, <2>2
  <1>5. QED
    BY <1>2, <1>4 DEF AtLocks

LEMMA ForgetTypes ==
  ASSUME TypesApart, NEW u \in Users, Forget(u)
  PROVE  /\ memory' \in [Users -> MemoryType]
         /\ loading' \subseteq LoadType
         /\ writes' \subseteq WriteType
         /\ torn' \subseteq Users /\ leaky' \subseteq Users
  <1>1. memory' \in [Users -> MemoryType]
    BY DEF Forget, TypesApart, Empty, MemoryType
  <1>2. loading' \subseteq LoadType
    <2>1. ASSUME NEW x \in loading
          PROVE  [x EXCEPT !.stale = @ \/ x.user = u] \in LoadType
      BY LoadChanges DEF TypesApart
    <2>2. QED
      BY <2>1 DEF Forget, Outdated
  <1>3. writes' \subseteq WriteType
    <2>1. ASSUME NEW x \in writes
          PROVE  [x EXCEPT !.stale = @ \/ x.user = u] \in WriteType
      BY WriteOutdated DEF TypesApart
    <2>2. QED
      BY <2>1 DEF Forget, Outdated
  <1>4. QED
    BY <1>1, <1>2, <1>3 DEF Forget, TypesApart

LEMMA AtLocksRunEffect ==
  ASSUME AtLocks, Standing, RunEffect
  PROVE  AtLocks'
  <1> USE LifecycleAssumption, SlotsAssumption
  <1>1. /\ \A m \in Managers : managers[m].pc = "seated" => m = seat
        /\ seat # NOBODY => seat \in Managers /\ managers[seat].pc = "seated"
        /\ seat # NOBODY => managers[seat].user \in Users
    BY DEF Standing, NoIdleEngine, AtLocks, Workers
  <1>2. Unseated \in [Managers -> ManagerType]
    <2>1. ASSUME NEW m \in Managers
          PROVE  [managers[m] EXCEPT !.live = FALSE] \in ManagerType
      BY ManagerStands DEF AtLocks, TypesApart
    <2>2. NoManager \in ManagerType
      BY DEF NoManager, ManagerType
    <2>3. QED
      BY <2>1, <2>2 DEF Unseated
  <1>3. ASSUME NEW m \in Managers
        PROVE  /\ Unseated[m].user \in {managers[m].user, NOBODY}
               /\ Unseated[m].pc \in {managers[m].pc, "none"}
               /\ managers[m].pc # "seated" => Unseated[m].user = managers[m].user
                                             /\ Unseated[m].pc = managers[m].pc
               /\ managers[m].pc = "seated" => Unseated[m] = NoManager
    BY <1>1 DEF Unseated, AtLocks, TypesApart, NoManager, ManagerType
  <1>4. UNCHANGED <<user, reset, vault, calls>> /\ effect' = [user |-> user, owed |-> FALSE]
    BY DEF RunEffect
  <1>5. /\ memory' \in [Users -> MemoryType]
        /\ loading' \subseteq LoadType
        /\ writes' \subseteq WriteType
        /\ torn' \subseteq Users /\ leaky' \subseteq Users
    <2>1. CASE seat # NOBODY
      BY <1>1, <2>1, ForgetTypes DEF RunEffect, AtLocks
    <2>2. CASE seat = NOBODY
      BY <2>2 DEF RunEffect, AtLocks, TypesApart, cacheVars
    <2>3. QED
      BY <2>1, <2>2
  <1>6. CASE user = NOBODY
    <2>1. managers' = Unseated /\ UNCHANGED locks
      BY <1>6 DEF RunEffect
    <2>2. \A u \in Users, y \in Waiter : Contends(y, u)' <=> Contends(y, u)
      BY <1>3, <1>4, <2>1 DEF Contends, NoManager
    <2>3. LockQueues'
      BY <2>1, <2>2, LocksStay DEF AtLocks
    <2>4. Workers' /\ Holding'
      BY <1>3, <1>4, <2>1 DEF AtLocks, Workers, Holding, Holds, NoManager
    <2>5. TypesApart'
      BY <1>2, <1>4, <1>5, <2>1 DEF AtLocks, TypesApart
    <2>6. QED
      BY <2>3, <2>4, <2>5 DEF AtLocks
  <1>7. CASE user # NOBODY
    <2>1. PICK m \in Managers :
            /\ managers[m].pc = "none"
            /\ managers' = [Unseated EXCEPT ![m] =
                 [user |-> user, pc |-> "queued", live |-> TRUE, ident |-> 0]]
            /\ Ask(user, m)
      BY <1>7 DEF RunEffect, Free
    <2> PICK v \in Users : v = user
      BY <1>7 DEF AtLocks, TypesApart
    <2>2. /\ m \in Waiter /\ managers' \in [Managers -> ManagerType]
          /\ managers'[m] = [user |-> user, pc |-> "queued", live |-> TRUE, ident |-> 0]
          /\ \A n \in Managers \ {m} : managers'[n] = Unseated[n]
      BY <1>2, <1>7, <2>1 DEF AtLocks, TypesApart, Waiter, ManagerType
    <2>3. /\ ~Contends(m, v) /\ Contends(m, v)'
          /\ \A u \in Users, y \in Waiter :
               (u = v /\ y = m) \/ (Contends(y, u)' <=> Contends(y, u))
      BY <1>3, <1>4, <2>1, <2>2 DEF Contends, NoManager, Waiter
    <2>4. LockQueues' /\ \A u \in Users, y \in Waiter : Holds(u, y) => Holds(u, y)'
      BY <2>1, <2>2, <2>3, LockAsked DEF AtLocks
    <2>5. Workers'
      BY <1>3, <1>4, <2>2 DEF AtLocks, Workers, NoManager
    <2>6. Holding'
      BY <1>3, <1>4, <2>2, <2>4 DEF AtLocks, Workers, Holding, NoManager, NoReset, NoCall, Waiter
    <2>7. TypesApart'
      BY <1>4, <1>5, <2>2 DEF AtLocks, TypesApart
    <2>8. QED
      BY <2>4, <2>5, <2>6, <2>7 DEF AtLocks
  <1>8. QED
    BY <1>6, <1>7

\* A manager that moves on within its initialisation, with the identity it has.
LEMMA ManagerChanges ==
  ASSUME NEW m \in ManagerType, NEW n \in Nat,
         NEW label \in {"none", "queued", "publishing", "up", "seated", "local", "other"}
  PROVE  /\ [m EXCEPT !.pc = label] \in ManagerType
         /\ [m EXCEPT !.pc = label, !.ident = n] \in ManagerType
  BY DEF ManagerType

\* A manager at the head of its queue goes on and keeps the lock.
LEMMA ManagerKeepsLock ==
  ASSUME AtLocks, NEW m \in Managers, NEW new \in ManagerType,
         UNCHANGED <<locks, calls, reset>>,
         managers' = [managers EXCEPT ![m] = new],
         managers[m].pc = "queued", new.pc = "publishing", new.user = managers[m].user,
         Holds(managers[m].user, m)
  PROVE  LockQueues' /\ Workers' /\ Holding'
  <1> USE SlotsAssumption
  <1>1. /\ \A n \in Managers \ {m} : managers'[n] = managers[n]
        /\ managers'[m].pc = "publishing" /\ managers'[m].user = managers[m].user
    BY DEF AtLocks, TypesApart
  <1>2. LockQueues' /\ \A u \in Users, y \in Waiter : Holds(u, y) => Holds(u, y)'
    <2>1. \A u \in Users, y \in Waiter : Contends(y, u)' <=> Contends(y, u)
      BY <1>1 DEF Contends
    <2>2. QED
      BY <2>1, LocksStay DEF AtLocks
  <1>3. Workers'
    BY <1>1 DEF AtLocks, Workers
  <1>4. Holding'
    BY <1>1 DEF AtLocks, Workers, Holding, Holds
  <1>5. QED
    BY <1>2, <1>3, <1>4

\* A manager at the head of its queue leaves it.
LEMMA ManagerLeavesLock ==
  ASSUME AtLocks, NEW m \in Managers, NEW new \in ManagerType,
         UNCHANGED <<calls, reset>>,
         managers' = [managers EXCEPT ![m] = new],
         managers[m].pc \in {"queued", "publishing"}, new.pc \in {"up", "local", "other"},
         new.user = managers[m].user,
         Holds(managers[m].user, m), Release(managers[m].user)
  PROVE  LockQueues' /\ Workers' /\ Holding'
  <1> USE SlotsAssumption
  <1>1. /\ \A n \in Managers \ {m} : managers'[n] = managers[n]
        /\ managers'[m].pc \in {"up", "local", "other"}
        /\ managers'[m].user = managers[m].user
    BY DEF AtLocks, TypesApart
  <1> PICK v \in Users : v = managers[m].user
    BY DEF AtLocks, Workers
  <1>2. /\ LockQueues'
        /\ \A u \in Users, y \in Waiter : Holds(u, y) => (u = v /\ y = m) \/ Holds(u, y)'
    <2>1. /\ m \in Waiter /\ ~Contends(m, v)'
          /\ \A u \in Users, y \in Waiter :
               (u = v /\ y = m) \/ (Contends(y, u)' <=> Contends(y, u))
      BY <1>1 DEF Contends, Waiter
    <2>2. QED
      BY <2>1, LockReleased DEF AtLocks
  <1>3. Workers'
    BY <1>1 DEF AtLocks, Workers
  <1>4. Holding'
    BY <1>1, <1>2 DEF AtLocks, Workers, Holding, NoReset, NoCall, Waiter
  <1>5. QED
    BY <1>2, <1>3, <1>4

LEMMA AtLocksLoadIdentity ==
  ASSUME AtLocks, NEW m \in Managers, LoadIdentity(m)
  PROVE  AtLocks'
  <1> DEFINE u == managers[m].user
             ident == IF vault[u].ident = 0 THEN 1 ELSE vault[u].ident
  <1>1. u \in Users /\ managers[m] \in ManagerType /\ vault[u] \in VaultType
    BY DEF AtLocks, TypesApart, Workers, LoadIdentity
  <1>2. ident \in Nat
    BY <1>1 DEF VaultType
  <1>3. UNCHANGED <<user, effect, seat, status, reset, cacheVars, calls, historyVars>>
        /\ managers[m].pc = "queued" /\ Holds(u, m)
    BY DEF LoadIdentity
  <1>4. CASE /\ managers' = [managers EXCEPT ![m].pc = "local"]
             /\ vault' = [vault EXCEPT ![u].broken = TRUE]
             /\ Release(u)
    <2> DEFINE new == [managers[m] EXCEPT !.pc = "local"]
    <2>1. new \in ManagerType /\ [vault[u] EXCEPT !.broken = TRUE] \in VaultType
      BY <1>1, ManagerChanges, VaultChanges
    <2>2. managers' = [managers EXCEPT ![m] = new]
          /\ vault' = [vault EXCEPT ![u] = [vault[u] EXCEPT !.broken = TRUE]]
      BY <1>4
    <2>3. new.pc = "local" /\ new.user = u
      BY <1>1 DEF ManagerType
    <2>4. LockQueues' /\ Workers' /\ Holding'
      <3> HIDE DEF new
      <3>1. PICK k \in ManagerType : k = new
        BY <2>1
      <3>2. QED
        BY <1>3, <1>4, <2>2, <2>3, <3>1, ManagerLeavesLock
    <2>5. TypesApart'
      BY <1>1, <1>3, <2>1, <2>2 DEF AtLocks, TypesApart, cacheVars, historyVars
    <2>6. QED
      BY <2>4, <2>5 DEF AtLocks
  <1>5. CASE /\ managers' = [managers EXCEPT ![m].pc = "publishing", ![m].ident = ident]
             /\ vault' = [vault EXCEPT ![u].ident = ident]
             /\ UNCHANGED locks
    <2> DEFINE new == [managers[m] EXCEPT !.pc = "publishing", !.ident = ident]
    <2>1. new \in ManagerType /\ [vault[u] EXCEPT !.ident = ident] \in VaultType
      BY <1>1, <1>2, ManagerChanges, VaultChanges
    <2>2. managers' = [managers EXCEPT ![m] = new]
          /\ vault' = [vault EXCEPT ![u] = [vault[u] EXCEPT !.ident = ident]]
      BY <1>1, <1>5 DEF AtLocks, TypesApart
    <2>3. new.pc = "publishing" /\ new.user = u
      BY <1>1 DEF ManagerType
    <2>4. LockQueues' /\ Workers' /\ Holding'
      <3> HIDE DEF new
      <3>1. PICK k \in ManagerType : k = new
        BY <2>1
      <3>2. QED
        BY <1>3, <1>5, <2>2, <2>3, <3>1, ManagerKeepsLock
    <2>5. TypesApart'
      BY <1>1, <1>3, <2>1, <2>2 DEF AtLocks, TypesApart, cacheVars, historyVars
    <2>6. QED
      BY <2>4, <2>5 DEF AtLocks
  <1>6. QED
    BY <1>4, <1>5 DEF LoadIdentity

LEMMA AtLocksPublish ==
  ASSUME AtLocks, NEW m \in Managers, Publish(m)
  PROVE  AtLocks'
  <1> DEFINE u == managers[m].user
  <1>1. u \in Users /\ managers[m] \in ManagerType /\ Holds(u, m)
    BY DEF AtLocks, TypesApart, Workers, Holding, Publish
  <1>2. UNCHANGED <<user, effect, seat, status, reset, vault, cacheVars, calls, historyVars>>
        /\ managers[m].pc = "publishing" /\ Release(u)
    BY DEF Publish
  <1>3. PICK new \in ManagerType :
          /\ managers' = [managers EXCEPT ![m] = new]
          /\ new.pc \in {"up", "other"} /\ new.user = u
    <2>1. CASE managers' = [managers EXCEPT ![m].pc = "up"]
      <3>1. [managers[m] EXCEPT !.pc = "up"] \in ManagerType
        BY <1>1, ManagerChanges
      <3>2. QED
        BY <1>1, <2>1, <3>1 DEF ManagerType
    <2>2. CASE managers' = [managers EXCEPT ![m].pc = "other", ![m].ident = 0]
      <3>1. [managers[m] EXCEPT !.pc = "other", !.ident = 0] \in ManagerType
        BY <1>1, ManagerChanges
      <3>2. managers' = [managers EXCEPT ![m] = [managers[m] EXCEPT !.pc = "other", !.ident = 0]]
        BY <2>2 DEF AtLocks, TypesApart
      <3>3. QED
        BY <1>1, <3>1, <3>2 DEF ManagerType
    <2>3. QED
      BY <2>1, <2>2 DEF Publish
  <1>4. LockQueues' /\ Workers' /\ Holding'
    BY <1>1, <1>2, <1>3, ManagerLeavesLock
  <1>5. TypesApart'
    BY <1>2, <1>3 DEF AtLocks, TypesApart, cacheVars, historyVars
  <1>6. QED
    BY <1>4, <1>5 DEF AtLocks

\* A manager that has left the lock is seated, told of its failure, or destroyed.
LEMMA AtLocksSettled ==
  ASSUME AtLocks, NEW m \in Managers, Seated(m) \/ Failed(m)
  PROVE  AtLocks'
  <1>1. UNCHANGED <<user, effect, reset, locks, vault, cacheVars, calls, historyVars>>
        /\ managers[m].pc \in {"up", "local", "other"} /\ managers[m] \in ManagerType
    BY DEF Seated, Failed, AtLocks, TypesApart
  <1>2. PICK new \in ManagerType :
          /\ managers' = [managers EXCEPT ![m] = new]
          /\ new = NoManager \/ (new.pc = "seated" /\ new.user = managers[m].user)
    <2>1. NoManager \in ManagerType
      BY DEF NoManager, ManagerType
    <2>2. [managers[m] EXCEPT !.pc = "seated"] \in ManagerType
      BY <1>1, ManagerChanges
    <2>3. QED
      BY <1>1, <2>1, <2>2 DEF Seated, Failed, ManagerType
  <1>3. /\ \A n \in Managers \ {m} : managers'[n] = managers[n]
        /\ managers'[m] = new
    BY <1>2 DEF AtLocks, TypesApart
  <1>4. LockQueues' /\ \A u \in Users, y \in Waiter : Holds(u, y) => Holds(u, y)'
    <2>1. \A u \in Users, y \in Waiter : Contends(y, u)' <=> Contends(y, u)
      BY <1>1, <1>2, <1>3, SlotsAssumption DEF Contends, NoManager
    <2>2. QED
      BY <1>1, <2>1, LocksStay DEF AtLocks
  <1>5. Workers' /\ Holding'
    BY <1>1, <1>2, <1>3 DEF AtLocks, Workers, Holding, Holds, NoManager
  <1>6. TypesApart'
    BY <1>1, <1>2 DEF AtLocks, TypesApart, cacheVars, historyVars
  <1>7. QED
    BY <1>4, <1>5, <1>6 DEF AtLocks

LEMMA AtLocksAskReset ==
  ASSUME AtLocks, AskReset
  PROVE  AtLocks'
  <1> USE LifecycleAssumption, SlotsAssumption
  <1>1. UNCHANGED <<user, effect, managers, vault, cacheVars, calls, historyVars>>
        /\ reset = NoReset /\ reset' = [user |-> user, pc |-> "queued"]
    BY DEF AskReset, deviceVars
  <1> PICK v \in Users : v = user
    BY DEF AskReset, AtLocks, TypesApart
  <1>2. LockQueues' /\ \A u \in Users, y \in Waiter : Holds(u, y) => Holds(u, y)'
    <2>1. /\ "reset" \in Waiter /\ Ask(v, "reset")
          /\ ~Contends("reset", v) /\ Contends("reset", v)'
          /\ \A u \in Users, y \in Waiter :
               (u = v /\ y = "reset") \/ (Contends(y, u)' <=> Contends(y, u))
      BY <1>1 DEF Contends, Waiter, NoReset, AskReset
    <2>2. QED
      BY <2>1, LockAsked DEF AtLocks
  <1>3. Workers' /\ Holding'
    BY <1>1, <1>2 DEF AtLocks, Workers, Holding, NoReset, NoCall, Waiter
  <1>4. TypesApart'
    BY <1>1 DEF AtLocks, TypesApart, cacheVars, historyVars
  <1>5. QED
    BY <1>2, <1>3, <1>4 DEF AtLocks

LEMMA AtLocksWipe ==
  ASSUME AtLocks, Wipe
  PROVE  AtLocks'
  <1>1. /\ UNCHANGED <<user, effect, managers, locks, calls>>
        /\ reset.user \in Users /\ reset.pc = "queued" /\ Holds(reset.user, "reset")
        /\ reset' = [reset EXCEPT !.pc = "wiped"] /\ Forget(reset.user)
        /\ vault' = [vault EXCEPT ![reset.user] =
             [vault[reset.user] EXCEPT !.ident = vault[reset.user].ident + 1,
                                       !.broken = FALSE, !.sessions = FALSE]]
    <2>1. reset.user \in Users
      BY DEF Wipe, AtLocks, Workers, NoReset
    <2>2. QED
      BY <2>1 DEF Wipe, deviceVars, AtLocks, TypesApart
  <1>2. reset' = [user |-> reset.user, pc |-> "wiped"]
    BY <1>1 DEF AtLocks, TypesApart
  <1>3. LockQueues' /\ \A u \in Users, y \in Waiter : Holds(u, y) => Holds(u, y)'
    <2>1. \A u \in Users, y \in Waiter : Contends(y, u)' <=> Contends(y, u)
      BY <1>1, <1>2 DEF Contends
    <2>2. QED
      BY <1>1, <2>1, LocksStay DEF AtLocks
  <1>4. Workers' /\ Holding'
    BY <1>1, <1>2 DEF AtLocks, Workers, Holding, Holds
  <1>5. vault' \in [Users -> VaultType]
    <2>1. vault[reset.user] \in VaultType /\ vault[reset.user].ident + 1 \in Nat
      BY <1>1 DEF AtLocks, TypesApart, VaultType
    <2>2. [vault[reset.user] EXCEPT !.ident = vault[reset.user].ident + 1,
                                    !.broken = FALSE, !.sessions = FALSE] \in VaultType
      BY <2>1, VaultChanges
    <2>3. QED
      BY <1>1, <2>2 DEF AtLocks, TypesApart
  <1>6. TypesApart'
    BY <1>1, <1>2, <1>5, ForgetTypes DEF AtLocks, TypesApart
  <1>7. QED
    BY <1>3, <1>4, <1>6 DEF AtLocks

LEMMA AtLocksEndReset ==
  ASSUME AtLocks, EndReset
  PROVE  AtLocks'
  <1> USE LifecycleAssumption, SlotsAssumption
  <1>1. UNCHANGED <<user, managers, vault, cacheVars, calls, historyVars>>
        /\ reset.pc = "wiped" /\ reset.user \in Users /\ reset' = NoReset
        /\ Holds(reset.user, "reset") /\ Release(reset.user)
        /\ effect' = [effect EXCEPT !.owed = TRUE]
    BY DEF EndReset, deviceVars, AtLocks, Workers, Holding, NoReset
  <1> PICK v \in Users : v = reset.user
    BY <1>1
  <1>2. /\ LockQueues'
        /\ \A u \in Users, y \in Waiter : Holds(u, y) => (u = v /\ y = "reset") \/ Holds(u, y)'
    <2>1. /\ "reset" \in Waiter /\ ~Contends("reset", v)'
          /\ \A u \in Users, y \in Waiter :
               (u = v /\ y = "reset") \/ (Contends(y, u)' <=> Contends(y, u))
      BY <1>1 DEF Contends, Waiter, NoReset
    <2>2. QED
      BY <1>1, <2>1, LockReleased DEF AtLocks
  <1>3. Workers' /\ Holding'
    BY <1>1, <1>2 DEF AtLocks, Workers, Holding, NoReset, NoCall, Waiter
  <1>4. TypesApart'
    BY <1>1 DEF AtLocks, TypesApart, cacheVars, historyVars, NoReset
  <1>5. QED
    BY <1>2, <1>3, <1>4 DEF AtLocks

LEMMA CallChanges ==
  ASSUME NEW c \in CallType, NEW label \in {"none", "asked", "checked", "done"}
  PROVE  [c EXCEPT !.pc = label] \in CallType
  BY DEF CallType

LEMMA AtLocksBegin ==
  ASSUME AtLocks, Standing, NEW row \in Rows, Begin(row)
  PROVE  AtLocks'
  <1> USE LifecycleAssumption, SlotsAssumption
  <1>1. UNCHANGED <<user, effect, managers, reset, vault, cacheVars, historyVars>>
    BY DEF Begin, deviceVars
  <1> PICK v \in Users : v = user
    BY DEF Begin, AtLocks, TypesApart
  <1>2. PICK c \in Calls :
          /\ calls[c] = NoCall
          /\ calls' = [calls EXCEPT ![c] =
               [user |-> v, pc |-> "asked", row |-> row, manager |-> seat]]
          /\ Ask(v, c)
    BY DEF Begin, Idle
  <1>3. /\ seat \in Managers /\ calls' \in [Calls -> CallType]
        /\ calls'[c] = [user |-> v, pc |-> "asked", row |-> row, manager |-> seat]
        /\ \A d \in Calls \ {c} : calls'[d] = calls[d]
    <2>1. seat \in Managers
      BY DEF Begin, Standing
    <2>2. [user |-> v, pc |-> "asked", row |-> row, manager |-> seat] \in CallType
      BY <2>1 DEF CallType
    <2>3. QED
      BY <1>2, <2>1, <2>2 DEF AtLocks, TypesApart
  <1>4. LockQueues' /\ \A u \in Users, y \in Waiter : Holds(u, y) => Holds(u, y)'
    <2>1. /\ c \in Waiter /\ ~Contends(c, v) /\ Contends(c, v)'
          /\ \A u \in Users, y \in Waiter :
               (u = v /\ y = c) \/ (Contends(y, u)' <=> Contends(y, u))
      BY <1>1, <1>2, <1>3 DEF Contends, Waiter, NoCall
    <2>2. QED
      BY <1>2, <2>1, LockAsked DEF AtLocks
  <1>5. Workers' /\ Holding'
    <2>1. Workers'
      BY <1>1, <1>3 DEF AtLocks, Workers
    <2>2. Holding'
      BY <1>1, <1>3, <1>4 DEF AtLocks, Workers, Holding, NoReset, NoCall, Waiter
    <2>3. QED
      BY <2>1, <2>2
  <1>6. TypesApart'
    BY <1>1, <1>3 DEF AtLocks, TypesApart, cacheVars, historyVars
  <1>7. QED
    BY <1>4, <1>5, <1>6 DEF AtLocks

\* A call at the head of its queue leaves it, or goes on under the lock.
LEMMA CallAtLock ==
  ASSUME AtLocks, NEW c \in Calls, NEW new \in CallType,
         UNCHANGED <<managers, reset>>,
         calls' = [calls EXCEPT ![c] = new],
         calls[c] # NoCall, Holds(calls[c].user, c), calls[c].pc \in {"asked", "checked"},
         \/ new.pc = "checked" /\ UNCHANGED locks
         \/ (new = NoCall \/ new.pc = "done") /\ Release(calls[c].user),
         \/ new = NoCall
         \/ new.user = calls[c].user /\ new.row = calls[c].row /\ new.manager = calls[c].manager
  PROVE  LockQueues' /\ Workers' /\ Holding'
  <1> USE LifecycleAssumption, SlotsAssumption
  <1>1. /\ \A d \in Calls \ {c} : calls'[d] = calls[d]
        /\ calls'[c] = new /\ c \in Waiter
    BY DEF AtLocks, TypesApart, Waiter
  <1> PICK v \in Users : v = calls[c].user
    BY DEF AtLocks, Workers
  <1>2. CASE new.pc = "checked" /\ UNCHANGED locks
    <2>1. \A u \in Users, y \in Waiter : Contends(y, u)' <=> Contends(y, u)
      BY <1>1, <1>2 DEF Contends, NoCall
    <2>2. LockQueues'
      BY <1>2, <2>1, LocksStay DEF AtLocks
    <2>3. Workers'
      BY <1>1, <1>2 DEF AtLocks, Workers
    <2>4. Holding'
      BY <1>1, <1>2 DEF AtLocks, Holding, Holds, NoCall
    <2>5. QED
      BY <2>2, <2>3, <2>4
  <1>3. CASE (new = NoCall \/ new.pc = "done") /\ Release(calls[c].user)
    <2>1. /\ ~Contends(c, v)'
          /\ \A u \in Users, y \in Waiter :
               (u = v /\ y = c) \/ (Contends(y, u)' <=> Contends(y, u))
      BY <1>1, <1>3 DEF Contends, NoCall
    <2>2. /\ LockQueues'
          /\ \A u \in Users, y \in Waiter : Holds(u, y) => (u = v /\ y = c) \/ Holds(u, y)'
      BY <1>1, <1>3, <2>1, LockReleased DEF AtLocks
    <2>3. Workers'
      BY <1>1, <1>3 DEF AtLocks, Workers, NoCall
    <2>4. Holding'
      BY <1>1, <1>3, <2>2 DEF AtLocks, Workers, Holding, NoReset, NoCall, Waiter
    <2>5. QED
      BY <2>2, <2>3, <2>4
  <1>4. QED
    BY <1>2, <1>3

LEMMA AtLocksCheck ==
  ASSUME AtLocks, NEW c \in Calls, Check(c)
  PROVE  AtLocks'
  <1> DEFINE u == calls[c].user
  <1>1. UNCHANGED <<user, effect, managers, reset, cacheVars, historyVars>>
        /\ calls[c].pc = "asked" /\ Holds(u, c) /\ calls[c] # NoCall
        /\ u \in Users /\ calls[c].row \in Rows /\ calls[c] \in CallType
        /\ vault[u] \in VaultType
    BY DEF Check, deviceVars, AtLocks, TypesApart, Workers, NoCall
  <1>2. PICK new \in CallType :
          /\ calls' = [calls EXCEPT ![c] = new]
          /\ \/ new = NoCall /\ Release(u) /\ UNCHANGED vault
             \/ /\ UNCHANGED locks /\ new = [calls[c] EXCEPT !.pc = "checked"]
                /\ vault' = [vault EXCEPT ![u].spent =
                       IF calls[c].row \in Incoming THEN @ \cup {calls[c].row} ELSE @]
    <2>1. NoCall \in CallType
      BY DEF NoCall, CallType
    <2>2. [calls[c] EXCEPT !.pc = "checked"] \in CallType
      BY <1>1, CallChanges
    <2>3. QED
      BY <2>1, <2>2 DEF Check
  <1>3. new = NoCall \/ (/\ new.pc = "checked" /\ new.user = u /\ new.row = calls[c].row
                         /\ new.manager = calls[c].manager)
    BY <1>1, <1>2 DEF CallType
  <1>4. LockQueues' /\ Workers' /\ Holding'
    <2>1. \/ new.pc = "checked" /\ UNCHANGED locks
          \/ (new = NoCall \/ new.pc = "done") /\ Release(calls[c].user)
      BY <1>2, <1>3 DEF NoCall
    <2>2. QED
      BY <1>1, <1>2, <1>3, <2>1, CallAtLock
  <1>5. vault' \in [Users -> VaultType]
    <2>1. CASE UNCHANGED vault
      BY <2>1 DEF AtLocks, TypesApart
    <2>2. CASE vault' = [vault EXCEPT ![u].spent =
                  IF calls[c].row \in Incoming THEN @ \cup {calls[c].row} ELSE @]
      <3> DEFINE s == IF calls[c].row \in Incoming THEN vault[u].spent \cup {calls[c].row}
                     ELSE vault[u].spent
      <3>1. s \in SUBSET Rows
        BY <1>1 DEF VaultType
      <3>2. [vault[u] EXCEPT !.spent = s] \in VaultType
        BY <1>1, <3>1, VaultChanges
      <3>3. QED
        BY <2>2, <3>2 DEF AtLocks, TypesApart
    <2>3. QED
      BY <1>2, <2>1, <2>2
  <1>6. TypesApart'
    BY <1>1, <1>2, <1>5 DEF AtLocks, TypesApart, cacheVars, historyVars
  <1>7. QED
    BY <1>4, <1>6 DEF AtLocks

LEMMA AtLocksEngine ==
  ASSUME AtLocks, NEW c \in Calls, Engine(c)
  PROVE  AtLocks'
  <1> DEFINE u == calls[c].user
  <1>1. UNCHANGED <<user, effect, managers, reset, cacheVars, historyVars>>
        /\ calls[c].pc = "checked" /\ Holds(u, c) /\ calls[c] # NoCall /\ Release(u)
        /\ u \in Users /\ calls[c].row \in Rows /\ calls[c] \in CallType
        /\ vault[u] \in VaultType
    BY DEF Engine, deviceVars, AtLocks, TypesApart, Workers, Holding, NoCall
  <1>2. PICK new \in CallType :
          /\ calls' = [calls EXCEPT ![c] = new]
          /\ \/ new = NoCall /\ UNCHANGED vault
             \/ /\ new = [calls[c] EXCEPT !.pc = "done"]
                /\ vault' = [vault EXCEPT ![u].spent = @ \cup {calls[c].row}]
    <2>1. NoCall \in CallType
      BY DEF NoCall, CallType
    <2>2. [calls[c] EXCEPT !.pc = "done"] \in CallType
      BY <1>1, CallChanges
    <2>3. QED
      BY <2>1, <2>2 DEF Engine
  <1>3. new = NoCall \/ (/\ new.pc = "done" /\ new.user = u /\ new.row = calls[c].row
                         /\ new.manager = calls[c].manager)
    BY <1>1, <1>2 DEF CallType
  <1>4. LockQueues' /\ Workers' /\ Holding'
    BY <1>1, <1>2, <1>3, CallAtLock
  <1>5. vault' \in [Users -> VaultType]
    <2>1. CASE UNCHANGED vault
      BY <2>1 DEF AtLocks, TypesApart
    <2>2. CASE vault' = [vault EXCEPT ![u].spent = @ \cup {calls[c].row}]
      <3>1. vault[u].spent \cup {calls[c].row} \in SUBSET Rows
        BY <1>1 DEF VaultType
      <3>2. [vault[u] EXCEPT !.spent = vault[u].spent \cup {calls[c].row}] \in VaultType
        BY <1>1, <3>1, VaultChanges
      <3>3. QED
        BY <2>2, <3>2 DEF AtLocks, TypesApart
    <2>3. QED
      BY <1>2, <2>1, <2>2
  <1>6. TypesApart'
    BY <1>1, <1>2, <1>5 DEF AtLocks, TypesApart, cacheVars, historyVars
  <1>7. QED
    BY <1>4, <1>6 DEF AtLocks

LEMMA AtLocksKeep ==
  ASSUME AtLocks, NEW c \in Calls, Keep(c)
  PROVE  AtLocks'
  <1> DEFINE u == calls[c].user
  <1>1. UNCHANGED <<user, effect, managers, reset, locks, vault, loading, leaky>>
        /\ calls[c].pc = "done" /\ u \in Users /\ calls[c].row \in Rows
        /\ calls' = [calls EXCEPT ![c] = NoCall]
    BY DEF Keep, deviceVars, AtLocks, Workers, NoCall
  <1>2. /\ NoCall \in CallType
        /\ calls'[c] = NoCall /\ \A d \in Calls \ {c} : calls'[d] = calls[d]
    BY <1>1 DEF AtLocks, TypesApart, NoCall, CallType
  <1>3. LockQueues'
    <2>1. \A v \in Users, y \in Waiter : Contends(y, v)' <=> Contends(y, v)
      BY <1>1, <1>2 DEF Contends, NoCall
    <2>2. QED
      BY <1>1, <2>1, LocksStay DEF AtLocks
  <1>4. Workers' /\ Holding'
    BY <1>1, <1>2 DEF AtLocks, Workers, Holding, Holds, NoCall
  <1>5. memory' \in [Users -> MemoryType] /\ writes' \subseteq WriteType /\ torn' \subseteq Users
    <2>1. [user |-> u, stale |-> FALSE, pc |-> "queued", rows |-> {}] \in WriteType
      BY <1>1 DEF WriteType
    <2>2. [memory[u] EXCEPT !.rows = @ \cup {calls[c].row}, !.exists = TRUE] \in MemoryType
      <3>1. memory[u] \in MemoryType
        BY <1>1 DEF AtLocks, TypesApart
      <3>2. QED
        BY <1>1, <3>1 DEF MemoryType
    <2>3. CASE UNCHANGED <<memory, writes>>
      BY <1>1, <2>3 DEF Keep, AtLocks, TypesApart
    <2>4. CASE /\ memory' = [memory EXCEPT ![u].rows = @ \cup {calls[c].row}, ![u].exists = TRUE]
               /\ writes' = writes \cup
                    {[user |-> u, stale |-> FALSE, pc |-> "queued", rows |-> {}]}
      <3>1. memory' = [memory EXCEPT ![u] =
                         [memory[u] EXCEPT !.rows = @ \cup {calls[c].row}, !.exists = TRUE]]
        BY <1>1, <2>4 DEF AtLocks, TypesApart
      <3>2. torn' \subseteq Users
        BY <1>1 DEF Keep, AtLocks, TypesApart
      <3>3. memory' \in [Users -> MemoryType]
        BY <1>1, <2>2, <3>1 DEF AtLocks, TypesApart
      <3>4. writes' \subseteq WriteType
        BY <2>1, <2>4 DEF AtLocks, TypesApart
      <3>5. QED
        BY <3>2, <3>3, <3>4
    <2>5. QED
      BY <2>3, <2>4 DEF Keep
  <1>6. TypesApart'
    BY <1>1, <1>2, <1>5 DEF AtLocks, TypesApart
  <1>7. QED
    BY <1>3, <1>4, <1>6 DEF AtLocks

-----------------------------------------------------------------------------
(***************************************************************************)
(* The manager in use.                                                     *)
(***************************************************************************)
Shown ==
  /\ status \in {"initializing", "ready", "local", "other"}
  /\ (status = "ready") = (seat # NOBODY)

SeatInv == Shown /\ Standing /\ Identified

LEMMA SeatStart == Init => SeatInv
  BY SlotsAssumption DEF Init, SeatInv, Shown, Standing, NoIdleEngine, Identified, NoManager

\* Nothing but the identity stored for a manager's user is read by the invariant.
LEMMA SeatStays ==
  ASSUME SeatInv, UNCHANGED <<managers, seat, status>>,
         effect'.user = effect.user, effect.owed => effect'.owed,
         reset.pc = "wiped" => reset'.pc = "wiped",
         \A m \in Managers : managers[m].pc # "none" =>
           vault'[managers[m].user].ident = vault[managers[m].user].ident
  PROVE  SeatInv'
  BY DEF SeatInv, Shown, Standing, NoIdleEngine, Identified

LEMMA SeatElsewhere ==
  ASSUME AtLocks, SeatInv, Elsewhere
  PROVE  SeatInv'
  <1>1. UNCHANGED <<managers, seat, status, reset>>
    BY DEF Elsewhere, SignIn, StartLoad, SignOut, Retry, FinishLoad, Snapshot, PutCache, deviceVars
  <1>2. effect'.user = effect.user /\ (effect.owed => effect'.owed)
    BY DEF Elsewhere, SignIn, StartLoad, SignOut, Retry, FinishLoad, Snapshot, PutCache,
      AtLocks, TypesApart
  <1>3. \A u \in Users : vault'[u].ident = vault[u].ident
    <2>1. ASSUME NEW w \in writes, PutCache(w)
          PROVE  \A u \in Users : vault'[u].ident = vault[u].ident
      BY <2>1 DEF PutCache, AtLocks, TypesApart, VaultType
    <2>2. CASE UNCHANGED vault
      BY <2>2
    <2>3. QED
      BY <2>1, <2>2 DEF Elsewhere, SignIn, StartLoad, SignOut, Retry, FinishLoad, Snapshot
  <1>4. QED
    BY <1>1, <1>2, <1>3, SeatStays DEF AtLocks, Workers

\* Asking for a reset, and calls, change at most what a user has spent.
LEMMA SeatCalls ==
  ASSUME AtLocks, SeatInv,
         AskReset \/ (\E row \in Rows : Begin(row)) \/ \E c \in Calls : CallStep(c)
  PROVE  SeatInv'
  <1>1. UNCHANGED <<managers, seat, status, effect>>
    BY DEF AskReset, Begin, CallStep, Check, Engine, Keep, deviceVars
  <1>2. reset.pc = "wiped" => reset'.pc = "wiped"
    <2>1. CASE AskReset
      BY <2>1 DEF AskReset, NoReset
    <2>2. UNCHANGED reset \/ AskReset
      BY DEF Begin, CallStep, Check, Engine, Keep
    <2>3. QED
      BY <2>1, <2>2
  <1>3. \A u \in Users : vault'[u].ident = vault[u].ident
    <2>1. ASSUME NEW c \in Calls, Check(c) \/ Engine(c)
          PROVE  \A u \in Users : vault'[u].ident = vault[u].ident
      BY <2>1 DEF Check, Engine, AtLocks, TypesApart, VaultType
    <2>2. CASE UNCHANGED vault
      BY <2>2
    <2>3. QED
      BY <2>1, <2>2 DEF AskReset, Begin, CallStep, Keep
  <1>4. QED
    BY <1>1, <1>2, <1>3, SeatStays DEF AtLocks, Workers

LEMMA SeatRunEffect ==
  ASSUME AtLocks, SeatInv, RunEffect
  PROVE  SeatInv'
  <1> USE LifecycleAssumption, SlotsAssumption
  <1>1. /\ UNCHANGED <<user, reset, vault>> /\ effect' = [user |-> user, owed |-> FALSE]
        /\ seat' = NOBODY /\ status' = "initializing"
    BY DEF RunEffect
  <1>2. ASSUME NEW m \in Managers
        PROVE  /\ ~Unseated[m].live
               /\ \/ Unseated[m] = NoManager
                  \/ /\ managers[m].pc # "seated"
                     /\ Unseated[m].user = managers[m].user
                     /\ Unseated[m].pc = managers[m].pc
                     /\ Unseated[m].ident = managers[m].ident
    <2>1. managers[m] \in ManagerType /\ (managers[m].pc = "seated" => m = seat)
      BY DEF AtLocks, TypesApart, SeatInv, Standing, NoIdleEngine
    <2>2. QED
      BY <2>1 DEF Unseated, NoManager, ManagerType
  <1>3. ASSUME NEW m \in Managers
        PROVE  \/ /\ managers'[m] = Unseated[m]
               \/ /\ managers'[m] = [user |-> user, pc |-> "queued", live |-> TRUE, ident |-> 0]
                  /\ \A n \in Managers \ {m} : managers'[n] = Unseated[n]
    <2>1. DOMAIN Unseated = Managers
      BY DEF Unseated
    <2>2. QED
      BY <2>1 DEF RunEffect
  <1>4. Shown' /\ Standing'
    BY <1>1, <1>2, <1>3 DEF Shown, Standing, NoIdleEngine, NoManager
  <1>5. Identified'
    BY <1>1, <1>2, <1>3 DEF SeatInv, Identified, NoManager
  <1>6. QED
    BY <1>4, <1>5 DEF SeatInv

\* A manager moves on by itself, and is not in use before or after.
LEMMA SeatMoves ==
  ASSUME AtLocks, SeatInv, NEW m \in Managers, NEW new \in ManagerType,
         UNCHANGED <<seat, effect, reset>>,
         managers' = [managers EXCEPT ![m] = new],
         managers[m].pc # "seated", new.pc # "seated",
         \/ ~new.live
         \/ new.live = managers[m].live /\ new.user = managers[m].user,
         status' = status \/ (managers[m].live /\ status' \in {"local", "other"})
  PROVE  Shown' /\ Standing'
  <1>1. /\ managers'[m] = new /\ \A n \in Managers \ {m} : managers'[n] = managers[n]
        /\ seat # m /\ new.live \in BOOLEAN /\ managers[m].live \in BOOLEAN
    BY SlotsAssumption DEF AtLocks, TypesApart, SeatInv, Standing, ManagerType
  <1>2. Standing'
    BY <1>1 DEF SeatInv, Standing, NoIdleEngine
  <1>3. managers[m].live => seat = NOBODY
    BY <1>1 DEF SeatInv, Standing
  <1>4. Shown'
    BY <1>3 DEF SeatInv, Shown
  <1>5. QED
    BY <1>2, <1>4

LEMMA SeatLoadIdentity ==
  ASSUME AtLocks, SeatInv, NEW m \in Managers, LoadIdentity(m)
  PROVE  SeatInv'
  <1> DEFINE u == managers[m].user
             ident == IF vault[u].ident = 0 THEN 1 ELSE vault[u].ident
  <1>1. /\ u \in Users /\ managers[m] \in ManagerType /\ managers[m].pc = "queued"
        /\ UNCHANGED <<seat, effect, reset, status>> /\ \A v \in Users : vault[v] \in VaultType
    BY DEF AtLocks, TypesApart, Workers, LoadIdentity
  <1>2. ident \in Nat \ {0} /\ (vault[u].ident # 0 => ident = vault[u].ident)
    BY <1>1 DEF VaultType
  <1> HIDE DEF ident
  <1>3. PICK new \in ManagerType :
          /\ managers' = [managers EXCEPT ![m] = new]
          /\ new.user = u /\ new.live = managers[m].live
          /\ \/ new.pc = "local" /\ \A v \in Users : vault'[v].ident = vault[v].ident
             \/ /\ new.pc = "publishing" /\ new.ident = ident /\ vault'[u].ident = ident
                /\ \A v \in Users \ {u} : vault'[v].ident = vault[v].ident
    <2>1. [managers[m] EXCEPT !.pc = "local"] \in ManagerType
      BY <1>1, ManagerChanges
    <2>2. [managers[m] EXCEPT !.pc = "publishing", !.ident = ident] \in ManagerType
      BY <1>1, <1>2, ManagerChanges
    <2>3. CASE /\ managers' = [managers EXCEPT ![m].pc = "local"]
               /\ vault' = [vault EXCEPT ![u].broken = TRUE]
      <3>1. \A v \in Users : vault'[v].ident = vault[v].ident
        BY <1>1, <2>3 DEF AtLocks, TypesApart, VaultType
      <3>2. QED
        BY <1>1, <2>1, <2>3, <3>1 DEF ManagerType
    <2>4. CASE /\ managers' = [managers EXCEPT ![m].pc = "publishing", ![m].ident = ident]
               /\ vault' = [vault EXCEPT ![u].ident = ident]
      <3>1. vault'[u].ident = ident /\ \A v \in Users \ {u} : vault'[v].ident = vault[v].ident
        BY <1>1, <2>4 DEF AtLocks, TypesApart, VaultType
      <3>2. managers' =
              [managers EXCEPT ![m] = [managers[m] EXCEPT !.pc = "publishing", !.ident = ident]]
        BY <2>4 DEF AtLocks, TypesApart
      <3>3. QED
        BY <1>1, <2>2, <3>1, <3>2 DEF ManagerType
    <2>5. QED
      BY <2>3, <2>4 DEF LoadIdentity, ident
  <1>4. Shown' /\ Standing'
    BY <1>1, <1>3, SeatMoves
  <1>5. Identified'
    <2>1. managers'[m] = new /\ \A n \in Managers \ {m} : managers'[n] = managers[n]
      BY <1>3 DEF AtLocks, TypesApart
    <2>2. \A n \in Managers \ {m} : managers[n].pc # "none" => managers[n].user \in Users
      BY DEF AtLocks, Workers
    <2>3. \A n \in Managers \ {m} :
            managers[n].pc \in {"publishing", "up", "seated"}
              /\ managers[n].ident = vault[managers[n].user].ident
            => managers[n].ident = vault'[managers[n].user].ident
      BY <1>2, <1>3, <2>2 DEF SeatInv, Identified
    <2>4. QED
      BY <1>1, <1>2, <1>3, <2>1, <2>3 DEF SeatInv, Identified
  <1>6. QED
    BY <1>4, <1>5 DEF SeatInv

LEMMA SeatPublish ==
  ASSUME AtLocks, SeatInv, NEW m \in Managers, Publish(m)
  PROVE  SeatInv'
  <1>1. /\ managers[m] \in ManagerType /\ managers[m].pc = "publishing"
        /\ UNCHANGED <<seat, effect, reset, status, vault>>
    BY DEF AtLocks, TypesApart, Publish
  <1>2. PICK new \in ManagerType :
          /\ managers' = [managers EXCEPT ![m] = new]
          /\ new.user = managers[m].user /\ new.live = managers[m].live
          /\ new.pc = "other" \/ (new.pc = "up" /\ new.ident = managers[m].ident)
    <2>1. CASE managers' = [managers EXCEPT ![m].pc = "up"]
      <3>1. [managers[m] EXCEPT !.pc = "up"] \in ManagerType
        BY <1>1, ManagerChanges
      <3>2. QED
        BY <1>1, <2>1, <3>1 DEF ManagerType
    <2>2. CASE managers' = [managers EXCEPT ![m].pc = "other", ![m].ident = 0]
      <3>1. [managers[m] EXCEPT !.pc = "other", !.ident = 0] \in ManagerType
        BY <1>1, ManagerChanges
      <3>2. managers' = [managers EXCEPT ![m] = [managers[m] EXCEPT !.pc = "other", !.ident = 0]]
        BY <2>2 DEF AtLocks, TypesApart
      <3>3. QED
        BY <1>1, <3>1, <3>2 DEF ManagerType
    <2>3. QED
      BY <2>1, <2>2 DEF Publish
  <1>3. Shown' /\ Standing'
    BY <1>1, <1>2, SeatMoves
  <1>4. Identified'
    <2>1. managers'[m] = new /\ \A n \in Managers \ {m} : managers'[n] = managers[n]
      BY <1>2 DEF AtLocks, TypesApart
    <2>2. QED
      BY <1>1, <1>2, <2>1 DEF SeatInv, Identified
  <1>5. QED
    BY <1>3, <1>4 DEF SeatInv

LEMMA SeatSettled ==
  ASSUME AtLocks, SeatInv, NEW m \in Managers, Seated(m) \/ Failed(m)
  PROVE  SeatInv'
  <1> USE SlotsAssumption
  <1>1. UNCHANGED <<effect, reset, vault>> /\ managers[m] \in ManagerType
        /\ managers[m].pc \in {"up", "local", "other"}
    BY DEF Seated, Failed, AtLocks, TypesApart
  <1>2. CASE managers' = [managers EXCEPT ![m] = NoManager] /\ UNCHANGED seat
             /\ (status' = status \/ (managers[m].live /\ status' \in {"local", "other"}))
    <2>1. NoManager \in ManagerType /\ ~NoManager.live /\ NoManager.pc = "none"
      BY DEF NoManager, ManagerType
    <2> HIDE DEF NoManager
    <2>2. Shown' /\ Standing'
      <3>1. PICK k \in ManagerType : k = NoManager
        BY <2>1
      <3>2. QED
        BY <1>1, <1>2, <2>1, <3>1, SeatMoves
    <2>3. Identified'
      BY <1>1, <1>2, <2>1 DEF AtLocks, TypesApart, SeatInv, Identified
    <2>4. QED
      BY <2>2, <2>3 DEF SeatInv
  <1>3. CASE /\ managers[m].live /\ managers[m].pc = "up"
             /\ seat' = m /\ status' = "ready"
             /\ managers' = [managers EXCEPT ![m].pc = "seated"]
    <2>1. /\ managers'[m].pc = "seated" /\ managers'[m].live
          /\ managers'[m].user = managers[m].user /\ managers'[m].ident = managers[m].ident
          /\ \A n \in Managers \ {m} : managers'[n] = managers[n]
      BY <1>1, <1>3 DEF AtLocks, TypesApart, ManagerType
    <2>2. \A n \in Managers \ {m} : ~managers[n].live /\ managers[n].pc # "seated"
      BY <1>1, <1>3 DEF SeatInv, Standing, NoIdleEngine
    <2>3. Shown' /\ Standing'
      BY <1>3, <2>1, <2>2, <1>1 DEF SeatInv, Shown, Standing, NoIdleEngine
    <2>4. Identified'
      BY <1>1, <1>3, <2>1 DEF SeatInv, Identified
    <2>5. QED
      BY <2>3, <2>4 DEF SeatInv
  <1>4. QED
    BY <1>1, <1>2, <1>3 DEF Seated, Failed

LEMMA SeatReset ==
  ASSUME AtLocks, SeatInv, Wipe \/ EndReset
  PROVE  SeatInv'
  <1>1. CASE EndReset
    <2>1. UNCHANGED <<managers, seat, status, vault>> /\ reset'.pc = "none"
          /\ effect'.user = effect.user /\ effect'.owed
      BY <1>1 DEF EndReset, deviceVars, NoReset, AtLocks, TypesApart
    <2>2. QED
      BY <2>1 DEF SeatInv, Shown, Standing, NoIdleEngine, Identified
  <1>2. CASE Wipe
    <2>1. /\ UNCHANGED <<managers, seat, status, effect>>
          /\ reset.user \in Users /\ Holds(reset.user, "reset") /\ reset'.pc = "wiped"
          /\ \A u \in Users \ {reset.user} : vault'[u].ident = vault[u].ident
      BY <1>2 DEF Wipe, deviceVars, NoReset, AtLocks, TypesApart, Workers
    <2>2. \A m \in Managers :
            managers[m].pc = "publishing" => managers[m].user \in Users \ {reset.user}
      BY <2>1, SlotsAssumption DEF AtLocks, Workers, Holding, Holds
    <2>3. QED
      BY <2>1, <2>2 DEF SeatInv, Shown, Standing, NoIdleEngine, Identified
  <1>3. QED
    BY <1>1, <1>2

-----------------------------------------------------------------------------
(***************************************************************************)
(* The plaintext of others.                                                *)
(***************************************************************************)
LEMMA ForgetForgets ==
  ASSUME TypesApart, NEW u \in Users, Forget(u), UNCHANGED calls
  PROVE  /\ memory'[u] = Empty
         /\ \A v \in Users \ {u} : memory'[v] = memory[v]
         /\ \A v \in Users : Hydrating(v)' <=> Hydrating(v)
         /\ \A v \in Users : Rowing(v)' <=> Rowing(v)
         /\ \A v \in Users \ {u} : v \in leaky' <=> v \in leaky
         /\ u \notin leaky' => ~Rowing(u) /\ ~Hydrating(u)
  <1>1. memory'[u] = Empty /\ \A v \in Users \ {u} : memory'[v] = memory[v]
    BY DEF Forget, TypesApart
  <1>2. \A v \in Users : Hydrating(v)' <=> Hydrating(v)
    <2>1. \A x \in loading : [x EXCEPT !.stale = @ \/ x.user = u].user = x.user
      BY DEF TypesApart, LoadType
    <2>2. loading' = {[x EXCEPT !.stale = @ \/ x.user = u] : x \in loading}
      BY DEF Forget, Outdated
    <2>3. QED
      BY <2>1, <2>2 DEF Hydrating
  <1>3. \A v \in Users : Rowing(v)' <=> Rowing(v)
    BY DEF Rowing
  <1>4. QED
    BY <1>1, <1>2, <1>3 DEF Forget

LEMMA CleanStart == Init => OthersClean
  BY LifecycleAssumption DEF Init, OthersClean, Clean, Empty, Hydrating, Rowing, NoCall

\* Nothing was hydrated or called, and no user was left.
LEMMA CleanStays ==
  ASSUME OthersClean, UNCHANGED <<memory, loading, leaky>>, effect'.user = effect.user,
         \A u \in Users : Rowing(u)' => Rowing(u)
  PROVE  OthersClean'
  BY DEF OthersClean, Clean, Hydrating

LEMMA CleanStep ==
  ASSUME AtLocks, SeatInv, OthersClean, Next
  PROVE  OthersClean'
  <1>1. ASSUME SignOut \/ Retry \/ AskReset \/ EndReset \/ (\E u \in Users : SignIn(u))
               \/ (\E m \in Managers : ManagerStep(m))
               \/ \E w \in writes : Snapshot(w) \/ PutCache(w)
        PROVE  OthersClean'
    <2>1. UNCHANGED <<memory, loading, leaky, calls>>
      BY <1>1 DEF SignOut, Retry, AskReset, EndReset, SignIn, ManagerStep, LoadIdentity, Publish,
        Seated, Failed, Snapshot, PutCache, cacheVars, historyVars
    <2>2. effect'.user = effect.user
      BY <1>1 DEF SignOut, Retry, AskReset, EndReset, SignIn, ManagerStep, LoadIdentity, Publish,
        Seated, Failed, Snapshot, PutCache, AtLocks, TypesApart
    <2>3. QED
      BY <2>1, <2>2, CleanStays DEF Rowing
  <1>2. ASSUME NEW u \in Users, StartLoad(u)
        PROVE  OthersClean'
    <2>1. u = effect.user /\ UNCHANGED <<memory, leaky, calls, effect>>
          /\ loading' = loading \cup {[user |-> u, stale |-> FALSE]}
      BY <1>2 DEF StartLoad, historyVars
    <2>2. QED
      BY <2>1 DEF OthersClean, Clean, Hydrating, Rowing
  <1>3. ASSUME NEW load \in loading, FinishLoad(load)
        PROVE  OthersClean'
    <2>1. load.user \in Users /\ Hydrating(load.user)
          /\ UNCHANGED <<leaky, calls, effect>> /\ loading' \subseteq loading
      BY <1>3 DEF FinishLoad, AtLocks, TypesApart, LoadType, Hydrating, historyVars
    <2>2. \A v \in Users \ {load.user} : memory'[v] = memory[v]
      BY <1>3 DEF FinishLoad, AtLocks, TypesApart
    <2>3. QED
      BY <2>1, <2>2 DEF OthersClean, Clean, Hydrating, Rowing
  <1>4. ASSUME RunEffect
        PROVE  OthersClean'
    <2>1. effect' = [user |-> user, owed |-> FALSE] /\ UNCHANGED calls
      BY <1>4 DEF RunEffect
    <2>2. CASE seat # NOBODY
      <3>1. /\ seat \in Managers /\ managers[seat].user = effect.user
            /\ managers[seat].user \in Users /\ Forget(managers[seat].user)
        BY <1>4, <2>2 DEF RunEffect, SeatInv, Standing, AtLocks, Workers
      <3>2. QED
        BY <2>1, <3>1, ForgetForgets DEF AtLocks, OthersClean, Clean, Empty
    <2>3. CASE seat = NOBODY
      <3>1. UNCHANGED <<memory, loading>> /\ leaky \subseteq leaky'
            /\ (user # effect.user => effect.user \in leaky' \cup {NOBODY})
        BY <1>4, <2>3 DEF RunEffect, cacheVars
      <3>2. QED
        BY <2>1, <3>1, LifecycleAssumption DEF OthersClean, Clean, Hydrating, Rowing
    <2>4. QED
      BY <2>2, <2>3
  <1>5. ASSUME Wipe
        PROVE  OthersClean'
    <2>1. reset.user \in Users /\ Forget(reset.user) /\ UNCHANGED <<calls, effect>>
      BY <1>5 DEF Wipe, AtLocks, Workers, NoReset
    <2>2. QED
      BY <2>1, ForgetForgets DEF AtLocks, OthersClean, Clean, Empty
  <1>6. ASSUME NEW row \in Rows, Begin(row)
        PROVE  OthersClean'
    <2>1. user = effect.user /\ UNCHANGED <<memory, loading, leaky, effect>>
      BY <1>6 DEF Begin, SeatInv, Standing, cacheVars, historyVars
    <2>2. \A v \in Users \ {user} : Rowing(v)' => Rowing(v)
      BY <1>6 DEF Begin, Rowing, AtLocks, TypesApart
    <2>3. QED
      BY <2>1, <2>2 DEF OthersClean, Clean, Hydrating
  <1>7. ASSUME NEW c \in Calls, CallStep(c)
        PROVE  OthersClean'
    <2>1. /\ calls[c].user \in Users /\ Rowing(calls[c].user)
          /\ UNCHANGED <<loading, leaky, effect>>
          /\ \A v \in Users \ {calls[c].user} : memory'[v] = memory[v]
      BY <1>7 DEF CallStep, Check, Engine, Keep, Rowing, AtLocks, TypesApart, Workers, NoCall,
        cacheVars, historyVars
    <2>2. \A d \in Calls : calls'[d].user \in {calls[d].user, NOBODY}
      <3>1. calls'[c].user \in {calls[c].user, NOBODY}
        BY <1>7 DEF CallStep, Check, Engine, Keep, AtLocks, TypesApart, CallType, NoCall
      <3>2. \A d \in Calls \ {c} : calls'[d] = calls[d]
        BY <1>7 DEF CallStep, Check, Engine, Keep, AtLocks, TypesApart
      <3>3. QED
        BY <3>1, <3>2
    <2>3. \A v \in Users : Rowing(v)' => Rowing(v)
      BY <2>2, LifecycleAssumption DEF Rowing
    <2>4. QED
      BY <2>1, <2>3 DEF OthersClean, Clean, Hydrating
  <1>8. QED
    BY <1>1, <1>2, <1>3, <1>4, <1>5, <1>6, <1>7 DEF Next, ResetStep

-----------------------------------------------------------------------------
(***************************************************************************)
(* The history of a user.                                                  *)
(***************************************************************************)
LEMMA HistoryStart == Init => HistoryInv
  BY LifecycleAssumption DEF Init, HistoryInv, Cached, Hydrated, WritesInTurn, WritesOf, Writing,
    CallsSeated, Stored, Empty, NoCall

\* What is cached depends on the memory, the cache and the writes of the user.
LEMMA CachedStays ==
  ASSUME NEW u \in Users, Cached(u), memory'[u] = memory[u], vault'[u].cache = vault[u].cache,
         \A w : w.user = u => (w \in writes' <=> w \in writes)
  PROVE  Cached(u)'
  <1>1. WritesOf(u, "queued")' = WritesOf(u, "queued")
        /\ WritesOf(u, "sealing")' = WritesOf(u, "sealing")
    BY DEF WritesOf
  <1>2. Writing(u)' <=> Writing(u)
    BY DEF Writing
  <1>3. \A w \in writes' : w.user = u => ~w.stale
    BY DEF Cached, WritesInTurn
  <1>4. Hydrated(u)'
    BY <1>2 DEF Cached, Hydrated
  <1>5. WritesInTurn(u)'
    BY <1>1, <1>3 DEF Cached, WritesInTurn
  <1>6. QED
    BY <1>4, <1>5 DEF Cached

\* What is stored depends on the memory, the vault and the calls of the user.
LEMMA StoredStays ==
  ASSUME NEW u \in Users, Stored(u),
         memory'[u].rows = memory[u].rows, vault'[u].cache = vault[u].cache,
         vault'[u].spent = vault[u].spent,
         \A c \in Calls : calls[c].user = u => calls'[c] = calls[c]
  PROVE  Stored(u)'
  <1>1. InFlight(u) \subseteq InFlight(u)'
    BY DEF InFlight
  <1>2. QED
    BY <1>1 DEF Stored

\* A user whose memory is released without being torn had nothing under way.
LEMMA ForgetKeeps ==
  ASSUME TypesApart, NEW v \in Users, Forget(v), UNCHANGED calls, HistoryInv,
         \A u \in Users : vault'[u].cache = vault[u].cache /\ vault'[u].spent = vault[u].spent,
         NEW u \in Users, u \notin torn'
  PROVE  /\ u \notin torn /\ Cached(u)' /\ Stored(u)'
         /\ u = v => ~Rowing(u)
  <1> DEFINE Aged(x) == [x EXCEPT !.stale = @ \/ x.user = v]
  <1>1. /\ torn' = IF Rowing(v) \/ Writing(v) THEN torn \cup {v} ELSE torn
        /\ writes' = {Aged(x) : x \in writes}
        /\ memory' = [memory EXCEPT ![v] = Empty]
    BY DEF Forget, Outdated
  <1>2. u \notin torn /\ Cached(u) /\ Stored(u)
    BY <1>1 DEF HistoryInv
  <1>3. \A x \in writes : Aged(x).user = x.user /\ (x.user # v => Aged(x) = x)
    BY DEF TypesApart, WriteType
  <1> HIDE DEF Aged
  <1>4. CASE u # v
    <2>2. \A w : w.user = u => (w \in writes' <=> w \in writes)
      BY <1>1, <1>3, <1>4
    <2>3. memory'[u] = memory[u]
      BY <1>1, <1>4 DEF TypesApart
    <2>4. QED
      BY <1>2, <1>4, <2>2, <2>3, CachedStays, StoredStays
  <1>5. CASE u = v
    <2>1. ~Rowing(u) /\ ~Writing(u) /\ memory'[u] = Empty
      BY <1>1, <1>5 DEF TypesApart
    <2>2. \A w \in writes' : w.user # u
      BY <1>1, <1>3, <2>1 DEF Writing
    <2>3. Cached(u)'
      BY <2>1, <2>2 DEF Cached, Hydrated, WritesInTurn, WritesOf, Writing, Empty
    <2>4. memory[u].rows \subseteq vault[u].cache
      BY <1>2, <2>1 DEF Cached, WritesInTurn, WritesOf, Writing
    <2>5. InFlight(u) = {}
      BY <2>1 DEF InFlight, Rowing
    <2>6. Stored(u)'
      BY <1>2, <2>4, <2>5 DEF Stored
    <2>7. QED
      BY <1>2, <2>1, <2>3, <2>6
  <1>6. QED
    BY <1>4, <1>5

LEMMA HistoryElsewhere ==
  ASSUME AtLocks, SeatInv, HistoryInv, Elsewhere
  PROVE  HistoryInv'
  <1>1. UNCHANGED <<seat, managers, calls, torn>>
    BY DEF Elsewhere, SignIn, StartLoad, SignOut, Retry, FinishLoad, Snapshot, PutCache, deviceVars,
      historyVars
  <1> SUFFICES ASSUME NEW u \in Users, u \notin torn
               PROVE  Cached(u)' /\ CallsSeated(u)' /\ Stored(u)'
    BY <1>1 DEF HistoryInv
  <1>2. Cached(u) /\ CallsSeated(u) /\ Stored(u)
    BY DEF HistoryInv
  <1>3. CallsSeated(u)'
    BY <1>1, <1>2 DEF CallsSeated
  <1>4. CASE UNCHANGED <<memory, vault, writes>>
    BY <1>1, <1>2, <1>3, <1>4, CachedStays, StoredStays
  <1>5. ASSUME NEW load \in loading, FinishLoad(load)
        PROVE  Cached(u)' /\ Stored(u)'
    <2>1. load.user \in Users /\ UNCHANGED <<vault, writes>> /\ memory[u] \in MemoryType
      BY <1>5 DEF FinishLoad, AtLocks, TypesApart, LoadType
    <2>2. CASE u # load.user
      <3>1. memory'[u] = memory[u]
        BY <1>5, <2>1, <2>2 DEF FinishLoad, AtLocks, TypesApart
      <3>2. QED
        BY <1>1, <1>2, <2>1, <3>1, CachedStays, StoredStays
    <2>3. CASE u = load.user
      <3>1. /\ memory'[u].rows = memory[u].rows \cup vault[u].cache
            /\ memory'[u].exists
            /\ memory[u].loaded => memory'[u].loaded
        BY <1>5, <2>1, <2>3 DEF FinishLoad, AtLocks, TypesApart, MemoryType
      <3>2. Hydrated(u)'
        BY <1>2, <2>1, <3>1 DEF Cached, Hydrated, Writing
      <3>3. WritesInTurn(u)'
        BY <1>2, <2>1, <3>1 DEF Cached, WritesInTurn, WritesOf
      <3>4. Stored(u)'
        BY <1>1, <1>2, <2>1, <3>1 DEF Stored, InFlight
      <3>5. QED
        BY <3>2, <3>3, <3>4 DEF Cached
    <2>4. QED
      BY <2>2, <2>3
  <1>6. ASSUME NEW w \in writes, Snapshot(w)
        PROVE  Cached(u)' /\ Stored(u)'
    <2>1. /\ w.user \in Users /\ UNCHANGED <<vault, memory>> /\ w.pc = "queued"
          /\ w \in WriteType
      BY <1>6 DEF Snapshot, AtLocks, TypesApart, WriteType
    <2>2. Stored(u)'
      BY <1>1, <1>2, <2>1 DEF Stored, InFlight
    <2> DEFINE new == [w EXCEPT !.pc = "sealing", !.rows = memory[w.user].rows]
    <2>3. /\ new.user = w.user /\ new.pc = "sealing" /\ new.rows = memory[w.user].rows
          /\ new.stale = w.stale
          /\ writes' = (writes \ {w}) \cup (IF memory[w.user].exists THEN {new} ELSE {})
      BY <1>6, <2>1 DEF Snapshot, WriteType
    <2> HIDE DEF new
    <2>4. CASE u # w.user
      <3>1. \A x : x.user = u => (x \in writes' <=> x \in writes)
        BY <2>3, <2>4
      <3>2. QED
        BY <1>2, <2>1, <2>2, <3>1, CachedStays
    <2>5. CASE u = w.user
      <3>1. Writing(u) /\ memory[u].loaded /\ memory[u].exists
        BY <1>2, <2>5 DEF Cached, Hydrated, Writing
      <3>2. writes' = (writes \ {w}) \cup {new} /\ ~w.stale
        BY <1>2, <2>3, <2>5, <3>1 DEF Cached, WritesInTurn
      <3>3. WritesOf(u, "sealing") = {}
        <4>1. \A v \in WritesOf(u, "sealing") : v.stale = w.stale
          BY <1>2, <2>1, <2>5 DEF Cached, WritesInTurn, WritesOf, AtLocks, TypesApart, WriteType
        <4>2. QED
          BY <1>6, <2>5, <4>1 DEF Snapshot, WritesOf
      <3>4. WritesOf(u, "sealing")' = {new}
        BY <2>1, <2>3, <2>5, <3>2, <3>3 DEF WritesOf
      <3>5. Hydrated(u)'
        BY <1>2, <2>1, <3>1 DEF Cached, Hydrated
      <3>6. WritesInTurn(u)'
        <4>1. vault[u].cache \subseteq memory[u].rows
          BY <1>2, <3>1 DEF Cached, Hydrated
        <4>2. \A x \in writes' : x.user = u => ~x.stale
          BY <1>2, <2>3, <3>2 DEF Cached, WritesInTurn
        <4>3. QED
          BY <2>1, <2>3, <2>5, <3>4, <4>1, <4>2 DEF WritesInTurn
      <3>7. QED
        BY <2>2, <3>5, <3>6 DEF Cached
    <2>6. QED
      BY <2>4, <2>5
  <1>7. ASSUME NEW w \in writes, PutCache(w)
        PROVE  Cached(u)' /\ Stored(u)'
    <2>1. /\ w.user \in Users /\ UNCHANGED memory /\ w.pc = "sealing"
          /\ writes' = writes \ {w}
          /\ vault'[u].spent = vault[u].spent
          /\ u # w.user => vault'[u].cache = vault[u].cache
          /\ u = w.user => vault'[u].cache = w.rows
      BY <1>7 DEF PutCache, AtLocks, TypesApart, WriteType, VaultType
    <2>2. CASE u # w.user
      <3>1. \A x : x.user = u => (x \in writes' <=> x \in writes)
        BY <2>1, <2>2
      <3>2. QED
        BY <1>1, <1>2, <2>1, <2>2, <3>1, CachedStays, StoredStays
    <2>3. CASE u = w.user
      <3>1. /\ w \in WritesOf(u, "sealing") /\ vault[u].cache \subseteq w.rows
            /\ w.rows \subseteq memory[u].rows /\ memory[u].loaded
        BY <1>2, <2>1, <2>3 DEF Cached, Hydrated, WritesInTurn, WritesOf, Writing
      <3>2. WritesOf(u, "sealing")' = {} /\ WritesOf(u, "queued")' = WritesOf(u, "queued")
        BY <1>2, <2>1, <3>1 DEF Cached, WritesInTurn, WritesOf
      <3>3. Hydrated(u)'
        BY <1>2, <2>1, <2>3, <3>1 DEF Cached, Hydrated, Writing
      <3>4. WritesInTurn(u)'
        <4>1. WritesOf(u, "sealing") = {w}
          BY <1>2, <3>1 DEF Cached, WritesInTurn
        <4>2. WritesOf(u, "queued") # {} \/ memory[u].rows \subseteq w.rows
          BY <1>2, <3>1, <4>1 DEF Cached, WritesInTurn
        <4>3. \A x \in writes' : x.user = u => ~x.stale
          BY <1>2, <2>1 DEF Cached, WritesInTurn
        <4>4. QED
          BY <2>1, <2>3, <3>2, <4>2, <4>3 DEF WritesInTurn
      <3>5. Stored(u)'
        BY <1>1, <1>2, <2>1, <2>3, <3>1 DEF Stored, InFlight
      <3>6. QED
        BY <3>3, <3>4, <3>5 DEF Cached
    <2>4. QED
      BY <2>2, <2>3
  <1>8. UNCHANGED <<memory, vault, writes>> \/ (\E load \in loading : FinishLoad(load))
          \/ \E w \in writes : Snapshot(w) \/ PutCache(w)
    BY DEF Elsewhere, SignIn, SignOut, Retry, StartLoad, cacheVars
  <1>9. QED
    BY <1>3, <1>4, <1>5, <1>6, <1>7, <1>8

\* Calls are on the engine in use; where there is none, there are none.
LEMMA SeatForCalls ==
  ASSUME AtLocks, SeatInv, NEW u \in Users, CallsSeated(u)
  PROVE  Rowing(u) => seat \in Managers /\ managers[seat].user = u
  BY LifecycleAssumption DEF CallsSeated, Rowing, AtLocks, Workers, NoCall

LEMMA HistoryRunEffect ==
  ASSUME AtLocks, SeatInv, HistoryInv, RunEffect
  PROVE  HistoryInv'
  <1> USE SlotsAssumption
  <1> SUFFICES ASSUME NEW u \in Users, u \notin torn'
               PROVE  Cached(u)' /\ CallsSeated(u)' /\ Stored(u)'
    BY DEF HistoryInv
  <1>1. UNCHANGED <<vault, calls>>
    BY DEF RunEffect
  <1>2. CASE seat # NOBODY
    <2>1. seat \in Managers /\ managers[seat].user \in Users /\ Forget(managers[seat].user)
      BY <1>2 DEF RunEffect, SeatInv, Standing, AtLocks, Workers
    <2>2. PICK v \in Users : v = managers[seat].user
      BY <2>1
    <2>3. u \notin torn /\ Cached(u)' /\ Stored(u)' /\ (u = v => ~Rowing(u))
      BY <1>1, <2>1, <2>2, ForgetKeeps DEF AtLocks
    <2>4. ~Rowing(u)
      BY <2>2, <2>3, SeatForCalls DEF HistoryInv
    <2>5. CallsSeated(u)'
      BY <1>1, <2>4 DEF CallsSeated, Rowing
    <2>6. QED
      BY <2>3, <2>5
  <1>3. CASE seat = NOBODY
    <2>1. UNCHANGED <<memory, writes, torn>>
      BY <1>3 DEF RunEffect, cacheVars
    <2>2. Cached(u) /\ CallsSeated(u) /\ Stored(u)
      BY <2>1 DEF HistoryInv
    <2>3. ~Rowing(u)
      BY <1>3, <2>2, SeatForCalls
    <2>4. CallsSeated(u)'
      BY <1>1, <2>3 DEF CallsSeated, Rowing
    <2>5. QED
      BY <1>1, <2>1, <2>2, <2>4, CachedStays, StoredStays
  <1>4. QED
    BY <1>2, <1>3

\* Managers, and the reset until it wipes, leave calls, memory and history alone.
LEMMA HistoryManagers ==
  ASSUME AtLocks, SeatInv, HistoryInv,
         AskReset \/ EndReset \/ \E m \in Managers : ManagerStep(m)
  PROVE  HistoryInv'
  <1> USE SlotsAssumption
  <1>1. UNCHANGED <<memory, writes, calls, torn>>
    BY DEF AskReset, EndReset, ManagerStep, LoadIdentity, Publish, Seated, Failed, cacheVars,
      historyVars
  <1>2. \A v \in Users : vault'[v].cache = vault[v].cache /\ vault'[v].spent = vault[v].spent
    <2>1. ASSUME NEW m \in Managers, LoadIdentity(m)
          PROVE  \A v \in Users : vault'[v].cache = vault[v].cache
                                  /\ vault'[v].spent = vault[v].spent
      BY <2>1 DEF LoadIdentity, AtLocks, TypesApart, VaultType
    <2>2. CASE UNCHANGED vault
      BY <2>2
    <2>3. QED
      BY <2>1, <2>2 DEF AskReset, EndReset, ManagerStep, Publish, Seated, Failed
  <1> SUFFICES ASSUME NEW u \in Users, u \notin torn
               PROVE  Cached(u)' /\ CallsSeated(u)' /\ Stored(u)'
    BY <1>1 DEF HistoryInv
  <1>3. Cached(u) /\ CallsSeated(u) /\ Stored(u)
    BY DEF HistoryInv
  <1>4. ASSUME Rowing(u)
        PROVE  seat' = seat /\ managers'[seat].user = u
    <2>1. /\ seat \in Managers /\ managers[seat].user = u
          /\ managers[seat].pc = "seated" /\ managers[seat].live
      BY <1>3, <1>4, SeatForCalls DEF SeatInv, Standing
    <2>2. ASSUME NEW m \in Managers, LoadIdentity(m) \/ Publish(m)
          PROVE  seat' = seat /\ managers'[seat].user = u
      BY <2>1, <2>2 DEF LoadIdentity, Publish, AtLocks, TypesApart
    <2>3. ASSUME NEW m \in Managers, Seated(m) \/ Failed(m)
          PROVE  seat' = seat /\ managers'[seat].user = u
      <3>1. m # seat /\ managers[m].pc \in {"up", "local", "other"}
        BY <2>1, <2>3 DEF Seated, Failed
      <3>2. ~managers[m].live
        BY <2>1, <3>1 DEF SeatInv, Standing
      <3>3. QED
        BY <2>1, <2>3, <3>1, <3>2 DEF Seated, Failed, AtLocks, TypesApart
    <2>4. CASE AskReset \/ EndReset
      BY <2>1, <2>4 DEF AskReset, EndReset, deviceVars
    <2>5. QED
      BY <2>2, <2>3, <2>4 DEF ManagerStep
  <1>5. CallsSeated(u)'
    BY <1>1, <1>3, <1>4 DEF CallsSeated, Rowing
  <1>6. QED
    BY <1>1, <1>2, <1>3, <1>5, CachedStays, StoredStays

LEMMA HistoryWipe ==
  ASSUME AtLocks, SeatInv, HistoryInv, Wipe
  PROVE  HistoryInv'
  <1> SUFFICES ASSUME NEW u \in Users, u \notin torn'
               PROVE  Cached(u)' /\ CallsSeated(u)' /\ Stored(u)'
    BY DEF HistoryInv
  <1>1. UNCHANGED <<seat, managers, calls>> /\ Forget(reset.user) /\ reset.user \in Users
    BY DEF Wipe, deviceVars, AtLocks, Workers, NoReset
  <1>2. \A v \in Users : vault'[v].cache = vault[v].cache /\ vault'[v].spent = vault[v].spent
    BY <1>1 DEF Wipe, AtLocks, TypesApart, VaultType
  <1>3. u \notin torn /\ Cached(u)' /\ Stored(u)'
    BY <1>1, <1>2, ForgetKeeps DEF AtLocks
  <1>4. CallsSeated(u)'
    BY <1>1, <1>3 DEF HistoryInv, CallsSeated
  <1>5. QED
    BY <1>3, <1>4

LEMMA HistoryBegin ==
  ASSUME AtLocks, SeatInv, HistoryInv, NEW row \in Rows, Begin(row)
  PROVE  HistoryInv'
  <1>1. UNCHANGED <<seat, managers, memory, writes, vault, torn>>
        /\ user \in Users /\ seat # NOBODY /\ managers[seat].user = user
    BY DEF Begin, deviceVars, cacheVars, historyVars, AtLocks, TypesApart
  <1> SUFFICES ASSUME NEW u \in Users, u \notin torn
               PROVE  Cached(u)' /\ CallsSeated(u)' /\ Stored(u)'
    BY <1>1 DEF HistoryInv
  <1>2. Cached(u) /\ CallsSeated(u) /\ Stored(u)
    BY DEF HistoryInv
  <1>3. PICK c \in Calls :
          /\ calls[c] = NoCall
          /\ calls' = [calls EXCEPT ![c] =
               [user |-> user, pc |-> "asked", row |-> row, manager |-> seat]]
    BY DEF Begin, Idle
  <1>4. \A d \in Calls : calls[d].user = u => calls'[d] = calls[d]
    BY <1>3, LifecycleAssumption DEF NoCall, AtLocks, TypesApart
  <1>5. CallsSeated(u)'
    BY <1>1, <1>2, <1>3 DEF CallsSeated, AtLocks, TypesApart
  <1>6. QED
    BY <1>1, <1>2, <1>4, <1>5, CachedStays, StoredStays

\* A row that is marked spent is in a call that the engine in use still answers.
LEMMA HistoryCheckEngine ==
  ASSUME AtLocks, SeatInv, HistoryInv, NEW c \in Calls, Check(c) \/ Engine(c)
  PROVE  HistoryInv'
  <1> DEFINE v == calls[c].user
             row == calls[c].row
  <1>1. /\ UNCHANGED <<seat, managers, memory, writes, torn>>
        /\ v \in Users /\ row \in Rows /\ calls[c] \in CallType /\ calls[c] # NoCall
        /\ \A w \in Users : vault[w] \in VaultType
    BY DEF Check, Engine, deviceVars, cacheVars, historyVars, AtLocks, TypesApart, Workers, NoCall
  <1> SUFFICES ASSUME NEW u \in Users, u \notin torn
               PROVE  Cached(u)' /\ CallsSeated(u)' /\ Stored(u)'
    BY <1>1 DEF HistoryInv
  <1>2. Cached(u) /\ CallsSeated(u) /\ Stored(u)
    BY DEF HistoryInv
  <1>3. /\ \A d \in Calls \ {c} : calls'[d] = calls[d]
        /\ \/ calls'[c] = NoCall
           \/ /\ calls'[c].user = v /\ calls'[c].manager = calls[c].manager
              /\ calls'[c].row = row /\ calls'[c].pc \in {"checked", "done"}
        /\ \A w \in Users : vault'[w].cache = vault[w].cache
        /\ \A w \in Users \ {v} : vault'[w].spent = vault[w].spent
        /\ vault'[v].spent \subseteq vault[v].spent \cup {row}
        /\ calls'[c] = NoCall => vault'[v].spent = vault[v].spent
    <2>1. CASE calls' = [calls EXCEPT ![c] = NoCall] /\ UNCHANGED vault
      BY <1>1, <2>1 DEF AtLocks, TypesApart
    <2>2. CASE /\ \E label \in {"checked", "done"} : calls' = [calls EXCEPT ![c].pc = label]
               /\ \E s \in {vault[v].spent, vault[v].spent \cup {row}} :
                    vault' = [vault EXCEPT ![v].spent = s]
      <3>1. /\ \A d \in Calls \ {c} : calls'[d] = calls[d]
            /\ calls'[c].user = v /\ calls'[c].manager = calls[c].manager
            /\ calls'[c].row = row /\ calls'[c].pc \in {"checked", "done"}
        BY <1>1, <2>2 DEF AtLocks, TypesApart, CallType
      <3>2. /\ \A w \in Users : vault'[w].cache = vault[w].cache
            /\ \A w \in Users \ {v} : vault'[w].spent = vault[w].spent
            /\ vault'[v].spent \subseteq vault[v].spent \cup {row}
        BY <1>1, <2>2 DEF AtLocks, TypesApart, VaultType
      <3>3. calls'[c] # NoCall
        BY <3>1 DEF NoCall
      <3>4. QED
        BY <3>1, <3>2, <3>3
    <2>3. QED
      <3>1. CASE Check(c)
        BY <2>1, <2>2, <3>1 DEF Check
      <3>2. CASE Engine(c)
        BY <2>1, <2>2, <3>2 DEF Engine
      <3>3. QED
        BY <3>1, <3>2
  <1>4. CallsSeated(u)'
    BY <1>1, <1>2, <1>3, LifecycleAssumption DEF CallsSeated, NoCall
  <1>5. Cached(u)'
    BY <1>1, <1>2, <1>3, CachedStays
  <1>6. Stored(u)'
    <2>1. CASE u # v
      BY <1>1, <1>2, <1>3, <2>1, StoredStays
    <2>2. CASE u = v /\ calls'[c] # NoCall
      <3>1. InFlight(u) \cup {row} \subseteq InFlight(u)'
        BY <1>3, <2>2 DEF InFlight
      <3>2. QED
        BY <1>1, <1>2, <1>3, <2>2, <3>1 DEF Stored
    <2>3. CASE u = v /\ calls'[c] = NoCall
      <3>1. calls[c].pc = "asked"
        <4>1. /\ seat \in Managers /\ calls[c].manager = seat
              /\ managers[seat].pc = "seated"
          BY <1>1, <1>2, <2>3, SlotsAssumption DEF CallsSeated, SeatInv, Standing, AtLocks, Workers
        <4>2. managers[seat].ident # 0
          BY <4>1 DEF SeatInv, Identified
        <4>3. calls[c] \in CallType => [calls[c] EXCEPT !.pc = "done"].pc = "done"
          BY DEF CallType
        <4>4. QED
          BY <1>1, <2>3, <4>1, <4>2, <4>3 DEF Check, Engine, AtLocks, TypesApart, NoCall
      <3>2. InFlight(u) \subseteq InFlight(u)'
        BY <1>3, <3>1 DEF InFlight
      <3>3. QED
        BY <1>1, <1>2, <1>3, <2>3, <3>2 DEF Stored
    <2>4. QED
      BY <2>1, <2>2, <2>3
  <1>7. QED
    BY <1>4, <1>5, <1>6

\* A row leaves its call for the memory and a write, or its user is torn.
LEMMA HistoryKeep ==
  ASSUME AtLocks, SeatInv, HistoryInv, NEW c \in Calls, Keep(c)
  PROVE  HistoryInv'
  <1> DEFINE v == calls[c].user
             row == calls[c].row
  <1>1. /\ UNCHANGED <<seat, managers, vault>> /\ torn \subseteq torn'
        /\ v \in Users /\ row \in Rows /\ memory[v] \in MemoryType
        /\ calls' = [calls EXCEPT ![c] = NoCall]
    BY DEF Keep, deviceVars, AtLocks, TypesApart, Workers, NoCall
  <1> SUFFICES ASSUME NEW u \in Users, u \notin torn'
               PROVE  Cached(u)' /\ CallsSeated(u)' /\ Stored(u)'
    BY DEF HistoryInv
  <1>2. Cached(u) /\ CallsSeated(u) /\ Stored(u)
    BY <1>1 DEF HistoryInv
  <1>3. calls'[c] = NoCall /\ \A d \in Calls \ {c} : calls'[d] = calls[d]
    BY <1>1 DEF AtLocks, TypesApart
  <1>4. CallsSeated(u)'
    BY <1>1, <1>2, <1>3, LifecycleAssumption DEF CallsSeated, NoCall
  <1>5. CASE u # v
    <2>1. memory'[u] = memory[u] /\ \A w : w.user = u => (w \in writes' <=> w \in writes)
      BY <1>1, <1>5 DEF Keep, AtLocks, TypesApart
    <2>2. QED
      BY <1>1, <1>2, <1>3, <1>4, <1>5, <2>1, CachedStays, StoredStays
  <1>6. CASE u = v
    <2> DEFINE new == [user |-> u, stale |-> FALSE, pc |-> "queued", rows |-> {}]
    <2>1. /\ memory[u].loaded
          /\ memory' = [memory EXCEPT ![u].rows = @ \cup {row}, ![u].exists = TRUE]
          /\ writes' = writes \cup {new}
      BY <1>1, <1>6 DEF Keep
    <2>2. /\ memory'[u].rows = memory[u].rows \cup {row}
          /\ memory'[u].exists /\ memory'[u].loaded
      BY <1>1, <1>6, <2>1 DEF AtLocks, TypesApart, MemoryType
    <2>3. new.user = u /\ ~new.stale /\ new.pc = "queued"
      OBVIOUS
    <2> HIDE DEF new
    <2>4. WritesOf(u, "queued")' # {} /\ WritesOf(u, "sealing")' = WritesOf(u, "sealing")
      BY <2>1, <2>3 DEF WritesOf
    <2>5. Hydrated(u)'
      BY <1>1, <1>2, <2>1, <2>2 DEF Cached, Hydrated
    <2>6. WritesInTurn(u)'
      <3>1. \A w \in writes' : w.user = u => ~w.stale
        BY <1>2, <2>1, <2>3 DEF Cached, WritesInTurn
      <3>2. QED
        BY <1>1, <1>2, <2>2, <2>4, <3>1 DEF Cached, WritesInTurn
    <2>7. Stored(u)'
      <3>1. InFlight(u) \subseteq InFlight(u)' \cup {row}
        BY <1>3 DEF InFlight
      <3>2. QED
        BY <1>1, <1>2, <2>2, <3>1 DEF Stored
    <2>8. QED
      BY <1>4, <2>5, <2>6, <2>7 DEF Cached
  <1>7. QED
    BY <1>5, <1>6

-----------------------------------------------------------------------------
EngineIInv == AtLocks /\ SeatInv /\ OthersClean /\ HistoryInv

LEMMA EngineStart == Init => EngineIInv
  BY AtLocksStart, SeatStart, CleanStart, HistoryStart DEF EngineIInv

LEMMA EngineNext ==
  ASSUME EngineIInv, Next
  PROVE  EngineIInv'
  <1> USE DEF EngineIInv
  <1>1. OthersClean'
    BY CleanStep
  <1>2. ASSUME Elsewhere
        PROVE  AtLocks' /\ SeatInv' /\ HistoryInv'
    BY <1>2, AtLocksElsewhere, SeatElsewhere, HistoryElsewhere
  <1>3. ASSUME RunEffect
        PROVE  AtLocks' /\ SeatInv' /\ HistoryInv'
    BY <1>3, AtLocksRunEffect, SeatRunEffect, HistoryRunEffect DEF SeatInv
  <1>4. ASSUME NEW m \in Managers, ManagerStep(m)
        PROVE  AtLocks' /\ SeatInv' /\ HistoryInv'
    BY <1>4, AtLocksLoadIdentity, AtLocksPublish, AtLocksSettled, SeatLoadIdentity, SeatPublish,
      SeatSettled, HistoryManagers DEF ManagerStep
  <1>5. ASSUME AskReset \/ ResetStep
        PROVE  AtLocks' /\ SeatInv' /\ HistoryInv'
    BY <1>5, AtLocksAskReset, AtLocksWipe, AtLocksEndReset, SeatCalls, SeatReset, HistoryManagers,
      HistoryWipe DEF ResetStep
  <1>6. ASSUME NEW row \in Rows, Begin(row)
        PROVE  AtLocks' /\ SeatInv' /\ HistoryInv'
    BY <1>6, AtLocksBegin, SeatCalls, HistoryBegin DEF SeatInv
  <1>7. ASSUME NEW c \in Calls, CallStep(c)
        PROVE  AtLocks' /\ SeatInv' /\ HistoryInv'
    BY <1>7, AtLocksCheck, AtLocksEngine, AtLocksKeep, SeatCalls, HistoryCheckEngine, HistoryKeep
      DEF CallStep
  <1>8. QED
    BY <1>1, <1>2, <1>3, <1>4, <1>5, <1>6, <1>7 DEF Next, Elsewhere

LEMMA EngineStutters ==
  ASSUME EngineIInv, UNCHANGED vars
  PROVE  EngineIInv'
  <1>1. UNCHANGED <<user, effect, seat, status, managers, reset, locks, vault, memory, loading,
                    writes, calls, torn, leaky>>
    BY DEF vars, deviceVars, cacheVars, historyVars
  <1> USE DEF EngineIInv
  <1>2. AtLocks'
    BY <1>1 DEF AtLocks, TypesApart, LockQueues, LocksTyped, Contenders, Workers, Holding, Holds
  <1>3. SeatInv'
    BY <1>1 DEF SeatInv, Shown, Standing, NoIdleEngine, Identified
  <1>4. OthersClean'
    BY <1>1 DEF OthersClean, Clean, Hydrating, Rowing
  <1>5. HistoryInv'
    BY <1>1 DEF HistoryInv, Cached, Hydrated, WritesInTurn, WritesOf, Writing, CallsSeated, Stored,
      InFlight
  <1>6. QED
    BY <1>2, <1>3, <1>4, <1>5

(***************************************************************************)
(* The invariant is inductive, for any number of accounts, managers, calls *)
(* and rows, and any number of resets and failures.                        *)
(***************************************************************************)
THEOREM LifecycleInductive == Spec => []EngineIInv
  <1>1. EngineIInv /\ [Next]_vars => EngineIInv'
    BY EngineNext, EngineStutters
  <1>2. QED
    BY EngineStart, <1>1, PTL DEF Spec

(***************************************************************************)
(* The state has its types, and the queue of a user's lock is made of      *)
(* those who hold or await it, each once (the Web Lock of E2EEContext).    *)
(***************************************************************************)
THEOREM LifecycleTypeCorrect == Spec => []TypeOK
  <1>1. EngineIInv => TypeOK
    <2> SUFFICES ASSUME EngineIInv PROVE TypeOK
      OBVIOUS
    <2>1. TypesApart /\ LockQueues /\ Shown
      BY DEF EngineIInv, AtLocks, SeatInv
    <2>2. QED
      BY <2>1 DEF TypeOK, TypesApart, LockQueues, Shown, ManagerType, CallType, VaultType,
        MemoryType, LoadType, WriteType
  <1>2. QED
    BY LifecycleInductive, <1>1, PTL

(***************************************************************************)
(* No engine, identity or plaintext of one user is left for another, in    *)
(* whatever order initialisations, switches, retries and resets overlap    *)
(* (E2EEContext.tsx:17, 52-62).                                            *)
(***************************************************************************)
THEOREM SessionsIsolated == Spec => []SessionIsolated
  <1>1. EngineIInv => SessionIsolated
    <2> SUFFICES ASSUME EngineIInv PROVE SessionIsolated
      OBVIOUS
    <2>1. Standing /\ Identified /\ OthersClean
      BY DEF EngineIInv, SeatInv
    <2>2. SeatIsCurrent /\ NoIdleEngine
      BY <2>1, SlotsAssumption DEF Standing, SeatIsCurrent
    <2>3. EngineMatchesVault
      BY <2>1 DEF Standing, Identified, EngineMatchesVault
    <2>4. PlaintextReleased
      BY <2>1 DEF OthersClean, Clean, PlaintextReleased
    <2>5. QED
      BY <2>2, <2>3, <2>4 DEF SessionIsolated
  <1>2. QED
    BY LifecycleInductive, <1>1, PTL

(***************************************************************************)
(* A row that cannot be decrypted again is in the sealed cache, in memory  *)
(* or in its call, over every sign-out, retry, switch and reset that met   *)
(* no call or write of the user under way (message-cache.ts:5-9).          *)
(***************************************************************************)
THEOREM HistoriesSurvive == Spec => []HistorySurvives
  <1>1. EngineIInv => HistorySurvives
    BY DEF EngineIInv, HistoryInv, Stored, HistorySurvives
  <1>2. QED
    BY LifecycleInductive, <1>1, PTL
=============================================================================
