----------------------------- MODULE DeviceKeys -----------------------------
(***************************************************************************)
(* The identity and the prekeys of one user's device: the device store of  *)
(* src/lib/e2ee/device-store.ts, the session manager that fills, rotates,  *)
(* publishes and consumes its keys, the key tables of the server, and the  *)
(* peers that claim bundles from it (claim_prekey_bundle).                 *)
(*                                                                         *)
(* The manager works under the Web Lock and the user mutex, so it is at    *)
(* one place at a time, pc; every await is a step boundary where the tab   *)
(* may die. A publication is five requests, and peers claim between them.  *)
(*                                                                         *)
(* A key pair is its kind, the identity it was made under, its id, and     *)
(* which pair of that id it is. The reusable last-resort key is the Kyber  *)
(* key with id 1. A bundle is good to a peer when the signatures in it are *)
(* by the identity in it; one-time X25519 keys ("otp") carry none.         *)
(***************************************************************************)
EXTENDS Integers, FiniteSets, FiniteSetsExt

CONSTANTS
  Peers,            \* users that claim a bundle of this device
  NONE,             \* no key, no record
  PoolSize,         \* keys in a full pool, by kind
  PoolThreshold,    \* a pool is filled at or below this many keys, by kind
  Retention,        \* superseded signed prekeys that are kept
  Legacy,           \* TRUE: the store may be one of a release before rotation
  MaxResets, MaxRotations, MaxClaims,    \* bounds
  MaxMishaps                             \* bound: crashes and failed requests

Kinds == {"otp", "kyber"}

FirstId == [otp |-> 1, kyber |-> 2]

LastResortId == 1

LegacyId == 1

ASSUME PoolAssumption ==
  /\ PoolSize \in [Kinds -> Nat]
  /\ PoolThreshold \in [Kinds -> Nat]
  /\ Retention \in Nat
  /\ Legacy \in BOOLEAN

ASSUME DeviceBoundsAssumption ==
  {MaxResets, MaxRotations, MaxMishaps, MaxClaims} \subseteq Nat

Key ==
  [kind : Kinds \cup {"spk"}, ident : 1..(1 + MaxResets), id : Nat \ {0},
   nth : Nat \ {0}]

PublicMaterial == [identity : Nat, spk : Key, keys : [Kinds -> SUBSET Key]]

PreKeyBundle == [identity : Nat, spk : Key, otp : Key \cup {NONE}, kyber : Key]

ASSUME NoneAssumption ==
  NONE \notin Key /\ NONE \notin PublicMaterial /\ NONE \notin PreKeyBundle

VARIABLES
  disk,      \* the device store:
             \*   identity    the identity, by number; 0: none
             \*   registered  the registration id is stored
             \*   spks        signed prekey records
             \*   meta        the record that says which of them is current
             \*   legacy      the singleton of the release before rotation
             \*   lastResort  the last-resort Kyber record
             \*   pool        one-time records, by kind
             \*   cache       the public material last built for publication
  server,    \* crypto_devices (identity), crypto_signed_prekeys (spks),
             \* crypto_one_time_prekeys and crypto_kyber_prekeys (rows)
  device,    \* the hydrated device in memory: its keys; NONE: not initialised
  pc, op,    \* where the manager is, in which operation
  fresh,     \* keys generated in this initialisation, by kind
  todo,      \* keys of the batch being saved that are not saved yet
  serving,   \* the bundle whose establishing message is being received
  held,      \* the bundle each peer has claimed and not used yet
  made,      \* history: key pairs generated
  handed,    \* history: one-time keys handed out
  torn,      \* history: the tab died with keys stored that no cache has
  used       \* how much of each bound is used

managerVars == <<device, pc, op, fresh, todo, serving>>
historyVars == <<made, handed, torn>>
vars == <<disk, server, managerVars, held, historyVars, used>>

-----------------------------------------------------------------------------
(* Keys *)

Generated(kind, id) ==
  [kind |-> kind, ident |-> disk.identity, id |-> id,
   nth |-> 1 + Cardinality({k \in made : /\ k.kind = kind
                                         /\ k.ident = disk.identity
                                         /\ k.id = id})]

Ids(keys) == {k.id : k \in keys}

\* Mutant: the next id is one past the number of keys.
NextIdByCount(kind) == FirstId[kind] + Cardinality(disk.pool[kind])

\* One past the highest stored id.
NextId(kind) == 1 + Max(Ids(disk.pool[kind]) \cup {FirstId[kind] - 1})

NextSpkId ==
  1 + Max(Ids(disk.spks) \cup {IF disk.meta = NONE THEN 0 ELSE disk.meta.id})

\* Mutant: a write with an id that exists adds a second record.
OverBoth(new, old) == new \cup old

\* Records and rows are addressed by id: a later one replaces an earlier one.
Over(new, old) == new \cup {k \in old : k.id \notin Ids(new)}

\* The current key and the newest Retention keys before it.
KeptSpks(current) ==
  {k \in disk.spks :
     \/ k.id = current
     \/ /\ k.id < current
        /\ Cardinality({j \in disk.spks : k.id < j.id /\ j.id < current}) < Retention}

NewestSpk == CHOOSE k \in disk.spks : \A j \in disk.spks : j.id <= k.id

NoKeys == [kind \in Kinds |-> {}]

Published(kind) == IF disk.cache = NONE THEN {} ELSE disk.cache.keys[kind]

\* Mutant: only what this initialisation generated is published.
MaterialOfFresh ==
  [identity |-> disk.identity, spk |-> disk.meta, keys |-> fresh]

Material ==
  [identity |-> disk.identity,
   spk      |-> disk.meta,
   keys     |-> [kind \in Kinds |-> Over(fresh[kind], Published(kind))]]

StoredKeys(kind) ==
  disk.pool[kind] \cup
    (IF kind = "kyber" /\ disk.lastResort # NONE THEN {disk.lastResort} ELSE {})

Wiped ==
  [identity |-> 0, registered |-> FALSE, spks |-> {}, meta |-> NONE,
   legacy |-> NONE, lastResort |-> NONE, pool |-> NoKeys, cache |-> NONE]

May(bound, limit) == used[bound] < limit

Use(bound) == used' = [used EXCEPT ![bound] = @ + 1]

\* The manager goes on to a step, the rest of its memory as it is.
Go(step) == pc' = step /\ UNCHANGED <<device, op, fresh, todo, serving>>

\* An operation ends: the hydrated device is d.
Return(d) ==
  /\ device' = d
  /\ pc' = "idle" /\ op' = NONE /\ fresh' = NoKeys /\ todo' = 0 /\ serving' = NONE

Local == UNCHANGED <<server, held, handed, torn>>

-----------------------------------------------------------------------------
(* initializeLocked *)

\* At application start; a device whose registration id is missing is refused.
Begin ==
  /\ pc = "idle" /\ device = NONE
  /\ disk.identity # 0 => disk.registered
  /\ pc' = IF disk.identity = 0 THEN "identity" ELSE "signed"
  /\ op' = "init"
  /\ UNCHANGED <<disk, device, fresh, todo, serving, made, used>> /\ Local

SaveIdentity ==
  /\ pc = "identity"
  /\ disk' = [disk EXCEPT !.identity = 1 + used.resets]
  /\ Go("registration") /\ UNCHANGED <<made, used>> /\ Local

SaveRegistration ==
  /\ pc = "registration"
  /\ disk' = [disk EXCEPT !.registered = TRUE]
  /\ Go("signed") /\ UNCHANGED <<made, used>> /\ Local

\* ensureCurrentSignedPreKey: a legacy key is first copied into the key set.
CopyLegacy ==
  /\ pc = "signed" /\ disk.meta = NONE /\ disk.legacy # NONE
  /\ disk' = [disk EXCEPT !.spks = Over({disk.legacy}, @)]
  /\ Go("adopt") /\ UNCHANGED <<made, used>> /\ Local

\* It becomes current if the cached material still describes it.
AdoptLegacy ==
  /\ pc = "adopt"
  /\ IF disk.cache # NONE /\ disk.cache.spk = disk.legacy
     THEN disk' = [disk EXCEPT !.meta = disk.legacy] /\ Go("unlegacy")
     ELSE UNCHANGED disk /\ Go("discard")
  /\ UNCHANGED <<made, used>> /\ Local

KeepCurrent ==
  /\ pc = "signed" /\ disk.meta # NONE
  /\ Go("unlegacy") /\ UNCHANGED <<disk, made, used>> /\ Local

\* There is no current key, or it is 30 days old.
RotateDue ==
  /\ pc = "signed"
  /\ \/ disk.meta = NONE /\ disk.legacy = NONE /\ UNCHANGED used
     \/ disk.meta # NONE /\ May("rotations", MaxRotations) /\ Use("rotations")
  /\ Go("discard") /\ UNCHANGED <<disk, made>> /\ Local

\* rotateSignedPreKey() of the public interface.
BeginRotation ==
  /\ pc = "idle" /\ device # NONE
  /\ May("rotations", MaxRotations) /\ Use("rotations")
  /\ pc' = "discard" /\ op' = "rotate"
  /\ UNCHANGED <<disk, device, fresh, todo, serving, made>> /\ Local

\* rotateSignedPreKeyLocked, step 0: the residue of an interrupted rotation.
DiscardUnpublished ==
  /\ pc = "discard"
  /\ disk' = [disk EXCEPT !.spks = {k \in @ : disk.meta # NONE => k.id <= disk.meta.id}]
  /\ Go("record") /\ UNCHANGED <<made, used>> /\ Local

\* Step 1: the new private record.
SaveSpkRecord ==
  /\ pc = "record"
  /\ LET key == Generated("spk", NextSpkId)
     IN  disk' = [disk EXCEPT !.spks = Over({key}, @)] /\ made' = made \cup {key}
  /\ Go("current") /\ UNCHANGED used /\ Local

\* Step 2: the one write that changes which key is current.
SaveSpkMeta ==
  /\ pc = "current"
  /\ disk' = [disk EXCEPT !.meta = NewestSpk]
  /\ Go("surplus") /\ UNCHANGED <<made, used>> /\ Local

\* Step 3: the keys past retention.
RetireSuperseded ==
  /\ pc = "surplus"
  /\ disk' = [disk EXCEPT !.spks = KeptSpks(disk.meta.id)]
  /\ Go(IF op = "rotate" THEN "material" ELSE "unlegacy")
  /\ UNCHANGED <<made, used>> /\ Local

RemoveLegacy ==
  /\ pc = "unlegacy"
  /\ disk' = [disk EXCEPT !.legacy = NONE]
  /\ Go("lastResort") /\ UNCHANGED <<made, used>> /\ Local

EnsureLastResort ==
  /\ pc = "lastResort"
  /\ IF disk.lastResort # NONE
     THEN UNCHANGED <<disk, fresh, made>>
     ELSE LET key == Generated("kyber", LastResortId)
          IN  /\ disk' = [disk EXCEPT !.lastResort = key]
              /\ fresh' = [fresh EXCEPT !["kyber"] = @ \cup {key}]
              /\ made' = made \cup {key}
  /\ pc' = "otp" /\ UNCHANGED <<device, op, todo, serving, used>> /\ Local

Filling == [otp |-> "fill otp", kyber |-> "fill kyber"]

AfterPool == [otp |-> "kyber", kyber |-> "material"]

\* How many keys the pool lacks, when it is at or below its threshold.
CountPool ==
  /\ pc \in Kinds
  /\ LET count == Cardinality(disk.pool[pc])
     IN  IF count <= PoolThreshold[pc] /\ count < PoolSize[pc]
         THEN todo' = PoolSize[pc] - count /\ pc' = Filling[pc]
         ELSE todo' = 0 /\ pc' = AfterPool[pc]
  /\ UNCHANGED <<disk, device, op, fresh, serving, made, used>> /\ Local

SavePoolKey(kind) ==
  /\ pc = Filling[kind]
  /\ LET key == Generated(kind, NextId(kind))
     IN  /\ disk' = [disk EXCEPT !.pool[kind] = Over({key}, @)]
         /\ fresh' = [fresh EXCEPT ![kind] = @ \cup {key}]
         /\ made' = made \cup {key}
  /\ todo' = todo - 1
  /\ pc' = IF todo > 1 THEN pc ELSE AfterPool[kind]
  /\ UNCHANGED <<device, op, serving, used>> /\ Local

-----------------------------------------------------------------------------
(* Publication: buildPublicMaterial, publishDeviceMaterial *)

\* The cache is written before anything is sent.
SaveMaterial ==
  /\ pc = "material"
  /\ disk' = [disk EXCEPT !.cache = Material]
  /\ Go("put device") /\ UNCHANGED <<made, used>> /\ Local

\* Mutant: the upsert clears consumed_at.
UpsertedAnew(rows, keys) ==
  {[key |-> k, claimed |-> FALSE] : k \in keys}
  \cup {r \in rows : r.key.id \notin Ids(keys)}

\* An upsert sends ids and public keys; consumed_at stays what it was.
Upserted(rows, keys) ==
  {[key |-> k, claimed |-> \E r \in rows : r.key.id = k.id /\ r.claimed] : k \in keys}
  \cup {r \in rows : r.key.id \notin Ids(keys)}

\* What one request does to the server when it arrives.
Applied(step) ==
  LET new == disk.cache
  IN  CASE step = "put device"  -> [server EXCEPT !.identity = new.identity]
        [] step = "deactivate"  ->
             [server EXCEPT !.spks = {[r EXCEPT !.active = @ /\ r.key.id = new.spk.id] :
                                        r \in @}]
        [] step = "put signed"  ->
             [server EXCEPT !.spks =
                LET at == {r \in @ : r.key.id = new.spk.id}
                IN  (@ \ at) \cup
                    {[key |-> new.spk, active |-> TRUE,
                      born |-> IF at = {} THEN 1 + Cardinality(@)
                               ELSE (CHOOSE r \in at : TRUE).born]}]
        [] step = "put otp"     -> [server EXCEPT !.rows["otp"] = Upserted(@, new.keys["otp"])]
        [] step = "put kyber"   -> [server EXCEPT !.rows["kyber"] = Upserted(@, new.keys["kyber"])]

Requests == {"put device", "deactivate", "put signed", "put otp", "put kyber"}

After(step) ==
  CASE step = "put device" -> "deactivate"
    [] step = "deactivate" -> "put signed"
    [] step = "put signed" -> "put otp"
    [] step = "put otp"    -> "put kyber"
    [] step = "put kyber"  -> "hydrate"

Publish ==
  /\ pc \in Requests
  /\ server' = Applied(pc)
  /\ Go(After(pc)) /\ UNCHANGED <<disk, held, historyVars, used>>

\* A request fails, before or after it was applied: the operation throws. The
\* error of the deactivation alone is not looked at.
PublishFails ==
  /\ pc \in Requests
  /\ May("mishaps", MaxMishaps) /\ Use("mishaps")
  /\ server' \in {server, Applied(pc)}
  /\ IF pc = "deactivate" THEN Go(After(pc)) ELSE Return(device)
  /\ UNCHANGED <<disk, held, historyVars>>

\* hydrateFromStore: what the device can use until the next one.
Hydrate ==
  /\ pc = "hydrate"
  /\ Return(disk.spks \cup StoredKeys("otp") \cup StoredKeys("kyber"))
  /\ UNCHANGED <<disk, made, used>> /\ Local

-----------------------------------------------------------------------------
(* Peers *)

\* Mutant: the oldest active signed prekey is served.
OldestActive ==
  LET active == {r \in server.spks : r.active}
  IN  IF active = {} THEN NONE
      ELSE (CHOOSE r \in active : \A q \in active : r.born <= q.born).key

\* claim_prekey_bundle, one transaction.
ServedSpk ==
  LET active == {r \in server.spks : r.active}
  IN  IF active = {} THEN NONE
      ELSE (CHOOSE r \in active : \A q \in active : q.born <= r.born).key

Lowest(keys) == IF keys = {} THEN NONE ELSE CHOOSE k \in keys : \A j \in keys : k.id <= j.id

Unclaimed(kind) ==
  {r.key : r \in {x \in server.rows[kind] : ~x.claimed /\ x.key.id >= FirstId[kind]}}

LastResortRow == Lowest({r.key : r \in {x \in server.rows["kyber"] : x.key.id = LastResortId}})

ServedKyber ==
  IF Unclaimed("kyber") # {} THEN Lowest(Unclaimed("kyber")) ELSE LastResortRow

Bundle ==
  [identity |-> server.identity, spk |-> ServedSpk,
   otp |-> Lowest(Unclaimed("otp")), kyber |-> ServedKyber]

OneTime(bundle) ==
  {k \in {bundle.otp, bundle.kyber} :
     k # NONE /\ (k = bundle.kyber => k.id # LastResortId)}

Claim(p) ==
  /\ held[p] = NONE
  /\ May("claims", MaxClaims) /\ Use("claims")
  /\ server.identity # 0 /\ ServedSpk # NONE /\ ServedKyber # NONE
  /\ server' = [server EXCEPT !.rows =
                  [kind \in Kinds |->
                     {[r EXCEPT !.claimed = @ \/ r.key \in OneTime(Bundle)] : r \in @[kind]}]]
  /\ held' = [held EXCEPT ![p] = Bundle]
  /\ handed' = handed \cup OneTime(Bundle)
  /\ UNCHANGED <<disk, managerVars, made, torn>>

\* The peer's engine verifies the signatures of the signed and the Kyber key.
Good(bundle) == bundle.spk.ident = bundle.identity /\ bundle.kyber.ident = bundle.identity

\* The bundle is bad, or its peer goes away, or its first message is lost.
Abandon(p) ==
  /\ held[p] # NONE
  /\ held' = [held EXCEPT ![p] = NONE]
  /\ UNCHANGED <<disk, server, managerVars, historyVars, used>>

Keys(bundle) == {k \in {bundle.spk, bundle.otp, bundle.kyber} : k # NONE}

\* receiveEstablishBytes: the engine finds the private halves in memory and
\* takes out the one-time ones; the session is adopted.
ReceiveEstablish(p) ==
  /\ pc = "idle" /\ device # NONE
  /\ held[p] # NONE /\ Good(held[p]) /\ Keys(held[p]) \subseteq device
  /\ device' = device \ OneTime(held[p])
  /\ serving' = held[p]
  /\ held' = [held EXCEPT ![p] = NONE]
  /\ pc' = "used kyber" /\ op' = "receive"
  /\ UNCHANGED <<disk, server, fresh, todo, historyVars, used>>

RemoveKyber ==
  /\ pc = "used kyber"
  /\ disk' = [disk EXCEPT !.pool["kyber"] = @ \ {serving.kyber}]
  /\ Go("used otp") /\ UNCHANGED <<made, used>> /\ Local

RemoveOneTime ==
  /\ pc = "used otp"
  /\ disk' = [disk EXCEPT !.pool["otp"] = @ \ {serving.otp}]
  /\ Return(device) /\ UNCHANGED <<made, used>> /\ Local

-----------------------------------------------------------------------------
(* Resets and crashes *)

\* resetDeviceIdentity: one transaction deletes the device records, then the
\* normal initialisation runs.
ResetDevice ==
  /\ pc = "idle" /\ May("resets", MaxResets) /\ Use("resets")
  /\ disk' = Wiped
  /\ device' = NONE /\ pc' = "identity" /\ op' = "init"
  /\ torn' = FALSE
  /\ UNCHANGED <<server, fresh, todo, serving, held, made, handed>>

Filled == \A kind \in Kinds : StoredKeys(kind) \subseteq Published(kind)

\* The tab is closed, reloaded or killed: memory is gone.
Crash ==
  /\ pc # "idle" /\ May("mishaps", MaxMishaps) /\ Use("mishaps")
  /\ Return(NONE)
  /\ torn' = (torn \/ ~Filled)
  /\ UNCHANGED <<disk, server, held, made, handed>>

\* The same between two operations: nothing is in progress.
Reload ==
  /\ pc = "idle" /\ device # NONE
  /\ Return(NONE)
  /\ UNCHANGED <<disk, server, held, historyVars, used>>

LegacyKey(kind, id) == [kind |-> kind, ident |-> 1, id |-> id, nth |-> 1]

\* A device that has never run, or one of a release before rotation whose
\* cached material is there or cannot be read.
Init ==
  LET spk == LegacyKey("spk", LegacyId)
      last == LegacyKey("kyber", LastResortId)
      material == [identity |-> 1, spk |-> spk,
                   keys |-> [kind \in Kinds |-> IF kind = "kyber" THEN {last} ELSE {}]]
  IN  /\ \/ /\ disk = Wiped /\ made = {} /\ torn = FALSE
            /\ server = [identity |-> 0, spks |-> {}, rows |-> NoKeys]
         \/ /\ Legacy /\ made = {spk, last}
            /\ disk \in {[Wiped EXCEPT !.identity = 1, !.registered = TRUE,
                             !.legacy = spk, !.lastResort = last, !.cache = c] :
                             c \in {NONE, material}}
            /\ torn = (disk.cache = NONE)
            /\ server = [identity |-> 1,
                         spks |-> {[key |-> spk, active |-> TRUE, born |-> 1]},
                         rows |-> [kind \in Kinds |->
                                     IF kind = "kyber"
                                     THEN {[key |-> last, claimed |-> FALSE]} ELSE {}]]
      /\ device = NONE /\ pc = "idle" /\ op = NONE /\ fresh = NoKeys /\ todo = 0
      /\ serving = NONE
      /\ held = [p \in Peers |-> NONE]
      /\ handed = {}
      /\ used = [resets |-> 0, rotations |-> 0, mishaps |-> 0, claims |-> 0]

Initialise ==
  \/ Begin \/ SaveIdentity \/ SaveRegistration
  \/ CopyLegacy \/ AdoptLegacy \/ KeepCurrent \/ RotateDue \/ BeginRotation
  \/ DiscardUnpublished \/ SaveSpkRecord \/ SaveSpkMeta \/ RetireSuperseded
  \/ RemoveLegacy \/ EnsureLastResort \/ CountPool
  \/ \E kind \in Kinds : SavePoolKey(kind)

Next ==
  \/ Initialise
  \/ SaveMaterial \/ Publish \/ PublishFails \/ Hydrate
  \/ \E p \in Peers : Claim(p) \/ Abandon(p) \/ ReceiveEstablish(p)
  \/ RemoveKyber \/ RemoveOneTime
  \/ ResetDevice \/ Crash \/ Reload

Spec == Init /\ [][Next]_vars

-----------------------------------------------------------------------------
(* Properties *)

\* The records, rows and bundles are made of generated key pairs, no two records
\* or rows of a kind share an id, and the manager is at one of its steps.
TypeOK ==
  /\ made \subseteq Key
  /\ disk.spks \cup disk.pool["otp"] \cup disk.pool["kyber"] \subseteq made
  /\ {disk.meta, disk.legacy, disk.lastResort} \subseteq made \cup {NONE}
  /\ \A keys \in {disk.spks, disk.pool["otp"], StoredKeys("kyber")} :
       \A j, k \in keys : j.id = k.id => j = k
  /\ \A kind \in Kinds : \A q, r \in server.rows[kind] :
       r.key \in made /\ (q.key.id = r.key.id => q = r)
  /\ pc \in {"idle", "identity", "registration", "signed", "adopt", "discard",
             "record", "current", "surplus", "unlegacy", "lastResort", "material",
             "hydrate", "used kyber", "used otp"}
            \cup Kinds \cup {Filling[kind] : kind \in Kinds} \cup Requests
  /\ todo \in Nat /\ (device = NONE \/ device \subseteq made)

\* The private halves of every good bundle a peer holds are still stored, as
\* long as its signed prekey is at most Retention rotations behind the current
\* one and its one-time key is of the same identity: whatever publications
\* failed and however often the tab died in a rotation, a refill or a receipt.
ClaimCompletes ==
  \A p \in Peers :
    LET b == held[p]
    IN  (/\ b # NONE
         /\ b.identity = disk.identity
         /\ Good(b)
         /\ b.otp = NONE \/ b.otp.ident = b.identity
         /\ disk.meta # NONE => disk.meta.id - b.spk.id <= Retention)
        => /\ b.spk \in disk.spks \cup {disk.legacy}
           /\ b.otp # NONE => b.otp \in disk.pool["otp"]
           /\ b.kyber \in StoredKeys("kyber")

\* Unless the tab died between saving keys and caching them, every stored key is
\* in the material that publications are made of, so that a publication that
\* failed is made good by the next one.
PublishedCompletely ==
  pc \in {"idle", "hydrate"} \cup Requests /\ ~torn => Filled

\* A publication that went through serves the current signed prekey under this
\* identity, even when the deactivation of the earlier rows was lost. Only for
\* the first identity: after a reset the ids begin again, an earlier row may be
\* younger than the upserted one, and a lost deactivation then serves it.
PublishedIsServed ==
  pc = "hydrate" /\ disk.identity = 1 =>
    server.identity = 1 /\ ServedSpk = disk.meta

\* No one-time key is handed out twice, although every publication sends the
\* whole set again, claimed keys included.
NoKeyHandedTwice ==
  [][\A p \in Peers : held[p] = NONE /\ held'[p] # NONE
       => OneTime(held'[p]) \cap handed = {}]_vars
=============================================================================
