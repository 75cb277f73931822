-------------------------- MODULE DeviceKeysProofs --------------------------
(***************************************************************************)
(* What the device store, its publications and the claims of peers keep    *)
(* for any number of peers, pools, rotations, resets, crashes and failed   *)
(* requests: that what was published is stored, that what is stored gets   *)
(* published, and that no one-time key is handed out twice.                *)
(***************************************************************************)
EXTENDS DeviceKeys, FiniteSetTheorems, TLAPS

-----------------------------------------------------------------------------
(***************************************************************************)
(* The types. Everything in the store is of the stored identity, of its    *)
(* kind, and has an id of its own.                                         *)
(***************************************************************************)
OneId(keys) == \A j, k \in keys : j.id = k.id => j = k

Spks == {k \in made : k.kind = "spk"}

OneTimeKeys(kind) == {k \in made : k.kind = kind /\ k.id >= FirstId[kind]}

LastResorts == {k \in made : k.kind = "kyber" /\ k.id = LastResortId}

PoolKeys(kind) == IF kind = "kyber" THEN OneTimeKeys(kind) \cup LastResorts ELSE OneTimeKeys(kind)

Mine(keys) == \A k \in keys : k.ident = disk.identity

DiskTyped ==
  /\ disk = [identity |-> disk.identity, registered |-> disk.registered, spks |-> disk.spks,
             meta |-> disk.meta, legacy |-> disk.legacy, lastResort |-> disk.lastResort,
             pool |-> disk.pool, cache |-> disk.cache]
  /\ disk.identity \in {0, 1 + used.resets}
  /\ disk.spks \subseteq Spks /\ Mine(disk.spks) /\ OneId(disk.spks)
  /\ disk.meta \in disk.spks \cup {NONE}
  /\ disk.legacy # NONE => disk.legacy \in Spks /\ Mine({disk.legacy}) /\ disk.legacy.id = LegacyId
  /\ disk.lastResort # NONE => disk.lastResort \in LastResorts /\ Mine({disk.lastResort})
  /\ disk.pool \in [Kinds -> SUBSET made]
  /\ \A kind \in Kinds : /\ disk.pool[kind] \subseteq OneTimeKeys(kind)
                         /\ Mine(disk.pool[kind]) /\ OneId(disk.pool[kind])

CacheTyped ==
  disk.cache # NONE =>
    /\ disk.cache \in PublicMaterial
    /\ disk.cache.identity = disk.identity
    /\ disk.cache.spk \in Spks /\ Mine({disk.cache.spk})
    /\ \A kind \in Kinds : /\ disk.cache.keys[kind] \subseteq PoolKeys(kind)
                           /\ Mine(disk.cache.keys[kind]) /\ OneId(disk.cache.keys[kind])

ServerTyped ==
  /\ server = [identity |-> server.identity, spks |-> server.spks, rows |-> server.rows]
  /\ server.identity \in Nat
  /\ IsFiniteSet(server.spks)
  /\ server.spks \subseteq [key : Spks, active : BOOLEAN, born : Nat]
  /\ \A q, r \in server.spks : q.key.id = r.key.id => q = r
  /\ server.rows \in [Kinds -> SUBSET [key : made, claimed : BOOLEAN]]
  /\ \A kind \in Kinds : \A q, r \in server.rows[kind] :
       r.key \in PoolKeys(kind) /\ (q.key.id = r.key.id => q = r)

BundleOf(b, keys) ==
  /\ b \in PreKeyBundle
  /\ b.spk \in keys /\ b.spk.kind = "spk"
  /\ b.otp # NONE => b.otp \in keys /\ b.otp.kind = "otp" /\ b.otp.id >= FirstId["otp"]
  /\ b.kyber \in keys /\ b.kyber.kind = "kyber"
  /\ b.kyber.id >= FirstId["kyber"] \/ b.kyber.id = LastResortId

BundleTyped(b) == BundleOf(b, made)

MadeTyped ==
  /\ made \subseteq Key /\ IsFiniteSet(made)
  /\ used \in [resets : Nat, rotations : Nat, mishaps : Nat, claims : Nat]
  /\ used.resets <= MaxResets
  /\ \A k \in made : k.ident <= 1 + used.resets /\ (disk.identity = 0 => k.ident <= used.resets)
  /\ handed \subseteq OneTimeKeys("otp") \cup OneTimeKeys("kyber")

Steps ==
  {"idle", "identity", "registration", "signed", "adopt", "discard", "record", "current",
   "surplus", "unlegacy", "lastResort", "otp", "kyber", "fill otp", "fill kyber", "material",
   "put device", "deactivate", "put signed", "put otp", "put kyber", "hydrate", "used kyber",
   "used otp"}

ManagerTyped ==
  /\ pc \in Steps
  /\ todo \in Nat
  /\ \A kind \in Kinds : pc = Filling[kind] => todo > 0
  /\ device = NONE \/ device \subseteq made
  /\ fresh \in [Kinds -> SUBSET made]
  /\ pc \in {"used kyber", "used otp"} => serving # NONE
  /\ serving # NONE => BundleTyped(serving)

HeldTyped ==
  /\ DOMAIN held = Peers
  /\ \A p \in Peers : held[p] # NONE => BundleTyped(held[p])

Typed ==
  /\ MadeTyped /\ DiskTyped /\ CacheTyped /\ ServerTyped /\ ManagerTyped /\ HeldTyped

-----------------------------------------------------------------------------
(***************************************************************************)
(* Where the manager is: what a rotation and an initialisation have done.  *)
(***************************************************************************)
BeforeMeta == {"idle", "identity", "registration", "signed", "adopt", "discard", "record", "current"}

Progress ==
  /\ pc \notin {"idle", "identity"} \/ device # NONE => disk.identity # 0
  /\ pc \notin BeforeMeta \/ device # NONE => disk.meta # NONE
  /\ pc = "identity" => disk.identity = 0
  /\ pc = "adopt" => disk.legacy # NONE /\ disk.meta = NONE
  /\ pc \in {"adopt", "discard", "record", "current"} /\ disk.meta = NONE /\ disk.legacy # NONE
       => disk.legacy \in disk.spks
  /\ pc = "current" =>
       \E k \in disk.spks :
         /\ disk.meta # NONE => k.id > disk.meta.id
         /\ disk.meta = NONE /\ disk.legacy # NONE => k.id > disk.legacy.id
  /\ pc \in Requests \cup {"hydrate"} => disk.cache # NONE /\ disk.cache.spk = disk.meta
  /\ pc \in (Requests \ {"put device"}) \cup {"hydrate"} => server.identity = disk.identity
  /\ pc \in {"idle", "used kyber", "used otp"} => fresh = NoKeys

(***************************************************************************)
(* A signed prekey of this identity that was published is stored as long   *)
(* as it is at most Retention rotations behind the current one.            *)
(***************************************************************************)
Promised(k) ==
  k.ident = disk.identity =>
    IF disk.meta = NONE THEN k = disk.legacy
    ELSE k.id <= disk.meta.id /\ (disk.meta.id - k.id <= Retention => k \in disk.spks)

SpksPromised ==
  /\ disk.cache # NONE => Promised(disk.cache.spk)
  /\ \A r \in server.spks : Promised(r.key)
  /\ \A p \in Peers : held[p] # NONE => Promised(held[p].spk)

(***************************************************************************)
(* The last-resort key of this identity is the stored one.                 *)
(***************************************************************************)
TheLastResort(k) ==
  k \in LastResorts /\ k.ident = disk.identity => k = disk.lastResort

LastResortKept ==
  /\ \A k \in Published("kyber") : TheLastResort(k)
  /\ \A r \in server.rows["kyber"] : TheLastResort(r.key)
  /\ \A p \in Peers : held[p] # NONE => TheLastResort(held[p].kyber)

(***************************************************************************)
(* The row of a key that was handed out is claimed; a published key that   *)
(* was not is in the pool; and so is one that a peer holds, who is the     *)
(* only one to hold it.                                                    *)
(***************************************************************************)
HandedClaimed ==
  \A k \in handed : \E r \in server.rows[k.kind] : r.key.id = k.id /\ r.claimed

CachedLive ==
  \A kind \in Kinds : \A k \in Published(kind) :
    k.id >= FirstId[kind] => k \in disk.pool[kind] \cup handed

RowsLive ==
  \A kind \in Kinds : \A r \in server.rows[kind] :
    r.key.ident = disk.identity /\ ~r.claimed /\ r.key.id >= FirstId[kind]
      => r.key \in disk.pool[kind]

HeldLive ==
  \A p \in Peers : held[p] # NONE =>
    /\ OneTime(held[p]) \subseteq handed
    /\ \A k \in OneTime(held[p]) : k.ident = disk.identity => k \in disk.pool[k.kind]
    /\ \A q \in Peers \ {p} : held[q] # NONE => OneTime(held[q]) \cap OneTime(held[p]) = {}
    /\ serving # NONE => OneTime(serving) \cap OneTime(held[p]) = {}

ServingHanded == serving # NONE => OneTime(serving) \subseteq handed

OneTimeInv == HandedClaimed /\ CachedLive /\ RowsLive /\ HeldLive /\ ServingHanded

(***************************************************************************)
(* What is stored is in the cached material or was generated since.        *)
(***************************************************************************)
FilledInv ==
  \A kind \in Kinds :
    /\ fresh[kind] \subseteq StoredKeys(kind)
    /\ ~torn => StoredKeys(kind) \subseteq Published(kind) \cup fresh[kind]
    /\ pc \in Requests \cup {"hydrate"} => fresh[kind] \subseteq Published(kind)

(***************************************************************************)
(* Before the first reset, rows are born in the order of their ids, and    *)
(* the current one is active once it was put.                              *)
(***************************************************************************)
BornInOrder(rows) ==
  /\ \A r \in rows : r.born <= Cardinality(rows)
  /\ \A q, r \in rows : q.key.id < r.key.id => q.born < r.born

ServedInv ==
  used.resets = 0 =>
    /\ BornInOrder(server.spks)
    /\ pc \in {"put otp", "put kyber", "hydrate"} =>
         \E r \in server.spks : r.key = disk.meta /\ r.active

DeviceInv ==
  /\ Typed /\ Progress /\ SpksPromised /\ LastResortKept /\ OneTimeInv /\ FilledInv /\ ServedInv

-----------------------------------------------------------------------------
(* Least and greatest elements, and how many lie between two numbers *)

\* A set of natural numbers that is not empty has a least one.
LEMMA LeastNat ==
  ASSUME NEW T \in SUBSET Nat, T # {}
  PROVE  \E x \in T : \A y \in T : x <= y
  <1>1. IsWellFoundedOn(OpToRel(<, Nat), Nat)
    BY NatLessThanWellFounded
  <1>2. PICK x \in T : \A y \in T : <<y, x>> \notin OpToRel(<, Nat)
    BY <1>1, WFMin
  <1>3. \A y \in T : ~(y < x)
    BY <1>2 DEF OpToRel
  <1>4. QED
    BY <1>3

\* Of the members of a set that is not empty one has the least value.
LEMMA Least ==
  ASSUME NEW S, S # {}, NEW f \in [S -> Nat]
  PROVE  \E x \in S : \A y \in S : f[x] <= f[y]
  <1> DEFINE T == {f[x] : x \in S}
  <1>1. PICK n \in T : \A m \in T : n <= m
    <2>1. T \in SUBSET Nat /\ T # {}
      OBVIOUS
    <2>2. QED
      BY <2>1, LeastNat
  <1>2. QED
    BY <1>1

\* Of the members of a finite set that is not empty one has the greatest value:
\* the one with the fewest above it.
LEMMA Greatest ==
  ASSUME NEW S, IsFiniteSet(S), S # {}, NEW f \in [S -> Nat]
  PROVE  \E x \in S : \A y \in S : f[y] <= f[x]
  <1> DEFINE Above(x) == {z \in S : f[z] > f[x]}
             g == [x \in S |-> Cardinality(Above(x))]
  <1>1. \A x \in S : IsFiniteSet(Above(x)) /\ Cardinality(Above(x)) \in Nat
    BY FS_Subset, FS_CardinalityType
  <1>2. PICK x \in S : \A y \in S : g[x] <= g[y]
    <2>1. g \in [S -> Nat]
      BY <1>1
    <2> HIDE DEF g
    <2>2. QED
      BY <2>1, Least
  <1>3. ASSUME NEW y \in S, f[y] > f[x] PROVE FALSE
    <2>1. Above(y) \subseteq Above(x) /\ y \in Above(x) /\ y \notin Above(y)
      BY <1>3
    <2>2. g[x] = Cardinality(Above(x)) /\ g[y] = Cardinality(Above(y)) /\ g[x] <= g[y]
      BY <1>2
    <2> HIDE DEF Above, g
    <2>3. Cardinality(Above(y)) <= Cardinality(Above(x)) /\ Cardinality(Above(y)) # Cardinality(Above(x))
      BY <1>1, <2>1, FS_Subset
    <2>4. QED
      BY <1>1, <2>2, <2>3
  <1>4. QED
    BY <1>3

\* A set of key pairs or rows of them has no more ids than members.
LEMMA IdsFinite ==
  ASSUME NEW keys, IsFiniteSet(keys)
  PROVE  IsFiniteSet(Ids(keys))
  <1> DEFINE f == [k \in keys |-> k.id]
  <1>1. f \in Surjection(keys, Ids(keys))
    BY DEF Ids, Surjection
  <1>2. QED
    BY <1>1, FS_Surjection

\* Max is the greatest of a finite set of natural numbers.
LEMMA MaxIsGreatest ==
  ASSUME NEW S \in SUBSET Nat, IsFiniteSet(S), S # {}
  PROVE  Max(S) \in S /\ \A x \in S : x <= Max(S)
  <1> DEFINE f == [x \in S |-> x]
  <1>1. PICK m \in S : \A x \in S : f[x] <= f[m]
    <2>1. f \in [S -> Nat]
      OBVIOUS
    <2> HIDE DEF f
    <2>2. QED
      BY <2>1, Greatest
  <1>2. m \in S /\ \A x \in S : m >= x
    BY <1>1
  <1>3. QED
    BY <1>2 DEF Max

\* Between two ids there are at most as many keys as numbers.
LEMMA FewBetween ==
  ASSUME NEW keys, IsFiniteSet(keys), keys \subseteq Key, OneId(keys),
         NEW low \in Nat, NEW high \in Nat, low < high
  PROVE  Cardinality({j \in keys : low < j.id /\ j.id < high}) <= high - low - 1
  <1> DEFINE S == {j \in keys : low < j.id /\ j.id < high}
             f == [j \in S |-> j.id]
             T == (low + 1)..(high - 1)
  <1>1. f \in Injection(S, T)
    <2>1. f \in [S -> T]
      BY DEF Key
    <2>2. \A a, b \in S : f[a] = f[b] => a = b
      BY DEF OneId
    <2>3. QED
      BY <2>1, <2>2 DEF Injection, IsInjective
  <1>2. IsFiniteSet(T) /\ Cardinality(T) = IF low + 1 > high - 1 THEN 0 ELSE (high - 1) - (low + 1) + 1
    BY FS_Interval
  <1>3. IsFiniteSet(S) /\ Cardinality(S) <= Cardinality(T)
    <2> HIDE DEF f, S, T
    <2>1. QED
      BY <1>1, <1>2, FS_Injection
  <1>4. Cardinality(S) \in Nat
    BY <1>3, FS_CardinalityType
  <1> HIDE DEF S, T
  <1>5. Cardinality(S) <= high - low - 1
    BY <1>2, <1>3, <1>4
  <1>6. QED
    BY <1>5 DEF S

\* What is written over records with ids of their own has ids of its own.
LEMMA OverHasOneId ==
  ASSUME NEW new, NEW old, OneId(new), OneId(old)
  PROVE  OneId(Over(new, old))
  BY DEF Over, OneId, Ids

-----------------------------------------------------------------------------
(* The operators of the model *)

\* The store of a device without an identity is empty.
LEMMA NothingStored ==
  ASSUME Typed, disk.identity = 0
  PROVE  /\ disk.spks = {} /\ disk.meta = NONE /\ disk.legacy = NONE
         /\ disk.lastResort = NONE /\ disk.cache = NONE
         /\ \A kind \in Kinds : disk.pool[kind] = {}
  <1>1. \A k \in made : k.ident # 0
    BY DEF Typed, MadeTyped, Key
  <1>2. disk.spks = {} /\ disk.legacy = NONE /\ disk.lastResort = NONE
    BY <1>1 DEF Typed, DiskTyped, Mine, Spks, LastResorts
  <1>3. disk.meta = NONE /\ disk.cache = NONE
    BY <1>1, <1>2 DEF Typed, DiskTyped, CacheTyped, Mine, Spks
  <1>4. \A kind \in Kinds : disk.pool[kind] = {}
    BY <1>1 DEF Typed, DiskTyped, Mine, OneTimeKeys
  <1>5. QED
    BY <1>2, <1>3, <1>4

\* A generated key is of the identity, kind and id that were asked for.
LEMMA GeneratedKey ==
  ASSUME Typed, disk.identity # 0,
         NEW kind \in Kinds \cup {"spk"}, NEW id \in Nat \ {0}
  PROVE  /\ Generated(kind, id) \in Key
         /\ Generated(kind, id).kind = kind /\ Generated(kind, id).id = id
         /\ Generated(kind, id).ident = disk.identity
  <1>1. disk.identity \in 1..(1 + MaxResets)
    BY DeviceBoundsAssumption DEF Typed, MadeTyped, DiskTyped
  <1> DEFINE S == {k \in made : k.kind = kind /\ k.ident = disk.identity /\ k.id = id}
  <1>2. Cardinality(S) \in Nat
    BY FS_Subset, FS_CardinalityType DEF Typed, MadeTyped
  <1>3. 1 + Cardinality(S) \in Nat \ {0}
    BY <1>2
  <1>4. Generated(kind, id) =
          [kind |-> kind, ident |-> disk.identity, id |-> id, nth |-> 1 + Cardinality(S)]
    BY DEF Generated
  <1> HIDE DEF S
  <1>5. QED
    BY <1>1, <1>3, <1>4 DEF Key

\* The next id of a pool is past every id in it.
LEMMA NextIdIsNew ==
  ASSUME Typed, NEW kind \in Kinds
  PROVE  /\ NextId(kind) \in Nat /\ NextId(kind) >= FirstId[kind]
         /\ \A k \in disk.pool[kind] : k.id < NextId(kind)
  <1> DEFINE S == Ids(disk.pool[kind]) \cup {FirstId[kind] - 1}
  <1>1. FirstId[kind] \in Nat \ {0}
    BY DEF FirstId, Kinds
  <1>2. disk.pool[kind] \subseteq made /\ made \subseteq Key /\ IsFiniteSet(made)
    BY DEF Typed, DiskTyped, MadeTyped
  <1>3. IsFiniteSet(Ids(disk.pool[kind]))
    BY <1>2, FS_Subset, IdsFinite
  <1>4. IsFiniteSet(S)
    BY <1>3, FS_AddElement
  <1>5. S \in SUBSET Nat
    BY <1>1, <1>2 DEF Ids, Key
  <1>6. \A k \in disk.pool[kind] : k.id \in S
    BY DEF Ids
  <1>7. FirstId[kind] - 1 \in S
    OBVIOUS
  <1>8. NextId(kind) = 1 + Max(S)
    BY DEF NextId
  <1> HIDE DEF S
  <1>9. Max(S) \in S /\ \A x \in S : x <= Max(S)
    BY <1>4, <1>5, <1>7, MaxIsGreatest
  <1>10. Max(S) \in Nat
    BY <1>5, <1>9
  <1>11. FirstId[kind] - 1 <= Max(S)
    BY <1>7, <1>9
  <1>12. \A k \in disk.pool[kind] : k.id \in Nat /\ k.id <= Max(S)
    BY <1>5, <1>6, <1>9
  <1>13. QED
    BY <1>1, <1>8, <1>10, <1>11, <1>12

\* The next signed prekey id is past the current one and every stored one.
LEMMA NextSpkIdIsNew ==
  ASSUME Typed
  PROVE  /\ NextSpkId \in Nat \ {0}
         /\ \A k \in disk.spks : k.id < NextSpkId
         /\ disk.meta # NONE => disk.meta.id < NextSpkId
  <1> DEFINE base == IF disk.meta = NONE THEN 0 ELSE disk.meta.id
             S == Ids(disk.spks) \cup {base}
  <1>1. disk.spks \subseteq made /\ made \subseteq Key /\ IsFiniteSet(made)
    BY DEF Typed, DiskTyped, MadeTyped, Spks
  <1>2. disk.meta # NONE => disk.meta \in disk.spks
    BY DEF Typed, DiskTyped
  <1>3. base \in Nat
    BY <1>1, <1>2 DEF Key
  <1>4. IsFiniteSet(Ids(disk.spks))
    BY <1>1, FS_Subset, IdsFinite
  <1>5. IsFiniteSet(S)
    BY <1>4, FS_AddElement
  <1>6. S \in SUBSET Nat
    BY <1>1, <1>3 DEF Ids, Key
  <1>7. \A k \in disk.spks : k.id \in S
    BY DEF Ids
  <1>8. NextSpkId = 1 + Max(S)
    BY DEF NextSpkId
  <1>9. S # {}
    OBVIOUS
  <1> HIDE DEF S
  <1>10. Max(S) \in S /\ \A x \in S : x <= Max(S)
    BY <1>5, <1>6, <1>9, MaxIsGreatest
  <1>11. Max(S) \in Nat
    BY <1>6, <1>10
  <1>12. \A k \in disk.spks : k.id \in Nat /\ k.id <= Max(S)
    BY <1>6, <1>7, <1>10
  <1>13. QED
    BY <1>2, <1>8, <1>11, <1>12

\* The newest signed prekey is a stored one.
LEMMA NewestSpkIsStored ==
  ASSUME Typed, disk.spks # {}
  PROVE  NewestSpk \in disk.spks /\ \A k \in disk.spks : k.id <= NewestSpk.id
  <1> DEFINE f == [k \in disk.spks |-> k.id]
  <1>1. f \in [disk.spks -> Nat]
    BY DEF Typed, DiskTyped, MadeTyped, Spks, Key
  <1>2. IsFiniteSet(disk.spks)
    BY FS_Subset DEF Typed, DiskTyped, MadeTyped, Spks
  <1>3. PICK x \in disk.spks : \A y \in disk.spks : f[y] <= f[x]
    <2> HIDE DEF f
    <2>1. QED
      BY <1>1, <1>2, Greatest
  <1>4. \A y \in disk.spks : y.id <= x.id
    BY <1>3
  <1>5. QED
    BY <1>4 DEF NewestSpk

\* The lowest key of a set is one of its keys.
LEMMA LowestIsIn ==
  ASSUME NEW keys, keys \subseteq Key, keys # {}
  PROVE  Lowest(keys) \in keys
  <1> DEFINE f == [k \in keys |-> k.id]
  <1>1. f \in [keys -> Nat]
    BY DEF Key
  <1>2. PICK x \in keys : \A y \in keys : f[x] <= f[y]
    <2> HIDE DEF f
    <2>1. QED
      BY <1>1, Least
  <1>3. \A y \in keys : x.id <= y.id
    BY <1>2
  <1>4. QED
    BY <1>3 DEF Lowest

\* The served signed prekey is that of the active row that was born last.
LEMMA ServedSpkIsActive ==
  ASSUME Typed, ServedSpk # NONE
  PROVE  \E r \in server.spks :
           /\ r.active /\ ServedSpk = r.key
           /\ \A q \in server.spks : q.active => q.born <= r.born
  <1> DEFINE active == {r \in server.spks : r.active}
             f == [r \in active |-> r.born]
  <1>1. active # {} /\ ServedSpk = (CHOOSE r \in active : \A q \in active : q.born <= r.born).key
    BY DEF ServedSpk
  <1>2. f \in [active -> Nat]
    BY DEF Typed, ServerTyped
  <1>3. IsFiniteSet(active)
    BY FS_Subset DEF Typed, ServerTyped
  <1>4. PICK x \in active : \A y \in active : f[y] <= f[x]
    <2> HIDE DEF f, active
    <2>1. QED
      BY <1>1, <1>2, <1>3, Greatest
  <1>5. \A q \in active : q.born <= x.born
    BY <1>4
  <1>6. PICK r \in active : r = (CHOOSE top \in active : \A q \in active : q.born <= top.born)
                           /\ \A q \in active : q.born <= r.born
    BY <1>5
  <1>7. QED
    BY <1>1, <1>6

\* The one-time keys of a bundle the server gives out are keys of rows that
\* nobody has claimed; its Kyber key is the key of some row.
LEMMA BundleIsOfRows ==
  ASSUME Typed, ServedSpk # NONE, ServedKyber # NONE
  PROVE  /\ BundleTyped(Bundle)
         /\ \E r \in server.spks : r.key = Bundle.spk
         /\ \E r \in server.rows["kyber"] : r.key = Bundle.kyber
         /\ \A k \in OneTime(Bundle) :
              /\ k.kind \in Kinds /\ k.id >= FirstId[k.kind]
              /\ \E r \in server.rows[k.kind] : r.key = k /\ ~r.claimed
  <1> DEFINE otp == Lowest(Unclaimed("otp"))
             kyber == ServedKyber
             spk == ServedSpk
  <1>1. \A kind \in Kinds : Unclaimed(kind) \subseteq OneTimeKeys(kind)
    <2>1. SUFFICES ASSUME NEW kind \in Kinds, NEW r \in server.rows[kind], r.key.id >= FirstId[kind]
                   PROVE  r.key \in OneTimeKeys(kind)
      BY DEF Unclaimed
    <2>2. r.key \in PoolKeys(kind)
      BY DEF Typed, ServerTyped
    <2>3. kind = "kyber" => r.key \notin LastResorts
      BY <2>1 DEF LastResorts, LastResortId, FirstId
    <2>4. QED
      BY <2>2, <2>3 DEF PoolKeys
  <1>2. \A kind \in Kinds : OneTimeKeys(kind) \subseteq Key
    BY DEF OneTimeKeys, Typed, MadeTyped
  <1>3. otp # NONE => otp \in Unclaimed("otp")
    BY <1>1, <1>2, LowestIsIn DEF Lowest, Kinds
  <1> DEFINE last == {r.key : r \in {x \in server.rows["kyber"] : x.key.id = LastResortId}}
  <1>4. last \subseteq PoolKeys("kyber") /\ last \subseteq Key /\ \A k \in last : k.id = LastResortId
    <2>1. \A r \in server.rows["kyber"] : r.key \in PoolKeys("kyber") /\ r.key \in made
      BY DEF Typed, ServerTyped, Kinds
    <2>2. QED
      BY <2>1 DEF Typed, MadeTyped
  <1>5. \/ kyber \in Unclaimed("kyber")
        \/ kyber \in last
    <2>1. CASE Unclaimed("kyber") # {}
      BY <2>1, <1>1, <1>2, LowestIsIn DEF ServedKyber, Kinds
    <2>2. CASE Unclaimed("kyber") = {}
      <3>1. kyber = Lowest(last)
        BY <2>2 DEF ServedKyber, LastResortRow
      <3>2. last # {}
        BY <3>1 DEF Lowest
      <3> HIDE DEF last
      <3>3. QED
        BY <3>1, <3>2, <1>4, LowestIsIn
    <2>3. QED
      BY <2>1, <2>2
  <1>6. kyber \in PoolKeys("kyber") /\ kyber \in Key
    BY <1>1, <1>2, <1>4, <1>5 DEF PoolKeys, Kinds
  <1>7. spk \in Spks /\ \E r \in server.spks : r.key = spk
    BY ServedSpkIsActive DEF Typed, ServerTyped
  <1>8. Bundle = [identity |-> server.identity, spk |-> spk, otp |-> otp, kyber |-> kyber]
    BY DEF Bundle
  <1>9. \E r \in server.rows["kyber"] : r.key = kyber
    BY <1>5 DEF Unclaimed
  <1>10. otp # NONE => otp \in OneTimeKeys("otp") /\ otp \in Key
    BY <1>1, <1>2, <1>3 DEF Kinds
  <1>11. \A kind \in Kinds : \A k \in Unclaimed(kind) :
           /\ k.kind = kind /\ k.id >= FirstId[kind]
           /\ \E r \in server.rows[kind] : r.key = k /\ ~r.claimed
    <2>1. \A kind \in Kinds : \A k \in Unclaimed(kind) : k.kind = kind
      BY <1>1 DEF OneTimeKeys
    <2>2. QED
      BY <2>1 DEF Unclaimed
  <1>12. \A k \in OneTime(Bundle) : (k = otp /\ k # NONE) \/ (k = kyber /\ k.id # LastResortId)
    BY <1>8 DEF OneTime
  <1> HIDE DEF otp, kyber, spk, last
  <1>13. BundleTyped(Bundle)
    <2>1. server.identity \in Nat /\ spk \in Key
      BY <1>7 DEF Typed, ServerTyped, MadeTyped, Spks
    <2>2. QED
      BY <1>6, <1>7, <1>8, <1>10, <2>1
         DEF BundleTyped, BundleOf, PreKeyBundle, Spks, OneTimeKeys, PoolKeys, LastResorts
  <1>14. ASSUME NEW k \in OneTime(Bundle) PROVE \E kind \in Kinds : k \in Unclaimed(kind)
    BY <1>3, <1>4, <1>5, <1>12 DEF Kinds
  <1>15. QED
    BY <1>7, <1>8, <1>9, <1>11, <1>13, <1>14

-----------------------------------------------------------------------------
(* What a step leaves as it is *)

\* Which steps change the store, the server, the bundles that are held and the
\* histories. Keys are only ever added to those that were generated.
LEMMA Frame ==
  ASSUME Next
  PROVE  /\ \/ disk' = disk
            \/ SaveIdentity \/ SaveRegistration \/ CopyLegacy \/ AdoptLegacy
            \/ DiscardUnpublished \/ SaveSpkRecord \/ SaveSpkMeta \/ RetireSuperseded
            \/ RemoveLegacy \/ EnsureLastResort \/ (\E kind \in Kinds : SavePoolKey(kind))
            \/ SaveMaterial \/ RemoveKyber \/ RemoveOneTime \/ ResetDevice
         /\ server' = server \/ Publish \/ PublishFails \/ (\E p \in Peers : Claim(p))
         /\ \/ held' = held
            \/ \E p \in Peers : Claim(p) \/ Abandon(p) \/ ReceiveEstablish(p)
         /\ \/ made' = made
            \/ SaveSpkRecord \/ EnsureLastResort \/ (\E kind \in Kinds : SavePoolKey(kind))
         /\ handed' = handed \/ (\E p \in Peers : Claim(p))
         /\ made \subseteq made' /\ handed \subseteq handed'
  <1>1. CASE Initialise
    BY <1>1, Zenon DEF Initialise, Local, Begin, SaveIdentity, SaveRegistration, CopyLegacy,
       AdoptLegacy, KeepCurrent, RotateDue, BeginRotation, DiscardUnpublished, SaveSpkRecord,
       SaveSpkMeta, RetireSuperseded, RemoveLegacy, EnsureLastResort, CountPool, SavePoolKey
  <1>2. CASE \/ SaveMaterial \/ Publish \/ PublishFails \/ Hydrate \/ RemoveKyber \/ RemoveOneTime
             \/ ResetDevice \/ Crash \/ Reload
    BY <1>2 DEF Local, historyVars, SaveMaterial, Publish, PublishFails, Hydrate, RemoveKyber, RemoveOneTime,
       ResetDevice, Crash, Reload
  <1>3. CASE \E p \in Peers : Claim(p) \/ Abandon(p) \/ ReceiveEstablish(p)
    BY <1>3 DEF Claim, Abandon, ReceiveEstablish, historyVars
  <1>4. QED
    BY <1>1, <1>2, <1>3 DEF Next

\* A bound counts up; only a reset counts resets.
LEMMA Counted ==
  ASSUME Typed, Next
  PROVE  /\ used' \in [resets : Nat, rotations : Nat, mishaps : Nat, claims : Nat]
         /\ \/ ResetDevice /\ used'.resets = used.resets + 1 /\ used'.resets <= MaxResets
            \/ ~ResetDevice /\ used'.resets = used.resets
  <1> DEFINE U == [resets : Nat, rotations : Nat, mishaps : Nat, claims : Nat]
  <1>1. used \in U /\ used.resets \in Nat /\ MaxResets \in Nat
    BY DeviceBoundsAssumption DEF Typed, MadeTyped
  <1>2. \/ used' = used
        \/ Use("rotations") \/ Use("mishaps") \/ Use("claims")
        \/ ResetDevice /\ Use("resets") /\ used.resets < MaxResets
    <2>1. CASE Initialise
      BY <2>1, Zenon DEF Initialise, Local, Begin, SaveIdentity, SaveRegistration, CopyLegacy,
         AdoptLegacy, KeepCurrent, RotateDue, BeginRotation, DiscardUnpublished, SaveSpkRecord,
         SaveSpkMeta, RetireSuperseded, RemoveLegacy, EnsureLastResort, CountPool, SavePoolKey
    <2>2. CASE \/ SaveMaterial \/ Publish \/ PublishFails \/ Hydrate \/ RemoveKyber
               \/ RemoveOneTime \/ ResetDevice \/ Crash \/ Reload
      BY <2>2 DEF SaveMaterial, Publish, PublishFails, Hydrate, RemoveKyber, RemoveOneTime,
         ResetDevice, Crash, Reload, May
    <2>3. CASE \E p \in Peers : Claim(p) \/ Abandon(p) \/ ReceiveEstablish(p)
      BY <2>3 DEF Claim, Abandon, ReceiveEstablish
    <2>4. QED
      BY <2>1, <2>2, <2>3 DEF Next
  <1>3. CASE used' = used
    BY <1>1, <1>3 DEF ResetDevice, Use
  <1>4. CASE Use("rotations") \/ Use("mishaps") \/ Use("claims")
    BY <1>1, <1>4 DEF ResetDevice, Use
  <1>5. CASE ResetDevice /\ Use("resets") /\ used.resets < MaxResets
    <2>1. used'.resets = used.resets + 1 /\ used' \in U
      BY <1>1, <1>5 DEF Use
    <2>2. QED
      BY <1>1, <1>5, <2>1
  <1>6. QED
    BY <1>2, <1>3, <1>4, <1>5

\* The steps and first ids of the two kinds of pools.
LEMMA OfKinds ==
  ASSUME NEW kind \in Kinds
  PROVE  /\ kind \in {"otp", "kyber"} /\ kind # "spk"
         /\ FirstId[kind] \in Nat \ {0}
         /\ kind = "kyber" => FirstId[kind] > LastResortId
         /\ Filling[kind] \in {"fill otp", "fill kyber"}
         /\ AfterPool[kind] \in {"kyber", "material"}
  <1>1. CASE kind = "otp"
    BY <1>1 DEF FirstId, Filling, AfterPool, LastResortId
  <1>2. CASE kind = "kyber"
    BY <1>2 DEF FirstId, Filling, AfterPool, LastResortId
  <1>3. QED
    BY <1>1, <1>2 DEF Kinds

\* Past its first step a device has an identity.
LEMMA HasIdentity ==
  ASSUME Progress, pc \notin {"idle", "identity"}
  PROVE  disk.identity # 0
  BY DEF Progress

\* Only a reset and the first step after it change which identity is stored.
LEMMA IdentityStays ==
  ASSUME Typed, Next, ~SaveIdentity, ~ResetDevice
  PROVE  disk'.identity = disk.identity
  <1>1. CASE disk' = disk
    BY <1>1
  <1>2. CASE \/ SaveRegistration \/ CopyLegacy \/ AdoptLegacy \/ DiscardUnpublished
             \/ SaveSpkRecord \/ SaveSpkMeta \/ RetireSuperseded \/ RemoveLegacy
    BY <1>2 DEF Typed, DiskTyped, SaveRegistration, CopyLegacy, AdoptLegacy, DiscardUnpublished,
       SaveSpkRecord, SaveSpkMeta, RetireSuperseded, RemoveLegacy
  <1>3. CASE \/ EnsureLastResort \/ (\E kind \in Kinds : SavePoolKey(kind))
             \/ SaveMaterial \/ RemoveKyber \/ RemoveOneTime
    BY <1>3 DEF Typed, DiskTyped, EnsureLastResort, SavePoolKey, SaveMaterial, RemoveKyber,
       RemoveOneTime
  <1>4. QED
    BY <1>1, <1>2, <1>3, Frame

-----------------------------------------------------------------------------
(* The types *)

LEMMA MadeStep == Typed /\ Progress /\ Next => MadeTyped'
  <1> SUFFICES ASSUME Typed, Progress, Next PROVE MadeTyped'
    OBVIOUS
  <1>1. made' \subseteq Key /\ IsFiniteSet(made')
    <2>1. CASE made' = made
      BY <2>1 DEF Typed, MadeTyped
    <2>2. ASSUME NEW kind \in Kinds \cup {"spk"}, NEW id \in Nat \ {0}, disk.identity # 0,
                 made' = made \cup {Generated(kind, id)}
          PROVE  made' \subseteq Key /\ IsFiniteSet(made')
      BY <2>2, GeneratedKey, FS_AddElement DEF Typed, MadeTyped
    <2>3. CASE SaveSpkRecord
      BY <2>2, <2>3, NextSpkIdIsNew DEF SaveSpkRecord, Progress
    <2>4. CASE EnsureLastResort
      BY <2>1, <2>2, <2>4 DEF EnsureLastResort, Progress, Kinds, LastResortId
    <2>5. ASSUME NEW kind \in Kinds, SavePoolKey(kind)
          PROVE  made' \subseteq Key /\ IsFiniteSet(made')
      <3>1. disk.identity # 0 /\ FirstId[kind] \in Nat \ {0}
        BY <2>5, OfKinds, HasIdentity DEF SavePoolKey
      <3>2. NextId(kind) \in Nat \ {0}
        BY <3>1, NextIdIsNew
      <3>3. QED
        BY <2>2, <2>5, <3>1, <3>2 DEF SavePoolKey
    <2>6. QED
      BY <2>1, <2>3, <2>4, <2>5, Frame
  <1>2. used' \in [resets : Nat, rotations : Nat, mishaps : Nat, claims : Nat]
        /\ used'.resets <= MaxResets
    BY Counted DEF Typed, MadeTyped
  <1>3. \A k \in made' : k.ident <= 1 + used'.resets /\ (disk'.identity = 0 => k.ident <= used'.resets)
    <2>1. \A k \in made : k.ident \in Nat /\ k.ident <= 1 + used.resets /\ used.resets \in Nat
      BY DEF Typed, MadeTyped, Key
    <2>2. CASE ResetDevice
      <3>1. used'.resets = used.resets + 1
        BY <2>2, Counted
      <3>2. made' = made
        BY <2>2 DEF ResetDevice
      <3>3. QED
        BY <2>1, <3>1, <3>2
    <2>3. CASE SaveIdentity
      <3>1. made' = made /\ disk'.identity = 1 + used.resets /\ used'.resets = used.resets
        BY <2>3 DEF SaveIdentity, Typed, DiskTyped
      <3>2. QED
        BY <2>1, <3>1
    <2>4. CASE ~ResetDevice /\ ~SaveIdentity
      <3>1. disk'.identity = disk.identity /\ used'.resets = used.resets
        BY <2>4, IdentityStays, Counted
      <3>2. \A k \in made' \ made : disk.identity # 0 /\ k.ident = disk.identity
        <4>1. CASE made' = made
          BY <4>1
        <4>2. CASE SaveSpkRecord
          BY <4>2, GeneratedKey, NextSpkIdIsNew DEF SaveSpkRecord, Progress
        <4>3. CASE EnsureLastResort
          BY <4>3, GeneratedKey DEF EnsureLastResort, Progress, Kinds, LastResortId
        <4>4. ASSUME NEW kind \in Kinds, SavePoolKey(kind)
              PROVE  \A k \in made' \ made : disk.identity # 0 /\ k.ident = disk.identity
          <5>1. disk.identity # 0
            BY <4>4, OfKinds, HasIdentity DEF SavePoolKey
          <5>2. QED
            BY <4>4, <5>1 DEF SavePoolKey, Generated
        <4>5. QED
          BY <4>1, <4>2, <4>3, <4>4, Frame
      <3>3. disk.identity # 0 => disk.identity = 1 + used.resets
        BY DEF Typed, DiskTyped
      <3>4. \A k \in made : disk.identity = 0 => k.ident <= used.resets
        BY DEF Typed, MadeTyped
      <3>5. QED
        <4>1. ASSUME NEW k \in made'
              PROVE  k.ident <= 1 + used'.resets /\ (disk'.identity = 0 => k.ident <= used'.resets)
          <5>1. CASE k \in made
            BY <2>1, <3>1, <3>4, <5>1
          <5>2. CASE k \notin made
            BY <2>4, <3>1, <3>2, <3>3, <5>2, Counted
          <5>3. QED
            BY <5>1, <5>2
        <4>2. QED
          BY <4>1
    <2>5. QED
      BY <2>2, <2>3, <2>4
  <1>4. handed' \subseteq (OneTimeKeys("otp") \cup OneTimeKeys("kyber"))'
    <2>1. handed \subseteq OneTimeKeys("otp") \cup OneTimeKeys("kyber") /\ made \subseteq made'
      BY Frame DEF Typed, MadeTyped
    <2>2. CASE handed' = handed
      BY <2>1, <2>2 DEF OneTimeKeys
    <2>3. ASSUME NEW p \in Peers, Claim(p)
          PROVE  handed' \subseteq (OneTimeKeys("otp") \cup OneTimeKeys("kyber"))'
      <3>1. handed' = handed \cup OneTime(Bundle) /\ ServedSpk # NONE /\ ServedKyber # NONE
        BY <2>3 DEF Claim
      <3>2. OneTime(Bundle) \subseteq made
        BY <3>1, BundleIsOfRows DEF Typed, ServerTyped
      <3>3. \A k \in OneTime(Bundle) : k.kind \in Kinds /\ k.id >= FirstId[k.kind]
        BY <3>1, BundleIsOfRows
      <3>4. QED
        BY <2>1, <3>1, <3>2, <3>3 DEF OneTimeKeys, Kinds
    <2>4. QED
      BY <2>2, <2>3, Frame
  <1>5. QED
    BY <1>1, <1>2, <1>3, <1>4 DEF MadeTyped

\* The store that a step leaves.
Becomes(identity, registered, spks, meta, legacy, lastResort, pool, cache) ==
  disk' = [identity |-> identity, registered |-> registered, spks |-> spks, meta |-> meta,
           legacy |-> legacy, lastResort |-> lastResort, pool |-> pool, cache |-> cache]

LEMMA DiskEffects ==
  ASSUME Typed
  PROVE  /\ SaveIdentity =>
              Becomes(1 + used.resets, disk.registered, disk.spks, disk.meta, disk.legacy,
                      disk.lastResort, disk.pool, disk.cache)
         /\ SaveRegistration =>
              Becomes(disk.identity, TRUE, disk.spks, disk.meta, disk.legacy,
                      disk.lastResort, disk.pool, disk.cache)
         /\ CopyLegacy =>
              Becomes(disk.identity, disk.registered, Over({disk.legacy}, disk.spks), disk.meta,
                      disk.legacy, disk.lastResort, disk.pool, disk.cache)
         /\ AdoptLegacy =>
              \/ disk' = disk
              \/ Becomes(disk.identity, disk.registered, disk.spks, disk.legacy, disk.legacy,
                         disk.lastResort, disk.pool, disk.cache)
         /\ DiscardUnpublished =>
              Becomes(disk.identity, disk.registered,
                      {k \in disk.spks : disk.meta # NONE => k.id <= disk.meta.id}, disk.meta,
                      disk.legacy, disk.lastResort, disk.pool, disk.cache)
         /\ SaveSpkRecord =>
              Becomes(disk.identity, disk.registered,
                      Over({Generated("spk", NextSpkId)}, disk.spks), disk.meta,
                      disk.legacy, disk.lastResort, disk.pool, disk.cache)
         /\ SaveSpkMeta =>
              Becomes(disk.identity, disk.registered, disk.spks, NewestSpk, disk.legacy,
                      disk.lastResort, disk.pool, disk.cache)
         /\ RetireSuperseded =>
              Becomes(disk.identity, disk.registered, KeptSpks(disk.meta.id), disk.meta,
                      disk.legacy, disk.lastResort, disk.pool, disk.cache)
         /\ RemoveLegacy =>
              Becomes(disk.identity, disk.registered, disk.spks, disk.meta, NONE,
                      disk.lastResort, disk.pool, disk.cache)
         /\ EnsureLastResort =>
              \/ disk' = disk
              \/ /\ disk.lastResort = NONE
                 /\ Becomes(disk.identity, disk.registered, disk.spks, disk.meta, disk.legacy,
                            Generated("kyber", LastResortId), disk.pool, disk.cache)
         /\ \A kind \in Kinds : SavePoolKey(kind) =>
              Becomes(disk.identity, disk.registered, disk.spks, disk.meta, disk.legacy,
                      disk.lastResort,
                      [disk.pool EXCEPT ![kind] = Over({Generated(kind, NextId(kind))}, @)],
                      disk.cache)
         /\ SaveMaterial =>
              Becomes(disk.identity, disk.registered, disk.spks, disk.meta, disk.legacy,
                      disk.lastResort, disk.pool, Material)
         /\ RemoveKyber =>
              Becomes(disk.identity, disk.registered, disk.spks, disk.meta, disk.legacy,
                      disk.lastResort, [disk.pool EXCEPT !["kyber"] = @ \ {serving.kyber}],
                      disk.cache)
         /\ RemoveOneTime =>
              Becomes(disk.identity, disk.registered, disk.spks, disk.meta, disk.legacy,
                      disk.lastResort, [disk.pool EXCEPT !["otp"] = @ \ {serving.otp}],
                      disk.cache)
         /\ ResetDevice => Becomes(0, FALSE, {}, NONE, NONE, NONE, NoKeys, NONE)
  <1>1. disk = [identity |-> disk.identity, registered |-> disk.registered, spks |-> disk.spks,
                meta |-> disk.meta, legacy |-> disk.legacy, lastResort |-> disk.lastResort,
                pool |-> disk.pool, cache |-> disk.cache]
    BY DEF Typed, DiskTyped
  <1>2. /\ SaveIdentity =>
              Becomes(1 + used.resets, disk.registered, disk.spks, disk.meta, disk.legacy,
                      disk.lastResort, disk.pool, disk.cache)
        /\ SaveRegistration =>
              Becomes(disk.identity, TRUE, disk.spks, disk.meta, disk.legacy,
                      disk.lastResort, disk.pool, disk.cache)
    BY <1>1 DEF Becomes, SaveIdentity, SaveRegistration
  <1>3. CopyLegacy =>
          Becomes(disk.identity, disk.registered, Over({disk.legacy}, disk.spks), disk.meta,
                  disk.legacy, disk.lastResort, disk.pool, disk.cache)
    BY <1>1 DEF Becomes, CopyLegacy
  <1>4. AdoptLegacy =>
              \/ disk' = disk
              \/ Becomes(disk.identity, disk.registered, disk.spks, disk.legacy, disk.legacy,
                         disk.lastResort, disk.pool, disk.cache)
    BY <1>1 DEF Becomes, AdoptLegacy
  <1>5. DiscardUnpublished =>
              Becomes(disk.identity, disk.registered,
                      {k \in disk.spks : disk.meta # NONE => k.id <= disk.meta.id}, disk.meta,
                      disk.legacy, disk.lastResort, disk.pool, disk.cache)
    BY <1>1 DEF Becomes, DiscardUnpublished
  <1>6. SaveSpkRecord =>
              Becomes(disk.identity, disk.registered,
                      Over({Generated("spk", NextSpkId)}, disk.spks), disk.meta,
                      disk.legacy, disk.lastResort, disk.pool, disk.cache)
    BY <1>1 DEF Becomes, SaveSpkRecord
  <1>7. SaveSpkMeta =>
              Becomes(disk.identity, disk.registered, disk.spks, NewestSpk, disk.legacy,
                      disk.lastResort, disk.pool, disk.cache)
    BY <1>1 DEF Becomes, SaveSpkMeta
  <1>8. RetireSuperseded =>
              Becomes(disk.identity, disk.registered, KeptSpks(disk.meta.id), disk.meta,
                      disk.legacy, disk.lastResort, disk.pool, disk.cache)
    BY <1>1 DEF Becomes, RetireSuperseded
  <1>9. RemoveLegacy =>
              Becomes(disk.identity, disk.registered, disk.spks, disk.meta, NONE,
                      disk.lastResort, disk.pool, disk.cache)
    BY <1>1 DEF Becomes, RemoveLegacy
  <1>10. EnsureLastResort =>
              \/ disk' = disk
              \/ /\ disk.lastResort = NONE
                 /\ Becomes(disk.identity, disk.registered, disk.spks, disk.meta, disk.legacy,
                            Generated("kyber", LastResortId), disk.pool, disk.cache)
    BY <1>1 DEF Becomes, EnsureLastResort
  <1>11. ASSUME NEW kind \in Kinds, SavePoolKey(kind)
         PROVE  Becomes(disk.identity, disk.registered, disk.spks, disk.meta, disk.legacy,
                      disk.lastResort,
                      [disk.pool EXCEPT ![kind] = Over({Generated(kind, NextId(kind))}, @)],
                      disk.cache)
    BY <1>1, <1>11 DEF Becomes, SavePoolKey
  <1>12. SaveMaterial =>
              Becomes(disk.identity, disk.registered, disk.spks, disk.meta, disk.legacy,
                      disk.lastResort, disk.pool, Material)
    BY <1>1 DEF Becomes, SaveMaterial
  <1>13. RemoveKyber =>
              Becomes(disk.identity, disk.registered, disk.spks, disk.meta, disk.legacy,
                      disk.lastResort, [disk.pool EXCEPT !["kyber"] = @ \ {serving.kyber}],
                      disk.cache)
    BY <1>1 DEF Becomes, RemoveKyber
  <1>14. RemoveOneTime =>
              Becomes(disk.identity, disk.registered, disk.spks, disk.meta, disk.legacy,
                      disk.lastResort, [disk.pool EXCEPT !["otp"] = @ \ {serving.otp}],
                      disk.cache)
    BY <1>1 DEF Becomes, RemoveOneTime
  <1>15. ResetDevice => Becomes(0, FALSE, {}, NONE, NONE, NONE, NoKeys, NONE)
    BY DEF Becomes, ResetDevice, Wiped
  <1>16. QED
    BY <1>2, <1>3, <1>4, <1>5, <1>6, <1>7, <1>8, <1>9, <1>10, <1>11, <1>12, <1>13, <1>14, <1>15,
       Zenon

\* A record is replaced: what is new has an id of its own.
LEMMA OverAdds ==
  ASSUME NEW keys, NEW key, OneId(keys), \A k \in keys : k.id < key.id,
         keys \subseteq Key, key \in Key
  PROVE  Over({key}, keys) = keys \cup {key} /\ OneId(keys \cup {key}) /\ key \notin keys
  BY DEF Over, OneId, Ids, Key

\* What was generated stays of its kind.
LEMMA KindsGrow ==
  ASSUME made \subseteq made'
  PROVE  /\ Spks \subseteq Spks' /\ LastResorts \subseteq LastResorts'
         /\ \A kind \in Kinds : /\ OneTimeKeys(kind) \subseteq OneTimeKeys(kind)'
                                /\ PoolKeys(kind) \subseteq PoolKeys(kind)'
  BY DEF Spks, LastResorts, OneTimeKeys, PoolKeys

LEMMA DiskStep == Typed /\ Progress /\ Next => DiskTyped'
  <1> SUFFICES ASSUME Typed, Progress, Next PROVE DiskTyped'
    OBVIOUS
  <1> USE DEF Mine
  <1>1. DiskTyped /\ made \subseteq Key /\ made \subseteq made' /\ IsFiniteSet(made)
    BY Frame DEF Typed, MadeTyped
  <1>2. /\ Spks \subseteq Spks' /\ LastResorts \subseteq LastResorts'
        /\ \A kind \in Kinds : OneTimeKeys(kind) \subseteq OneTimeKeys(kind)'
    BY <1>1, KindsGrow
  <1>3. used.resets \in Nat /\ (~ResetDevice => used'.resets = used.resets)
    BY Counted DEF Typed, MadeTyped
  <1>4. CASE disk' = disk /\ ~ResetDevice
    BY <1>1, <1>2, <1>3, <1>4 DEF DiskTyped
  <1>5. CASE SaveIdentity \/ SaveRegistration
    <2>1. ~ResetDevice
      BY <1>5 DEF ResetDevice, SaveIdentity, SaveRegistration
    <2>2. CASE SaveIdentity
      <3>1. disk.identity = 0
        BY <2>2 DEF SaveIdentity, Progress
      <3>2. Becomes(1 + used.resets, disk.registered, {}, NONE, NONE, NONE, disk.pool, NONE)
        BY <2>2, <3>1, DiskEffects, NothingStored
      <3>3. \A kind \in Kinds : disk.pool[kind] = {}
        BY <3>1, NothingStored
      <3>4. QED
        BY <1>1, <1>3, <2>1, <3>2, <3>3 DEF DiskTyped, Becomes, OneId
    <2>3. CASE SaveRegistration
      <3>1. Becomes(disk.identity, TRUE, disk.spks, disk.meta, disk.legacy,
                      disk.lastResort, disk.pool, disk.cache)
        BY <2>3, DiskEffects
      <3>2. QED
        BY <1>1, <1>2, <1>3, <2>1, <3>1 DEF DiskTyped, Becomes
    <2>4. QED
      BY <1>5, <2>2, <2>3
  <1>6. CASE CopyLegacy
    <2>1. Becomes(disk.identity, disk.registered, Over({disk.legacy}, disk.spks), disk.meta,
                  disk.legacy, disk.lastResort, disk.pool, disk.cache)
      BY <1>6, DiskEffects
    <2>2. disk.meta = NONE /\ disk.legacy # NONE /\ ~ResetDevice
      BY <1>6 DEF CopyLegacy, ResetDevice
    <2>3. OneId(Over({disk.legacy}, disk.spks))
      BY <1>1, OverHasOneId DEF DiskTyped, OneId
    <2>4. Over({disk.legacy}, disk.spks) \subseteq disk.spks \cup {disk.legacy}
      BY DEF Over
    <2>5. QED
      BY <1>1, <1>2, <1>3, <2>1, <2>2, <2>3, <2>4 DEF DiskTyped, Becomes
  <1>7. CASE AdoptLegacy
    <2>1. ~ResetDevice
      BY <1>7 DEF AdoptLegacy, ResetDevice
    <2>2. CASE disk' # disk
      <3>1. Becomes(disk.identity, disk.registered, disk.spks, disk.legacy, disk.legacy,
                    disk.lastResort, disk.pool, disk.cache)
        BY <1>7, <2>2, DiskEffects
      <3>2. disk.meta = NONE => disk.legacy \in disk.spks
        BY <1>7 DEF AdoptLegacy, Progress
      <3>3. pc = "adopt" => disk.meta = NONE
        BY DEF Progress
      <3>4. QED
        BY <1>1, <1>2, <1>3, <1>7, <2>1, <3>1, <3>2, <3>3 DEF DiskTyped, Becomes, AdoptLegacy
    <2>3. QED
      BY <1>4, <2>1, <2>2
  <1>8. CASE DiscardUnpublished
    <2>1. Becomes(disk.identity, disk.registered,
                  {k \in disk.spks : disk.meta # NONE => k.id <= disk.meta.id}, disk.meta,
                  disk.legacy, disk.lastResort, disk.pool, disk.cache)
      BY <1>8, DiskEffects
    <2>2. ~ResetDevice
      BY <1>8 DEF DiscardUnpublished, ResetDevice
    <2>3. disk.meta # NONE => disk.meta.id \in Nat
      BY <1>1 DEF DiskTyped, Spks, Key
    <2>4. QED
      BY <1>1, <1>2, <1>3, <2>1, <2>2, <2>3 DEF DiskTyped, Becomes, OneId
  <1>9. CASE SaveSpkRecord
    <2> DEFINE key == Generated("spk", NextSpkId)
    <2>1. Becomes(disk.identity, disk.registered, Over({key}, disk.spks), disk.meta,
                  disk.legacy, disk.lastResort, disk.pool, disk.cache)
      BY <1>9, DiskEffects
    <2>2. ~ResetDevice /\ made' = made \cup {key}
      BY <1>9 DEF SaveSpkRecord, ResetDevice
    <2>3. disk.identity # 0
      BY <1>9, HasIdentity DEF SaveSpkRecord
    <2>4. key \in Key /\ key.kind = "spk" /\ key.id = NextSpkId /\ key.ident = disk.identity
      BY <2>3, GeneratedKey, NextSpkIdIsNew
    <2>5. \A k \in disk.spks : k.id < key.id
      BY <2>4, NextSpkIdIsNew
    <2> HIDE DEF key
    <2>6. Over({key}, disk.spks) = disk.spks \cup {key} /\ OneId(disk.spks \cup {key})
      BY <1>1, <2>4, <2>5, OverAdds DEF DiskTyped, Spks
    <2>7. key \in Spks'
      BY <2>2, <2>4 DEF Spks
    <2>8. QED
      BY <1>1, <1>2, <1>3, <2>1, <2>2, <2>4, <2>6, <2>7 DEF DiskTyped, Becomes
  <1>10. CASE SaveSpkMeta
    <2>1. Becomes(disk.identity, disk.registered, disk.spks, NewestSpk, disk.legacy,
                  disk.lastResort, disk.pool, disk.cache)
      BY <1>10, DiskEffects
    <2>2. ~ResetDevice /\ disk.spks # {}
      BY <1>10 DEF SaveSpkMeta, ResetDevice, Progress
    <2>3. NewestSpk \in disk.spks
      BY <2>2, NewestSpkIsStored
    <2>4. QED
      BY <1>1, <1>2, <1>3, <2>1, <2>2, <2>3 DEF DiskTyped, Becomes
  <1>11. CASE RetireSuperseded
    <2>1. Becomes(disk.identity, disk.registered, KeptSpks(disk.meta.id), disk.meta,
                  disk.legacy, disk.lastResort, disk.pool, disk.cache)
      BY <1>11, DiskEffects
    <2>2. ~ResetDevice
      BY <1>11 DEF RetireSuperseded, ResetDevice
    <2>3. KeptSpks(disk.meta.id) \subseteq disk.spks
      BY DEF KeptSpks
    <2>4. disk.meta \in disk.spks => disk.meta \in KeptSpks(disk.meta.id)
      BY DEF KeptSpks
    <2>5. QED
      BY <1>1, <1>2, <1>3, <2>1, <2>2, <2>3, <2>4 DEF DiskTyped, Becomes, OneId
  <1>12. CASE RemoveLegacy
    <2>1. Becomes(disk.identity, disk.registered, disk.spks, disk.meta, NONE,
                  disk.lastResort, disk.pool, disk.cache)
      BY <1>12, DiskEffects
    <2>2. ~ResetDevice
      BY <1>12 DEF RemoveLegacy, ResetDevice
    <2>3. QED
      BY <1>1, <1>2, <1>3, <2>1, <2>2 DEF DiskTyped, Becomes
  <1>13. CASE EnsureLastResort
    <2> DEFINE key == Generated("kyber", LastResortId)
    <2>1. ~ResetDevice /\ disk.identity # 0
      BY <1>13, HasIdentity DEF EnsureLastResort, ResetDevice
    <2>2. CASE disk' # disk
      <3>1. Becomes(disk.identity, disk.registered, disk.spks, disk.meta, disk.legacy,
                    key, disk.pool, disk.cache)
        BY <1>13, <2>2, DiskEffects
      <3>2. made' = made \cup {key}
        BY <1>13, <2>2 DEF EnsureLastResort
      <3>3. key \in Key /\ key.kind = "kyber" /\ key.id = LastResortId
            /\ key.ident = disk.identity
        BY <2>1, GeneratedKey DEF Kinds, LastResortId
      <3>4. key \in LastResorts'
        BY <3>2, <3>3 DEF LastResorts
      <3> HIDE DEF key
      <3>5. QED
        BY <1>1, <1>2, <1>3, <2>1, <3>1, <3>3, <3>4 DEF DiskTyped, Becomes
    <2>3. QED
      BY <1>4, <2>1, <2>2
  <1>14. ASSUME NEW kind \in Kinds, SavePoolKey(kind) PROVE DiskTyped'
    <2> DEFINE key == Generated(kind, NextId(kind))
    <2>1. Becomes(disk.identity, disk.registered, disk.spks, disk.meta, disk.legacy,
                  disk.lastResort, [disk.pool EXCEPT ![kind] = Over({key}, @)], disk.cache)
      BY <1>14, DiskEffects
    <2>2. ~ResetDevice /\ disk.identity # 0 /\ made' = made \cup {key}
      BY <1>14, HasIdentity, OfKinds DEF SavePoolKey, ResetDevice
    <2>3. NextId(kind) \in Nat \ {0} /\ NextId(kind) >= FirstId[kind]
      <3>1. NextId(kind) \in Nat /\ NextId(kind) >= FirstId[kind]
        BY NextIdIsNew
      <3>2. FirstId[kind] \in Nat \ {0}
        BY OfKinds
      <3>3. QED
        BY <3>1, <3>2
    <2>4. key \in Key /\ key.kind = kind /\ key.id = NextId(kind) /\ key.ident = disk.identity
      BY <2>2, <2>3, GeneratedKey
    <2>5. \A k \in disk.pool[kind] : k.id < key.id
      BY <2>4, NextIdIsNew
    <2>6. key \in OneTimeKeys(kind)'
      BY <2>2, <2>3, <2>4 DEF OneTimeKeys
    <2> HIDE DEF key
    <2>7. Over({key}, disk.pool[kind]) = disk.pool[kind] \cup {key}
          /\ OneId(disk.pool[kind] \cup {key})
      BY <1>1, <2>4, <2>5, OverAdds DEF DiskTyped
    <2>8. disk'.pool = [disk.pool EXCEPT ![kind] = disk.pool[kind] \cup {key}]
      BY <2>1, <2>7 DEF Becomes
    <2>9. disk'.pool \in [Kinds -> SUBSET made']
          /\ disk'.pool[kind] = disk.pool[kind] \cup {key}
          /\ \A other \in Kinds \ {kind} : disk'.pool[other] = disk.pool[other]
      BY <1>1, <2>2, <2>8 DEF DiskTyped
    <2>10. \A other \in Kinds : /\ disk'.pool[other] \subseteq OneTimeKeys(other)'
                                /\ Mine(disk.pool[other] \cup {key}) /\ OneId(disk'.pool[other])
      BY <1>1, <1>2, <2>4, <2>6, <2>7, <2>9 DEF DiskTyped
    <2>11. disk' = [disk EXCEPT !.pool = disk'.pool]
      BY <1>1, <2>1 DEF DiskTyped, Becomes
    <2>12. \A other \in Kinds : \A k \in disk'.pool[other] : k.ident = disk.identity
      BY <2>9, <2>10
    <2>13. QED
      BY <1>1, <1>2, <1>3, <2>1, <2>2, <2>9, <2>10, <2>12 DEF DiskTyped, Becomes
  <1>15. CASE SaveMaterial
    <2>1. Becomes(disk.identity, disk.registered, disk.spks, disk.meta, disk.legacy,
                  disk.lastResort, disk.pool, Material)
      BY <1>15, DiskEffects
    <2>2. ~ResetDevice
      BY <1>15 DEF SaveMaterial, ResetDevice
    <2>3. QED
      BY <1>1, <1>2, <1>3, <2>1, <2>2 DEF DiskTyped, Becomes
  <1>16. CASE RemoveKyber \/ RemoveOneTime
    <2>1. ~ResetDevice
      BY <1>16 DEF RemoveKyber, RemoveOneTime, ResetDevice
    <2>2. PICK kind \in Kinds, gone \in {serving.kyber, serving.otp} :
            Becomes(disk.identity, disk.registered, disk.spks, disk.meta, disk.legacy,
                    disk.lastResort, [disk.pool EXCEPT ![kind] = @ \ {gone}], disk.cache)
      BY <1>16, DiskEffects DEF Kinds
    <2>3. disk'.pool = [disk.pool EXCEPT ![kind] = @ \ {gone}]
      BY <2>2 DEF Becomes
    <2>4. disk'.pool \in [Kinds -> SUBSET made']
          /\ \A other \in Kinds : disk'.pool[other] \subseteq disk.pool[other]
      BY <1>1, <2>3 DEF DiskTyped
    <2>5. QED
      BY <1>1, <1>2, <1>3, <2>1, <2>2, <2>4 DEF DiskTyped, Becomes, OneId
  <1>17. CASE ResetDevice
    <2>1. Becomes(0, FALSE, {}, NONE, NONE, NONE, NoKeys, NONE)
      BY <1>17, DiskEffects
    <2>2. disk'.pool \in [Kinds -> SUBSET made'] /\ \A kind \in Kinds : disk'.pool[kind] = {}
      BY <2>1 DEF Becomes, NoKeys
    <2>3. QED
      BY <2>1, <2>2 DEF DiskTyped, Becomes, OneId
  <1>18. QED
    BY <1>4, <1>5, <1>6, <1>7, <1>8, <1>9, <1>10, <1>11, <1>12, <1>13, <1>14, <1>15, <1>16,
       <1>17, Frame

\* Which steps change which part of the store.
LEMMA PartsStay ==
  ASSUME Typed, Next
  PROVE  /\ SaveMaterial \/ ResetDevice \/ disk'.cache = disk.cache
         /\ AdoptLegacy \/ SaveSpkMeta \/ ResetDevice \/ disk'.meta = disk.meta
         /\ RemoveLegacy \/ ResetDevice \/ disk'.legacy = disk.legacy
         /\ \/ CopyLegacy \/ DiscardUnpublished \/ SaveSpkRecord \/ RetireSuperseded \/ ResetDevice
            \/ disk'.spks = disk.spks
         /\ EnsureLastResort \/ ResetDevice \/ disk'.lastResort = disk.lastResort
         /\ \/ (\E kind \in Kinds : SavePoolKey(kind)) \/ RemoveKyber \/ RemoveOneTime \/ ResetDevice
            \/ disk'.pool = disk.pool
  <1>1. CASE disk' = disk
    BY <1>1
  <1>2. CASE SaveIdentity \/ SaveRegistration \/ CopyLegacy
    BY <1>2, DiskEffects DEF Becomes
  <1>3. CASE AdoptLegacy \/ DiscardUnpublished \/ SaveSpkRecord
    BY <1>1, <1>3, DiskEffects DEF Becomes
  <1>4. CASE SaveSpkMeta \/ RetireSuperseded \/ RemoveLegacy
    BY <1>4, DiskEffects DEF Becomes
  <1>5. CASE EnsureLastResort
    BY <1>1, <1>5, DiskEffects DEF Becomes
  <1>6. CASE \E kind \in Kinds : SavePoolKey(kind)
    <2>1. PICK kind \in Kinds : SavePoolKey(kind)
      BY <1>6
    <2>2. Becomes(disk.identity, disk.registered, disk.spks, disk.meta, disk.legacy,
                  disk.lastResort,
                  [disk.pool EXCEPT ![kind] = Over({Generated(kind, NextId(kind))}, @)],
                  disk.cache)
      BY <2>1, DiskEffects
    <2>3. QED
      BY <1>6, <2>2 DEF Becomes
  <1>7. CASE SaveMaterial \/ RemoveKyber \/ RemoveOneTime \/ ResetDevice
    BY <1>7, DiskEffects DEF Becomes
  <1>8. QED
    BY <1>1, <1>2, <1>3, <1>4, <1>5, <1>6, <1>7, Frame

\* The stored keys of a pool, the last-resort key with them, have ids of their own.
LEMMA StoredKeysTyped ==
  ASSUME Typed, NEW kind \in Kinds
  PROVE  StoredKeys(kind) \subseteq PoolKeys(kind) /\ Mine(StoredKeys(kind)) /\ OneId(StoredKeys(kind))
  <1> DEFINE last == IF kind = "kyber" /\ disk.lastResort # NONE THEN {disk.lastResort} ELSE {}
  <1>1. last \subseteq PoolKeys(kind) /\ Mine(last) /\ \A k \in last : kind = "kyber" /\ k.id = LastResortId
    BY DEF Typed, DiskTyped, Mine, LastResorts, PoolKeys
  <1>2. disk.pool[kind] \subseteq PoolKeys(kind) /\ Mine(disk.pool[kind]) /\ OneId(disk.pool[kind])
    BY DEF Typed, DiskTyped, PoolKeys
  <1>3. kind = "kyber" => \A k \in disk.pool[kind] : k.id # LastResortId
    <2>1. \A k \in disk.pool[kind] : k.id >= FirstId[kind]
      BY DEF Typed, DiskTyped, OneTimeKeys
    <2>2. kind = "kyber" => FirstId[kind] = 2
      BY DEF FirstId
    <2>3. QED
      BY <2>1, <2>2 DEF LastResortId
  <1>4. StoredKeys(kind) = disk.pool[kind] \cup last
    BY DEF StoredKeys
  <1>5. \A j, k \in last : j = k
    OBVIOUS
  <1> HIDE DEF last
  <1>6. QED
    BY <1>1, <1>2, <1>3, <1>4, <1>5 DEF Mine, OneId

\* The material is the current signed prekey and the fresh keys over the
\* published ones.
LEMMA MaterialTyped ==
  ASSUME Typed, Progress, FilledInv, pc = "material"
  PROVE  /\ Material \in PublicMaterial
         /\ Material.identity = disk.identity
         /\ Material.spk = disk.meta /\ disk.meta \in disk.spks
         /\ \A kind \in Kinds :
              /\ Material.keys[kind] = Over(fresh[kind], Published(kind))
              /\ Material.keys[kind] \subseteq PoolKeys(kind)
              /\ Mine(Material.keys[kind]) /\ OneId(Material.keys[kind])
  <1>1. disk.meta \in disk.spks /\ disk.identity \in Nat /\ disk.meta \in Key
    <2>1. disk.meta # NONE
      BY DEF Progress, BeforeMeta
    <2>2. QED
      BY <2>1 DEF Typed, DiskTyped, MadeTyped, Spks
  <1>2. ASSUME NEW kind \in Kinds
        PROVE  LET keys == Over(fresh[kind], Published(kind))
               IN  keys \subseteq PoolKeys(kind) /\ keys \in SUBSET Key /\ Mine(keys) /\ OneId(keys)
    <2>1. fresh[kind] \subseteq PoolKeys(kind) /\ Mine(fresh[kind]) /\ OneId(fresh[kind])
      BY StoredKeysTyped DEF FilledInv, Mine, OneId
    <2>2. Published(kind) \subseteq PoolKeys(kind) /\ Mine(Published(kind)) /\ OneId(Published(kind))
      BY DEF Typed, CacheTyped, Published, Mine, OneId
    <2>3. PoolKeys(kind) \subseteq Key
      BY DEF Typed, MadeTyped, PoolKeys, OneTimeKeys, LastResorts
    <2>4. OneId(Over(fresh[kind], Published(kind)))
      BY <2>1, <2>2, OverHasOneId
    <2>5. Over(fresh[kind], Published(kind)) \subseteq fresh[kind] \cup Published(kind)
      BY DEF Over
    <2>6. QED
      BY <2>1, <2>2, <2>3, <2>4, <2>5 DEF Mine
  <1>3. QED
    BY <1>1, <1>2 DEF Material, PublicMaterial

LEMMA CacheStep == Typed /\ Progress /\ FilledInv /\ Next => CacheTyped'
  <1> SUFFICES ASSUME Typed, Progress, FilledInv, Next PROVE CacheTyped'
    OBVIOUS
  <1> USE DEF Mine
  <1>1. CacheTyped /\ made \subseteq made' /\ disk.spks \subseteq Spks
    BY Frame DEF Typed, DiskTyped
  <1>2. /\ Spks \subseteq Spks'
        /\ \A kind \in Kinds : PoolKeys(kind) \subseteq PoolKeys(kind)'
    BY <1>1, KindsGrow
  <1>3. CASE ResetDevice
    BY <1>3, DiskEffects DEF Becomes, CacheTyped
  <1>4. CASE SaveIdentity
    <2>1. disk.cache = NONE
      BY <1>4, NothingStored DEF SaveIdentity, Progress
    <2>2. disk'.cache = NONE
      BY <1>4, <2>1, DiskEffects DEF Becomes
    <2>3. QED
      BY <2>2 DEF CacheTyped
  <1>5. CASE SaveMaterial
    <2>1. Becomes(disk.identity, disk.registered, disk.spks, disk.meta, disk.legacy,
                  disk.lastResort, disk.pool, Material) /\ pc = "material"
      BY <1>5, DiskEffects DEF SaveMaterial
    <2>2. disk'.cache = Material /\ disk'.identity = disk.identity
      BY <2>1 DEF Becomes
    <2>3. Mine({disk.meta})
      BY <2>1, MaterialTyped DEF Typed, DiskTyped
    <2>4. QED
      BY <1>1, <1>2, <2>1, <2>2, <2>3, MaterialTyped DEF CacheTyped
  <1>6. CASE ~ResetDevice /\ ~SaveIdentity /\ ~SaveMaterial
    <2>1. disk'.cache = disk.cache /\ disk'.identity = disk.identity
      BY <1>6, PartsStay, IdentityStays
    <2>2. QED
      BY <1>1, <1>2, <2>1 DEF CacheTyped
  <1>7. QED
    BY <1>3, <1>4, <1>5, <1>6

\* The rows of one-time keys, of which no two have the same id.
KeyRows(rows, keys) ==
  /\ rows \subseteq [key : keys, claimed : BOOLEAN]
  /\ \A q, r \in rows : q.key.id = r.key.id => q = r

\* Uploaded rows have ids of their own; a key that was uploaded is claimed if a
\* row with its id was, and no claimed id is lost.
LEMMA UpsertedRows ==
  ASSUME NEW M, NEW rows, KeyRows(rows, M), NEW keys, keys \subseteq M, OneId(keys)
  PROVE  /\ KeyRows(Upserted(rows, keys), M)
         /\ \A r \in Upserted(rows, keys) :
              \/ r \in rows
              \/ /\ r.key \in keys
                 /\ \A q \in rows : q.key.id = r.key.id /\ q.claimed => r.claimed
         /\ \A r \in rows : r.claimed =>
              \E q \in Upserted(rows, keys) : q.key.id = r.key.id /\ q.claimed
  <1> DEFINE new(k) == [key |-> k, claimed |-> \E r \in rows : r.key.id = k.id /\ r.claimed]
  <1>1. \A r \in Upserted(rows, keys) :
           \/ r \in rows /\ r.key.id \notin Ids(keys)
           \/ \E k \in keys : r = new(k)
    BY DEF Upserted
  <1>2. \A k \in keys : /\ new(k) \in [key : M, claimed : BOOLEAN] /\ new(k).key = k
                        /\ new(k).claimed <=> \E r \in rows : r.key.id = k.id /\ r.claimed
    OBVIOUS
  <1>3. \A k \in keys : new(k) \in Upserted(rows, keys) /\ k.id \in Ids(keys)
    BY DEF Upserted, Ids
  <1>4. \A r \in rows : r.key.id \notin Ids(keys) => r \in Upserted(rows, keys)
    BY DEF Upserted
  <1>5. \A id \in Ids(keys) : \E k \in keys : k.id = id
    BY DEF Ids
  <1> HIDE DEF new
  <1>6. Upserted(rows, keys) \subseteq [key : M, claimed : BOOLEAN]
    BY <1>1, <1>2 DEF KeyRows
  <1>7. \A q, r \in Upserted(rows, keys) : q.key.id = r.key.id => q = r
    BY <1>1, <1>2, <1>3 DEF OneId, KeyRows
  <1>8. ASSUME NEW r \in rows, r.claimed
        PROVE  \E q \in Upserted(rows, keys) : q.key.id = r.key.id /\ q.claimed
    <2>1. CASE r.key.id \in Ids(keys)
      <3>1. PICK k \in keys : k.id = r.key.id
        BY <2>1, <1>5
      <3>2. new(k) \in Upserted(rows, keys) /\ new(k).key.id = r.key.id /\ new(k).claimed
        BY <1>2, <1>3, <1>8, <3>1
      <3>3. QED
        BY <3>2
    <2>2. CASE r.key.id \notin Ids(keys)
      BY <1>4, <1>8, <2>2
    <2>3. QED
      BY <2>1, <2>2
  <1>9. \A r \in Upserted(rows, keys) :
              \/ r \in rows
              \/ /\ r.key \in keys
                 /\ \A q \in rows : q.key.id = r.key.id /\ q.claimed => r.claimed
    BY <1>1, <1>2
  <1>10. QED
    BY <1>6, <1>7, <1>8, <1>9 DEF KeyRows

\* The rows of signed prekeys, of which no two have the same id.
SpkRows(rows, keys) ==
  /\ IsFiniteSet(rows) /\ rows \subseteq [key : keys, active : BOOLEAN, born : Nat]
  /\ \A q, r \in rows : q.key.id = r.key.id => q = r

\* Deactivated rows are the rows with another flag.
Deactivated(rows, id) == {[r EXCEPT !.active = @ /\ r.key.id = id] : r \in rows}

LEMMA DeactivatedRows ==
  ASSUME NEW keys, NEW rows, SpkRows(rows, keys), NEW id
  PROVE  /\ SpkRows(Deactivated(rows, id), keys)
         /\ Cardinality(Deactivated(rows, id)) = Cardinality(rows)
         /\ \A r \in Deactivated(rows, id) : \E q \in rows : q.key = r.key /\ q.born = r.born
  <1> DEFINE off(r) == [r EXCEPT !.active = @ /\ r.key.id = id]
             T == Deactivated(rows, id)
             f == [r \in rows |-> off(r)]
  <1>1. \A r \in rows : /\ off(r) \in [key : keys, active : BOOLEAN, born : Nat]
                        /\ off(r).key = r.key /\ off(r).born = r.born
    BY DEF SpkRows
  <1>2. T = {off(r) : r \in rows}
    BY DEF Deactivated
  <1> HIDE DEF off, T
  <1>3. f \in Bijection(rows, T)
    <2>1. f \in Injection(rows, T)
      BY <1>1, <1>2 DEF Injection, IsInjective, SpkRows
    <2>2. f \in Surjection(rows, T)
      BY <1>2 DEF Surjection
    <2>3. QED
      BY <2>1, <2>2 DEF Bijection
  <1>4. ExistsBijection(rows, T)
    BY <1>3 DEF ExistsBijection
  <1>5. IsFiniteSet(T) /\ Cardinality(T) = Cardinality(rows)
    BY <1>4, FS_Bijection DEF SpkRows
  <1>6. QED
    BY <1>1, <1>2, <1>5 DEF SpkRows, T

\* A signed prekey that is put takes the place of the row with its id, or
\* comes after all of them.
PutSigned(rows, spk) ==
  LET at == {r \in rows : r.key.id = spk.id}
  IN  (rows \ at) \cup
      {[key |-> spk, active |-> TRUE,
        born |-> IF at = {} THEN 1 + Cardinality(rows) ELSE (CHOOSE r \in at : TRUE).born]}

LEMMA PutSignedRows ==
  ASSUME NEW keys, NEW rows, SpkRows(rows, keys), NEW spk \in keys
  PROVE  /\ SpkRows(PutSigned(rows, spk), keys)
         /\ \A r \in PutSigned(rows, spk) : r \in rows \/ r.key = spk
         /\ \E r \in PutSigned(rows, spk) :
              /\ r.key = spk /\ r.active
              /\ \A q \in PutSigned(rows, spk) : q = r \/ (q \in rows /\ q.key.id # spk.id)
              /\ \/ /\ \A q \in rows : q.key.id # spk.id
                    /\ r.born = 1 + Cardinality(rows)
                    /\ Cardinality(PutSigned(rows, spk)) = 1 + Cardinality(rows)
                 \/ /\ \E q \in rows : q.key.id = spk.id /\ q.born = r.born
                    /\ Cardinality(PutSigned(rows, spk)) = Cardinality(rows)
  <1> DEFINE at == {r \in rows : r.key.id = spk.id}
             born == IF at = {} THEN 1 + Cardinality(rows) ELSE (CHOOSE r \in at : TRUE).born
             row == [key |-> spk, active |-> TRUE, born |-> born]
             T == PutSigned(rows, spk)
  <1>1. T = (rows \ at) \cup {row}
    BY DEF PutSigned
  <1>2. IsFiniteSet(rows) /\ Cardinality(rows) \in Nat
    BY FS_CardinalityType DEF SpkRows
  <1>3. ASSUME at # {}
        PROVE  \E q \in at : at = {q} /\ born = q.born
    BY <1>3 DEF SpkRows
  <1>4. born \in Nat
    BY <1>2, <1>3 DEF SpkRows
  <1>5. row \in [key : keys, active : BOOLEAN, born : Nat] /\ row.key = spk /\ row.active
        /\ row.born = born
    BY <1>4
  <1>6. \A q \in rows \ at : q.key.id # spk.id
    OBVIOUS
  <1>7. at = {} => born = 1 + Cardinality(rows)
    OBVIOUS
  <1>8. at \subseteq rows /\ \A q \in at : q.key.id = spk.id
    OBVIOUS
  <1>9. at = {} => \A q \in rows : q.key.id # spk.id
    OBVIOUS
  <1> HIDE DEF at, born, row, T
  <1>10. row \notin rows \ at
    BY <1>5, <1>6
  <1>11. IsFiniteSet(rows \ at) /\ IsFiniteSet(T)
    BY <1>1, <1>2, FS_Difference, FS_AddElement
  <1>12. Cardinality(T) = Cardinality(rows \ at) + 1
    BY <1>1, <1>10, <1>11, FS_AddElement
  <1>13. CASE at = {}
    <2>1. rows \ at = rows
      BY <1>13
    <2>2. Cardinality(T) = 1 + Cardinality(rows)
      <3>1. Cardinality(rows \ at) = Cardinality(rows)
        BY <2>1
      <3>2. QED
        BY <1>2, <1>12, <3>1
    <2>3. QED
      BY <1>1, <1>5, <1>6, <1>7, <1>9, <1>11, <1>13, <2>1, <2>2 DEF SpkRows, T
  <1>14. CASE at # {}
    <2>1. PICK q \in at : at = {q} /\ born = q.born
      BY <1>3, <1>14
    <2>2. q \in rows /\ rows \ at = rows \ {q}
      BY <1>8, <2>1
    <2>3. Cardinality(rows \ at) = Cardinality(rows) - 1
      BY <1>2, <2>2, FS_RemoveElement
    <2>4. Cardinality(T) = Cardinality(rows)
      BY <1>2, <1>12, <2>3
    <2>5. QED
      BY <1>1, <1>5, <1>6, <1>8, <1>11, <2>1, <2>2, <2>4 DEF SpkRows, T
  <1>15. QED
    BY <1>13, <1>14

\* What a request does to the server.
ServerIs(identity, spks, rows) ==
  server' = [identity |-> identity, spks |-> spks, rows |-> rows]

LEMMA AppliedEffects ==
  ASSUME Typed, pc \in Requests, server' = Applied(pc)
  PROVE  /\ pc = "put device" => ServerIs(disk.cache.identity, server.spks, server.rows)
         /\ pc = "deactivate" =>
              ServerIs(server.identity, Deactivated(server.spks, disk.cache.spk.id), server.rows)
         /\ pc = "put signed" =>
              ServerIs(server.identity, PutSigned(server.spks, disk.cache.spk), server.rows)
         /\ pc = "put otp" =>
              ServerIs(server.identity, server.spks,
                [server.rows EXCEPT !["otp"] = Upserted(@, disk.cache.keys["otp"])])
         /\ pc = "put kyber" =>
              ServerIs(server.identity, server.spks,
                [server.rows EXCEPT !["kyber"] = Upserted(@, disk.cache.keys["kyber"])])
  <1>1. server = [identity |-> server.identity, spks |-> server.spks, rows |-> server.rows]
    BY DEF Typed, ServerTyped
  <1>2. CASE pc = "put device"
    BY <1>1, <1>2 DEF Applied, ServerIs
  <1>3. CASE pc = "deactivate"
    BY <1>1, <1>3 DEF Applied, ServerIs, Deactivated
  <1>4. CASE pc = "put signed"
    BY <1>1, <1>4 DEF Applied, ServerIs, PutSigned
  <1>5. CASE pc = "put otp"
    BY <1>1, <1>5 DEF Applied, ServerIs
  <1>6. CASE pc = "put kyber"
    BY <1>1, <1>6 DEF Applied, ServerIs
  <1>7. QED
    BY <1>2, <1>3, <1>4, <1>5, <1>6 DEF Requests

LEMMA AppliedTyped ==
  ASSUME Typed, Progress, Next, pc \in Requests, server' = Applied(pc)
  PROVE  ServerTyped'
  <1>1. /\ made \subseteq made' /\ disk.cache # NONE
        /\ server.rows \in [Kinds -> SUBSET [key : made, claimed : BOOLEAN]]
        /\ \A kind \in Kinds : \A q, r \in server.rows[kind] :
             r.key \in PoolKeys(kind) /\ (q.key.id = r.key.id => q = r)
        /\ SpkRows(server.spks, Spks) /\ server.identity \in Nat
    BY Frame DEF Progress, Typed, ServerTyped, SpkRows
  <1>2. /\ Spks \subseteq Spks'
        /\ \A kind \in Kinds : PoolKeys(kind) \subseteq PoolKeys(kind)'
    BY <1>1, KindsGrow
  <1>3. /\ disk.cache.identity \in Nat /\ disk.cache.spk \in Spks
        /\ \A kind \in Kinds : /\ disk.cache.keys[kind] \subseteq PoolKeys(kind)
                               /\ OneId(disk.cache.keys[kind])
    BY <1>1 DEF Typed, CacheTyped, PublicMaterial
  <1>4. ASSUME NEW identity \in Nat, NEW spks, SpkRows(spks, Spks),
               ServerIs(identity, spks, server.rows)
        PROVE  ServerTyped'
    BY <1>1, <1>2, <1>4 DEF ServerIs, ServerTyped, SpkRows
  <1>5. ASSUME NEW kind \in Kinds,
               ServerIs(server.identity, server.spks,
                 [server.rows EXCEPT ![kind] = Upserted(@, disk.cache.keys[kind])])
        PROVE  ServerTyped'
    <2> DEFINE rows == server.rows[kind]
               keys == disk.cache.keys[kind]
               up == Upserted(rows, keys)
    <2>1. disk.cache.keys[kind] \subseteq made /\ PoolKeys(kind) \subseteq made
      BY <1>3 DEF PoolKeys, OneTimeKeys, LastResorts
    <2>2. /\ up \subseteq [key : made, claimed : BOOLEAN]
          /\ \A q, r \in up : q.key.id = r.key.id => q = r
          /\ \A r \in up : r \in rows \/ r.key \in keys
      <3>1. KeyRows(rows, made)
        BY <1>1 DEF KeyRows
      <3>2. keys \subseteq made /\ OneId(keys)
        BY <1>3, <2>1
      <3> HIDE DEF rows, keys
      <3>3. /\ KeyRows(Upserted(rows, keys), made)
            /\ \A r \in Upserted(rows, keys) : r \in rows \/ r.key \in keys
        BY <3>1, <3>2, UpsertedRows
      <3>4. QED
        BY <3>3 DEF KeyRows
    <2>3. \A r \in up : r.key \in PoolKeys(kind)
      BY <1>1, <1>3, <2>2
    <2>4. server' = [identity |-> server.identity, spks |-> server.spks,
                     rows |-> [server.rows EXCEPT ![kind] = up]]
      BY <1>5 DEF ServerIs
    <2> HIDE DEF up
    <2>5. /\ server'.rows \in [Kinds -> SUBSET [key : made', claimed : BOOLEAN]]
          /\ server'.rows[kind] = up
          /\ \A other \in Kinds \ {kind} : server'.rows[other] = server.rows[other]
      <3>1. [server.rows EXCEPT ![kind] = up] \in [Kinds -> SUBSET [key : made, claimed : BOOLEAN]]
        BY <1>1, <2>2
      <3>2. \A S \in SUBSET [key : made, claimed : BOOLEAN] :
              S \in SUBSET [key : made', claimed : BOOLEAN]
        BY <1>1
      <3>3. server'.rows = [server.rows EXCEPT ![kind] = up]
        BY <2>4
      <3>4. QED
        BY <1>1, <3>1, <3>2, <3>3
    <2>6. \A other \in Kinds : \A q, r \in server'.rows[other] :
             r.key \in PoolKeys(other)' /\ (q.key.id = r.key.id => q = r)
      BY <1>1, <1>2, <2>2, <2>3, <2>5
    <2>7. QED
      BY <1>1, <1>2, <2>4, <2>5, <2>6 DEF ServerTyped, SpkRows
  <1>6. CASE pc = "put device"
    BY <1>1, <1>3, <1>4, <1>6, AppliedEffects
  <1>7. CASE pc = "deactivate"
    BY <1>1, <1>3, <1>4, <1>7, AppliedEffects, DeactivatedRows
  <1>8. CASE pc = "put signed"
    <2>1. ServerIs(server.identity, PutSigned(server.spks, disk.cache.spk), server.rows)
      BY <1>8, AppliedEffects
    <2>2. SpkRows(PutSigned(server.spks, disk.cache.spk), Spks)
      BY <1>1, <1>3, PutSignedRows
    <2>3. QED
      BY <1>1, <1>4, <2>1, <2>2
  <1>9. CASE pc \in {"put otp", "put kyber"}
    BY <1>5, <1>9, AppliedEffects DEF Kinds
  <1>10. QED
    BY <1>6, <1>7, <1>8, <1>9 DEF Requests

\* What a claim does: rows of the keys it gives out are claimed from then on.
LEMMA ClaimedRows ==
  ASSUME Typed, NEW p \in Peers, Claim(p)
  PROVE  /\ server' = [identity |-> server.identity, spks |-> server.spks, rows |-> server'.rows]
         /\ DOMAIN server'.rows = Kinds
         /\ \A kind \in Kinds : server'.rows[kind] =
              {[r EXCEPT !.claimed = @ \/ r.key \in OneTime(Bundle)] : r \in server.rows[kind]}
         /\ \A kind \in Kinds : \A r \in server'.rows[kind] :
              \E q \in server.rows[kind] :
                r.key = q.key /\ (r.claimed <=> q.claimed \/ q.key \in OneTime(Bundle))
         /\ \A kind \in Kinds : \A q \in server.rows[kind] :
              \E r \in server'.rows[kind] :
                r.key = q.key /\ (r.claimed <=> q.claimed \/ q.key \in OneTime(Bundle))
  <1>1. server = [identity |-> server.identity, spks |-> server.spks, rows |-> server.rows]
        /\ \A kind \in Kinds : server.rows[kind] \subseteq [key : made, claimed : BOOLEAN]
        /\ DOMAIN server.rows = Kinds
    BY DEF Typed, ServerTyped
  <1> DEFINE given == OneTime(Bundle)
             claim(r) == [r EXCEPT !.claimed = @ \/ r.key \in given]
  <1>2. server' = [server EXCEPT !.rows = [kind \in Kinds |-> {claim(r) : r \in server.rows[kind]}]]
    <2>1. server' = [server EXCEPT !.rows = [kind \in Kinds |-> {claim(r) : r \in @[kind]}]]
      BY DEF Claim
    <2> HIDE DEF claim
    <2>2. QED
      BY <1>1, <2>1
  <1>3. \A kind \in Kinds : \A r \in server.rows[kind] :
          claim(r).key = r.key /\ (claim(r).claimed <=> r.claimed \/ r.key \in given)
    BY <1>1
  <1> HIDE DEF given, claim
  <1>4. server' = [identity |-> server.identity, spks |-> server.spks, rows |-> server'.rows]
        /\ server'.rows = [kind \in Kinds |-> {claim(r) : r \in server.rows[kind]}]
    BY <1>1, <1>2
  <1>5. \A kind \in Kinds : server'.rows[kind] = {claim(r) : r \in server.rows[kind]}
    BY <1>4
  <1>6. \A kind \in Kinds : server'.rows[kind] =
              {[r EXCEPT !.claimed = @ \/ r.key \in OneTime(Bundle)] : r \in server.rows[kind]}
    BY <1>5 DEF claim, given
  <1>7. QED
    BY <1>3, <1>4, <1>5, <1>6 DEF given

LEMMA ServerStep == Typed /\ Progress /\ Next => ServerTyped'
  <1> SUFFICES ASSUME Typed, Progress, Next PROVE ServerTyped'
    OBVIOUS
  <1>1. ServerTyped /\ made \subseteq made'
    BY Frame DEF Typed
  <1>2. /\ Spks \subseteq Spks'
        /\ \A kind \in Kinds : PoolKeys(kind) \subseteq PoolKeys(kind)'
    BY <1>1, KindsGrow
  <1>3. CASE server' = server
    <2>1. \A S \in SUBSET [key : made, claimed : BOOLEAN] :
            S \in SUBSET [key : made', claimed : BOOLEAN]
      BY <1>1
    <2>2. server.rows \in [Kinds -> SUBSET [key : made', claimed : BOOLEAN]]
      BY <1>1, <2>1 DEF ServerTyped
    <2>3. [key : Spks, active : BOOLEAN, born : Nat] \subseteq [key : Spks', active : BOOLEAN, born : Nat]
      BY <1>2
    <2>4. QED
      BY <1>1, <1>2, <1>3, <2>2, <2>3 DEF ServerTyped
  <1>4. CASE Publish
    BY <1>4, AppliedTyped DEF Publish
  <1>5. CASE PublishFails
    BY <1>3, <1>5, AppliedTyped DEF PublishFails
  <1>6. ASSUME NEW p \in Peers, Claim(p) PROVE ServerTyped'
    <2>1. \A kind \in Kinds : \A r \in server'.rows[kind] :
            \E q \in server.rows[kind] : r.key = q.key
      BY <1>6, ClaimedRows
    <2>2. \A kind \in Kinds : server'.rows[kind] \subseteq [key : made', claimed : BOOLEAN]
      <3>1. SUFFICES ASSUME NEW kind \in Kinds, NEW q \in server.rows[kind]
                     PROVE  [q EXCEPT !.claimed = @ \/ q.key \in OneTime(Bundle)]
                              \in [key : made', claimed : BOOLEAN]
        BY <1>6, ClaimedRows
      <3>2. q \in [key : made, claimed : BOOLEAN] /\ made \subseteq made'
        BY <1>1 DEF ServerTyped
      <3>3. QED
        BY <3>2
    <2>3. \A kind \in Kinds : \A q, r \in server'.rows[kind] :
            r.key \in PoolKeys(kind)' /\ (q.key.id = r.key.id => q = r)
      <3>1. ASSUME NEW kind \in Kinds, NEW q \in server.rows[kind], NEW r \in server.rows[kind]
            PROVE  r.key \in PoolKeys(kind)' /\ (q.key.id = r.key.id => q = r)
        BY <1>1, <1>2 DEF ServerTyped
      <3>2. SUFFICES ASSUME NEW kind \in Kinds, NEW q \in server'.rows[kind],
                            NEW r \in server'.rows[kind]
                     PROVE  r.key \in PoolKeys(kind)' /\ (q.key.id = r.key.id => q = r)
        OBVIOUS
      <3>3. server'.rows[kind] =
              {[x EXCEPT !.claimed = @ \/ x.key \in OneTime(Bundle)] : x \in server.rows[kind]}
        BY <1>6, ClaimedRows
      <3>4. PICK x \in server.rows[kind] : q = [x EXCEPT !.claimed = @ \/ x.key \in OneTime(Bundle)]
        BY <3>3
      <3>5. PICK y \in server.rows[kind] : r = [y EXCEPT !.claimed = @ \/ y.key \in OneTime(Bundle)]
        BY <3>3
      <3>6. x \in [key : made, claimed : BOOLEAN] /\ y \in [key : made, claimed : BOOLEAN]
        BY <1>1 DEF ServerTyped
      <3>7. q.key = x.key /\ r.key = y.key
        BY <3>4, <3>5, <3>6
      <3>8. QED
        BY <3>1, <3>4, <3>5, <3>7
    <2>4. /\ server' = [identity |-> server.identity, spks |-> server.spks, rows |-> server'.rows]
          /\ DOMAIN server'.rows = Kinds
      BY <1>6, ClaimedRows
    <2>5. server'.rows = [kind \in Kinds |-> server'.rows[kind]]
      BY <1>6, <2>4 DEF Claim, Typed, ServerTyped
    <2>6. server'.rows \in [Kinds -> SUBSET [key : made', claimed : BOOLEAN]]
      BY <2>2, <2>5
    <2>7. server'.spks = server.spks /\ server'.identity = server.identity
      BY <2>4
    <2>8. QED
      BY <1>1, <1>2, <2>3, <2>4, <2>6, <2>7 DEF ServerTyped
  <1>7. QED
    BY <1>3, <1>4, <1>5, <1>6, Frame

\* A bundle stays one of generated keys.
LEMMA BundlesStay ==
  ASSUME NEW old, NEW new, old \subseteq new, NEW b, BundleOf(b, old)
  PROVE  BundleOf(b, new)
  BY DEF BundleOf

\* The manager goes on to a step that needs nothing in particular.
LEMMA GoesOn ==
  ASSUME Typed, made \subseteq made',
         UNCHANGED <<device, fresh, todo, serving>>,
         pc' \in Steps \ {"fill otp", "fill kyber", "used kyber", "used otp"}
  PROVE  ManagerTyped'
  <1>1. ManagerTyped
    BY DEF Typed
  <1>2. \A kind \in Kinds : pc' # Filling[kind]
    BY OfKinds
  <1>3. serving' # NONE => BundleOf(serving', made')
    BY <1>1, BundlesStay DEF ManagerTyped, BundleTyped
  <1>4. fresh' \in [Kinds -> SUBSET made']
    BY <1>1 DEF ManagerTyped
  <1>5. QED
    BY <1>1, <1>2, <1>3, <1>4 DEF ManagerTyped, BundleTyped

\* An operation ends with nothing but generated keys in memory.
LEMMA Returns ==
  ASSUME Typed, made \subseteq made', NEW d, d = NONE \/ d \subseteq made, Return(d)
  PROVE  ManagerTyped'
  <1>1. \A kind \in Kinds : pc' # Filling[kind]
    BY OfKinds DEF Return
  <1>2. NoKeys \in [Kinds -> SUBSET made']
    BY DEF NoKeys
  <1>3. QED
    BY <1>1, <1>2 DEF ManagerTyped, BundleTyped, Return, Steps

LEMMA ManagerStep == Typed /\ Progress /\ Next => ManagerTyped'
  <1> SUFFICES ASSUME Typed, Progress, Next PROVE ManagerTyped'
    OBVIOUS
  <1>1. ManagerTyped /\ made \subseteq made'
    BY Frame DEF Typed
  <1>2. CASE \/ SaveIdentity \/ SaveRegistration \/ CopyLegacy \/ AdoptLegacy \/ KeepCurrent
             \/ RotateDue \/ DiscardUnpublished \/ SaveSpkRecord \/ SaveSpkMeta \/ RetireSuperseded
             \/ RemoveLegacy \/ SaveMaterial
    <2>1. UNCHANGED <<device, fresh, todo, serving>>
      BY <1>2 DEF SaveIdentity, SaveRegistration, CopyLegacy, AdoptLegacy, KeepCurrent, RotateDue,
         DiscardUnpublished, SaveSpkRecord, SaveSpkMeta, RetireSuperseded, RemoveLegacy,
         SaveMaterial, Go
    <2>2. pc' \in Steps \ {"fill otp", "fill kyber", "used kyber", "used otp"}
      BY <1>2 DEF SaveIdentity, SaveRegistration, CopyLegacy, AdoptLegacy, KeepCurrent, RotateDue,
         DiscardUnpublished, SaveSpkRecord, SaveSpkMeta, RetireSuperseded, RemoveLegacy,
         SaveMaterial, Go, Steps
    <2>3. QED
      BY <1>1, <2>1, <2>2, GoesOn
  <1>3. CASE Begin \/ BeginRotation
    BY <1>1, <1>3, GoesOn DEF Begin, BeginRotation, Steps
  <1>4. CASE Publish \/ PublishFails
    <2>1. pc \in Requests => After(pc) \in Steps \ {"fill otp", "fill kyber", "used kyber", "used otp"}
      BY DEF Requests, After, Steps
    <2>2. device = NONE \/ device \subseteq made
      BY <1>1 DEF ManagerTyped
    <2>3. CASE Go(After(pc)) /\ pc \in Requests
      BY <1>1, <2>1, <2>3, GoesOn DEF Go
    <2>4. CASE Return(device)
      <3>1. PICK d \in {device} : d = device
        OBVIOUS
      <3>2. Return(d)
        BY <2>4, <3>1
      <3>3. QED
        BY <1>1, <2>2, <3>1, <3>2, Returns
    <2>5. QED
      BY <1>4, <2>3, <2>4 DEF Publish, PublishFails
  <1>5. CASE EnsureLastResort
    <2>1. UNCHANGED <<device, todo, serving>> /\ pc' = "otp"
      BY <1>5 DEF EnsureLastResort
    <2>2. fresh' \in [Kinds -> SUBSET made']
      BY <1>1, <1>5 DEF EnsureLastResort, ManagerTyped, Kinds
    <2>3. \A kind \in Kinds : pc' # Filling[kind]
      BY <2>1, OfKinds
    <2>4. serving' # NONE => BundleOf(serving', made')
      BY <1>1, <2>1, BundlesStay DEF ManagerTyped, BundleTyped
    <2>5. QED
      BY <1>1, <2>1, <2>2, <2>3, <2>4 DEF ManagerTyped, BundleTyped, Steps
  <1>6. CASE CountPool
    <2>1. UNCHANGED <<device, fresh, serving>> /\ made' = made /\ pc \in Kinds
      BY <1>6 DEF CountPool
    <2>2. PoolSize[pc] \in Nat /\ Cardinality(disk.pool[pc]) \in Nat
      <3>1. disk.pool[pc] \subseteq made /\ IsFiniteSet(made)
        BY <2>1 DEF Typed, MadeTyped, DiskTyped
      <3>2. QED
        BY <2>1, <3>1, PoolAssumption, FS_Subset, FS_CardinalityType
    <2>3. \/ todo' \in Nat /\ todo' > 0 /\ pc' = Filling[pc]
          \/ todo' = 0 /\ pc' = AfterPool[pc]
      BY <1>6, <2>2 DEF CountPool
    <2>4. pc' \in Steps \ {"used kyber", "used otp"} /\ (pc' = AfterPool[pc] => pc' \notin {"fill otp", "fill kyber"})
      BY <2>1, <2>3, OfKinds DEF Steps
    <2>5. serving' # NONE => BundleOf(serving', made')
      BY <1>1, <2>1, BundlesStay DEF ManagerTyped, BundleTyped
    <2>6. \A kind \in Kinds : pc' = Filling[kind] => todo' > 0
      BY <2>3, <2>4, OfKinds
    <2>7. /\ pc' \in Steps /\ todo' \in Nat /\ pc' \notin {"used kyber", "used otp"}
          /\ device' = NONE \/ device' \subseteq made'
          /\ fresh' \in [Kinds -> SUBSET made']
      <3>1. pc' \in Steps
        BY <2>4
      <3>2. todo' \in Nat
        BY <2>3
      <3>3. pc' \notin {"used kyber", "used otp"}
        BY <2>4
      <3>4. (device' = NONE \/ device' \subseteq made') /\ fresh' \in [Kinds -> SUBSET made']
        BY <1>1, <2>1 DEF ManagerTyped
      <3>5. QED
        BY <3>1, <3>2, <3>3, <3>4
    <2>8. QED
      BY <2>5, <2>6, <2>7 DEF ManagerTyped, BundleTyped, Steps
  <1>7. ASSUME NEW kind \in Kinds, SavePoolKey(kind) PROVE ManagerTyped'
    <2>1. UNCHANGED <<device, serving>> /\ pc = Filling[kind] /\ todo' = todo - 1
          /\ pc' = IF todo > 1 THEN pc ELSE AfterPool[kind]
      BY <1>7 DEF SavePoolKey
    <2>2. todo \in Nat /\ todo > 0
      BY <1>1, <2>1 DEF ManagerTyped
    <2>3. fresh' \in [Kinds -> SUBSET made']
      BY <1>1, <1>7 DEF SavePoolKey, ManagerTyped
    <2>4. serving' # NONE => BundleOf(serving', made')
      BY <1>1, <2>1, BundlesStay DEF ManagerTyped, BundleTyped
    <2>5. pc' \in Steps \ {"used kyber", "used otp"}
      BY <2>1, OfKinds DEF Steps
    <2>6. \A other \in Kinds : pc' = Filling[other] => todo' > 0
      <3>1. AfterPool[kind] \in {"kyber", "material"}
        BY OfKinds
      <3>2. \A other \in Kinds : Filling[other] \in {"fill otp", "fill kyber"}
        BY OfKinds
      <3>3. CASE todo > 1
        BY <2>1, <2>2, <3>3
      <3>4. CASE ~(todo > 1)
        <4>1. pc' = AfterPool[kind]
          BY <2>1, <3>4
        <4>2. QED
          BY <3>1, <3>2, <4>1
      <3>5. QED
        BY <3>3, <3>4
    <2>7. /\ pc' \in Steps /\ todo' \in Nat /\ pc' \notin {"used kyber", "used otp"}
          /\ device' = NONE \/ device' \subseteq made'
      <3>1. pc' \in Steps
        BY <2>5
      <3>2. todo' \in Nat
        BY <2>1, <2>2
      <3>3. pc' \notin {"used kyber", "used otp"}
        BY <2>5
      <3>4. device' = NONE \/ device' \subseteq made'
        BY <1>1, <2>1 DEF ManagerTyped
      <3>5. QED
        BY <3>1, <3>2, <3>3, <3>4
    <2>8. QED
      BY <2>3, <2>4, <2>6, <2>7 DEF ManagerTyped, BundleTyped, Steps
  <1>8. CASE Hydrate
    <2> DEFINE stored == disk.spks \cup StoredKeys("otp") \cup StoredKeys("kyber")
    <2>1. stored \subseteq made
      <3>1. StoredKeys("otp") \subseteq PoolKeys("otp") /\ StoredKeys("kyber") \subseteq PoolKeys("kyber")
        BY StoredKeysTyped DEF Kinds
      <3>2. QED
        BY <3>1 DEF PoolKeys, OneTimeKeys, LastResorts, Typed, DiskTyped, Spks
    <2>2. Return(stored)
      BY <1>8 DEF Hydrate
    <2>3. PICK d \in {stored} : d = stored
      OBVIOUS
    <2> HIDE DEF stored
    <2>4. QED
      BY <1>1, <2>1, <2>2, <2>3, Returns
  <1>9. CASE RemoveOneTime
    <2>1. PICK d \in {device} : d = device
      OBVIOUS
    <2>2. Return(d) /\ (d = NONE \/ d \subseteq made)
      BY <1>1, <1>9, <2>1 DEF RemoveOneTime, ManagerTyped
    <2>3. QED
      BY <1>1, <2>2, Returns
  <1>10. CASE Crash \/ Reload
    BY <1>1, <1>10, Returns DEF Crash, Reload
  <1>11. CASE ResetDevice
    <2>1. UNCHANGED <<fresh, todo, serving>> /\ pc' = "identity" /\ device' = NONE /\ made' = made
      BY <1>11 DEF ResetDevice
    <2>2. \A kind \in Kinds : pc' # Filling[kind]
      BY <2>1, OfKinds
    <2>3. serving' # NONE => BundleOf(serving', made')
      BY <1>1, <2>1, BundlesStay DEF ManagerTyped, BundleTyped
    <2>4. QED
      BY <1>1, <2>1, <2>2, <2>3 DEF ManagerTyped, BundleTyped, Steps
  <1>12. CASE RemoveKyber
    <2>1. UNCHANGED <<device, fresh, todo, serving>> /\ made' = made /\ pc = "used kyber"
          /\ pc' = "used otp"
      BY <1>12 DEF RemoveKyber, Go
    <2>2. \A kind \in Kinds : pc' # Filling[kind]
      BY <2>1, OfKinds
    <2>3. serving' # NONE => BundleOf(serving', made')
      BY <1>1, <2>1, BundlesStay DEF ManagerTyped, BundleTyped
    <2>4. QED
      BY <1>1, <2>1, <2>2, <2>3 DEF ManagerTyped, BundleTyped, Steps
  <1>13. ASSUME NEW p \in Peers, ReceiveEstablish(p) PROVE ManagerTyped'
    <2>1. UNCHANGED <<fresh, todo, made>> /\ held[p] # NONE /\ serving' = held[p]
          /\ pc' = "used kyber" /\ device # NONE /\ device' = device \ OneTime(held[p])
      BY <1>13 DEF ReceiveEstablish, historyVars
    <2>2. \A kind \in Kinds : pc' # Filling[kind]
      BY <2>1, OfKinds
    <2>3. BundleOf(serving', made')
      BY <2>1 DEF Typed, HeldTyped, BundleTyped
    <2>4. device' \subseteq made' /\ serving' # NONE
      BY <1>1, <2>1 DEF ManagerTyped
    <2>5. QED
      BY <1>1, <2>1, <2>2, <2>3, <2>4 DEF ManagerTyped, BundleTyped, Steps
  <1>14. ASSUME NEW p \in Peers, Claim(p) \/ Abandon(p) PROVE ManagerTyped'
    <2>1. UNCHANGED <<pc, device, fresh, todo, serving, made>>
      BY <1>14 DEF Claim, Abandon, managerVars, historyVars
    <2>2. serving' # NONE => BundleOf(serving', made')
      BY <1>1, <2>1, BundlesStay DEF ManagerTyped, BundleTyped
    <2>3. QED
      BY <1>1, <2>1, <2>2 DEF ManagerTyped, BundleTyped
  <1>15. QED
    BY <1>2, <1>3, <1>4, <1>5, <1>6, <1>7, <1>8, <1>9, <1>10, <1>11, <1>12, <1>13, <1>14
       DEF Next, Initialise

LEMMA HeldStep == Typed /\ Next => HeldTyped'
  <1> SUFFICES ASSUME Typed, Next PROVE HeldTyped'
    OBVIOUS
  <1>1. HeldTyped /\ made \subseteq made'
    BY Frame DEF Typed
  <1>2. \A p \in Peers : held[p] # NONE => BundleOf(held[p], made')
    BY <1>1, BundlesStay DEF HeldTyped, BundleTyped
  <1>3. CASE held' = held
    BY <1>1, <1>2, <1>3 DEF HeldTyped, BundleTyped
  <1>4. ASSUME NEW p \in Peers, Claim(p) PROVE HeldTyped'
    <2>1. held' = [held EXCEPT ![p] = Bundle] /\ ServedSpk # NONE /\ ServedKyber # NONE
      BY <1>4 DEF Claim
    <2>2. BundleOf(Bundle, made')
      BY <1>1, <2>1, BundleIsOfRows, BundlesStay DEF BundleTyped
    <2>3. QED
      BY <1>1, <1>2, <2>1, <2>2 DEF HeldTyped, BundleTyped
  <1>5. ASSUME NEW p \in Peers, Abandon(p) \/ ReceiveEstablish(p) PROVE HeldTyped'
    <2>1. held' = [held EXCEPT ![p] = NONE]
      BY <1>5 DEF Abandon, ReceiveEstablish
    <2>2. QED
      BY <1>1, <1>2, <2>1 DEF HeldTyped, BundleTyped
  <1>6. QED
    BY <1>3, <1>4, <1>5, Frame

-----------------------------------------------------------------------------
(* Where the manager is *)

\* A key is not NONE.
LEMMA KeysAreSomething ==
  ASSUME Typed, NEW k \in made
  PROVE  k # NONE /\ k.id \in Nat \ {0} /\ k.ident \in Nat \ {0}
  BY NoneAssumption DEF Typed, MadeTyped, Key

LEMMA ProgressStep == Typed /\ Progress /\ FilledInv /\ Next => Progress'
  <1> SUFFICES ASSUME Typed, Progress, FilledInv, Next PROVE Progress'
    OBVIOUS
  <1>1. disk.spks \subseteq made
    BY DEF Typed, DiskTyped, Spks
  <1>2. CASE Begin \/ KeepCurrent \/ RotateDue \/ BeginRotation
    BY <1>2 DEF Begin, KeepCurrent, RotateDue, BeginRotation, Go, Local, Progress, BeforeMeta,
       Requests
  <1>3. CASE SaveIdentity \/ SaveRegistration
    <2>1. /\ UNCHANGED <<device, fresh, server>>
          /\ pc \in {"identity", "registration"} /\ pc' \in {"registration", "signed"}
      BY <1>3 DEF SaveIdentity, SaveRegistration, Go, Local
    <2>2. disk'.identity # 0 /\ disk'.meta = disk.meta /\ disk'.legacy = disk.legacy
      <3>1. CASE SaveIdentity
        BY <3>1, DiskEffects DEF Becomes, Typed, MadeTyped
      <3>2. CASE SaveRegistration
        BY <3>2, DiskEffects, HasIdentity DEF Becomes, SaveRegistration
      <3>3. QED
        BY <1>3, <3>1, <3>2
    <2>3. QED
      BY <2>1, <2>2 DEF Progress, BeforeMeta, Requests
  <1>4. CASE CopyLegacy
    <2>1. /\ UNCHANGED <<device, fresh, server>> /\ pc = "signed" /\ pc' = "adopt"
          /\ disk.meta = NONE /\ disk.legacy # NONE
      BY <1>4 DEF CopyLegacy, Go, Local
    <2>2. /\ disk'.identity = disk.identity /\ disk'.meta = disk.meta /\ disk'.legacy = disk.legacy
          /\ disk'.spks = Over({disk.legacy}, disk.spks)
      BY <1>4, DiskEffects DEF Becomes
    <2>3. disk.legacy \in disk'.spks
      BY <2>2 DEF Over
    <2>4. QED
      BY <2>1, <2>2, <2>3 DEF Progress, BeforeMeta, Requests
  <1>5. CASE AdoptLegacy
    <2>1. /\ UNCHANGED <<device, fresh, server>> /\ pc = "adopt"
          /\ \/ pc' = "unlegacy" /\ disk' # disk
             \/ pc' = "discard" /\ disk' = disk
             \/ pc' = "unlegacy" /\ disk' = [disk EXCEPT !.meta = disk.legacy]
      BY <1>5 DEF AdoptLegacy, Go, Local
    <2>2. CASE pc' = "discard" /\ disk' = disk
      BY <2>1, <2>2 DEF Progress, BeforeMeta, Requests
    <2>3. CASE disk' = [disk EXCEPT !.meta = disk.legacy] /\ pc' = "unlegacy"
      <3>1. disk'.identity = disk.identity /\ disk'.meta = disk.legacy
        BY <2>3 DEF Typed, DiskTyped
      <3>2. QED
        BY <2>1, <2>3, <3>1 DEF Progress, BeforeMeta, Requests
    <2>4. QED
      BY <1>5, <2>2, <2>3 DEF AdoptLegacy, Go
  <1>6. CASE DiscardUnpublished
    <2>1. UNCHANGED <<device, fresh, server>> /\ pc = "discard" /\ pc' = "record"
      BY <1>6 DEF DiscardUnpublished, Go, Local
    <2>2. /\ disk'.identity = disk.identity /\ disk'.meta = disk.meta /\ disk'.legacy = disk.legacy
          /\ disk.meta = NONE => disk'.spks = disk.spks
      BY <1>6, DiskEffects DEF Becomes
    <2>3. QED
      BY <2>1, <2>2 DEF Progress, BeforeMeta, Requests
  <1>7. CASE SaveSpkRecord
    <2> DEFINE key == Generated("spk", NextSpkId)
    <2>1. UNCHANGED <<device, fresh, server>> /\ pc = "record" /\ pc' = "current"
      BY <1>7 DEF SaveSpkRecord, Go, Local
    <2>2. /\ disk'.identity = disk.identity /\ disk'.meta = disk.meta /\ disk'.legacy = disk.legacy
          /\ disk'.spks = Over({key}, disk.spks)
      BY <1>7, DiskEffects DEF Becomes
    <2>3. key \in Key /\ key.id = NextSpkId
      BY <2>1, HasIdentity, GeneratedKey, NextSpkIdIsNew
    <2>4. /\ \A k \in disk.spks : k.id < key.id
          /\ disk.meta # NONE => disk.meta.id < key.id
      BY <2>3, NextSpkIdIsNew
    <2>5. \A k \in disk.spks : k.id \in Nat
      BY <1>1, KeysAreSomething
    <2>6. disk.spks \cup {key} = disk'.spks
      BY <1>1, <2>2, <2>3, <2>4, OverAdds DEF Typed, MadeTyped, DiskTyped
    <2> HIDE DEF key
    <2>7. disk.meta = NONE /\ disk.legacy # NONE => disk.legacy \in disk.spks
      BY <2>1 DEF Progress
    <2>8. key.id \in Nat /\ (disk.meta # NONE => disk.meta.id \in Nat)
      BY <2>3, <2>5 DEF Key, Typed, DiskTyped
    <2>9. \E k \in disk'.spks :
            /\ disk.meta # NONE => k.id > disk.meta.id
            /\ disk.meta = NONE /\ disk.legacy # NONE => k.id > disk.legacy.id
      BY <2>4, <2>5, <2>6, <2>7, <2>8
    <2>10. QED
      BY <2>1, <2>2, <2>6, <2>7, <2>9 DEF Progress, BeforeMeta, Requests
  <1>8. CASE SaveSpkMeta
    <2>1. UNCHANGED <<device, fresh, server>> /\ pc = "current" /\ pc' = "surplus"
      BY <1>8 DEF SaveSpkMeta, Go, Local
    <2>2. disk'.identity = disk.identity /\ disk'.meta = NewestSpk
      BY <1>8, DiskEffects DEF Becomes
    <2>3. disk'.meta # NONE
      <3>1. disk.spks # {}
        BY <2>1 DEF Progress
      <3>2. QED
        BY <1>1, <2>2, <3>1, NewestSpkIsStored, KeysAreSomething
    <2>4. QED
      BY <2>1, <2>2, <2>3 DEF Progress, BeforeMeta, Requests
  <1>9. CASE RetireSuperseded \/ RemoveLegacy
    <2>1. /\ UNCHANGED <<device, fresh, server>> /\ pc \in {"surplus", "unlegacy"}
          /\ pc' \in {"material", "unlegacy", "lastResort"}
      BY <1>9 DEF RetireSuperseded, RemoveLegacy, Go, Local
    <2>2. disk'.identity = disk.identity /\ disk'.meta = disk.meta
      BY <1>9, DiskEffects DEF Becomes
    <2>3. QED
      BY <2>1, <2>2 DEF Progress, BeforeMeta, Requests
  <1>10. CASE EnsureLastResort \/ CountPool \/ (\E kind \in Kinds : SavePoolKey(kind))
    <2>1. /\ UNCHANGED <<device, server>> /\ pc \in Kinds \cup {"lastResort", "fill otp", "fill kyber"}
          /\ pc' \in {"otp", "fill otp", "fill kyber", "kyber", "material"}
      BY <1>10, OfKinds DEF EnsureLastResort, CountPool, SavePoolKey, Local
    <2>2. disk'.identity = disk.identity /\ disk'.meta = disk.meta
      <3>1. ~SaveIdentity /\ ~ResetDevice /\ ~AdoptLegacy /\ ~SaveSpkMeta
        BY <2>1 DEF SaveIdentity, ResetDevice, AdoptLegacy, SaveSpkMeta, Kinds
      <3>2. QED
        BY <3>1, IdentityStays, PartsStay
    <2>3. QED
      BY <2>1, <2>2 DEF Progress, BeforeMeta, Requests, Kinds
  <1>11. CASE SaveMaterial
    <2>1. UNCHANGED <<device, fresh, server>> /\ pc = "material" /\ pc' = "put device"
      BY <1>11 DEF SaveMaterial, Go, Local
    <2>2. disk'.identity = disk.identity /\ disk'.meta = disk.meta /\ disk'.cache = Material
      BY <1>11, DiskEffects DEF Becomes
    <2>3. Material # NONE /\ Material.spk = disk.meta
      BY <2>1, MaterialTyped, NoneAssumption
    <2>4. QED
      BY <2>1, <2>2, <2>3 DEF Progress, BeforeMeta, Requests
  <1>12. CASE Publish \/ PublishFails
    <2>1. disk' = disk /\ pc \in Requests /\ disk.cache # NONE
      BY <1>12 DEF Publish, PublishFails, Progress
    <2>2. CASE Return(device)
      <3>1. device' = device /\ pc' = "idle" /\ fresh' = NoKeys
        BY <2>2 DEF Return
      <3>2. QED
        BY <2>1, <3>1 DEF Progress, BeforeMeta, Requests
    <2>3. CASE Go(After(pc)) /\ (server' = Applied(pc) \/ (pc = "deactivate" /\ server' = server))
      <3>1. pc' = After(pc) /\ UNCHANGED <<device, fresh>>
        BY <2>3 DEF Go
      <3>2. disk.cache.identity = disk.identity
        BY <2>1 DEF Typed, CacheTyped
      <3>3. server'.identity = disk.identity
        <4>1. CASE pc = "put device"
          <5>1. ServerIs(disk.cache.identity, server.spks, server.rows)
            BY <2>1, <2>3, <4>1, AppliedEffects
          <5>2. QED
            BY <3>2, <5>1 DEF ServerIs
        <4>2. CASE pc # "put device"
          <5>1. server.identity = disk.identity
            BY <2>1, <4>2 DEF Progress
          <5>2. server'.identity = server.identity
            <6>1. CASE server' = server
              BY <6>1
            <6>2. CASE server' = Applied(pc)
              <7>1. \E spks, rows : ServerIs(server.identity, spks, rows)
                BY <2>1, <4>2, <6>2, AppliedEffects DEF Requests
              <7>2. QED
                BY <7>1 DEF ServerIs
            <6>3. QED
              BY <2>3, <6>1, <6>2
          <5>3. QED
            BY <5>1, <5>2
        <4>3. QED
          BY <4>1, <4>2
      <3>4. pc' \in Requests \cup {"hydrate"}
        BY <2>1, <3>1 DEF Requests, After
      <3>5. QED
        BY <2>1, <3>1, <3>3, <3>4 DEF Progress, BeforeMeta, Requests
    <2>4. QED
      <3>1. CASE Publish
        BY <2>3, <3>1 DEF Publish
      <3>2. CASE PublishFails
        <4>1. server' = server \/ server' = Applied(pc)
          BY <3>2 DEF PublishFails
        <4>2. (pc = "deactivate" /\ Go(After(pc))) \/ Return(device)
          BY <3>2 DEF PublishFails
        <4>3. QED
          BY <2>1, <2>2, <2>3, <4>1, <4>2
      <3>3. QED
        BY <1>12, <3>1, <3>2
  <1>13. CASE Hydrate \/ RemoveOneTime \/ Crash \/ Reload
    <2>1. /\ pc' = "idle" /\ fresh' = NoKeys
          /\ device' = NONE \/ pc \in {"hydrate", "used otp"}
      BY <1>13 DEF Hydrate, RemoveOneTime, Crash, Reload, Return
    <2>2. device' = NONE \/ (disk'.identity = disk.identity /\ disk'.meta = disk.meta)
      <3>1. CASE RemoveOneTime
        BY <3>1, DiskEffects DEF Becomes
      <3>2. QED
        BY <1>13, <3>1 DEF Hydrate, Crash, Reload, Return
    <2>3. QED
      BY <2>1, <2>2 DEF Progress, BeforeMeta, Requests
  <1>14. CASE RemoveKyber
    <2>1. UNCHANGED <<device, fresh, server>> /\ pc = "used kyber" /\ pc' = "used otp"
      BY <1>14 DEF RemoveKyber, Go, Local
    <2>2. disk'.identity = disk.identity /\ disk'.meta = disk.meta
      BY <1>14, DiskEffects DEF Becomes
    <2>3. QED
      BY <2>1, <2>2 DEF Progress, BeforeMeta, Requests
  <1>15. CASE ResetDevice
    <2>1. device' = NONE /\ pc' = "identity"
      BY <1>15 DEF ResetDevice
    <2>2. disk'.identity = 0
      BY <1>15, DiskEffects DEF Becomes
    <2>3. QED
      BY <2>1, <2>2 DEF Progress, BeforeMeta, Requests
  <1>16. ASSUME NEW p \in Peers, Claim(p) PROVE Progress'
    <2>1. UNCHANGED <<disk, device, pc, fresh>> /\ server'.identity = server.identity
      BY <1>16, ClaimedRows DEF Claim, managerVars
    <2>2. QED
      BY <2>1 DEF Progress
  <1>17. ASSUME NEW p \in Peers, Abandon(p) PROVE Progress'
    BY <1>17 DEF Abandon, managerVars, Progress
  <1>18. ASSUME NEW p \in Peers, ReceiveEstablish(p) PROVE Progress'
    BY <1>18 DEF ReceiveEstablish, Progress, BeforeMeta, Requests
  <1>19. QED
    BY <1>2, <1>3, <1>4, <1>5, <1>6, <1>7, <1>8, <1>9, <1>10, <1>11, <1>12, <1>13, <1>14,
       <1>15, <1>16, <1>17, <1>18 DEF Next, Initialise

-----------------------------------------------------------------------------
(* Published signed prekeys are stored *)

\* A key in use at most Retention rotations ago is not retired.
LEMMA RecentIsKept ==
  ASSUME Typed, disk.meta # NONE, NEW k \in disk.spks,
         k.id <= disk.meta.id, disk.meta.id - k.id <= Retention
  PROVE  k \in KeptSpks(disk.meta.id)
  <1> DEFINE current == disk.meta.id
             between == {j \in disk.spks : k.id < j.id /\ j.id < current}
  <1>1. disk.spks \subseteq made /\ made \subseteq Key /\ IsFiniteSet(disk.spks)
        /\ OneId(disk.spks) /\ disk.meta \in disk.spks
    BY FS_Subset DEF Typed, DiskTyped, MadeTyped, Spks
  <1>2. current \in Nat /\ k.id \in Nat /\ Retention \in Nat
    BY <1>1, PoolAssumption DEF Key
  <1>3. CASE k.id = current
    BY <1>3 DEF KeptSpks
  <1>4. CASE k.id # current
    <2>1. k.id < current
      BY <1>2, <1>4
    <2>2. \A low \in Nat, high \in Nat : low < high =>
            Cardinality({j \in disk.spks : low < j.id /\ j.id < high}) <= high - low - 1
      BY <1>1, FewBetween
    <2>3. Cardinality(between) <= current - k.id - 1
      BY <1>2, <2>1, <2>2
    <2>4. Cardinality(between) \in Nat
      BY <1>1, FS_Subset, FS_CardinalityType
    <2>5. Cardinality(between) < Retention
      <3> HIDE DEF between
      <3>1. QED
        BY <1>2, <2>1, <2>3, <2>4
    <2>6. QED
      BY <2>1, <2>5 DEF KeptSpks
  <1>5. QED
    BY <1>3, <1>4

\* What is promised of a generated key stays promised.
LEMMA PromiseStays ==
  ASSUME Typed, Progress, Next, NEW k \in made, Promised(k)
  PROVE  Promised(k)'
  <1>1. /\ disk.spks \subseteq made /\ made \subseteq Key
        /\ disk.meta \in disk.spks \cup {NONE}
        /\ k.id \in Nat /\ k.ident \in Nat \ {0}
        /\ disk.meta # NONE => disk.meta.id \in Nat
        /\ \A j \in made : j.id \in Nat /\ j # NONE
    BY KeysAreSomething DEF Typed, MadeTyped, DiskTyped, Spks
  <1>2. CASE /\ disk'.identity = disk.identity /\ disk'.meta = disk.meta
             /\ disk'.legacy = disk.legacy /\ disk.spks \subseteq disk'.spks
    BY <1>2 DEF Promised
  <1>3. CASE SaveIdentity
    <2>1. disk.identity = 0 /\ disk'.identity = 1 + used.resets /\ used.resets \in Nat
      BY <1>3, DiskEffects DEF SaveIdentity, Progress, Becomes, Typed, MadeTyped
    <2>2. k.ident <= used.resets
      BY <2>1 DEF Typed, MadeTyped
    <2>3. k.ident # disk'.identity
      BY <1>1, <2>1, <2>2
    <2>4. QED
      BY <2>3 DEF Promised
  <1>4. CASE CopyLegacy
    <2>1. disk'.identity = disk.identity /\ disk'.meta = disk.meta /\ disk'.legacy = disk.legacy
      BY <1>4, DiskEffects DEF Becomes
    <2>2. disk.meta = NONE
      BY <1>4 DEF CopyLegacy
    <2>3. QED
      BY <2>1, <2>2 DEF Promised
  <1>5. CASE AdoptLegacy
    <2>1. CASE disk' = disk
      BY <1>2, <2>1
    <2>2. CASE Becomes(disk.identity, disk.registered, disk.spks, disk.legacy, disk.legacy,
                       disk.lastResort, disk.pool, disk.cache)
      <3>1. disk.meta = NONE /\ disk.legacy # NONE /\ disk.legacy \in disk.spks
        BY <1>5 DEF AdoptLegacy, Progress
      <3>2. /\ disk'.identity = disk.identity /\ disk'.meta = disk.legacy
            /\ disk'.spks = disk.spks
        BY <2>2 DEF Becomes
      <3>3. k.ident = disk.identity => k = disk.legacy
        BY <3>1 DEF Promised
      <3>4. QED
        BY <1>1, <3>1, <3>2, <3>3 DEF Promised
    <2>3. QED
      BY <1>5, <2>1, <2>2, DiskEffects
  <1>6. CASE DiscardUnpublished
    <2>1. /\ disk'.identity = disk.identity /\ disk'.meta = disk.meta /\ disk'.legacy = disk.legacy
          /\ disk'.spks = {j \in disk.spks : disk.meta # NONE => j.id <= disk.meta.id}
      BY <1>6, DiskEffects DEF Becomes
    <2>2. QED
      BY <2>1 DEF Promised
  <1>7. CASE SaveSpkRecord
    <2> DEFINE key == Generated("spk", NextSpkId)
    <2>1. /\ disk'.identity = disk.identity /\ disk'.meta = disk.meta /\ disk'.legacy = disk.legacy
          /\ disk'.spks = Over({key}, disk.spks)
      BY <1>7, DiskEffects DEF Becomes
    <2>2. key \in Key /\ key.id = NextSpkId
      BY <1>7, HasIdentity, GeneratedKey, NextSpkIdIsNew DEF SaveSpkRecord
    <2>3. \A j \in disk.spks : j.id < key.id
      BY <2>2, NextSpkIdIsNew
    <2>4. Over({key}, disk.spks) = disk.spks \cup {key}
      BY <1>1, <2>2, <2>3, OverAdds DEF Typed, DiskTyped
    <2>5. QED
      BY <1>2, <2>1, <2>4
  <1>8. CASE SaveSpkMeta
    <2>1. /\ disk'.identity = disk.identity /\ disk'.meta = NewestSpk
          /\ disk'.legacy = disk.legacy /\ disk'.spks = disk.spks
      BY <1>8, DiskEffects DEF Becomes
    <2>2. PICK j \in disk.spks : /\ disk.meta # NONE => j.id > disk.meta.id
                                 /\ disk.meta = NONE /\ disk.legacy # NONE => j.id > disk.legacy.id
      BY <1>8 DEF SaveSpkMeta, Progress
    <2>3. NewestSpk \in disk.spks /\ j.id <= NewestSpk.id
      BY <2>2, NewestSpkIsStored
    <2>4. NewestSpk # NONE /\ NewestSpk.id \in Nat /\ j.id \in Nat
      BY <1>1, <2>3
    <2>5. CASE k.ident = disk.identity /\ disk.meta = NONE
      <3>1. k = disk.legacy /\ k \in disk.spks
        BY <1>1, <1>8, <2>5 DEF Promised, Progress, SaveSpkMeta
      <3>2. k.id <= NewestSpk.id
        BY <1>1, <2>2, <2>3, <2>4, <2>5, <3>1
      <3>3. QED
        BY <2>1, <2>4, <3>1, <3>2 DEF Promised
    <2>6. CASE k.ident = disk.identity /\ disk.meta # NONE
      <3>1. k.id <= disk.meta.id /\ (disk.meta.id - k.id <= Retention => k \in disk.spks)
        BY <2>6 DEF Promised
      <3>2. disk.meta.id <= NewestSpk.id
        BY <1>1, <2>2, <2>3, <2>4, <2>6
      <3>3. k.id <= NewestSpk.id
            /\ (NewestSpk.id - k.id <= Retention => disk.meta.id - k.id <= Retention)
        BY <1>1, <2>4, <2>6, <3>1, <3>2, PoolAssumption
      <3>4. QED
        BY <2>1, <2>4, <3>1, <3>3 DEF Promised
    <2>7. QED
      BY <2>1, <2>5, <2>6 DEF Promised
  <1>9. CASE RetireSuperseded
    <2>1. /\ disk'.identity = disk.identity /\ disk'.meta = disk.meta /\ disk'.legacy = disk.legacy
          /\ disk'.spks = KeptSpks(disk.meta.id)
      BY <1>9, DiskEffects DEF Becomes
    <2>2. disk.meta # NONE
      BY <1>9 DEF RetireSuperseded, Progress, BeforeMeta
    <2>3. ASSUME k \in disk.spks, k.id <= disk.meta.id, disk.meta.id - k.id <= Retention
          PROVE  k \in disk'.spks
      BY <2>1, <2>2, <2>3, RecentIsKept
    <2>4. QED
      BY <2>1, <2>2, <2>3 DEF Promised
  <1>10. CASE RemoveLegacy
    <2>1. /\ disk'.identity = disk.identity /\ disk'.meta = disk.meta /\ disk'.spks = disk.spks
      BY <1>10, DiskEffects DEF Becomes
    <2>2. disk.meta # NONE
      BY <1>10 DEF RemoveLegacy, Progress, BeforeMeta
    <2>3. QED
      BY <2>1, <2>2 DEF Promised
  <1>11. CASE ResetDevice
    <2>1. disk'.identity = 0
      BY <1>11, DiskEffects DEF Becomes
    <2>2. QED
      BY <1>1, <2>1 DEF Promised
  <1>12. CASE /\ ~SaveIdentity /\ ~CopyLegacy /\ ~AdoptLegacy /\ ~DiscardUnpublished
              /\ ~SaveSpkRecord /\ ~SaveSpkMeta /\ ~RetireSuperseded /\ ~RemoveLegacy /\ ~ResetDevice
    BY <1>2, <1>12, PartsStay, IdentityStays
  <1>13. QED
    BY <1>3, <1>4, <1>5, <1>6, <1>7, <1>8, <1>9, <1>10, <1>11, <1>12

LEMMA SpksStep == Typed /\ Progress /\ FilledInv /\ SpksPromised /\ Next => SpksPromised'
  <1> SUFFICES ASSUME Typed, Progress, FilledInv, SpksPromised, Next PROVE SpksPromised'
    OBVIOUS
  <1>1. \A k \in made : Promised(k) => Promised(k)'
    BY PromiseStays
  <1>2. /\ disk.cache # NONE => disk.cache.spk \in made /\ Promised(disk.cache.spk)
        /\ \A r \in server.spks : r.key \in made /\ Promised(r.key)
        /\ \A p \in Peers : held[p] # NONE => held[p].spk \in made /\ Promised(held[p].spk)
    BY DEF SpksPromised, Typed, CacheTyped, ServerTyped, HeldTyped, BundleTyped, BundleOf, Spks
  <1>3. disk'.cache # NONE => \E k \in made : k = disk'.cache.spk /\ Promised(k)'
    <2>1. CASE SaveMaterial
      <3>1. disk'.cache = Material /\ pc = "material" /\ disk'.identity = disk.identity
            /\ disk'.meta = disk.meta /\ disk'.spks = disk.spks
        <4>1. Becomes(disk.identity, disk.registered, disk.spks, disk.meta, disk.legacy,
                      disk.lastResort, disk.pool, Material)
          BY <2>1, DiskEffects
        <4>2. QED
          BY <2>1, <4>1 DEF Becomes, SaveMaterial
      <3>2. Material.spk = disk.meta /\ disk.meta \in disk.spks /\ disk.meta \in made
        BY <3>1, MaterialTyped DEF Typed, DiskTyped, Spks
      <3>3. disk.meta # NONE /\ disk.meta.id \in Nat
        BY <3>2, KeysAreSomething
      <3>4. PICK k \in made : k = disk.meta
        BY <3>2
      <3>5. Promised(k)'
        BY <3>1, <3>2, <3>3, <3>4 DEF Promised
      <3>6. QED
        BY <3>1, <3>2, <3>4, <3>5
    <2>2. CASE ResetDevice
      BY <2>2, DiskEffects DEF Becomes
    <2>3. CASE ~SaveMaterial /\ ~ResetDevice
      <3>1. disk'.cache = disk.cache
        BY <2>3, PartsStay
      <3>2. disk.cache # NONE => Promised(disk.cache.spk) /\ disk.cache.spk \in made
        BY <1>2
      <3>3. QED
        BY <1>1, <3>1, <3>2
    <2>4. QED
      BY <2>1, <2>2, <2>3
  <1>4. \A r \in server'.spks : \E k \in made : k = r.key /\ Promised(k)'
    <2>1. \A r \in server.spks : \E k \in made : k = r.key /\ Promised(k)'
      BY <1>1, <1>2
    <2>2. CASE pc \in Requests /\ server' = Applied(pc)
      <3>1. disk.cache # NONE /\ disk.cache.spk \in Spks
        BY <2>2 DEF Progress, Typed, CacheTyped
      <3>2. \E k \in made : k = disk.cache.spk /\ Promised(k)'
        BY <1>1, <1>2, <3>1
      <3>3. SpkRows(server.spks, Spks)
        BY DEF Typed, ServerTyped, SpkRows
      <3>4. \A r \in server'.spks : r.key = disk.cache.spk \/ \E q \in server.spks : q.key = r.key
        <4>1. CASE pc \in {"put device", "put otp", "put kyber"}
          <5>1. \E identity, rows : ServerIs(identity, server.spks, rows)
            BY <2>2, <4>1, AppliedEffects
          <5>2. QED
            BY <5>1 DEF ServerIs
        <4>2. CASE pc = "deactivate"
          BY <2>2, <3>3, <4>2, AppliedEffects, DeactivatedRows DEF ServerIs
        <4>3. CASE pc = "put signed"
          <5>1. ServerIs(server.identity, PutSigned(server.spks, disk.cache.spk), server.rows)
            BY <2>2, <4>3, AppliedEffects
          <5>2. \A r \in PutSigned(server.spks, disk.cache.spk) :
                  r \in server.spks \/ r.key = disk.cache.spk
            BY <3>1, <3>3, PutSignedRows
          <5>3. QED
            BY <5>1, <5>2 DEF ServerIs
        <4>4. QED
          BY <2>2, <4>1, <4>2, <4>3 DEF Requests
      <3>5. QED
        BY <2>1, <3>2, <3>4
    <2>3. CASE server'.spks = server.spks
      BY <2>1, <2>3
    <2>4. ASSUME NEW p \in Peers, Claim(p) PROVE server'.spks = server.spks
      BY <2>4, ClaimedRows
    <2>5. QED
      BY <2>2, <2>3, <2>4, Frame DEF Publish, PublishFails
  <1>5. \A p \in Peers : held'[p] # NONE => \E k \in made : k = held'[p].spk /\ Promised(k)'
    <2>1. \A p \in Peers : held[p] # NONE => \E k \in made : k = held[p].spk /\ Promised(k)'
      BY <1>1, <1>2
    <2>2. DOMAIN held = Peers
      BY DEF Typed, HeldTyped
    <2>3. ASSUME NEW p \in Peers, Claim(p)
          PROVE  \A q \in Peers : held'[q] # NONE => \E k \in made : k = held'[q].spk /\ Promised(k)'
      <3>1. held' = [held EXCEPT ![p] = Bundle] /\ ServedSpk # NONE /\ ServedKyber # NONE
        BY <2>3 DEF Claim
      <3>2. \E k \in made : k = Bundle.spk /\ Promised(k)'
        BY <1>1, <1>2, <3>1, BundleIsOfRows
      <3>3. QED
        BY <2>1, <2>2, <3>1, <3>2
    <2>4. ASSUME NEW p \in Peers, Abandon(p) \/ ReceiveEstablish(p)
          PROVE  \A q \in Peers : held'[q] # NONE => \E k \in made : k = held'[q].spk /\ Promised(k)'
      <3>1. held' = [held EXCEPT ![p] = NONE]
        BY <2>4 DEF Abandon, ReceiveEstablish
      <3>2. QED
        BY <2>1, <2>2, <3>1
    <2>5. QED
      BY <2>1, <2>3, <2>4, Frame
  <1>6. QED
    BY <1>3, <1>4, <1>5 DEF SpksPromised, Promised

-----------------------------------------------------------------------------
(* The rows of one-time keys, and the keys of a pool *)

\* A row that a step leaves is of a key that had one, and claimed if that was,
\* or of a key of the cached material, and claimed if a row with its id was.
LEMMA RowsStep ==
  ASSUME Typed, Progress, Next, NEW kind \in Kinds
  PROVE  /\ \A r \in server'.rows[kind] :
              \/ \E q \in server.rows[kind] : q.key = r.key /\ (q.claimed => r.claimed)
              \/ /\ r.key \in Published(kind)
                 /\ \A q \in server.rows[kind] : q.key.id = r.key.id /\ q.claimed => r.claimed
         /\ \A q \in server.rows[kind] : q.claimed =>
              \E r \in server'.rows[kind] : r.key.id = q.key.id /\ r.claimed
  <1>1. CASE server'.rows[kind] = server.rows[kind]
    BY <1>1
  <1>2. CASE pc \in Requests /\ server' = Applied(pc)
    <2> DEFINE rows == server.rows[kind]
               keys == disk.cache.keys[kind]
    <2>1. disk.cache # NONE /\ keys \subseteq made /\ OneId(keys) /\ keys = Published(kind)
      BY <1>2 DEF Progress, Typed, CacheTyped, PoolKeys, OneTimeKeys, LastResorts, Published
    <2>2. KeyRows(rows, made) /\ server.rows \in [Kinds -> SUBSET [key : made, claimed : BOOLEAN]]
      BY DEF Typed, ServerTyped, KeyRows
    <2>3. server'.rows[kind] = rows \/ server'.rows[kind] = Upserted(rows, keys)
      <3>1. CASE pc \in {"put device", "deactivate", "put signed"}
        <4>1. \E identity, spks : ServerIs(identity, spks, server.rows)
          BY <1>2, <3>1, AppliedEffects
        <4>2. QED
          BY <4>1 DEF ServerIs
      <3>2. ASSUME NEW other \in Kinds,
                   ServerIs(server.identity, server.spks,
                     [server.rows EXCEPT ![other] = Upserted(@, disk.cache.keys[other])])
            PROVE  server'.rows[kind] = rows \/ server'.rows[kind] = Upserted(rows, keys)
        <4>1. server'.rows = [server.rows EXCEPT ![other] = Upserted(@, disk.cache.keys[other])]
          BY <3>2 DEF ServerIs
        <4>2. QED
          BY <2>2, <4>1
      <3>3. CASE pc \in {"put otp", "put kyber"}
        BY <1>2, <3>2, <3>3, AppliedEffects DEF Kinds
      <3>4. QED
        BY <1>2, <3>1, <3>3 DEF Requests
    <2> HIDE DEF rows, keys
    <2>4. /\ \A r \in Upserted(rows, keys) :
              \/ r \in rows
              \/ /\ r.key \in keys
                 /\ \A q \in rows : q.key.id = r.key.id /\ q.claimed => r.claimed
          /\ \A r \in rows : r.claimed =>
              \E q \in Upserted(rows, keys) : q.key.id = r.key.id /\ q.claimed
      BY <2>1, <2>2, UpsertedRows
    <2>5. QED
      BY <1>1, <2>1, <2>3, <2>4 DEF rows
  <1>3. ASSUME NEW p \in Peers, Claim(p)
        PROVE  /\ \A r \in server'.rows[kind] :
                    \E q \in server.rows[kind] : q.key = r.key /\ (q.claimed => r.claimed)
               /\ \A q \in server.rows[kind] : q.claimed =>
                    \E r \in server'.rows[kind] : r.key.id = q.key.id /\ r.claimed
    BY <1>3, ClaimedRows
  <1>4. QED
    BY <1>1, <1>2, <1>3, Frame DEF Publish, PublishFails

\* The one-time keys of a bundle are its X25519 key, if it has one, and its
\* Kyber key, unless that is a last-resort key.
LEMMA OneTimeOf ==
  ASSUME Typed, NEW b, BundleTyped(b)
  PROVE  /\ b.otp # NONE => b.otp \in OneTime(b)
         /\ b.kyber.id # LastResortId => b.kyber \in OneTime(b)
         /\ b.kyber.id # LastResortId => b.kyber.id >= FirstId["kyber"]
         /\ \A k \in OneTime(b) :
              /\ k \in made /\ k.id >= FirstId[k.kind]
              /\ k.id # LastResortId \/ k.kind = "otp"
              /\ (k = b.otp /\ k.kind = "otp") \/ (k = b.kyber /\ k.kind = "kyber")
  <1>1. /\ b.kyber \in made /\ b.kyber.kind = "kyber" /\ b.kyber # NONE
        /\ b.kyber.id >= FirstId["kyber"] \/ b.kyber.id = LastResortId
        /\ b.otp # NONE =>
             b.otp \in made /\ b.otp.kind = "otp" /\ b.otp.id >= FirstId["otp"] /\ b.otp # b.kyber
    BY KeysAreSomething DEF BundleTyped, BundleOf
  <1>2. \A k : k \in OneTime(b) <=>
          \/ k = b.otp /\ k # NONE
          \/ k = b.kyber /\ k.id # LastResortId
    BY <1>1 DEF OneTime
  <1>3. QED
    BY <1>1, <1>2

\* Only the keys of the bundle that is being received leave a pool, but for a reset.
LEMMA PoolKeeps ==
  ASSUME Typed, Progress, Next, ~ResetDevice, NEW kind \in Kinds, NEW k \in disk.pool[kind]
  PROVE  \/ k \in disk'.pool[kind]
         \/ RemoveKyber /\ k = serving.kyber /\ kind = "kyber"
         \/ RemoveOneTime /\ k = serving.otp /\ kind = "otp"
  <1>1. disk.pool \in [Kinds -> SUBSET made] /\ made \subseteq Key
    BY DEF Typed, DiskTyped, MadeTyped
  <1>2. ASSUME NEW other \in Kinds, SavePoolKey(other) PROVE k \in disk'.pool[kind]
    <2> DEFINE key == Generated(other, NextId(other))
    <2>1. disk'.pool = [disk.pool EXCEPT ![other] = Over({key}, @)]
      BY <1>2, DiskEffects DEF Becomes
    <2>2. NextId(other) \in Nat \ {0} /\ disk.identity # 0
      <3>1. NextId(other) \in Nat /\ NextId(other) >= FirstId[other]
        BY NextIdIsNew
      <3>2. FirstId[other] \in Nat \ {0}
        BY OfKinds
      <3>3. disk.identity # 0
        BY <1>2, OfKinds, HasIdentity DEF SavePoolKey
      <3>4. QED
        BY <3>1, <3>2, <3>3
    <2>3. key \in Key /\ key.id = NextId(other)
      BY <2>2, GeneratedKey
    <2>4. \A j \in disk.pool[other] : j.id < key.id
      BY <2>3, NextIdIsNew
    <2> HIDE DEF key
    <2>5. Over({key}, disk.pool[other]) = disk.pool[other] \cup {key}
      BY <1>1, <2>3, <2>4, OverAdds DEF Typed, DiskTyped
    <2>6. QED
      BY <1>1, <2>1, <2>5
  <1>3. CASE RemoveKyber
    <2>1. disk'.pool = [disk.pool EXCEPT !["kyber"] = @ \ {serving.kyber}]
      BY <1>3, DiskEffects DEF Becomes
    <2>2. QED
      BY <1>1, <1>3, <2>1
  <1>4. CASE RemoveOneTime
    <2>1. disk'.pool = [disk.pool EXCEPT !["otp"] = @ \ {serving.otp}]
      BY <1>4, DiskEffects DEF Becomes
    <2>2. QED
      BY <1>1, <1>4, <2>1
  <1>5. QED
    BY <1>2, <1>3, <1>4, PartsStay

-----------------------------------------------------------------------------
(* The last-resort key *)

LEMMA LastResortStays ==
  ASSUME Typed, Progress, Next, NEW k \in made, TheLastResort(k)
  PROVE  TheLastResort(k)'
  <1>1. k.ident \in Nat \ {0} /\ k # NONE /\ (k \in LastResorts' => k \in LastResorts)
    BY KeysAreSomething DEF LastResorts
  <1>2. CASE disk'.identity = disk.identity /\ disk'.lastResort = disk.lastResort
    BY <1>1, <1>2 DEF TheLastResort
  <1>3. CASE SaveIdentity
    <2>1. disk.identity = 0 /\ disk'.identity = 1 + used.resets /\ used.resets \in Nat
      BY <1>3, DiskEffects DEF SaveIdentity, Progress, Becomes, Typed, MadeTyped
    <2>2. k.ident <= used.resets
      BY <2>1 DEF Typed, MadeTyped
    <2>3. k.ident # disk'.identity
      BY <1>1, <2>1, <2>2
    <2>4. QED
      BY <2>3 DEF TheLastResort
  <1>4. CASE EnsureLastResort
    <2>1. CASE disk' = disk
      BY <1>2, <2>1
    <2>2. CASE disk' # disk
      <3>1. disk.lastResort = NONE /\ disk'.identity = disk.identity
        BY <1>4, <2>2, DiskEffects DEF Becomes
      <3>2. QED
        BY <1>1, <3>1 DEF TheLastResort
    <2>3. QED
      BY <2>1, <2>2
  <1>5. CASE ResetDevice
    <2>1. disk'.identity = 0
      BY <1>5, DiskEffects DEF Becomes
    <2>2. QED
      BY <1>1, <2>1 DEF TheLastResort
  <1>6. QED
    BY <1>2, <1>3, <1>4, <1>5, PartsStay, IdentityStays

\* What the cache holds after a step was in it, or is stored.
LEMMA PublishedStep ==
  ASSUME Typed, Progress, FilledInv, Next, NEW kind \in Kinds, NEW k \in Published(kind)'
  PROVE  /\ ~ResetDevice /\ k \in made
         /\ k \in Published(kind) \/ (SaveMaterial /\ k \in StoredKeys(kind))
  <1>1. Published(kind)' = IF disk'.cache = NONE THEN {} ELSE disk'.cache.keys[kind]
    BY DEF Published
  <1>2. CASE SaveMaterial
    <2>1. disk'.cache = Material /\ pc = "material"
      <3>1. Becomes(disk.identity, disk.registered, disk.spks, disk.meta, disk.legacy,
                    disk.lastResort, disk.pool, Material)
        BY <1>2, DiskEffects
      <3>2. QED
        BY <1>2, <3>1 DEF Becomes, SaveMaterial
    <2>2. k \in Over(fresh[kind], Published(kind))
      BY <1>1, <2>1, MaterialTyped
    <2>3. k \in fresh[kind] \/ k \in Published(kind)
      BY <2>2 DEF Over
    <2>4. fresh[kind] \subseteq StoredKeys(kind) /\ fresh[kind] \subseteq made
          /\ Published(kind) \subseteq made
      BY DEF FilledInv, Typed, ManagerTyped, CacheTyped, Published, PoolKeys, OneTimeKeys,
         LastResorts
    <2>5. QED
      BY <1>2, <2>1, <2>3, <2>4 DEF ResetDevice
  <1>3. CASE ResetDevice
    BY <1>1, <1>3, DiskEffects DEF Becomes
  <1>4. CASE ~SaveMaterial /\ ~ResetDevice
    <2>1. k \in Published(kind)
      BY <1>1, <1>4, PartsStay DEF Published
    <2>2. Published(kind) \subseteq made
      BY DEF Typed, CacheTyped, Published, PoolKeys, OneTimeKeys, LastResorts
    <2>3. QED
      BY <1>4, <2>1, <2>2
  <1>5. QED
    BY <1>2, <1>3, <1>4

LEMMA LastResortStep ==
  Typed /\ Progress /\ FilledInv /\ LastResortKept /\ Next => LastResortKept'
  <1> SUFFICES ASSUME Typed, Progress, FilledInv, LastResortKept, Next PROVE LastResortKept'
    OBVIOUS
  <1>1. \A k \in made : TheLastResort(k) => TheLastResort(k)'
    BY LastResortStays
  <1>2. \A k \in StoredKeys("kyber") : TheLastResort(k)
    <2>1. \A k \in disk.pool["kyber"] : k.id >= FirstId["kyber"]
      BY DEF Typed, DiskTyped, OneTimeKeys, Kinds
    <2>2. FirstId["kyber"] = 2
      BY DEF FirstId
    <2>3. QED
      BY <2>1, <2>2 DEF StoredKeys, TheLastResort, LastResorts, LastResortId
  <1>3. \A k \in Published("kyber")' : TheLastResort(k)'
    BY <1>1, <1>2, PublishedStep DEF LastResortKept, Kinds
  <1>4. \A r \in server'.rows["kyber"] : \E k \in made : k = r.key /\ TheLastResort(k)'
    <2>1. \A r \in server.rows["kyber"] : r.key \in made /\ TheLastResort(r.key)
      BY DEF LastResortKept, Typed, ServerTyped, Kinds
    <2>2. \A k \in Published("kyber") : k \in made /\ TheLastResort(k)
      BY DEF LastResortKept, Typed, CacheTyped, Published, PoolKeys, OneTimeKeys, LastResorts, Kinds
    <2>3. \A r \in server'.rows["kyber"] :
            r.key \in Published("kyber") \/ \E q \in server.rows["kyber"] : q.key = r.key
      BY RowsStep DEF Kinds
    <2>4. QED
      BY <1>1, <2>1, <2>2, <2>3
  <1>5. \A p \in Peers : held'[p] # NONE => \E k \in made : k = held'[p].kyber /\ TheLastResort(k)'
    <2>1. \A p \in Peers : held[p] # NONE => held[p].kyber \in made /\ TheLastResort(held[p].kyber)
      BY DEF LastResortKept, Typed, HeldTyped, BundleTyped, BundleOf
    <2>2. DOMAIN held = Peers
      BY DEF Typed, HeldTyped
    <2>3. ASSUME NEW p \in Peers, Claim(p)
          PROVE  \A q \in Peers : held'[q] # NONE =>
                   \E k \in made : k = held'[q].kyber /\ TheLastResort(k)'
      <3>1. held' = [held EXCEPT ![p] = Bundle] /\ ServedSpk # NONE /\ ServedKyber # NONE
        BY <2>3 DEF Claim
      <3>2. Bundle.kyber \in made /\ TheLastResort(Bundle.kyber)
        BY <3>1, BundleIsOfRows DEF LastResortKept, BundleTyped, BundleOf
      <3>3. QED
        BY <1>1, <2>1, <2>2, <3>1, <3>2
    <2>4. ASSUME NEW p \in Peers, Abandon(p) \/ ReceiveEstablish(p)
          PROVE  \A q \in Peers : held'[q] # NONE =>
                   \E k \in made : k = held'[q].kyber /\ TheLastResort(k)'
      <3>1. held' = [held EXCEPT ![p] = NONE]
        BY <2>4 DEF Abandon, ReceiveEstablish
      <3>2. QED
        BY <1>1, <2>1, <2>2, <3>1
    <2>5. QED
      BY <1>1, <2>1, <2>3, <2>4, Frame
  <1>6. QED
    BY <1>3, <1>4, <1>5 DEF LastResortKept, TheLastResort

-----------------------------------------------------------------------------
(* One-time keys *)

\* A key that was handed out has no unclaimed row; neither has its id.
LEMMA UnclaimedIsNew ==
  ASSUME Typed, HandedClaimed, NEW kind \in Kinds, NEW r \in server.rows[kind],
         ~r.claimed
  PROVE  \A k \in handed : k.kind = kind => k.id # r.key.id
  <1>1. \A q \in server.rows[kind] : q.key.id = r.key.id => q = r
    BY DEF Typed, ServerTyped
  <1>2. QED
    BY <1>1 DEF HandedClaimed

LEMMA HandedStep == Typed /\ Progress /\ HandedClaimed /\ Next => HandedClaimed'
  <1> SUFFICES ASSUME Typed, Progress, HandedClaimed, Next, NEW k \in handed'
               PROVE  \E r \in server'.rows[k.kind] : r.key.id = k.id /\ r.claimed
    BY DEF HandedClaimed
  <1>1. CASE k \in handed
    <2>1. k.kind \in Kinds
      BY <1>1 DEF Typed, MadeTyped, OneTimeKeys, Kinds
    <2>2. PICK q \in server.rows[k.kind] : q.key.id = k.id /\ q.claimed
      BY <1>1 DEF HandedClaimed
    <2>3. QED
      BY <2>1, <2>2, RowsStep
  <1>2. CASE k \notin handed
    <2>1. PICK p \in Peers : Claim(p)
      BY <1>2, Frame
    <2>2. k \in OneTime(Bundle) /\ ServedSpk # NONE /\ ServedKyber # NONE
      BY <1>2, <2>1 DEF Claim
    <2>3. k.kind \in Kinds /\ \E r \in server.rows[k.kind] : r.key = k
      BY <2>2, BundleIsOfRows
    <2>4. QED
      BY <2>1, <2>2, <2>3, ClaimedRows
  <1>3. QED
    BY <1>1, <1>2

LEMMA CachedStep ==
  Typed /\ Progress /\ FilledInv /\ OneTimeInv /\ Next => CachedLive'
  <1> SUFFICES ASSUME Typed, Progress, FilledInv, OneTimeInv, Next, NEW kind \in Kinds,
                      NEW k \in Published(kind)', k.id >= FirstId[kind]
               PROVE  k \in disk'.pool[kind] \cup handed'
    BY DEF CachedLive
  <1>1. handed \subseteq handed' /\ FirstId["kyber"] = 2
    BY Frame DEF FirstId
  <1>2. ~ResetDevice /\ (k \in Published(kind) \/ k \in StoredKeys(kind))
    BY PublishedStep
  <1>3. k \in disk.pool[kind] \cup handed
    <2>1. CASE k \in Published(kind)
      BY <2>1 DEF OneTimeInv, CachedLive
    <2>2. CASE k \in StoredKeys(kind)
      BY <1>1, <2>2 DEF StoredKeys, Typed, DiskTyped, LastResorts, LastResortId
    <2>3. QED
      BY <1>2, <2>1, <2>2
  <1>4. CASE k \in disk.pool[kind]
    <2>1. CASE RemoveKyber /\ k = serving.kyber /\ kind = "kyber"
      <3>1. serving # NONE /\ BundleTyped(serving)
        BY <2>1 DEF RemoveKyber, Typed, ManagerTyped
      <3>2. k.id # LastResortId
        BY <1>1, <1>4, <2>1 DEF Typed, DiskTyped, OneTimeKeys, LastResortId
      <3>3. k \in handed
        BY <2>1, <3>1, <3>2, OneTimeOf DEF OneTimeInv, ServingHanded
      <3>4. QED
        BY <1>1, <3>3
    <2>2. CASE RemoveOneTime /\ k = serving.otp /\ kind = "otp"
      <3>1. serving # NONE /\ BundleTyped(serving)
        BY <2>2 DEF RemoveOneTime, Typed, ManagerTyped
      <3>2. k # NONE
        BY <1>4, KeysAreSomething DEF Typed, DiskTyped
      <3>3. k \in handed
        BY <2>2, <3>1, <3>2, OneTimeOf DEF OneTimeInv, ServingHanded
      <3>4. QED
        BY <1>1, <3>3
    <2>3. QED
      BY <1>2, <1>4, <2>1, <2>2, PoolKeeps
  <1>5. QED
    BY <1>1, <1>3, <1>4

\* A stored key of this identity that nobody was given stays stored.
LEMMA NotGivenStays ==
  ASSUME Typed, Progress, OneTimeInv, Next, NEW kind \in Kinds, NEW k \in made,
         k.id >= FirstId[kind], k.ident = disk'.identity,
         k.ident = disk.identity => k \in disk.pool[kind],
         serving # NONE => k \notin OneTime(serving)
  PROVE  k \in disk'.pool[kind]
  <1>1. k.ident \in Nat \ {0} /\ k # NONE
    BY KeysAreSomething
  <1>2. CASE ResetDevice
    BY <1>1, <1>2, DiskEffects DEF Becomes
  <1>3. CASE SaveIdentity
    <2>1. disk.identity = 0 /\ disk'.identity = 1 + used.resets /\ used.resets \in Nat
      BY <1>3, DiskEffects DEF SaveIdentity, Progress, Becomes, Typed, MadeTyped
    <2>2. k.ident <= used.resets
      BY <2>1 DEF Typed, MadeTyped
    <2>3. QED
      BY <1>1, <2>1, <2>2
  <1>4. CASE ~ResetDevice /\ ~SaveIdentity
    <2>1. k \in disk.pool[kind]
      BY <1>4, IdentityStays
    <2>2. CASE RemoveKyber /\ k = serving.kyber /\ kind = "kyber"
      <3>1. serving # NONE /\ BundleTyped(serving)
        BY <2>2 DEF RemoveKyber, Typed, ManagerTyped
      <3>2. k.id # LastResortId
        BY <2>2 DEF FirstId, LastResortId
      <3>3. QED
        BY <2>2, <3>1, <3>2, OneTimeOf
    <2>3. CASE RemoveOneTime /\ k = serving.otp /\ kind = "otp"
      <3>1. serving # NONE /\ BundleTyped(serving)
        BY <2>3 DEF RemoveOneTime, Typed, ManagerTyped
      <3>2. QED
        BY <1>1, <2>3, <3>1, OneTimeOf
    <2>4. QED
      BY <1>4, <2>1, <2>2, <2>3, PoolKeeps
  <1>5. QED
    BY <1>2, <1>3, <1>4

LEMMA RowsLiveStep == Typed /\ Progress /\ OneTimeInv /\ Next => RowsLive'
  <1> SUFFICES ASSUME Typed, Progress, OneTimeInv, Next, NEW kind \in Kinds,
                      NEW r \in server'.rows[kind], r.key.ident = disk'.identity, ~r.claimed,
                      r.key.id >= FirstId[kind]
               PROVE  r.key \in disk'.pool[kind]
    BY DEF RowsLive
  <1> DEFINE k == r.key
  <1>1. CASE \E q \in server.rows[kind] : q.key = r.key /\ (q.claimed => r.claimed)
    <2>1. PICK q \in server.rows[kind] : q.key = k /\ ~q.claimed
      BY <1>1
    <2>2. k \in made /\ k.kind = kind
      <3>1. q.key \in PoolKeys(kind)
        BY DEF Typed, ServerTyped
      <3>2. q.key \in made /\ q.key.kind = kind
        BY <3>1 DEF PoolKeys, OneTimeKeys, LastResorts
      <3>3. QED
        BY <2>1, <3>2
    <2>3. k.ident = disk.identity => k \in disk.pool[kind]
      BY <2>1 DEF OneTimeInv, RowsLive
    <2>4. k \notin handed
      BY <2>1, <2>2, UnclaimedIsNew DEF OneTimeInv
    <2>5. serving # NONE => k \notin OneTime(serving)
      BY <2>4 DEF OneTimeInv, ServingHanded
    <2> HIDE DEF k
    <2>6. k.id >= FirstId[kind] /\ k.ident = disk'.identity
      BY DEF k
    <2>7. k \in disk'.pool[kind]
      BY <2>2, <2>3, <2>5, <2>6, NotGivenStays
    <2>8. QED
      BY <2>7 DEF k
  <1>2. CASE /\ r.key \in Published(kind)
             /\ \A q \in server.rows[kind] : q.key.id = r.key.id /\ q.claimed => r.claimed
    <2>1. k \in made /\ k.kind = kind
      BY <1>2 DEF Typed, CacheTyped, Published, PoolKeys, OneTimeKeys, LastResorts
    <2>2. k \notin handed
      BY <1>2, <2>1 DEF OneTimeInv, HandedClaimed
    <2>3. k \in disk.pool[kind]
      BY <1>2, <2>2 DEF OneTimeInv, CachedLive
    <2>4. serving # NONE => k \notin OneTime(serving)
      BY <2>2 DEF OneTimeInv, ServingHanded
    <2> HIDE DEF k
    <2>5. k.id >= FirstId[kind] /\ k.ident = disk'.identity
      BY DEF k
    <2>6. k \in disk'.pool[kind]
      BY <2>1, <2>3, <2>4, <2>5, NotGivenStays
    <2>7. QED
      BY <2>6 DEF k
  <1>3. QED
    BY <1>1, <1>2, RowsStep

\* The bundle a peer holds after a step it held before, or has just claimed.
LEMMA HeldAfter ==
  ASSUME Typed, Next, NEW p \in Peers, held'[p] # NONE
  PROVE  \/ held'[p] = held[p] /\ ~Claim(p)
         \/ /\ Claim(p) /\ held'[p] = Bundle /\ ServedSpk # NONE /\ ServedKyber # NONE
            /\ handed' = handed \cup OneTime(Bundle) /\ serving' = serving
            /\ disk' = disk /\ held[p] = NONE
            /\ \A q \in Peers \ {p} : held'[q] = held[q]
  <1>1. DOMAIN held = Peers
    BY DEF Typed, HeldTyped
  <1>2. CASE held' = held
    BY <1>2 DEF Claim
  <1>3. ASSUME NEW q \in Peers, Claim(q)
        PROVE  \/ held'[p] = held[p] /\ ~Claim(p)
               \/ /\ Claim(p) /\ held'[p] = Bundle /\ ServedSpk # NONE /\ ServedKyber # NONE
                  /\ handed' = handed \cup OneTime(Bundle) /\ serving' = serving
                  /\ disk' = disk /\ held[p] = NONE
                  /\ \A o \in Peers \ {p} : held'[o] = held[o]
    <2>1. CASE q = p
      BY <1>1, <1>3, <2>1 DEF Claim, managerVars
    <2>2. CASE q # p
      <3>1. held'[p] = held[p]
        BY <1>1, <1>3, <2>2 DEF Claim
      <3>2. ~Claim(p)
        BY <3>1 DEF Claim
      <3>3. QED
        BY <3>1, <3>2
    <2>3. QED
      BY <2>1, <2>2
  <1>4. ASSUME NEW q \in Peers, Abandon(q) \/ ReceiveEstablish(q)
        PROVE  held'[p] = held[p] /\ ~Claim(p)
    <2>1. held' = [held EXCEPT ![q] = NONE]
      BY <1>4 DEF Abandon, ReceiveEstablish
    <2>2. held'[p] = held[p]
      BY <1>1, <2>1
    <2>3. QED
      BY <2>2 DEF Claim
  <1>5. QED
    BY <1>2, <1>3, <1>4, Frame

\* The bundle that is being received is the one it was, or one that was held.
LEMMA ServingAfter ==
  ASSUME Next, serving' # NONE
  PROVE  \/ serving' = serving
         \/ \E p \in Peers : ReceiveEstablish(p) /\ serving' = held[p] /\ held[p] # NONE
                             /\ held' = [held EXCEPT ![p] = NONE]
  <1>1. CASE Initialise
    BY <1>1 DEF Initialise, Begin, SaveIdentity, SaveRegistration, CopyLegacy,
       AdoptLegacy, KeepCurrent, RotateDue, BeginRotation, DiscardUnpublished, SaveSpkRecord,
       SaveSpkMeta, RetireSuperseded, RemoveLegacy, EnsureLastResort, CountPool, SavePoolKey, Go
  <1>2. CASE \/ SaveMaterial \/ Publish \/ PublishFails \/ Hydrate \/ RemoveKyber \/ RemoveOneTime
             \/ ResetDevice \/ Crash \/ Reload
    BY <1>2 DEF SaveMaterial, Publish, PublishFails, Hydrate, RemoveKyber, RemoveOneTime,
       ResetDevice, Crash, Reload, Go, Return
  <1>3. CASE \E p \in Peers : Claim(p) \/ Abandon(p) \/ ReceiveEstablish(p)
    BY <1>3 DEF Claim, Abandon, ReceiveEstablish, managerVars
  <1>4. QED
    BY <1>1, <1>2, <1>3 DEF Next

\* What a claim gives out was not given out before.
LEMMA GivenIsNew ==
  ASSUME Typed, HandedClaimed, ServedSpk # NONE, ServedKyber # NONE
  PROVE  OneTime(Bundle) \cap handed = {}
  <1>1. SUFFICES ASSUME NEW k \in OneTime(Bundle) PROVE k \notin handed
    OBVIOUS
  <1>2. k.kind \in Kinds /\ \E r \in server.rows[k.kind] : r.key = k /\ ~r.claimed
    BY BundleIsOfRows
  <1>3. QED
    BY <1>2, UnclaimedIsNew

LEMMA HeldLiveStep == Typed /\ Progress /\ OneTimeInv /\ Next => HeldLive' /\ ServingHanded'
  <1> SUFFICES ASSUME Typed, Progress, OneTimeInv, Next PROVE HeldLive' /\ ServingHanded'
    OBVIOUS
  <1>1. /\ HandedClaimed /\ RowsLive /\ HeldLive /\ ServingHanded
        /\ handed \subseteq handed' /\ DOMAIN held = Peers
    BY Frame DEF OneTimeInv, Typed, HeldTyped
  <1>2. \A p \in Peers : held[p] # NONE => BundleTyped(held[p])
    BY DEF Typed, HeldTyped
  <1>3. ServingHanded'
    <2>1. CASE serving' = NONE
      BY <2>1 DEF ServingHanded
    <2>2. CASE serving' # NONE
      <3>1. OneTime(serving') \subseteq handed
        BY <1>1, <2>2, ServingAfter DEF ServingHanded, HeldLive
      <3>2. QED
        BY <1>1, <3>1 DEF ServingHanded, OneTime
    <2>3. QED
      BY <2>1, <2>2
  <1>4. ASSUME NEW p \in Peers, held'[p] # NONE
        PROVE  /\ OneTime(held'[p]) \subseteq handed'
               /\ \A k \in OneTime(held'[p]) : k.ident = disk'.identity => k \in disk'.pool[k.kind]
    <2>1. CASE held'[p] = held[p]
      <3>1. OneTime(held'[p]) \subseteq handed'
        BY <1>1, <1>4, <2>1 DEF HeldLive
      <3>2. ASSUME NEW k \in OneTime(held[p]), k.ident = disk'.identity
            PROVE  k \in disk'.pool[k.kind]
        <4>1. k.kind \in Kinds /\ k \in made /\ k.id >= FirstId[k.kind]
          BY <1>2, <1>4, <2>1, OneTimeOf DEF Kinds
        <4>2. k.ident = disk.identity => k \in disk.pool[k.kind]
          BY <1>1, <1>4, <2>1 DEF HeldLive
        <4>3. serving # NONE => k \notin OneTime(serving)
          BY <1>1, <1>4, <2>1 DEF HeldLive
        <4>4. QED
          BY <3>2, <4>1, <4>2, <4>3, NotGivenStays
      <3>3. QED
        BY <2>1, <3>1, <3>2
    <2>2. CASE Claim(p)
      <3>1. held'[p] = Bundle /\ ServedSpk # NONE /\ ServedKyber # NONE
            /\ handed' = handed \cup OneTime(Bundle) /\ disk' = disk
        BY <1>4, <2>2, HeldAfter
      <3>2. \A k \in OneTime(Bundle) :
              /\ k.kind \in Kinds /\ k.id >= FirstId[k.kind]
              /\ \E r \in server.rows[k.kind] : r.key = k /\ ~r.claimed
        BY <3>1, BundleIsOfRows
      <3>3. \A k \in OneTime(Bundle) : k.ident = disk.identity => k \in disk.pool[k.kind]
        BY <1>1, <3>2 DEF RowsLive
      <3>4. QED
        BY <3>1, <3>3
    <2>3. QED
      BY <1>4, <2>1, <2>2, HeldAfter
  <1>5. ASSUME NEW p \in Peers, NEW q \in Peers \ {p}, held'[p] # NONE, held'[q] # NONE
        PROVE  OneTime(held'[q]) \cap OneTime(held'[p]) = {}
    <2>1. CASE held'[p] = held[p] /\ held'[q] = held[q]
      BY <1>1, <1>5, <2>1 DEF HeldLive
    <2>2. ASSUME NEW a \in Peers, NEW b \in Peers \ {a}, held'[a] # NONE, held'[b] # NONE, Claim(a)
          PROVE  OneTime(held'[b]) \cap OneTime(held'[a]) = {}
      <3>1. held'[a] = Bundle /\ held'[b] = held[b] /\ ServedSpk # NONE /\ ServedKyber # NONE
        BY <2>2, HeldAfter
      <3>2. OneTime(held[b]) \subseteq handed
        BY <1>1, <2>2, <3>1 DEF HeldLive
      <3>3. OneTime(Bundle) \cap handed = {}
        BY <1>1, <3>1, GivenIsNew
      <3>4. QED
        BY <3>1, <3>2, <3>3
    <2>3. CASE Claim(p)
      BY <1>5, <2>2, <2>3
    <2>4. CASE Claim(q)
      BY <1>5, <2>2, <2>4
    <2>5. QED
      BY <1>5, <2>1, <2>3, <2>4, HeldAfter
  <1>6. ASSUME NEW p \in Peers, held'[p] # NONE, serving' # NONE
        PROVE  OneTime(serving') \cap OneTime(held'[p]) = {}
    <2>1. CASE serving' = serving /\ held'[p] = held[p]
      BY <1>1, <1>6, <2>1 DEF HeldLive
    <2>2. CASE Claim(p)
      <3>1. held'[p] = Bundle /\ serving' = serving /\ ServedSpk # NONE /\ ServedKyber # NONE
        BY <1>6, <2>2, HeldAfter
      <3>2. OneTime(Bundle) \cap handed = {}
        BY <1>1, <3>1, GivenIsNew
      <3>3. OneTime(serving) \subseteq handed
        BY <1>1, <1>6, <3>1 DEF ServingHanded
      <3>4. QED
        BY <3>1, <3>2, <3>3
    <2>3. ASSUME NEW q \in Peers, serving' = held[q], held[q] # NONE,
                 held' = [held EXCEPT ![q] = NONE]
          PROVE  OneTime(serving') \cap OneTime(held'[p]) = {}
      <3>1. p # q /\ held'[p] = held[p] /\ held[p] # NONE
        BY <1>1, <1>6, <2>3
      <3>2. QED
        BY <1>1, <2>3, <3>1 DEF HeldLive
    <2>4. QED
      BY <1>6, <2>1, <2>2, <2>3, HeldAfter, ServingAfter
  <1>7. HeldLive'
    BY <1>4, <1>5, <1>6 DEF HeldLive, OneTime
  <1>8. QED
    BY <1>3, <1>7

-----------------------------------------------------------------------------
(* What is stored is published, and what is published is served *)

\* A step that leaves the pools, the cache and the fresh keys as they are.
LEMMA FilledStays ==
  ASSUME FilledInv, torn' = torn, fresh' = fresh, disk'.lastResort = disk.lastResort,
         disk'.pool = disk.pool, disk'.cache = disk.cache,
         pc' \in Requests \cup {"hydrate"} => pc \in Requests
  PROVE  FilledInv'
  BY DEF FilledInv, StoredKeys, Published

\* An operation that ends leaves nothing stored that is not published, or the
\* tab died in it.
LEMMA FilledReturns ==
  ASSUME NEW d, Return(d), disk' = disk,
         torn' \/ \A kind \in Kinds : StoredKeys(kind) \subseteq Published(kind)
  PROVE  FilledInv'
  <1>1. pc' = "idle" /\ \A kind \in Kinds : fresh'[kind] = {}
    BY DEF Return, NoKeys
  <1>2. QED
    BY <1>1 DEF FilledInv, StoredKeys, Published, Requests

LEMMA FilledInit ==
  Typed /\ Progress /\ FilledInv /\ Next /\ Initialise => FilledInv'
  <1> SUFFICES ASSUME Typed, Progress, FilledInv, Next, Initialise PROVE FilledInv'
    OBVIOUS
  <1>1. CASE Begin
    BY <1>1, FilledStays DEF Begin, Local, Requests
  <1>2. CASE \/ SaveIdentity \/ SaveRegistration \/ CopyLegacy \/ AdoptLegacy \/ KeepCurrent
             \/ RotateDue \/ BeginRotation \/ DiscardUnpublished \/ SaveSpkRecord \/ SaveSpkMeta
             \/ RetireSuperseded \/ RemoveLegacy \/ CountPool
    <2>1. torn' = torn /\ fresh' = fresh
      BY <1>2 DEF SaveIdentity, SaveRegistration, CopyLegacy, AdoptLegacy, KeepCurrent,
         RotateDue, BeginRotation, DiscardUnpublished, SaveSpkRecord, SaveSpkMeta,
         RetireSuperseded, RemoveLegacy, CountPool, Go, Local
    <2>2. /\ pc' \notin Requests \cup {"hydrate", "identity"}
          /\ pc \notin {"lastResort", "fill otp", "fill kyber", "material", "used kyber", "used otp"}
      <3>1. CASE CountPool
        <4>1. pc \in {"otp", "kyber"} /\ pc' \in {"fill otp", "fill kyber", "kyber", "material"}
          BY <3>1, OfKinds DEF CountPool, Kinds
        <4>2. QED
          BY <4>1 DEF Requests
      <3>2. CASE ~CountPool
        BY <1>2, <3>2 DEF SaveIdentity, SaveRegistration, CopyLegacy, AdoptLegacy, KeepCurrent,
           RotateDue, BeginRotation, DiscardUnpublished, SaveSpkRecord, SaveSpkMeta,
           RetireSuperseded, RemoveLegacy, Go, Requests
      <3>3. QED
        BY <3>1, <3>2
    <2>3. /\ ~SaveMaterial /\ ~ResetDevice /\ ~EnsureLastResort /\ ~RemoveKyber /\ ~RemoveOneTime
          /\ \A kind \in Kinds : ~SavePoolKey(kind)
      BY <2>2, OfKinds DEF SaveMaterial, ResetDevice, EnsureLastResort, RemoveKyber, RemoveOneTime,
         SavePoolKey
    <2>4. /\ disk'.cache = disk.cache /\ disk'.lastResort = disk.lastResort
          /\ disk'.pool = disk.pool
      BY <2>3, PartsStay
    <2>5. QED
      BY <2>1, <2>2, <2>4, FilledStays
  <1>3. CASE EnsureLastResort
    <2>1. torn' = torn /\ pc' = "otp"
      BY <1>3 DEF EnsureLastResort, Local
    <2>2. CASE disk' = disk /\ fresh' = fresh
      BY <2>1, <2>2, FilledStays DEF Requests
    <2>3. CASE ~(disk' = disk /\ fresh' = fresh)
      <3> DEFINE key == Generated("kyber", LastResortId)
      <3>1. fresh' = [fresh EXCEPT !["kyber"] = @ \cup {key}] /\ disk.lastResort = NONE
            /\ made' = made \cup {key} /\ disk' = [disk EXCEPT !.lastResort = key]
        BY <1>3, <2>3 DEF EnsureLastResort
      <3>2. disk'.pool = disk.pool /\ disk'.cache = disk.cache /\ disk'.lastResort = key
        BY <3>1 DEF Typed, DiskTyped
      <3>3. key # NONE
        <4>1. key \in Key
          BY <1>3, HasIdentity, GeneratedKey DEF EnsureLastResort, Kinds, LastResortId
        <4>2. QED
          BY <4>1, NoneAssumption
      <3>4. fresh \in [Kinds -> SUBSET made]
        BY DEF Typed, ManagerTyped
      <3> HIDE DEF key
      <3>5. \A kind \in Kinds :
              /\ StoredKeys(kind)' = StoredKeys(kind) \cup (IF kind = "kyber" THEN {key} ELSE {})
              /\ fresh'[kind] = fresh[kind] \cup (IF kind = "kyber" THEN {key} ELSE {})
              /\ Published(kind)' = Published(kind)
        BY <3>1, <3>2, <3>3, <3>4 DEF StoredKeys, Published
      <3>6. pc' \notin Requests \cup {"hydrate"}
        BY <2>1 DEF Requests
      <3>7. ASSUME NEW kind \in Kinds
            PROVE  /\ fresh'[kind] \subseteq StoredKeys(kind)'
                   /\ ~torn' => StoredKeys(kind)' \subseteq Published(kind)' \cup fresh'[kind]
        <4>1. fresh[kind] \subseteq StoredKeys(kind)
              /\ (~torn => StoredKeys(kind) \subseteq Published(kind) \cup fresh[kind])
          BY DEF FilledInv
        <4> HIDE DEF key
        <4>2. QED
          BY <2>1, <3>5, <4>1
      <3>8. QED
        BY <3>6, <3>7 DEF FilledInv
    <2>4. QED
      BY <2>2, <2>3
  <1>4. ASSUME NEW pool \in Kinds, SavePoolKey(pool) PROVE FilledInv'
    <2> DEFINE key == Generated(pool, NextId(pool))
    <2>1. torn' = torn /\ fresh' = [fresh EXCEPT ![pool] = @ \cup {key}] /\ ~ResetDevice
          /\ ~RemoveKyber /\ ~RemoveOneTime /\ pc' \in {"fill otp", "fill kyber", "kyber", "material"}
      BY <1>4, OfKinds DEF SavePoolKey, Local, ResetDevice, RemoveKyber, RemoveOneTime
    <2>2. /\ disk'.pool = [disk.pool EXCEPT ![pool] = Over({key}, @)]
          /\ disk'.cache = disk.cache /\ disk'.lastResort = disk.lastResort
      <3>1. Becomes(disk.identity, disk.registered, disk.spks, disk.meta, disk.legacy,
                    disk.lastResort,
                    [disk.pool EXCEPT ![pool] = Over({Generated(pool, NextId(pool))}, @)],
                    disk.cache)
        BY <1>4, DiskEffects
      <3>2. QED
        BY <3>1 DEF Becomes
    <2>3. fresh \in [Kinds -> SUBSET made] /\ disk.pool \in [Kinds -> SUBSET made]
      BY DEF Typed, ManagerTyped, DiskTyped
    <2>4. key \in Over({key}, disk.pool[pool]) /\ Over({key}, disk.pool[pool]) \subseteq disk.pool[pool] \cup {key}
      BY DEF Over
    <2>5. \A kind \in Kinds : \A k \in disk.pool[kind] : k \in disk'.pool[kind]
      BY <2>1, PoolKeeps
    <2> HIDE DEF key
    <2>6. \A kind \in Kinds :
            /\ disk'.pool[kind] = disk.pool[kind] \cup (IF kind = pool THEN {key} ELSE {})
            /\ fresh'[kind] = fresh[kind] \cup (IF kind = pool THEN {key} ELSE {})
      BY <2>1, <2>2, <2>3, <2>4, <2>5
    <2>7. \A kind \in Kinds :
            /\ StoredKeys(kind)' = StoredKeys(kind) \cup (IF kind = pool THEN {key} ELSE {})
            /\ Published(kind)' = Published(kind)
      BY <2>2, <2>6 DEF StoredKeys, Published
    <2>8. pc' \notin Requests \cup {"hydrate"}
      BY <2>1 DEF Requests
    <2>9. ASSUME NEW kind \in Kinds
          PROVE  /\ fresh'[kind] \subseteq StoredKeys(kind)'
                 /\ ~torn' => StoredKeys(kind)' \subseteq Published(kind)' \cup fresh'[kind]
      <3>1. fresh[kind] \subseteq StoredKeys(kind)
            /\ (~torn => StoredKeys(kind) \subseteq Published(kind) \cup fresh[kind])
        BY DEF FilledInv
      <3> DEFINE new == IF kind = pool THEN {key} ELSE {}
                 F == fresh[kind]
                 S == StoredKeys(kind)
                 Q == Published(kind)
      <3>2. StoredKeys(kind)' = S \cup new /\ Published(kind)' = Q
        BY <2>7
      <3>3. fresh'[kind] = F \cup new
        BY <2>6
      <3>4. F \subseteq S /\ (~torn => S \subseteq Q \cup F)
        BY <3>1
      <3> HIDE DEF F, S, Q, new
      <3>5. QED
        BY <2>1, <3>2, <3>3, <3>4
    <2>10. QED
      BY <2>8, <2>9 DEF FilledInv
  <1>5. QED
    BY <1>1, <1>2, <1>3, <1>4 DEF Initialise

LEMMA FilledStep == Typed /\ Progress /\ FilledInv /\ Next => FilledInv'
  <1> SUFFICES ASSUME Typed, Progress, FilledInv, Next PROVE FilledInv'
    OBVIOUS
  <1>1. CASE Initialise
    BY <1>1, FilledInit
  <1>2. CASE SaveMaterial
    <2>1. Becomes(disk.identity, disk.registered, disk.spks, disk.meta, disk.legacy,
                  disk.lastResort, disk.pool, Material)
      BY <1>2, DiskEffects
    <2>2. pc = "material" /\ fresh' = fresh /\ torn' = torn
      BY <1>2 DEF SaveMaterial, Go, Local
    <2>3. Material # NONE /\ \A kind \in Kinds : Material.keys[kind] = Over(fresh[kind], Published(kind))
      BY <2>2, MaterialTyped, NoneAssumption
    <2>4. \A kind \in Kinds : /\ Published(kind)' = Over(fresh[kind], Published(kind))
                              /\ StoredKeys(kind)' = StoredKeys(kind)
      BY <2>1, <2>3 DEF Becomes, Published, StoredKeys
    <2>5. ASSUME NEW kind \in Kinds
          PROVE  /\ fresh[kind] \subseteq Over(fresh[kind], Published(kind))
                 /\ ~torn => StoredKeys(kind) \subseteq Over(fresh[kind], Published(kind))
      <3>1. fresh[kind] \subseteq Over(fresh[kind], Published(kind))
        BY DEF Over
      <3>2. ASSUME NEW k \in StoredKeys(kind), k \in Published(kind), k \notin fresh[kind]
            PROVE  k.id \notin Ids(fresh[kind])
        <4>1. OneId(StoredKeys(kind)) /\ fresh[kind] \subseteq StoredKeys(kind)
          BY StoredKeysTyped DEF FilledInv
        <4>2. QED
          BY <3>2, <4>1 DEF OneId, Ids
      <3>3. QED
        BY <3>1, <3>2 DEF FilledInv, Over
    <2>6. QED
      BY <2>2, <2>4, <2>5 DEF FilledInv
  <1>3. CASE Publish \/ PublishFails
    <2>1. disk' = disk /\ torn' = torn /\ pc \in Requests
      BY <1>3 DEF Publish, PublishFails, historyVars
    <2>2. \/ fresh' = fresh
          \/ Return(device)
      BY <1>3 DEF Publish, PublishFails, Go
    <2>3. torn \/ \A kind \in Kinds : StoredKeys(kind) \subseteq Published(kind)
      BY <2>1 DEF FilledInv
    <2>4. CASE Return(device)
      <3>1. PICK d \in {device} : d = device
        OBVIOUS
      <3>2. QED
        BY <2>1, <2>3, <2>4, <3>1, FilledReturns
    <2>5. QED
      BY <2>1, <2>2, <2>4, FilledStays
  <1>4. CASE Hydrate \/ Crash \/ Reload
    <2>1. disk' = disk /\ \E d \in {device', NONE} : Return(d)
      BY <1>4 DEF Hydrate, Crash, Reload, Return
    <2>2. torn' \/ \A kind \in Kinds : StoredKeys(kind) \subseteq Published(kind)
      <3>1. CASE Hydrate
        BY <3>1 DEF Hydrate, Local, FilledInv
      <3>2. CASE Crash
        BY <3>2 DEF Crash, Filled
      <3>3. CASE Reload
        <4>1. \A kind \in Kinds : fresh[kind] = {}
          BY <3>3 DEF Reload, Progress, NoKeys
        <4>2. QED
          BY <3>3, <4>1 DEF Reload, historyVars, FilledInv
      <3>4. QED
        BY <1>4, <3>1, <3>2, <3>3
    <2>3. pc' = "idle" /\ fresh' = NoKeys
      BY <1>4 DEF Hydrate, Crash, Reload, Return
    <2>4. \A kind \in Kinds : fresh'[kind] = {}
      BY <2>3 DEF NoKeys
    <2>5. QED
      BY <2>1, <2>2, <2>3, <2>4 DEF FilledInv, StoredKeys, Published, Requests
  <1>5. CASE RemoveKyber \/ RemoveOneTime \/ ResetDevice
    <2>1. \A kind \in Kinds : fresh[kind] = {} /\ fresh'[kind] = {}
      BY <1>5 DEF RemoveKyber, RemoveOneTime, ResetDevice, Go, Return, Progress, NoKeys
    <2>2. pc' \notin Requests \cup {"hydrate"}
      BY <1>5 DEF RemoveKyber, RemoveOneTime, ResetDevice, Go, Return, Requests
    <2>3. CASE RemoveKyber \/ RemoveOneTime
      <3>1. torn' = torn /\ disk.pool \in [Kinds -> SUBSET made]
        BY <2>3 DEF RemoveKyber, RemoveOneTime, Local, Typed, DiskTyped
      <3>2. /\ disk'.cache = disk.cache /\ disk'.lastResort = disk.lastResort
            /\ \E pool \in Kinds : \E k \in {serving.kyber, serving.otp} :
                 disk'.pool = [disk.pool EXCEPT ![pool] = @ \ {k}]
        <4>1. CASE RemoveKyber
          <5>1. Becomes(disk.identity, disk.registered, disk.spks, disk.meta, disk.legacy,
                        disk.lastResort, [disk.pool EXCEPT !["kyber"] = @ \ {serving.kyber}],
                        disk.cache)
            BY <4>1, DiskEffects
          <5>2. QED
            BY <5>1 DEF Becomes, Kinds
        <4>2. CASE RemoveOneTime
          <5>1. Becomes(disk.identity, disk.registered, disk.spks, disk.meta, disk.legacy,
                        disk.lastResort, [disk.pool EXCEPT !["otp"] = @ \ {serving.otp}],
                        disk.cache)
            BY <4>2, DiskEffects
          <5>2. QED
            BY <5>1 DEF Becomes, Kinds
        <4>3. QED
          BY <2>3, <4>1, <4>2
      <3>3. \A kind \in Kinds : disk'.pool[kind] \subseteq disk.pool[kind]
        BY <3>1, <3>2
      <3>4. QED
        BY <2>1, <2>2, <3>1, <3>2, <3>3 DEF FilledInv, StoredKeys, Published
    <2>4. CASE ResetDevice
      <3>1. disk'.lastResort = NONE /\ \A kind \in Kinds : disk'.pool[kind] = {}
        BY <2>4, DiskEffects DEF Becomes, NoKeys
      <3>2. QED
        BY <2>1, <2>2, <3>1 DEF FilledInv, StoredKeys
    <2>5. QED
      BY <1>5, <2>3, <2>4
  <1>6. ASSUME NEW p \in Peers, Claim(p) \/ Abandon(p) \/ ReceiveEstablish(p) PROVE FilledInv'
    <2>1. disk' = disk /\ torn' = torn /\ fresh' = fresh
      BY <1>6 DEF Claim, Abandon, ReceiveEstablish, managerVars, historyVars
    <2>2. pc' = pc \/ pc' = "used kyber"
      BY <1>6 DEF Claim, Abandon, ReceiveEstablish, managerVars
    <2>3. \A kind \in Kinds : StoredKeys(kind)' = StoredKeys(kind) /\ Published(kind)' = Published(kind)
      BY <2>1 DEF StoredKeys, Published
    <2>4. pc' \in Requests \cup {"hydrate"} => pc \in Requests \cup {"hydrate"}
      BY <2>2 DEF Requests
    <2>5. QED
      BY <2>1, <2>3, <2>4 DEF FilledInv
  <1>7. QED
    BY <1>1, <1>2, <1>3, <1>4, <1>5, <1>6 DEF Next

\* Before the first reset every key is of the identity 1.
LEMMA FirstIdentity ==
  ASSUME Typed, used.resets = 0
  PROVE  /\ disk.identity \in {0, 1}
         /\ \A k \in made : k.ident = 1 /\ k.id \in Nat \ {0}
  <1>1. \A k \in made : k.ident \in Nat \ {0} /\ k.id \in Nat \ {0}
    BY KeysAreSomething
  <1>2. \A k \in made : k.ident <= 1 + used.resets
    BY DEF Typed, MadeTyped
  <1>3. disk.identity \in {0, 1 + used.resets}
    BY DEF Typed, DiskTyped
  <1>4. QED
    BY <1>1, <1>2, <1>3

\* A request leaves the rows in the order of their ids: a new row is of the
\* current key, which comes after every key that was published.
LEMMA AppliedInOrder ==
  ASSUME Typed, Progress, SpksPromised, ServedInv, used.resets = 0,
         pc \in Requests, server' = Applied(pc)
  PROVE  /\ BornInOrder(server'.spks)
         /\ pc = "put signed" => \E r \in server'.spks : r.key = disk.meta /\ r.active
         /\ pc \in {"put otp", "put kyber"} => server'.spks = server.spks
  <1>1. SpkRows(server.spks, Spks) /\ BornInOrder(server.spks)
    BY DEF Typed, ServerTyped, SpkRows, ServedInv
  <1>2. CASE pc \in {"put device", "put otp", "put kyber"}
    <2>1. \E identity, rows : ServerIs(identity, server.spks, rows)
      BY <1>2, AppliedEffects
    <2>2. server'.spks = server.spks
      BY <2>1 DEF ServerIs
    <2>3. QED
      BY <1>1, <1>2, <2>2
  <1>3. CASE pc = "deactivate"
    <2> DEFINE S == Deactivated(server.spks, disk.cache.spk.id)
    <2>1. server'.spks = S
      BY <1>3, AppliedEffects DEF ServerIs
    <2>2. /\ Cardinality(S) = Cardinality(server.spks)
          /\ \A r \in S : \E q \in server.spks : q.key = r.key /\ q.born = r.born
      BY <1>1, DeactivatedRows
    <2> HIDE DEF S
    <2>3. BornInOrder(S)
      BY <1>1, <2>2 DEF BornInOrder
    <2>4. QED
      BY <1>3, <2>1, <2>3
  <1>4. CASE pc = "put signed"
    <2> DEFINE S == PutSigned(server.spks, disk.cache.spk)
    <2>1. disk.cache # NONE /\ disk.cache.spk = disk.meta /\ disk.meta # NONE /\ disk.identity = 1
      <3>1. disk.cache # NONE /\ disk.cache.spk = disk.meta /\ disk.identity # 0
        BY <1>4 DEF Progress, Requests
      <3>2. disk.meta # NONE
        BY <1>4 DEF Progress, BeforeMeta
      <3>3. QED
        BY <3>1, <3>2, FirstIdentity
    <2>2. disk.meta \in Spks /\ disk.meta \in made
      BY <2>1 DEF Typed, CacheTyped, Spks
    <2>3. server'.spks = S
      <3>1. ServerIs(server.identity, PutSigned(server.spks, disk.cache.spk), server.rows)
        BY <1>4, AppliedEffects
      <3>2. QED
        BY <3>1 DEF ServerIs
    <2>4. PICK r \in S :
            /\ r.key = disk.meta /\ r.active
            /\ \A q \in S : q = r \/ (q \in server.spks /\ q.key.id # disk.meta.id)
            /\ \/ /\ \A q \in server.spks : q.key.id # disk.meta.id
                  /\ r.born = 1 + Cardinality(server.spks)
                  /\ Cardinality(S) = 1 + Cardinality(server.spks)
               \/ /\ \E q \in server.spks : q.key.id = disk.meta.id /\ q.born = r.born
                  /\ Cardinality(S) = Cardinality(server.spks)
      BY <1>1, <2>1, <2>2, PutSignedRows
    <2>5. \A q \in server.spks : q.key \in made /\ q.key.id <= disk.meta.id /\ q.born \in Nat
      <3>1. SUFFICES ASSUME NEW q \in server.spks
                     PROVE  q.key \in made /\ q.key.id <= disk.meta.id /\ q.born \in Nat
        OBVIOUS
      <3>2. q.key \in made /\ q.born \in Nat
        BY DEF Typed, ServerTyped, Spks
      <3>3. q.key.ident = disk.identity
        BY <2>1, <3>2, FirstIdentity
      <3>4. Promised(q.key)
        BY DEF SpksPromised
      <3>5. QED
        BY <2>1, <3>2, <3>3, <3>4 DEF Promised
    <2>6. Cardinality(server.spks) \in Nat /\ disk.meta.id \in Nat
      BY <1>1, <2>2, KeysAreSomething, FS_CardinalityType DEF SpkRows
    <2>7. \A q \in server.spks : q.key.id \in Nat
      BY <2>5, KeysAreSomething
    <2> HIDE DEF S
    <2>8. BornInOrder(S)
      <3>1. CASE /\ \A q \in server.spks : q.key.id # disk.meta.id
                 /\ r.born = 1 + Cardinality(server.spks)
                 /\ Cardinality(S) = 1 + Cardinality(server.spks)
        <4>1. \A q \in server.spks : q.key.id < disk.meta.id /\ q.born <= Cardinality(server.spks)
          BY <1>1, <2>5, <2>6, <2>7, <3>1 DEF BornInOrder
        <4>2. \A q \in S : q.born <= Cardinality(S)
          BY <2>4, <2>5, <2>6, <3>1, <4>1
        <4>3. ASSUME NEW q \in S, NEW x \in S, q.key.id < x.key.id PROVE q.born < x.born
          <5>1. CASE q = r
            BY <2>4, <2>6, <2>7, <4>1, <4>3, <5>1
          <5>2. CASE q # r /\ x = r
            BY <2>4, <2>5, <2>6, <3>1, <4>1, <5>2
          <5>3. CASE q # r /\ x # r
            BY <1>1, <2>4, <4>3, <5>3 DEF BornInOrder
          <5>4. QED
            BY <5>1, <5>2, <5>3
        <4>4. QED
          BY <4>2, <4>3 DEF BornInOrder
      <3>2. CASE /\ \E q \in server.spks : q.key.id = disk.meta.id /\ q.born = r.born
                 /\ Cardinality(S) = Cardinality(server.spks)
        <4>1. PICK old \in server.spks : old.key.id = disk.meta.id /\ old.born = r.born
          BY <3>2
        <4>2. \A q \in S : \E y \in server.spks : y.key.id = q.key.id /\ y.born = q.born
          BY <2>4, <4>1
        <4>3. QED
          BY <1>1, <3>2, <4>2 DEF BornInOrder
      <3>3. QED
        BY <2>4, <3>1, <3>2
    <2>9. QED
      BY <1>4, <2>3, <2>4, <2>8
  <1>5. QED
    BY <1>2, <1>3, <1>4 DEF Requests

\* The manager is past the signed prekey because it has just put it, or it was
\* there already and changed nothing.
LEMMA PastPutSigned ==
  ASSUME Typed, Next, pc' \in {"put otp", "put kyber", "hydrate"}
  PROVE  \/ Publish /\ pc \in {"put signed", "put otp", "put kyber"} /\ disk' = disk
         \/ pc' = pc /\ disk' = disk /\ server'.spks = server.spks
  <1>1. ~Initialise
    <2>1. \A kind \in Kinds : ~SavePoolKey(kind)
      BY OfKinds DEF SavePoolKey
    <2>2. ~CountPool
      BY OfKinds DEF CountPool
    <2>3. QED
      BY <2>1, <2>2 DEF Initialise, Begin, SaveIdentity, SaveRegistration, CopyLegacy, AdoptLegacy,
         KeepCurrent, RotateDue, BeginRotation, DiscardUnpublished, SaveSpkRecord, SaveSpkMeta,
         RetireSuperseded, RemoveLegacy, EnsureLastResort, Go
  <1>2. ~(SaveMaterial \/ Hydrate \/ RemoveKyber \/ RemoveOneTime \/ ResetDevice \/ Crash \/ Reload)
    BY DEF SaveMaterial, Hydrate, RemoveKyber, RemoveOneTime, ResetDevice, Crash, Reload, Go, Return
  <1>3. ~PublishFails
    BY DEF PublishFails, Go, Return, After
  <1>4. CASE Publish
    <2>1. pc \in Requests /\ pc' = After(pc) /\ disk' = disk
      BY <1>4 DEF Publish, Go
    <2>2. pc \notin {"put device", "deactivate"}
      BY <2>1 DEF After
    <2>3. QED
      BY <1>4, <2>1, <2>2 DEF Requests
  <1>5. ASSUME NEW p \in Peers, Claim(p)
        PROVE  pc' = pc /\ disk' = disk /\ server'.spks = server.spks
    <2>1. server'.spks = server.spks
      <3>1. server' = [identity |-> server.identity, spks |-> server.spks, rows |-> server'.rows]
        BY <1>5, ClaimedRows
      <3>2. \E rows : ServerIs(server.identity, server.spks, rows)
        BY <3>1 DEF ServerIs
      <3>3. PICK rows : ServerIs(server.identity, server.spks, rows)
        BY <3>2
      <3> DEFINE old == server.spks
      <3> HIDE DEF old
      <3>4. server' = [identity |-> server.identity, spks |-> old, rows |-> rows]
        BY <3>3 DEF ServerIs, old
      <3>5. server'.spks = old
        BY <3>4
      <3>6. QED
        BY <3>5 DEF old
    <2>2. QED
      BY <1>5, <2>1 DEF Claim, managerVars
  <1>6. ASSUME NEW p \in Peers, Abandon(p) \/ ReceiveEstablish(p)
        PROVE  pc' = pc /\ disk' = disk /\ server'.spks = server.spks
    BY <1>6 DEF Abandon, ReceiveEstablish, managerVars
  <1>7. QED
    BY <1>1, <1>2, <1>3, <1>4, <1>5, <1>6 DEF Next

LEMMA ServedStep ==
  Typed /\ Progress /\ SpksPromised /\ ServedInv /\ Next => ServedInv'
  <1> SUFFICES ASSUME Typed, Progress, SpksPromised, ServedInv, Next, used'.resets = 0
               PROVE  /\ BornInOrder(server'.spks)
                      /\ pc' \in {"put otp", "put kyber", "hydrate"} =>
                           \E r \in server'.spks : r.key = disk'.meta /\ r.active
    BY DEF ServedInv, BornInOrder
  <1>1. used.resets = 0
    <2>1. used.resets \in Nat
      BY DEF Typed, MadeTyped
    <2>2. QED
      BY <2>1, Counted
  <1>2. BornInOrder(server'.spks)
    <2>1. CASE pc \in Requests /\ server' = Applied(pc)
      BY <1>1, <2>1, AppliedInOrder
    <2>2. ASSUME NEW p \in Peers, Claim(p) PROVE server'.spks = server.spks
      BY <2>2, ClaimedRows
    <2>3. server'.spks = server.spks \/ (pc \in Requests /\ server' = Applied(pc))
      BY <2>2, Frame DEF Publish, PublishFails
    <2>4. QED
      BY <1>1, <2>1, <2>3 DEF ServedInv
  <1>3. ASSUME pc' \in {"put otp", "put kyber", "hydrate"}
        PROVE  \E r \in server'.spks : r.key = disk'.meta /\ r.active
    <2>1. CASE Publish /\ pc = "put signed" /\ disk' = disk
      BY <1>1, <2>1, AppliedInOrder DEF Publish
    <2>2. CASE Publish /\ pc \in {"put otp", "put kyber"} /\ disk' = disk
      <3>1. server'.spks = server.spks
        BY <1>1, <2>2, AppliedInOrder DEF Publish
      <3>2. QED
        BY <1>1, <2>2, <3>1 DEF ServedInv
    <2>3. CASE pc' = pc /\ disk' = disk /\ server'.spks = server.spks
      BY <1>1, <1>3, <2>3 DEF ServedInv
    <2>4. QED
      BY <1>3, <2>1, <2>2, <2>3, PastPutSigned
  <1>4. QED
    BY <1>2, <1>3

-----------------------------------------------------------------------------
(* The invariant *)

LEMMA DeviceStart == Init => DeviceInv
  <1> SUFFICES ASSUME Init PROVE DeviceInv
    OBVIOUS
  <1> DEFINE spk == LegacyKey("spk", LegacyId)
             last == LegacyKey("kyber", LastResortId)
             material == [identity |-> 1, spk |-> spk,
                          keys |-> [kind \in Kinds |-> IF kind = "kyber" THEN {last} ELSE {}]]
  <1>1. spk \in Key /\ last \in Key
    BY DeviceBoundsAssumption DEF LegacyKey, Key, LegacyId, LastResortId, Kinds
  <1>2. /\ spk.kind = "spk" /\ spk.ident = 1 /\ spk.id = LegacyId
        /\ last.kind = "kyber" /\ last.ident = 1 /\ last.id = LastResortId
        /\ spk # NONE /\ last # NONE
    BY <1>1, NoneAssumption DEF LegacyKey
  <1>3. material \in PublicMaterial /\ material # NONE
    BY <1>1, NoneAssumption DEF PublicMaterial
  <1>4. /\ device = NONE /\ pc = "idle" /\ op = NONE /\ fresh = NoKeys /\ todo = 0
        /\ serving = NONE /\ held = [p \in Peers |-> NONE] /\ handed = {}
        /\ used = [resets |-> 0, rotations |-> 0, mishaps |-> 0, claims |-> 0]
    BY DEF Init
  <1>5. CASE /\ disk = Wiped /\ made = {} /\ torn = FALSE
             /\ server = [identity |-> 0, spks |-> {}, rows |-> NoKeys]
    <2>1. MadeTyped
      BY <1>4, <1>5, FS_EmptySet, DeviceBoundsAssumption DEF MadeTyped
    <2>2. DiskTyped
      BY <1>4, <1>5 DEF DiskTyped, Wiped, NoKeys, Mine, OneId
    <2>3. CacheTyped
      BY <1>5 DEF CacheTyped, Wiped
    <2>4. ServerTyped
      BY <1>5, FS_EmptySet DEF ServerTyped, NoKeys
    <2>5. ManagerTyped /\ HeldTyped
      BY <1>4, OfKinds DEF ManagerTyped, HeldTyped, Steps, NoKeys
    <2>6. Progress /\ SpksPromised /\ LastResortKept
      BY <1>4, <1>5 DEF Progress, BeforeMeta, Requests, SpksPromised, LastResortKept, Wiped,
         Published, NoKeys, Kinds
    <2>7. OneTimeInv
      BY <1>4, <1>5 DEF OneTimeInv, HandedClaimed, CachedLive, RowsLive, HeldLive, ServingHanded,
         Wiped, Published, NoKeys
    <2>8. FilledInv
      BY <1>4, <1>5 DEF FilledInv, StoredKeys, Published, Wiped, NoKeys, Requests
    <2>9. ServedInv
      BY <1>4, <1>5 DEF ServedInv, BornInOrder
    <2>10. QED
      BY <2>1, <2>2, <2>3, <2>4, <2>5, <2>6, <2>7, <2>8, <2>9 DEF DeviceInv, Typed
  <1>6. CASE /\ Legacy /\ made = {spk, last}
             /\ disk \in {[Wiped EXCEPT !.identity = 1, !.registered = TRUE,
                              !.legacy = spk, !.lastResort = last, !.cache = c] :
                              c \in {NONE, material}}
             /\ torn = (disk.cache = NONE)
             /\ server = [identity |-> 1,
                          spks |-> {[key |-> spk, active |-> TRUE, born |-> 1]},
                          rows |-> [kind \in Kinds |->
                                      IF kind = "kyber"
                                      THEN {[key |-> last, claimed |-> FALSE]} ELSE {}]]
    <2> HIDE DEF spk, last, material
    <2>1. PICK c \in {NONE, material} :
            disk = [identity |-> 1, registered |-> TRUE, spks |-> {}, meta |-> NONE,
                    legacy |-> spk, lastResort |-> last, pool |-> NoKeys, cache |-> c]
      BY <1>6 DEF Wiped
    <2>2. /\ disk.identity = 1 /\ disk.spks = {} /\ disk.meta = NONE /\ disk.legacy = spk
          /\ disk.lastResort = last /\ disk.pool = NoKeys /\ disk.cache = c
      BY <2>1
    <2>3. /\ material.identity = 1 /\ material.spk = spk
          /\ \A kind \in Kinds : material.keys[kind] = IF kind = "kyber" THEN {last} ELSE {}
      BY DEF material
    <2>4. /\ server.identity = 1 /\ server.spks = {[key |-> spk, active |-> TRUE, born |-> 1]}
          /\ DOMAIN server.rows = Kinds
          /\ \A kind \in Kinds : server.rows[kind] =
               IF kind = "kyber" THEN {[key |-> last, claimed |-> FALSE]} ELSE {}
      BY <1>6
    <2>5. used.resets = 0
      BY <1>4
    <2>6. MadeTyped
      <3>1. IsFiniteSet(made)
        <4>1. IsFiniteSet({}) /\ IsFiniteSet({} \cup {spk})
          BY FS_EmptySet, FS_AddElement
        <4>2. IsFiniteSet(({} \cup {spk}) \cup {last})
          BY <4>1, FS_AddElement
        <4>3. QED
          BY <1>6, <4>2
      <3>2. used \in [resets : Nat, rotations : Nat, mishaps : Nat, claims : Nat]
            /\ used.resets <= MaxResets
        BY <1>4, DeviceBoundsAssumption
      <3>3. QED
        BY <1>1, <1>2, <1>4, <1>6, <2>2, <2>5, <3>1, <3>2 DEF MadeTyped
    <2>7. spk \in Spks /\ last \in LastResorts /\ last \in PoolKeys("kyber")
      BY <1>2, <1>6 DEF Spks, LastResorts, PoolKeys
    <2>8. DiskTyped
      <3>1. disk = [identity |-> disk.identity, registered |-> disk.registered,
                    spks |-> disk.spks, meta |-> disk.meta, legacy |-> disk.legacy,
                    lastResort |-> disk.lastResort, pool |-> disk.pool, cache |-> disk.cache]
        BY <2>1
      <3>2. disk.pool \in [Kinds -> SUBSET made] /\ \A kind \in Kinds : disk.pool[kind] = {}
        BY <2>2 DEF NoKeys
      <3>3. QED
        BY <1>2, <2>2, <2>5, <2>7, <3>1, <3>2 DEF DiskTyped, Mine, OneId
    <2>9. CacheTyped
      <3>1. CASE c = NONE
        BY <2>2, <3>1 DEF CacheTyped
      <3>2. CASE c = material
        BY <1>2, <1>3, <2>2, <2>3, <2>7, <3>2 DEF CacheTyped, Mine, OneId
      <3>3. QED
        BY <3>1, <3>2
    <2>10. ServerTyped
      <3>1. server = [identity |-> server.identity, spks |-> server.spks, rows |-> server.rows]
        BY <1>6
      <3>2. IsFiniteSet(server.spks)
        <4>1. IsFiniteSet({}) /\ IsFiniteSet({} \cup {[key |-> spk, active |-> TRUE, born |-> 1]})
          BY FS_EmptySet, FS_AddElement
        <4>2. QED
          BY <2>4, <4>1
      <3>3. server.spks \subseteq [key : Spks, active : BOOLEAN, born : Nat]
        BY <2>4, <2>7
      <3>4. server.rows \in [Kinds -> SUBSET [key : made, claimed : BOOLEAN]]
        BY <1>6
      <3>5. \A kind \in Kinds : \A q, r \in server.rows[kind] :
              r.key \in PoolKeys(kind) /\ (q.key.id = r.key.id => q = r)
        <4>1. \A kind \in Kinds : \A r \in server.rows[kind] :
                kind = "kyber" /\ r = [key |-> last, claimed |-> FALSE]
          BY <2>4
        <4>2. \A kind \in Kinds : \A r \in server.rows[kind] : r.key \in PoolKeys(kind)
          BY <2>7, <4>1
        <4>3. QED
          BY <4>1, <4>2
      <3>6. QED
        BY <2>4, <3>1, <3>2, <3>3, <3>4, <3>5 DEF ServerTyped
    <2>11. ManagerTyped /\ HeldTyped
      BY <1>4, OfKinds DEF ManagerTyped, HeldTyped, Steps, NoKeys
    <2>12. Progress
      BY <1>4, <2>2 DEF Progress, BeforeMeta, Requests
    <2>13. SpksPromised
      BY <1>4, <2>2, <2>3, <2>4 DEF SpksPromised, Promised
    <2>14. LastResortKept
      BY <1>4, <2>2, <2>3, <2>4 DEF LastResortKept, TheLastResort, Published, LastResorts, Kinds
    <2>15. OneTimeInv
      <3>1. ~(last.id >= FirstId["kyber"])
        BY <1>2 DEF LastResortId, FirstId
      <3>2. CachedLive
        BY <2>2, <2>3, <3>1 DEF CachedLive, Published
      <3>3. RowsLive
        BY <2>4, <3>1 DEF RowsLive
      <3>4. QED
        BY <1>4, <3>2, <3>3 DEF OneTimeInv, HandedClaimed, HeldLive, ServingHanded
    <2>16. FilledInv
      <3>1. \A kind \in Kinds : disk.pool[kind] = {} /\ fresh[kind] = {}
        BY <1>4, <2>2 DEF NoKeys
      <3>2. pc \notin Requests \cup {"hydrate"}
        BY <1>4 DEF Requests
      <3>3. torn \/ \A kind \in Kinds : StoredKeys(kind) \subseteq Published(kind)
        BY <1>6, <2>2, <2>3, <3>1 DEF StoredKeys, Published
      <3>4. QED
        BY <3>1, <3>2, <3>3 DEF FilledInv
    <2>17. ServedInv
      <3>1. Cardinality(server.spks) = 1
        BY <2>4, FS_Singleton
      <3>2. QED
        <4>1. \A r \in server.spks : r = [key |-> spk, active |-> TRUE, born |-> 1]
          BY <2>4
        <4>2. spk.id \in Nat
          BY <1>2 DEF LegacyId
        <4>3. \A r \in server.spks : r.born = 1 /\ r.key.id = spk.id
          BY <4>1
        <4>4. BornInOrder(server.spks)
          BY <3>1, <4>2, <4>3 DEF BornInOrder
        <4>5. QED
          BY <1>4, <4>4 DEF ServedInv
    <2>18. QED
      BY <2>6, <2>8, <2>9, <2>10, <2>11, <2>12, <2>13, <2>14, <2>15, <2>16, <2>17
      DEF DeviceInv, Typed
  <1>7. QED
    BY <1>5, <1>6 DEF Init

LEMMA DeviceNext == DeviceInv /\ Next => DeviceInv'
  <1> SUFFICES ASSUME DeviceInv, Next PROVE DeviceInv'
    OBVIOUS
  <1>1. /\ Typed /\ Progress /\ SpksPromised /\ LastResortKept /\ OneTimeInv /\ FilledInv
        /\ ServedInv
    BY DEF DeviceInv
  <1>2. HandedClaimed
    BY <1>1 DEF OneTimeInv
  <1>3. Typed'
    BY <1>1, MadeStep, DiskStep, CacheStep, ServerStep, ManagerStep, HeldStep DEF Typed
  <1>4. OneTimeInv'
    BY <1>1, <1>2, HandedStep, CachedStep, RowsLiveStep, HeldLiveStep DEF OneTimeInv
  <1>5. Progress' /\ SpksPromised' /\ LastResortKept' /\ FilledInv' /\ ServedInv'
    BY <1>1, ProgressStep, SpksStep, LastResortStep, FilledStep, ServedStep
  <1>6. QED
    BY <1>3, <1>4, <1>5 DEF DeviceInv

-----------------------------------------------------------------------------
(***************************************************************************)
(* The theorems. The invariant holds from the start and every step of the  *)
(* manager, of a peer, and every crash keeps it.                           *)
(***************************************************************************)

\* The types, the progress of an initialisation, what is promised to peers, what
\* is published and what is served hold together in every state of the device.
THEOREM DeviceInductive == Spec => []DeviceInv
  <1>1. Init => DeviceInv
    BY DeviceStart
  <1>2. DeviceInv /\ [Next]_vars => DeviceInv'
    <2>1. SUFFICES ASSUME DeviceInv, UNCHANGED vars PROVE DeviceInv'
      BY DeviceNext
    <2>2. /\ disk' = disk /\ server' = server /\ device' = device /\ pc' = pc /\ op' = op
          /\ fresh' = fresh /\ todo' = todo /\ serving' = serving /\ held' = held
          /\ made' = made /\ handed' = handed /\ torn' = torn /\ used' = used
      BY <2>1 DEF vars, managerVars, historyVars
    <2>3. /\ MadeTyped' /\ DiskTyped' /\ CacheTyped' /\ ServerTyped' /\ ManagerTyped' /\ HeldTyped'
      <3>1. Typed
        BY <2>1 DEF DeviceInv
      <3>2. Spks' = Spks /\ LastResorts' = LastResorts
        BY <2>2 DEF Spks, LastResorts
      <3>3. \A kind \in Kinds : OneTimeKeys(kind)' = OneTimeKeys(kind) /\ PoolKeys(kind)' = PoolKeys(kind)
        BY <2>2, <3>2 DEF OneTimeKeys, PoolKeys
      <3>4. MadeTyped'
        BY <2>2, <3>1, <3>3 DEF Typed, MadeTyped, Kinds
      <3>5. DiskTyped'
        BY <2>2, <3>1, <3>2, <3>3 DEF Typed, DiskTyped, Mine
      <3>6. CacheTyped'
        BY <2>2, <3>1, <3>2, <3>3 DEF Typed, CacheTyped, Mine
      <3>7. ServerTyped'
        BY <2>2, <3>1, <3>2, <3>3 DEF Typed, ServerTyped
      <3>8. ManagerTyped' /\ HeldTyped'
        BY <2>2, <3>1 DEF Typed, ManagerTyped, HeldTyped, BundleTyped
      <3>9. QED
        BY <3>4, <3>5, <3>6, <3>7, <3>8
    <2>4. Progress' /\ SpksPromised' /\ LastResortKept'
      BY <2>1, <2>2 DEF DeviceInv, Progress, SpksPromised, Promised, LastResortKept,
         TheLastResort, LastResorts, Published
    <2>5. OneTimeInv' /\ FilledInv' /\ ServedInv'
      <3>1. HandedClaimed' /\ RowsLive'
        BY <2>1, <2>2 DEF DeviceInv, OneTimeInv, HandedClaimed, RowsLive
      <3>2. CachedLive'
        BY <2>1, <2>2 DEF DeviceInv, OneTimeInv, CachedLive, Published
      <3>3. HeldLive' /\ ServingHanded'
        BY <2>1, <2>2 DEF DeviceInv, OneTimeInv, HeldLive, ServingHanded
      <3>4. FilledInv'
        BY <2>1, <2>2 DEF DeviceInv, FilledInv, StoredKeys, Published
      <3>5. ServedInv'
        BY <2>1, <2>2 DEF DeviceInv, ServedInv, BornInOrder
      <3>6. QED
        BY <3>1, <3>2, <3>3, <3>4, <3>5 DEF OneTimeInv
    <2>6. QED
      BY <2>3, <2>4, <2>5 DEF DeviceInv, Typed
  <1>3. QED
    BY <1>1, <1>2, PTL DEF Spec

\* Records, rows and bundles are made of generated key pairs; no two records or
\* rows of a kind share an id, whatever was generated, replaced or put again.
THEOREM DeviceTypeCorrect == Spec => []TypeOK
  <1>1. DeviceInv => TypeOK
    <2> SUFFICES ASSUME DeviceInv PROVE TypeOK
      OBVIOUS
    <2>1. Typed
      BY DEF DeviceInv
    <2>2. /\ disk.spks \cup disk.pool["otp"] \cup disk.pool["kyber"] \subseteq made
          /\ {disk.meta, disk.legacy, disk.lastResort} \subseteq made \cup {NONE}
      BY <2>1 DEF Typed, DiskTyped, Spks, LastResorts, OneTimeKeys, Kinds
    <2>3. OneId(disk.spks) /\ OneId(disk.pool["otp"]) /\ OneId(StoredKeys("kyber"))
      BY <2>1, StoredKeysTyped DEF Typed, DiskTyped, Kinds
    <2>4. \A kind \in Kinds : \A q, r \in server.rows[kind] :
            r.key \in made /\ (q.key.id = r.key.id => q = r)
      BY <2>1 DEF Typed, ServerTyped, PoolKeys, OneTimeKeys, LastResorts
    <2>5. \A keys \in {disk.spks, disk.pool["otp"], StoredKeys("kyber")} :
            \A j, k \in keys : j.id = k.id => j = k
      BY <2>3 DEF OneId
    <2>6. pc \in {"idle", "identity", "registration", "signed", "adopt", "discard",
                  "record", "current", "surplus", "unlegacy", "lastResort", "material",
                  "hydrate", "used kyber", "used otp"}
                 \cup Kinds \cup {Filling[kind] : kind \in Kinds} \cup Requests
      <3>1. Filling["otp"] = "fill otp" /\ Filling["kyber"] = "fill kyber"
            /\ "otp" \in Kinds /\ "kyber" \in Kinds
        BY DEF Filling, Kinds
      <3>2. pc \in Steps
        BY <2>1 DEF Typed, ManagerTyped
      <3>3. CASE pc \in {"fill otp", "fill kyber"}
        BY <3>1, <3>3
      <3>4. CASE pc \notin {"fill otp", "fill kyber"}
        BY <3>1, <3>2, <3>4 DEF Steps, Requests
      <3>5. QED
        BY <3>3, <3>4
    <2>7. made \subseteq Key /\ todo \in Nat /\ (device = NONE \/ device \subseteq made)
      BY <2>1 DEF Typed, MadeTyped, ManagerTyped
    <2>8. QED
      BY <2>2, <2>4, <2>5, <2>6, <2>7 DEF TypeOK
  <1>2. QED
    BY <1>1, DeviceInductive, PTL

\* The private halves of a good bundle that a peer holds are still stored: its
\* signed prekey is published, recent and so promised; its one-time keys were
\* given to it alone; and a last-resort key of this identity is the stored one.
THEOREM ClaimsComplete == Spec => []ClaimCompletes
  <1>1. DeviceInv => ClaimCompletes
    <2> SUFFICES ASSUME DeviceInv, NEW p \in Peers, held[p] # NONE,
                        held[p].identity = disk.identity, Good(held[p]),
                        held[p].otp = NONE \/ held[p].otp.ident = held[p].identity,
                        disk.meta # NONE => disk.meta.id - held[p].spk.id <= Retention
                 PROVE  /\ held[p].spk \in disk.spks \cup {disk.legacy}
                        /\ held[p].otp # NONE => held[p].otp \in disk.pool["otp"]
                        /\ held[p].kyber \in StoredKeys("kyber")
      BY DEF ClaimCompletes
    <2>1. /\ Typed /\ SpksPromised /\ LastResortKept /\ HeldLive
      BY DEF DeviceInv, OneTimeInv
    <2>2. BundleTyped(held[p])
      BY <2>1 DEF Typed, HeldTyped
    <2>3. held[p].spk.ident = disk.identity /\ held[p].kyber.ident = disk.identity
      BY DEF Good
    <2>4. held[p].spk \in disk.spks \cup {disk.legacy}
      BY <2>1, <2>3 DEF SpksPromised, Promised
    <2>5. \A k \in OneTime(held[p]) : k.ident = disk.identity => k \in disk.pool[k.kind]
      BY <2>1 DEF HeldLive
    <2>6. ASSUME held[p].otp # NONE PROVE held[p].otp \in disk.pool["otp"]
      <3>1. held[p].otp \in OneTime(held[p]) /\ held[p].otp.kind = "otp"
        BY <2>1, <2>2, <2>6, OneTimeOf DEF BundleTyped, BundleOf
      <3>2. QED
        BY <2>5, <2>6, <3>1
    <2>7. held[p].kyber \in StoredKeys("kyber")
      <3>1. held[p].kyber \in made /\ held[p].kyber.kind = "kyber"
        BY <2>2 DEF BundleTyped, BundleOf
      <3>2. CASE held[p].kyber.id = LastResortId
        <4>1. held[p].kyber = disk.lastResort
          BY <2>1, <2>3, <3>1, <3>2 DEF LastResortKept, TheLastResort, LastResorts
        <4>2. disk.lastResort # NONE
          BY <2>1, <3>1, <4>1, KeysAreSomething
        <4>3. QED
          BY <4>1, <4>2 DEF StoredKeys
      <3>3. CASE held[p].kyber.id # LastResortId
        <4>1. held[p].kyber \in OneTime(held[p])
          BY <2>1, <2>2, <3>3, OneTimeOf
        <4>2. held[p].kyber \in disk.pool["kyber"]
          BY <2>3, <2>5, <3>1, <4>1
        <4>3. QED
          BY <4>2 DEF StoredKeys
      <3>4. QED
        BY <3>2, <3>3
    <2>8. QED
      BY <2>4, <2>6, <2>7
  <1>2. QED
    BY <1>1, DeviceInductive, PTL

\* Unless the tab died between saving keys and caching them, every stored key is
\* in the material that publications are made of.
THEOREM PublishedWhole == Spec => []PublishedCompletely
  <1>1. DeviceInv => PublishedCompletely
    <2> SUFFICES ASSUME DeviceInv, pc \in {"idle", "hydrate"} \cup Requests, ~torn PROVE Filled
      BY DEF PublishedCompletely
    <2>1. \A kind \in Kinds : StoredKeys(kind) \subseteq Published(kind) \cup fresh[kind]
      BY DEF DeviceInv, FilledInv
    <2>2. \A kind \in Kinds : fresh[kind] \subseteq Published(kind)
      <3>1. CASE pc = "idle"
        BY <3>1 DEF DeviceInv, Progress, NoKeys
      <3>2. CASE pc # "idle"
        BY <3>2 DEF DeviceInv, FilledInv
      <3>3. QED
        BY <3>1, <3>2
    <2>3. QED
      BY <2>1, <2>2 DEF Filled
  <1>2. QED
    BY <1>1, DeviceInductive, PTL

\* After a publication under the first identity the server serves the current
\* signed prekey: its row is active, and no row was born after it, because rows
\* are born in the order of their ids and no published id is higher.
THEOREM PublishedServed == Spec => []PublishedIsServed
  <1>1. DeviceInv => PublishedIsServed
    <2> SUFFICES ASSUME DeviceInv, pc = "hydrate", disk.identity = 1
                 PROVE  server.identity = 1 /\ ServedSpk = disk.meta
      BY DEF PublishedIsServed
    <2>1. Typed /\ Progress /\ SpksPromised /\ ServedInv
      BY DEF DeviceInv
    <2>2. used.resets = 0
      BY <2>1 DEF Typed, MadeTyped, DiskTyped
    <2>3. server.identity = 1
      BY <2>1 DEF Progress
    <2>4. PICK r \in server.spks : r.key = disk.meta /\ r.active
      BY <2>1, <2>2 DEF ServedInv
    <2>5. /\ \A q \in server.spks : q.key \in made /\ q.key.id \in Nat /\ q.born \in Nat
          /\ \A q, x \in server.spks : q.key.id = x.key.id => q = x
      <3>1. \A q \in server.spks : q.key \in made /\ q.born \in Nat
        BY <2>1 DEF Typed, ServerTyped, Spks
      <3>2. QED
        BY <2>1, <3>1, KeysAreSomething DEF Typed, ServerTyped
    <2>6. disk.meta # NONE
      BY <2>1, <2>4, <2>5, KeysAreSomething
    <2>7. \A q \in server.spks : q.key.id <= r.key.id
      <3>1. SUFFICES ASSUME NEW q \in server.spks PROVE q.key.id <= r.key.id
        OBVIOUS
      <3>2. q.key.ident = disk.identity
        BY <2>1, <2>2, <2>5, FirstIdentity
      <3>3. QED
        BY <2>1, <2>4, <2>6, <3>2 DEF SpksPromised, Promised
    <2>8. ServedSpk # NONE
      <3>1. \A q \in {x \in server.spks : x.active} : q.key # NONE
        BY <2>1, <2>5, KeysAreSomething
      <3>2. r \in {x \in server.spks : x.active}
        BY <2>4
      <3>3. PICK x \in {y \in server.spks : y.active} :
              \A q \in {y \in server.spks : y.active} : q.born <= x.born
        <4>1. \A q \in server.spks : q.key.id < r.key.id => q.born < r.born
          BY <2>1, <2>2 DEF ServedInv, BornInOrder
        <4>2. \A q \in server.spks : q.born <= r.born
          BY <2>5, <2>7, <4>1
        <4>3. QED
          BY <3>2, <4>2
      <3>4. QED
        BY <3>1, <3>2, <3>3 DEF ServedSpk
    <2>9. PICK x \in server.spks : /\ ServedSpk = x.key
                                   /\ \A q \in server.spks : q.active => q.born <= x.born
      BY <2>1, <2>8, ServedSpkIsActive
    <2>10. ~(x.key.id < r.key.id)
      <3>1. x.key.id < r.key.id => x.born < r.born
        BY <2>1, <2>2 DEF ServedInv, BornInOrder
      <3>2. r.born <= x.born /\ r.born \in Nat /\ x.born \in Nat
        BY <2>4, <2>5, <2>9
      <3>3. QED
        BY <3>1, <3>2
    <2>11. x = r
      BY <2>5, <2>7, <2>10
    <2>12. QED
      BY <2>3, <2>4, <2>9, <2>11
  <1>2. QED
    BY <1>1, DeviceInductive, PTL

\* No one-time key is handed out twice: the row of a key that was is claimed, an
\* upload leaves it claimed, and no other row has its id.
THEOREM NoKeyTwice == Spec => NoKeyHandedTwice
  <1>1. DeviceInv /\ [Next]_vars =>
          [\A p \in Peers : held[p] = NONE /\ held'[p] # NONE
             => OneTime(held'[p]) \cap handed = {}]_vars
    <2> SUFFICES ASSUME DeviceInv, Next, NEW p \in Peers, held[p] = NONE, held'[p] # NONE
                 PROVE  OneTime(held'[p]) \cap handed = {}
      OBVIOUS
    <2>1. Typed /\ HandedClaimed
      BY DEF DeviceInv, OneTimeInv
    <2>2. held'[p] = Bundle /\ ServedSpk # NONE /\ ServedKyber # NONE
      BY <2>1, HeldAfter
    <2>3. QED
      BY <2>1, <2>2, GivenIsNew
  <1>2. QED
    BY <1>1, DeviceInductive, PTL DEF Spec, NoKeyHandedTwice
=============================================================================
