---------------------------- MODULE RatchetState ----------------------------
(***************************************************************************)
(* Durable ratchet state of one (user, connection): the sealed envelope    *)
(* and its high-water mark, kept in IndexedDB by                           *)
(* src/lib/crypto/ratchet-state.ts, with the uint64 version arithmetic of  *)
(* src/lib/crypto/revision.ts.                                             *)
(*                                                                         *)
(* The store is shared by every tab of the origin. A read or a write is    *)
(* one IndexedDB transaction, hence one step; between two of them anything *)
(* may happen. What is kept of an envelope is what the code compares: its  *)
(* version, the key that sealed it, its random IV (the IV stands for the   *)
(* whole ciphertext in a byte comparison) and the engine state inside.     *)
(***************************************************************************)
EXTENDS DoubleRatchet

CONSTANTS
  MaxRevision,  \* the uint64 ceiling 2^64 - 1, scaled down
  MaxFresh,     \* bound: random values (IVs, keys, session ids) ever drawn
  None          \* an absent record

ASSUME MaxRevisionAssumption == MaxRevision \in Nat \ {0}
ASSUME MaxFreshAssumption == MaxFresh \in Nat
ASSUME NoneAssumption ==
  None \notin [epoch : Nat, revision : Nat, key : Nat, iv : Nat,
               state : EngineState]

VARIABLES
  record,      \* the stored envelope, or None
  watermark,   \* the stored high-water mark, as readWatermark decodes it
  sealingKey,  \* the non-extractable AES key of the user, 0 when absent
  fresh,       \* the next random value nobody has drawn
  committed    \* history: every envelope that was ever durably written

storeVars == <<record, watermark, sealingKey, fresh, committed>>

-----------------------------------------------------------------------------
Envelope == [epoch : Nat, revision : Nat, key : Nat, iv : Nat, state : EngineState]

Watermark == [kind : {"ABSENT", "OK", "MALFORMED"}, epoch : Nat, revision : Nat]

NoWatermark == [kind |-> "ABSENT", epoch |-> 0, revision |-> 0]

Mark(e, r) == [kind |-> "OK", epoch |-> e, revision |-> r]

\* compareVersion(a, b) < 0: by epoch first, then by revision.
Older(a, b) ==
  \/ a.epoch < b.epoch
  \/ a.epoch = b.epoch /\ a.revision < b.revision

SameVersion(a, b) == a.epoch = b.epoch /\ a.revision = b.revision

\* incrementRevision throws REVISION_OVERFLOW at the ceiling.
CanIncrement(n) == n < MaxRevision

\* unseal: AES-GCM authenticates only what this very key has sealed.
Unseals(e) == sealingKey # 0 /\ e.key = sealingKey

\* Mutant: the version of the record is not compared with the mark.
LoadStatusUnanchored ==
  CASE watermark.kind = "MALFORMED"             -> "WEDGED"
    [] watermark.kind = "OK" /\ record = None   -> "ROLLBACK_DETECTED"
    [] watermark.kind = "ABSENT"                -> IF record = None THEN "MISSING" ELSE "WEDGED"
    [] OTHER -> IF Unseals(record) /\ CanIncrement(record.revision) THEN "VALID"
                ELSE "UNSEAL_FAILED"

\* The status loadRatchetState reports for what is stored now.
LoadStatus ==
  CASE watermark.kind = "MALFORMED"                     -> "WEDGED"
    [] watermark.kind = "OK" /\ record = None           -> "ROLLBACK_DETECTED"
    [] watermark.kind = "ABSENT" /\ record = None       -> "MISSING"
    [] watermark.kind = "ABSENT" /\ record # None       -> "WEDGED"
    [] OTHER ->
         IF sealingKey = 0 THEN "KEY_MISSING"
         ELSE IF ~Unseals(record) THEN "UNSEAL_FAILED"
         ELSE IF record.epoch < watermark.epoch THEN "EPOCH_STALE"
         ELSE IF Older(record, watermark) THEN "ROLLBACK_DETECTED"
         ELSE IF ~CanIncrement(record.revision) THEN "WEDGED"
         ELSE "VALID"

-----------------------------------------------------------------------------
(***************************************************************************)
(* commitRatchetState, phase 1. It runs outside any transaction, so what   *)
(* it read is only remembered: phase 2 compares the store with it.         *)
(***************************************************************************)
PreRead == [record |-> record, watermark |-> watermark]

\* Everything phase 1 requires before it seals: a key, a readable watermark,
\* a stored envelope that authenticates and is at the expected version, and
\* a next version above the high-water mark.
CanPrepare(expected) ==
  /\ CanIncrement(expected.revision)
  /\ sealingKey # 0
  /\ watermark.kind # "MALFORMED"
  /\ record # None
  /\ Unseals(record)
  /\ SameVersion(record, expected)
  /\ Older(watermark, [epoch |-> expected.epoch, revision |-> expected.revision + 1])

Sealed(expected, state) ==
  [epoch |-> expected.epoch, revision |-> expected.revision + 1,
   key |-> sealingKey, iv |-> fresh, state |-> state]

\* Mutant: phase 2 trusts what phase 1 read.
CasTrusted(pre, envelope) == watermark.kind # "MALFORMED"

\* Phase 2: the synchronous checks inside the one write transaction.
CasHolds(pre, envelope) ==
  /\ record = pre.record
  /\ watermark.kind # "MALFORMED"
  /\ SameVersion(watermark, pre.watermark)
  /\ Older(watermark, envelope)

\* Mutant: the mark is the bare revision of the older record format.
PutBareRevision(envelope) ==
  /\ record' = envelope
  /\ watermark' = [revision |-> envelope.revision]
  /\ committed' = committed \cup {envelope}

\* Envelope and high-water mark are put in the same transaction.
Put(envelope) ==
  /\ record' = envelope
  /\ watermark' = Mark(envelope.epoch, envelope.revision)
  /\ committed' = committed \cup {envelope}

-----------------------------------------------------------------------------
(***************************************************************************)
(* adoptSessionFromEstablishment: revision 1 of the epoch after the        *)
(* high-water mark. ensureSealingKey creates the key when there is none.   *)
(***************************************************************************)
EnsuredKey == IF sealingKey = 0 THEN fresh ELSE sealingKey

EstablishmentIv == IF sealingKey = 0 THEN fresh + 1 ELSE fresh

CanEstablish ==
  /\ watermark.kind # "MALFORMED"
  /\ CanIncrement(watermark.epoch)

\* The IV doubles as the identity of the handshake: both are fresh.
Established(seen) ==
  [epoch |-> watermark.epoch + 1, revision |-> 1, key |-> EnsuredKey,
   iv |-> EstablishmentIv,
   state |-> [session |-> EstablishmentIv, sent |-> 0, seen |-> seen]]

\* No caller passes replacesEpoch, so a stored record always refuses.
AdoptHolds(pre, envelope) ==
  /\ watermark.kind # "MALFORMED"
  /\ SameVersion(watermark, pre.watermark)
  /\ record = None
  /\ watermark.epoch < envelope.epoch

-----------------------------------------------------------------------------
\* deleteRatchetSession (and deleteUserRatchetState, seen from one
\* connection): envelope and high-water mark go in one transaction.
DeleteSession ==
  /\ record' = None
  /\ watermark' = NoWatermark
  /\ UNCHANGED <<sealingKey, fresh, committed>>

StoreInit ==
  /\ record = None
  /\ watermark = NoWatermark
  /\ sealingKey = 0
  /\ fresh = 1
  /\ committed = {}

StoreTypeOK ==
  /\ record \in Envelope \cup {None}
  /\ watermark \in Watermark
  /\ sealingKey \in Nat
  /\ fresh \in Nat
  /\ committed \subseteq Envelope
=============================================================================
