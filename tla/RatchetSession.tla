--------------------------- MODULE RatchetSession ---------------------------
(***************************************************************************)
(* The encrypt / decrypt sequencer of src/lib/crypto/ratchet-session.ts    *)
(* and the establishment and reset paths of                                *)
(* src/lib/e2ee/session-manager.ts, run by several clients (tabs) over one *)
(* RatchetState store.                                                     *)
(*                                                                         *)
(* One attempt is: load, run a disposable engine, commit in two phases,    *)
(* and only then let the ciphertext (or the plaintext) out. Every await is *)
(* a step boundary, where other clients run and where this one may die.    *)
(* Serialised says whether the session manager's Web Lock surrounds the    *)
(* attempt; without it only the compare-and-swap protects the store.       *)
(***************************************************************************)
EXTENDS RatchetState

CONSTANTS
  Clients,     \* tabs and workers of the origin
  Serialised,  \* TRUE when attempts run under the Web Lock
  Faults,      \* the storage faults that may occur
  MaxFaults,   \* bound: storage faults
  MaxResets    \* bound: peer or device resets the user confirms

ASSUME SerialisedAssumption == Serialised \in BOOLEAN
ASSUME BoundsAssumption == MaxFaults \in Nat /\ MaxResets \in Nat

VARIABLES
  pc,        \* how far the client's attempt has come
  work,      \* the attempt: key used, state loaded, phase-1 reads, new envelope
  released,  \* keys whose ciphertext or plaintext has left the sequencer
  faults,    \* storage faults so far
  resets     \* resets so far

vars == <<storeVars, pc, work, released, faults, resets>>

-----------------------------------------------------------------------------
NoKey == [kind |-> "send", n |-> 0]

NoWork == [key |-> NoKey, loaded |-> None,
           pre |-> [record |-> None, watermark |-> NoWatermark], envelope |-> None]

\* Mutant: nobody asks for the lock.
LockIgnored == TRUE

\* The exclusive Web Lock of the user: no attempt of any client is under way.
LockFree == Serialised => \A d \in Clients : pc[d] = "idle"

Goto(c, label) == pc' = [pc EXCEPT ![c] = label]

Finish(c) ==
  /\ Goto(c, "idle")
  /\ work' = [work EXCEPT ![c] = NoWork]

-----------------------------------------------------------------------------
\* requireEstablishedSession, then a fresh engine over the loaded state: any
\* status but VALID stops the attempt before a key is derived.
Load(c) ==
  /\ pc[c] = "idle"
  /\ LockFree
  /\ LoadStatus = "VALID"
  /\ \E k \in UsableKeys(record.state) :
       work' = [work EXCEPT ![c] = [NoWork EXCEPT !.key = k, !.loaded = record]]
  /\ Goto(c, "loaded")
  /\ UNCHANGED <<storeVars, released, faults, resets>>

\* Commit phase 1 passes all its checks and seals the advanced state.
Prepare(c) ==
  /\ pc[c] = "loaded"
  /\ CanPrepare(work[c].loaded)
  /\ fresh < MaxFresh
  /\ LET loaded == work[c].loaded
         next   == Advance(loaded.state, work[c].key)
     IN  work' = [work EXCEPT ![c] =
           [key |-> @.key, loaded |-> loaded, pre |-> PreRead,
            envelope |-> Sealed(loaded, next)]]
  /\ fresh' = fresh + 1
  /\ Goto(c, "sealed")
  /\ UNCHANGED <<record, watermark, sealingKey, committed, released, faults, resets>>

\* Commit phase 1 throws: the ciphertext is discarded unsent.
PrepareFails(c) ==
  /\ pc[c] = "loaded"
  /\ ~CanPrepare(work[c].loaded)
  /\ Finish(c)
  /\ UNCHANGED <<storeVars, released, faults, resets>>

\* Commit phase 2: nothing moved since phase 1.
Commit(c) ==
  /\ pc[c] = "sealed"
  /\ CasHolds(work[c].pre, work[c].envelope)
  /\ Put(work[c].envelope)
  /\ Goto(c, "committed")
  /\ UNCHANGED <<sealingKey, fresh, work, released, faults, resets>>

\* Commit phase 2 aborts its transaction and throws.
CommitFails(c) ==
  /\ pc[c] = "sealed"
  /\ ~CasHolds(work[c].pre, work[c].envelope)
  /\ Finish(c)
  /\ UNCHANGED <<storeVars, released, faults, resets>>

\* What the attempt lets out: its key, under the IV of its envelope.
Outcome(w) ==
  [session |-> w.envelope.state.session, key |-> w.key, attempt |-> w.envelope.iv]

\* Mutant: externalised before the commit is known to have succeeded.
ExternaliseEarly(c) ==
  /\ pc[c] \in {"sealed", "committed"}
  /\ released' = released \cup {Outcome(work[c])}
  /\ Finish(c)
  /\ UNCHANGED <<storeVars, faults, resets>>

\* The ciphertext goes to send(), or the plaintext is returned.
Externalise(c) ==
  /\ pc[c] = "committed"
  /\ released' = released \cup {Outcome(work[c])}
  /\ Finish(c)
  /\ UNCHANGED <<storeVars, faults, resets>>

-----------------------------------------------------------------------------
(***************************************************************************)
(* Establishment. A sender establishes only when the slot is MISSING, a    *)
(* receiver on any status but VALID, and then the message it decrypts in   *)
(* the handshake is the first one the new session has consumed.            *)
(***************************************************************************)
BeginEstablish(c, key, seen) ==
  /\ pc[c] = "idle"
  /\ LockFree
  /\ CanEstablish
  /\ EstablishmentIv < MaxFresh
  /\ sealingKey' = EnsuredKey
  /\ fresh' = EstablishmentIv + 1
  /\ work' = [work EXCEPT ![c] =
       [key |-> key, loaded |-> None,
        pre |-> PreRead, envelope |-> Established(seen)]]
  /\ UNCHANGED <<record, watermark, committed, released, faults, resets>>

EstablishAsSender(c) ==
  /\ LoadStatus = "MISSING"
  /\ BeginEstablish(c, NoKey, {})
  /\ Goto(c, "initiating")

EstablishAsReceiver(c) ==
  /\ LoadStatus # "VALID"
  /\ \E n \in Incoming : BeginEstablish(c, [kind |-> "receive", n |-> n], {n})
  /\ Goto(c, "accepting")

\* Adoption throws before it seals (the mark is unreadable, or its epoch is at
\* the ceiling); a sealing key it created on the way stays.
EstablishRefused(c) ==
  /\ pc[c] = "idle"
  /\ LockFree
  /\ LoadStatus # "VALID"
  /\ ~CanEstablish
  /\ fresh < MaxFresh
  /\ sealingKey' = EnsuredKey
  /\ fresh' = EstablishmentIv
  /\ UNCHANGED <<record, watermark, committed, pc, work, released, faults, resets>>

\* A sender has nothing to release and goes on with Load.
AdoptAsSender(c) ==
  /\ pc[c] = "initiating"
  /\ AdoptHolds(work[c].pre, work[c].envelope)
  /\ Put(work[c].envelope)
  /\ Finish(c)
  /\ UNCHANGED <<sealingKey, fresh, released, faults, resets>>

\* A receiver goes on to return the plaintext of the handshake message.
AdoptAsReceiver(c) ==
  /\ pc[c] = "accepting"
  /\ AdoptHolds(work[c].pre, work[c].envelope)
  /\ Put(work[c].envelope)
  /\ Goto(c, "committed")
  /\ UNCHANGED <<sealingKey, fresh, work, released, faults, resets>>

AdoptFails(c) ==
  /\ pc[c] \in {"initiating", "accepting"}
  /\ ~AdoptHolds(work[c].pre, work[c].envelope)
  /\ Finish(c)
  /\ UNCHANGED <<storeVars, released, faults, resets>>

-----------------------------------------------------------------------------
\* resetPeerSecurityState and resetDeviceIdentity, seen from this store.
Reset ==
  /\ resets < MaxResets
  /\ LockFree
  /\ DeleteSession
  /\ resets' = resets + 1
  /\ UNCHANGED <<pc, work, released, faults>>

\* The tab dies. What was not written is gone, and the lock is released.
Crash(c) ==
  /\ pc[c] # "idle"
  /\ Finish(c)
  /\ UNCHANGED <<storeVars, released, faults, resets>>

(***************************************************************************)
(* Storage faults the load statuses exist for: the record is lost, it is   *)
(* replaced by an older one that still authenticates (a restored profile), *)
(* the mark is unreadable, or the sealing key is evicted.                  *)
(***************************************************************************)
StorageFault ==
  /\ faults < MaxFaults
  /\ faults' = faults + 1
  /\ \/ /\ "lost" \in Faults
        /\ record' = None
        /\ UNCHANGED <<watermark, sealingKey>>
     \/ /\ "restored" \in Faults
        /\ record' \in committed
        /\ UNCHANGED <<watermark, sealingKey>>
     \/ /\ "garbled" \in Faults
        /\ watermark' = [kind |-> "MALFORMED", epoch |-> 0, revision |-> 0]
        /\ UNCHANGED <<record, sealingKey>>
     \/ /\ "evicted" \in Faults
        /\ sealingKey' = 0
        /\ UNCHANGED <<record, watermark>>
  /\ UNCHANGED <<fresh, committed, pc, work, released, resets>>

-----------------------------------------------------------------------------
Init ==
  /\ StoreInit
  /\ pc = [c \in Clients |-> "idle"]
  /\ work = [c \in Clients |-> NoWork]
  /\ released = {}
  /\ faults = 0
  /\ resets = 0

ClientStep(c) ==
  \/ Load(c) \/ Prepare(c) \/ PrepareFails(c) \/ Commit(c) \/ CommitFails(c)
  \/ Externalise(c) \/ Crash(c)
  \/ EstablishAsSender(c) \/ EstablishAsReceiver(c) \/ EstablishRefused(c)
  \/ AdoptAsSender(c) \/ AdoptAsReceiver(c) \/ AdoptFails(c)

Next ==
  \/ \E c \in Clients : ClientStep(c)
  \/ Reset
  \/ StorageFault

Spec == Init /\ [][Next]_vars

-----------------------------------------------------------------------------
Labels == {"idle", "loaded", "sealed", "committed", "initiating", "accepting"}

Work == [key : Keys, loaded : Envelope \cup {None},
         pre : [record : Envelope \cup {None}, watermark : Watermark],
         envelope : Envelope \cup {None}]

\* The store and every attempt stay within their types.
TypeOK ==
  /\ StoreTypeOK
  /\ pc \in [Clients -> Labels]
  /\ work \in [Clients -> Work]
  /\ released \subseteq Release
  /\ faults \in Nat
  /\ resets \in Nat

(***************************************************************************)
(* No message key is ever released for two different attempts: the         *)
(* two-time pad that RULE 1 and RULE 2 of ratchet-session.ts exist to      *)
(* exclude, across tabs, crashes at every point and rolled-back storage.   *)
(***************************************************************************)
KeyReleasedOnce ==
  \A x, y \in released :
    x.session = y.session /\ x.key = y.key => x.attempt = y.attempt

(***************************************************************************)
(* COMMIT BEFORE EXTERNALIZATION, seen by whoever loads next: a state that *)
(* loads as VALID has consumed every key its session ever released, so a   *)
(* restart, a lost race or a restored record cannot bring one back.        *)
(***************************************************************************)
ReleasedIsSpent ==
  LoadStatus = "VALID" =>
    \A x \in released :
      x.session = record.state.session => Spent(x.key, record.state)

(***************************************************************************)
(* Each handshake has one linear history: two envelopes at the same        *)
(* revision of a session are the same envelope, a later one has consumed   *)
(* all that an earlier one had, whoever wrote them.                        *)
(***************************************************************************)
LinearHistory ==
  \A e, f \in committed :
    e.state.session = f.state.session /\ e.revision <= f.revision =>
      /\ e.revision = f.revision => e = f
      /\ e.state.sent <= f.state.sent
      /\ e.state.seen \subseteq f.state.seen

(***************************************************************************)
(* Invariant A of ratchet-state.ts: a state that loads as VALID is never   *)
(* followed by an older one, except when a reset empties the slot.         *)
(***************************************************************************)
NeverOlder ==
  [][LoadStatus = "VALID" /\ (LoadStatus = "VALID")' => ~Older(record', record)]_vars

(***************************************************************************)
(* deleteRatchetSession says that after it "no stale pair can ever compare *)
(* as current": a compare-and-swap that would pass is one over the very    *)
(* envelope the attempt had loaded.                                        *)
(***************************************************************************)
NoStalePair ==
  \A c \in Clients :
    pc[c] = "sealed" /\ CasHolds(work[c].pre, work[c].envelope) =>
      record = work[c].loaded

(***************************************************************************)
(* The sequencer keeps the promise of KeyLedger: the chain of a handshake  *)
(* is the last envelope committed for it, a key is promised from the       *)
(* commit of its attempt to its release.                                   *)
(***************************************************************************)
Latest ==
  {e \in committed :
     \A f \in committed : f.state.session = e.state.session => f.revision <= e.revision}

Ledger == INSTANCE KeyLedger WITH
  Names <- 0..MaxFresh,
  chains <- {e.state : e \in Latest},
  promised <- {Outcome(work[c]) : c \in {d \in Clients : pc[d] = "committed"}},
  ledger <- released

KeepsLedger == Ledger!Spec
=============================================================================
