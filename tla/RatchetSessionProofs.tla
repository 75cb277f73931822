------------------------ MODULE RatchetSessionProofs ------------------------
(***************************************************************************)
(* What the compare-and-swap of ratchet-state.ts guarantees for any number *)
(* of tabs, any storage faults and any bounds, with or without the Web     *)
(* Lock, as long as no session is deleted (MaxResets = 0). Then, that the  *)
(* sequencer implements KeyLedger: by the compare-and-swap alone as long   *)
(* as no session is deleted, and through deletions too when attempts run   *)
(* under the Web Lock. What KeyLedger promises then holds of it.           *)
(***************************************************************************)
EXTENDS RatchetSession, TLAPS

-----------------------------------------------------------------------------
(***************************************************************************)
(* The inductive invariant. The store: what is stored was committed, the   *)
(* mark bounds every commit, an epoch is one handshake, and along an epoch *)
(* revisions identify envelopes and only consume more keys.                *)
(***************************************************************************)
MarkInv ==
  /\ record # None => record \in committed
  /\ watermark.kind = "ABSENT" => committed = {}
  /\ watermark.kind = "OK" => \A e \in committed : ~Older(watermark, e)

EpochInv ==
  \A e, f \in committed : e.epoch = f.epoch <=> e.state.session = f.state.session

ChainInv ==
  \A e, f \in committed :
    e.epoch = f.epoch /\ e.revision <= f.revision =>
      /\ e.revision = f.revision => e = f
      /\ NotBehind(f.state, e.state)

FreshInv == \A e \in committed : e.state.session < fresh

StoreInv == MarkInv /\ EpochInv /\ ChainInv /\ FreshInv

\* e is the first envelope of its epoch in which k is spent.
FirstUse(k, e) ==
  /\ e \in committed
  /\ Spent(k, e.state)
  /\ \A f \in committed : f.epoch = e.epoch /\ f.revision < e.revision => ~Spent(k, f.state)

LoadedInv(c) ==
  /\ work[c].loaded \in committed
  /\ Usable(work[c].key, work[c].loaded.state)

SealedInv(c) ==
  /\ work[c].pre.record \in committed
  /\ SameVersion(work[c].pre.record, work[c].loaded)
  /\ work[c].envelope \in Envelope
  /\ work[c].envelope.epoch = work[c].loaded.epoch
  /\ work[c].envelope.revision = work[c].loaded.revision + 1
  /\ work[c].envelope.state = Advance(work[c].loaded.state, work[c].key)

Establishing(c) == pc[c] \in {"initiating", "accepting"}

EstablishInv(c) ==
  /\ work[c].envelope \in Envelope
  /\ work[c].envelope.revision = 1
  /\ work[c].envelope.state.sent = 0
  /\ work[c].envelope.state.session < fresh
  /\ \A e \in committed : e.state.session # work[c].envelope.state.session
  /\ pc[c] = "accepting" => Spent(work[c].key, work[c].envelope.state)
  /\ \A d \in Clients \ {c} :
       Establishing(d) => work[d].envelope.state.session # work[c].envelope.state.session

WorkInv(c) ==
  /\ pc[c] \in {"loaded", "sealed"} => LoadedInv(c)
  /\ pc[c] = "sealed" => SealedInv(c)
  /\ pc[c] = "committed" => FirstUse(work[c].key, work[c].envelope)
  /\ Establishing(c) => EstablishInv(c)

ReleasedInv ==
  \A x \in released :
    \E e \in committed :
      e.iv = x.attempt /\ e.state.session = x.session /\ FirstUse(x.key, e)

IInv ==
  /\ TypeOK
  /\ resets = 0
  /\ StoreInv
  /\ \A c \in Clients : WorkInv(c)
  /\ ReleasedInv

-----------------------------------------------------------------------------
\* Advancing a state by a key stays within the engine states.
LEMMA AdvanceType ==
  ASSUME NEW s \in EngineState, NEW k \in Keys
  PROVE  Advance(s, k) \in EngineState
  BY DEF EngineState, Keys, Advance

\* The usable keys are keys, and exactly the ones Usable accepts.
LEMMA UsableKeysUsable ==
  ASSUME NEW s \in EngineState, NEW k \in UsableKeys(s)
  PROVE  k \in Keys /\ Usable(k, s)
  BY DEF EngineState, UsableKeys, Keys, Usable

\* A state that loads as VALID is there, is not below a readable mark and
\* may still advance.
LEMMA ValidRecord ==
  ASSUME TypeOK, LoadStatus = "VALID"
  PROVE  /\ record \in Envelope
         /\ watermark.kind = "OK"
         /\ ~Older(record, watermark)
  <1>1. watermark.kind = "OK" /\ record # None
    BY DEF LoadStatus, TypeOK, StoreTypeOK, Watermark
  <1>2. ~Older(record, watermark)
    BY <1>1, Zenon DEF LoadStatus
  <1>3. QED
    BY <1>1, <1>2 DEF TypeOK, StoreTypeOK

\* An attempt past its load has a state, one past its seal an envelope.
AttemptTyped ==
  \A c \in Clients :
    /\ pc[c] \in {"loaded", "sealed"} => work[c].loaded \in Envelope
    /\ pc[c] \in {"sealed", "committed", "initiating", "accepting"} =>
         work[c].envelope \in Envelope

LEMMA TypeInit == Init => TypeOK /\ AttemptTyped
  BY DEF Init, StoreInit, TypeOK, StoreTypeOK, NoWork, NoKey, Work, Keys, NoWatermark,
         Watermark, Labels, AttemptTyped

LEMMA NoWorkType == NoWork \in Work
  BY DEF NoWork, NoKey, Work, Keys, NoWatermark, Watermark

\* Ending an attempt keeps the types of both client variables.
LEMMA FinishType ==
  ASSUME TypeOK, AttemptTyped, NEW c \in Clients, Finish(c)
  PROVE  /\ pc' \in [Clients -> Labels]
         /\ work' \in [Clients -> Work]
         /\ AttemptTyped'
  BY NoWorkType DEF Finish, Goto, TypeOK, AttemptTyped, Labels

LEMMA PutType ==
  ASSUME TypeOK, NEW e \in Envelope, Put(e)
  PROVE  /\ record' \in Envelope \cup {None}
         /\ watermark' \in Watermark
         /\ committed' \subseteq Envelope
  BY DEF Put, TypeOK, StoreTypeOK, Mark, Watermark, Envelope

LEMMA EstablishType ==
  ASSUME TypeOK, AttemptTyped, NEW c \in Clients,
         NEW key \in Keys, NEW seen \in SUBSET Incoming, NEW label,
         BeginEstablish(c, key, seen), label \in {"initiating", "accepting"},
         Goto(c, label)
  PROVE  TypeOK' /\ AttemptTyped'
  <1> DEFINE e == Established(seen)
             w == [key |-> key, loaded |-> None, pre |-> PreRead, envelope |-> e]
  <1>1. EstablishmentIv \in Nat /\ EnsuredKey \in Nat
    BY DEF TypeOK, StoreTypeOK, EstablishmentIv, EnsuredKey
  <1>2. e \in Envelope
    BY <1>1 DEF Established, Envelope, EngineState, TypeOK, StoreTypeOK, Watermark
  <1>3. w \in Work
    BY <1>2 DEF Work, PreRead, TypeOK, StoreTypeOK
  <1>4. work' = [work EXCEPT ![c] = w]
    BY DEF BeginEstablish
  <1>5. sealingKey' \in Nat /\ fresh' \in Nat
    BY <1>1 DEF BeginEstablish
  <1>6. TypeOK'
    BY <1>3, <1>4, <1>5 DEF BeginEstablish, Goto, TypeOK, StoreTypeOK, Labels
  <1>7. AttemptTyped'
    BY <1>2, <1>4 DEF Goto, AttemptTyped, TypeOK
  <1>8. QED
    BY <1>6, <1>7

LEMMA LoadType ==
  ASSUME TypeOK, AttemptTyped, NEW c \in Clients, Load(c)
  PROVE  TypeOK' /\ AttemptTyped'
  <1>1. PICK k \in UsableKeys(record.state) :
          work' = [work EXCEPT ![c] = [NoWork EXCEPT !.key = k, !.loaded = record]]
    BY DEF Load
  <1>2. record \in Envelope
    BY ValidRecord DEF Load
  <1>3. k \in Keys
    BY <1>2, UsableKeysUsable DEF Envelope
  <1> DEFINE w == [NoWork EXCEPT !.key = k, !.loaded = record]
  <1>4. w \in Work /\ w.loaded = record
    BY NoWorkType, <1>2, <1>3 DEF Work, NoWork
  <1>5. TypeOK'
    BY <1>1, <1>4 DEF Load, Goto, Labels, TypeOK, StoreTypeOK, storeVars
  <1>6. AttemptTyped'
    BY <1>1, <1>2, <1>4 DEF Load, Goto, AttemptTyped, TypeOK
  <1>7. QED
    BY <1>5, <1>6

LEMMA PrepareType ==
  ASSUME TypeOK, AttemptTyped, NEW c \in Clients, Prepare(c)
  PROVE  TypeOK' /\ AttemptTyped'
  <1> DEFINE loaded == work[c].loaded
             e == Sealed(loaded, Advance(loaded.state, work[c].key))
             w == [key |-> work[c].key, loaded |-> loaded, pre |-> PreRead, envelope |-> e]
  <1>1. work[c] \in Work /\ loaded \in Envelope
    BY DEF Prepare, AttemptTyped, TypeOK
  <1>2. Advance(loaded.state, work[c].key) \in EngineState
    BY <1>1, AdvanceType DEF Envelope, Work
  <1>3. e \in Envelope
    BY <1>1, <1>2 DEF Sealed, Envelope, TypeOK, StoreTypeOK
  <1>4. w \in Work
    BY <1>1, <1>3 DEF Work, PreRead, TypeOK, StoreTypeOK
  <1>5. work' = [work EXCEPT ![c] = w]
    BY DEF Prepare
  <1>6. TypeOK'
    BY <1>4, <1>5 DEF Prepare, Goto, Labels, TypeOK, StoreTypeOK
  <1>7. AttemptTyped'
    BY <1>1, <1>3, <1>5 DEF Prepare, Goto, AttemptTyped, TypeOK
  <1>8. QED
    BY <1>6, <1>7

LEMMA ClientStepType ==
  ASSUME TypeOK, AttemptTyped, NEW c \in Clients, ClientStep(c)
  PROVE  TypeOK' /\ AttemptTyped'
  <1> USE DEF TypeOK, StoreTypeOK
  <1>1. CASE Load(c)
    BY <1>1, LoadType
  <1>2. CASE Prepare(c)
    BY <1>2, PrepareType
  <1>3. CASE PrepareFails(c) \/ CommitFails(c) \/ Crash(c) \/ AdoptFails(c)
    BY <1>3, FinishType DEF PrepareFails, CommitFails, Crash, AdoptFails, storeVars
  <1>4. CASE Commit(c)
    <2>1. work[c].envelope \in Envelope
      BY <1>4 DEF Commit, AttemptTyped
    <2>2. QED
      BY <1>4, <2>1, PutType DEF Commit, Goto, Labels, AttemptTyped
  <1>5. CASE Externalise(c)
    <2>1. work[c].envelope \in Envelope /\ work[c].key \in Keys
      BY <1>5 DEF Externalise, AttemptTyped, Work
    <2>2. Outcome(work[c]) \in Release
      BY <2>1 DEF Outcome, Release, Envelope, EngineState
    <2>3. QED
      BY <1>5, <2>2, FinishType DEF Externalise, storeVars
  <1>6. CASE EstablishAsSender(c)
    <2>1. NoKey \in Keys
      BY DEF NoKey, Keys
    <2>2. QED
      BY <1>6, <2>1, EstablishType DEF EstablishAsSender
  <1>7. CASE EstablishAsReceiver(c)
    <2>1. PICK n \in Incoming : BeginEstablish(c, [kind |-> "receive", n |-> n], {n})
      BY <1>7 DEF EstablishAsReceiver
    <2>2. [kind |-> "receive", n |-> n] \in Keys
      BY DEF Keys
    <2>3. QED
      BY <1>7, <2>1, <2>2, EstablishType DEF EstablishAsReceiver
  <1>8. CASE AdoptAsSender(c)
    <2>1. work[c].envelope \in Envelope
      BY <1>8 DEF AdoptAsSender, AttemptTyped
    <2>2. QED
      BY <1>8, <2>1, PutType, FinishType DEF AdoptAsSender
  <1>9. CASE AdoptAsReceiver(c)
    <2>1. work[c].envelope \in Envelope
      BY <1>9 DEF AdoptAsReceiver, AttemptTyped
    <2>2. QED
      BY <1>9, <2>1, PutType DEF AdoptAsReceiver, Goto, Labels, AttemptTyped
  <1>10. CASE EstablishRefused(c)
    BY <1>10 DEF EstablishRefused, EnsuredKey, EstablishmentIv, AttemptTyped
  <1>11. QED
    BY <1>1, <1>2, <1>3, <1>4, <1>5, <1>6, <1>7, <1>8, <1>9, <1>10 DEF ClientStep

LEMMA TypeStep ==
  ASSUME TypeOK, AttemptTyped, [Next]_vars
  PROVE  TypeOK' /\ AttemptTyped'
  <1>1. ASSUME NEW c \in Clients, ClientStep(c) PROVE TypeOK' /\ AttemptTyped'
    BY <1>1, ClientStepType
  <1>2. CASE Reset
    BY <1>2 DEF Reset, DeleteSession, NoWatermark, Watermark, TypeOK, StoreTypeOK, AttemptTyped
  <1>3. CASE StorageFault
    BY <1>3 DEF StorageFault, Watermark, TypeOK, StoreTypeOK, AttemptTyped
  <1>4. CASE UNCHANGED vars
    BY <1>4 DEF vars, storeVars, TypeOK, StoreTypeOK, AttemptTyped
  <1>5. QED
    BY <1>1, <1>2, <1>3, <1>4 DEF Next

(***************************************************************************)
(* Every variable keeps its type, whatever the constants: versions stay    *)
(* natural numbers through commits, handshakes, resets and faults.         *)
(***************************************************************************)
THEOREM TypeCorrect == Spec => []TypeOK
  <1>1. TypeOK /\ AttemptTyped /\ [Next]_vars => (TypeOK /\ AttemptTyped)'
    BY TypeStep
  <1>2. QED
    BY TypeInit, <1>1, PTL DEF Spec

-----------------------------------------------------------------------------
\* Using a key spends it, un-spends nothing, and stays in the handshake.
LEMMA AdvanceSpends ==
  ASSUME NEW s \in EngineState, NEW k \in Keys, Usable(k, s)
  PROVE  /\ ~Spent(k, s)
         /\ Spent(k, Advance(s, k))
         /\ NotBehind(Advance(s, k), s)
         /\ Advance(s, k).session = s.session
  BY DEF EngineState, Keys, Usable, Spent, NotBehind, Advance

\* A state that is not behind has spent at least the same keys.
LEMMA SpentStays ==
  ASSUME NEW s \in EngineState, NEW t \in EngineState, NEW k \in Keys,
         NotBehind(t, s), Spent(k, s)
  PROVE  Spent(k, t)
  BY DEF EngineState, Keys, Spent, NotBehind

LEMMA NotBehindTrans ==
  ASSUME NEW s \in EngineState, NEW t \in EngineState, NEW u \in EngineState,
         NotBehind(t, s), NotBehind(u, t)
  PROVE  NotBehind(u, s)
  BY DEF EngineState, NotBehind

\* An envelope put above the mark is above everything committed before.
LEMMA PutAbove ==
  ASSUME StoreTypeOK, StoreInv, NEW e \in Envelope, Put(e),
         watermark.kind # "MALFORMED", Older(watermark, e)
  PROVE  /\ MarkInv'
         /\ \A f \in committed : Older(f, e)
  <1>1. \A f \in committed : Older(f, e)
    <2> SUFFICES ASSUME NEW f \in committed PROVE Older(f, e)
      OBVIOUS
    <2>1. watermark.kind = "OK" /\ ~Older(watermark, f)
      BY DEF StoreInv, MarkInv, StoreTypeOK, Watermark
    <2>2. QED
      BY <2>1 DEF Older, StoreTypeOK, Watermark, Envelope
  <1>2. watermark'.kind = "OK" /\ SameVersion(watermark', e)
    BY DEF Put, Mark, SameVersion
  <1>3. \A f \in committed' : ~Older(watermark', f)
    BY <1>1, <1>2 DEF Put, Older, SameVersion, StoreTypeOK, Envelope
  <1>4. record' \in committed'
    BY DEF Put
  <1>5. QED
    BY <1>1, <1>2, <1>3, <1>4 DEF MarkInv

\* A first use survives any envelope put above everything committed.
LEMMA FirstUseStays ==
  ASSUME StoreTypeOK, NEW e \in Envelope, Put(e), \A f \in committed : Older(f, e),
         NEW k, NEW g, FirstUse(k, g)
  PROVE  FirstUse(k, g)'
  BY DEF FirstUse, Put, Older, StoreTypeOK, Envelope

(***************************************************************************)
(* A commit that extends a committed envelope by one usable key, above the *)
(* mark, keeps the store invariant and is the first use of that key: this  *)
(* is where the watermark comparison of phase 2 earns its place.           *)
(***************************************************************************)
LEMMA ExtendStore ==
  ASSUME StoreTypeOK, StoreInv, NEW l \in committed, NEW k \in Keys, NEW e \in Envelope,
         Usable(k, l.state), e.epoch = l.epoch, e.revision = l.revision + 1,
         e.state = Advance(l.state, k), Put(e), fresh' = fresh,
         watermark.kind # "MALFORMED", Older(watermark, e)
  PROVE  StoreInv' /\ FirstUse(k, e)'
  <1>1. MarkInv' /\ \A f \in committed : Older(f, e)
    BY PutAbove
  <1>2. l \in Envelope /\ l.state \in EngineState /\ e.state \in EngineState
    BY DEF StoreTypeOK, Envelope
  <1>3. /\ ~Spent(k, l.state) /\ Spent(k, e.state)
        /\ NotBehind(e.state, l.state) /\ e.state.session = l.state.session
    BY <1>2, AdvanceSpends
  <1>4. committed' = committed \cup {e}
    BY DEF Put
  <1>5. \A f \in committed : f.epoch = e.epoch =>
          /\ f.revision <= l.revision
          /\ f.revision < e.revision
          /\ NotBehind(l.state, f.state)
          /\ NotBehind(e.state, f.state)
    <2> SUFFICES ASSUME NEW f \in committed, f.epoch = e.epoch
                 PROVE  /\ f.revision <= l.revision
                        /\ f.revision < e.revision
                        /\ NotBehind(l.state, f.state)
                        /\ NotBehind(e.state, f.state)
      OBVIOUS
    <2>1. f \in Envelope /\ f.state \in EngineState
      BY DEF StoreTypeOK, Envelope
    <2>2. f.revision < e.revision /\ f.revision <= l.revision
      BY <1>1, <1>2, <2>1 DEF Older, Envelope
    <2>3. NotBehind(l.state, f.state)
      BY <2>2 DEF StoreInv, ChainInv
    <2>4. QED
      BY <1>2, <1>3, <2>1, <2>2, <2>3, NotBehindTrans
  <1>6. EpochInv'
    BY <1>3, <1>4 DEF StoreInv, EpochInv
  <1>7. ChainInv'
    <2> SUFFICES ASSUME NEW f \in committed', NEW g \in committed',
                        f.epoch = g.epoch, f.revision <= g.revision
                 PROVE  /\ f.revision = g.revision => f = g
                        /\ NotBehind(g.state, f.state)
      BY DEF ChainInv
    <2>1. CASE f \in committed /\ g \in committed
      BY <2>1 DEF StoreInv, ChainInv
    <2>2. CASE f \in committed /\ g = e
      BY <1>5, <2>2 DEF StoreTypeOK, Envelope
    <2>3. CASE f = e /\ g = e
      BY <1>2, <2>3 DEF NotBehind, EngineState
    <2>4. CASE f = e /\ g \in committed
      BY <1>5, <2>4 DEF StoreTypeOK, Envelope
    <2>5. QED
      BY <1>4, <2>1, <2>2, <2>3, <2>4
  <1>8. FreshInv'
    BY <1>3, <1>4 DEF StoreInv, FreshInv
  <1>9. FirstUse(k, e)'
    <2> SUFFICES ASSUME NEW f \in committed', f.epoch = e.epoch, f.revision < e.revision
                 PROVE  ~Spent(k, f.state)
      BY <1>3, <1>4 DEF FirstUse
    <2>1. f \in committed
      BY <1>4 DEF Envelope
    <2>2. f.state \in EngineState /\ NotBehind(l.state, f.state)
      BY <1>5, <2>1 DEF StoreTypeOK, Envelope
    <2>3. QED
      BY <1>2, <1>3, <2>2, SpentStays
  <1>10. QED
    BY <1>1, <1>6, <1>7, <1>8, <1>9 DEF StoreInv

\* A handshake adopted in an epoch above the mark opens a new chain.
LEMMA OpenStore ==
  ASSUME StoreTypeOK, StoreInv, NEW e \in Envelope, e.state.session < fresh,
         \A f \in committed : f.state.session # e.state.session,
         Put(e), fresh' = fresh, watermark.kind # "MALFORMED", watermark.epoch < e.epoch
  PROVE  /\ StoreInv'
         /\ \A k \in Keys : Spent(k, e.state) /\ e.revision = 1 => FirstUse(k, e)'
  <1>1. Older(watermark, e)
    BY DEF Older
  <1>2. MarkInv' /\ \A f \in committed : Older(f, e)
    BY <1>1, PutAbove
  <1>3. committed' = committed \cup {e}
    BY DEF Put
  <1>4. \A f \in committed : f.epoch # e.epoch
    <2> SUFFICES ASSUME NEW f \in committed PROVE f.epoch # e.epoch
      OBVIOUS
    <2>1. watermark.kind = "OK" /\ ~Older(watermark, f)
      BY DEF StoreInv, MarkInv, StoreTypeOK, Watermark
    <2>2. QED
      BY <2>1 DEF Older, StoreTypeOK, Watermark, Envelope
  <1>5. EpochInv'
    BY <1>3, <1>4 DEF StoreInv, EpochInv
  <1>6. ChainInv'
    BY <1>3, <1>4 DEF StoreInv, ChainInv, NotBehind, Envelope, EngineState
  <1>7. FreshInv'
    BY <1>3 DEF StoreInv, FreshInv
  <1>8. \A k \in Keys : Spent(k, e.state) /\ e.revision = 1 => FirstUse(k, e)'
    BY <1>3, <1>4 DEF FirstUse
  <1>9. QED
    BY <1>2, <1>5, <1>6, <1>7, <1>8 DEF StoreInv

-----------------------------------------------------------------------------
\* The store after a step, as the clients that took no part in it see it.
StoreGrew ==
  /\ committed \subseteq committed'
  /\ fresh' \in Nat /\ fresh <= fresh'
  /\ \A k \in Keys, f \in Envelope : FirstUse(k, f) => FirstUse(k, f)'

\* No envelope committed by the step belongs to the handshake d prepares,
\* nor does a handshake another client has begun.
Undisturbed(d) ==
  Establishing(d) =>
    /\ \A e \in committed' : e.state.session # work[d].envelope.state.session
    /\ \A c \in Clients \ {d} :
         Establishing(c)' =>
           work'[c].envelope.state.session # work[d].envelope.state.session

LEMMA WorkStable ==
  ASSUME TypeOK, AttemptTyped, NEW d \in Clients, WorkInv(d),
         work'[d] = work[d], pc'[d] = pc[d], StoreGrew, Undisturbed(d)
  PROVE  WorkInv(d)'
  <1>1. work[d] \in Work
    BY DEF TypeOK
  <1>2. pc[d] \in {"loaded", "sealed"} => LoadedInv(d)'
    BY DEF WorkInv, LoadedInv, StoreGrew
  <1>3. pc[d] = "sealed" => SealedInv(d)'
    BY DEF WorkInv, SealedInv, StoreGrew
  <1>4. pc[d] = "committed" => FirstUse(work[d].key, work[d].envelope)'
    BY <1>1 DEF WorkInv, StoreGrew, AttemptTyped, Work
  <1>5. Establishing(d) => EstablishInv(d)'
    <2> SUFFICES ASSUME Establishing(d) PROVE EstablishInv(d)'
      OBVIOUS
    <2>1. EstablishInv(d)
      BY DEF WorkInv
    <2>2. work[d].envelope.state.session < fresh'
      BY <2>1 DEF EstablishInv, StoreGrew, Envelope, EngineState, TypeOK, StoreTypeOK
    <2>3. \A c \in Clients \ {d} : Establishing(c)' =>
            work'[c].envelope.state.session # work'[d].envelope.state.session
      BY DEF Undisturbed
    <2>4. QED
      BY <2>1, <2>2, <2>3 DEF EstablishInv, Undisturbed
  <1>6. QED
    BY <1>2, <1>3, <1>4, <1>5 DEF WorkInv, Establishing

\* A first use is in the store, so it needs only the store to stay.
LEMMA StoreSame ==
  ASSUME StoreTypeOK, committed' = committed, fresh' \in Nat, fresh <= fresh'
  PROVE  StoreGrew
  BY DEF StoreGrew, FirstUse

LEMMA PutGrew ==
  ASSUME StoreTypeOK, NEW e \in Envelope, Put(e), \A f \in committed : Older(f, e),
         fresh' = fresh
  PROVE  StoreGrew
  <1>1. \A k \in Keys, f \in Envelope : FirstUse(k, f) => FirstUse(k, f)'
    BY FirstUseStays
  <1>2. committed \subseteq committed'
    BY DEF Put
  <1>3. QED
    BY <1>1, <1>2 DEF StoreGrew, StoreTypeOK

\* What was released keeps its envelope while the store grows.
LEMMA ReleasedStays ==
  ASSUME TypeOK, ReleasedInv, StoreGrew, released' = released
  PROVE  ReleasedInv'
  <1> SUFFICES ASSUME NEW x \in released
               PROVE  \E e \in committed' : e.iv = x.attempt /\ e.state.session = x.session
                                            /\ FirstUse(x.key, e)'
    BY DEF ReleasedInv
  <1>1. PICK e \in committed :
          e.iv = x.attempt /\ e.state.session = x.session /\ FirstUse(x.key, e)
    BY DEF ReleasedInv
  <1>2. x.key \in Keys /\ e \in Envelope
    BY DEF TypeOK, StoreTypeOK, Release
  <1>3. QED
    BY <1>1, <1>2 DEF StoreGrew

\* What a client leaves alone when only it moves.
Alone(c) ==
  /\ \A d \in Clients \ {c} : work'[d] = work[d] /\ pc'[d] = pc[d]

LEMMA FinishAlone ==
  ASSUME TypeOK, NEW c \in Clients, Finish(c)
  PROVE  Alone(c) /\ pc'[c] = "idle"
  BY DEF TypeOK, Finish, Goto, Alone

LEMMA IdleInv ==
  ASSUME NEW c \in Clients, pc'[c] = "idle"
  PROVE  WorkInv(c)'
  BY DEF WorkInv, Establishing

\* When c moves without starting a handshake and without committing one, the
\* handshakes the others prepare stay apart.
LEMMA OthersStable ==
  ASSUME TypeOK, AttemptTyped, \A d \in Clients : WorkInv(d), NEW c \in Clients, Alone(c),
         StoreGrew, ~Establishing(c)',
         \A d \in Clients \ {c} : Establishing(d) =>
           \A e \in committed' : e.state.session # work[d].envelope.state.session
  PROVE  \A d \in Clients \ {c} : WorkInv(d)'
  <1> SUFFICES ASSUME NEW d \in Clients \ {c} PROVE WorkInv(d)'
    OBVIOUS
  <1>1. Undisturbed(d)
    <2> SUFFICES ASSUME Establishing(d), NEW b \in Clients \ {d}, Establishing(b)'
                 PROVE  work'[b].envelope.state.session # work[d].envelope.state.session
      BY DEF Undisturbed
    <2>1. b # c
      OBVIOUS
    <2>2. Establishing(b) /\ work'[b] = work[b]
      BY <2>1 DEF Alone, Establishing
    <2>3. QED
      BY <2>2 DEF WorkInv, EstablishInv
  <1>2. QED
    BY <1>1, WorkStable DEF Alone

LEMMA BeginEstablishInv ==
  ASSUME IInv, AttemptTyped, NEW c \in Clients, NEW key \in Keys,
         NEW seen \in SUBSET Incoming, NEW label \in {"initiating", "accepting"},
         BeginEstablish(c, key, seen), Goto(c, label),
         label = "accepting" => key.kind = "receive" /\ key.n \in seen
  PROVE  StoreInv' /\ (\A d \in Clients : WorkInv(d)') /\ ReleasedInv'
  <1> DEFINE e == Established(seen)
             w == [key |-> key, loaded |-> None, pre |-> PreRead, envelope |-> e]
  <1>1. EstablishmentIv \in Nat /\ fresh <= EstablishmentIv /\ EnsuredKey \in Nat
    BY DEF IInv, TypeOK, StoreTypeOK, EstablishmentIv, EnsuredKey
  <1>2. e \in Envelope /\ e.revision = 1 /\ e.state.sent = 0 /\ e.state.seen = seen
        /\ e.state.session = EstablishmentIv
    BY <1>1 DEF Established, Envelope, EngineState, IInv, TypeOK, StoreTypeOK, Watermark
  <1>3. work' = [work EXCEPT ![c] = w] /\ fresh' = EstablishmentIv + 1
    BY DEF BeginEstablish
  <1>4. work'[c] = w /\ pc'[c] = label
    BY <1>3 DEF Goto, IInv, TypeOK
  <1>5. UNCHANGED <<record, watermark, committed, released>> /\ fresh' \in Nat /\ fresh <= fresh'
    BY <1>1, <1>3 DEF BeginEstablish, IInv, TypeOK, StoreTypeOK
  <1>6. StoreInv'
    <2>1. \A f \in committed : f.state.session < fresh'
      BY <1>5 DEF IInv, StoreInv, FreshInv, TypeOK, StoreTypeOK, Envelope, EngineState
    <2>2. QED
      BY <1>5, <2>1 DEF IInv, StoreInv, MarkInv, EpochInv, ChainInv, FreshInv
  <1>7. StoreGrew
    BY <1>5, StoreSame DEF IInv, TypeOK
  <1>8. ReleasedInv'
    BY <1>5, <1>7, ReleasedStays DEF IInv
  <1>9. Alone(c)
    BY <1>3 DEF Alone, Goto, IInv, TypeOK
  <1>10. \A d \in Clients : Establishing(d) => work[d].envelope.state.session < EstablishmentIv
    BY <1>1 DEF IInv, WorkInv, EstablishInv, Envelope, EngineState, TypeOK, StoreTypeOK
  <1>11. \A f \in committed : f.state.session < EstablishmentIv
    BY <1>1 DEF IInv, StoreInv, FreshInv, Envelope, EngineState, TypeOK, StoreTypeOK
  <1>12. ASSUME NEW d \in Clients \ {c} PROVE WorkInv(d)'
    <2>1. Undisturbed(d)
      <3> SUFFICES ASSUME Establishing(d)
                   PROVE  /\ \A f \in committed' :
                               f.state.session # work[d].envelope.state.session
                          /\ \A b \in Clients \ {d} : Establishing(b)' =>
                               work'[b].envelope.state.session
                                 # work[d].envelope.state.session
        BY DEF Undisturbed
      <3>1. EstablishInv(d)
        BY DEF IInv, WorkInv
      <3>2. work'[c].envelope.state.session # work[d].envelope.state.session
        BY <1>1, <1>2, <1>4, <1>10
      <3>3. \A b \in Clients \ {c, d} : Establishing(b)' =>
              Establishing(b) /\ work'[b] = work[b]
        BY <1>9 DEF Alone, Establishing
      <3>4. QED
        BY <1>5, <3>1, <3>2, <3>3 DEF EstablishInv
    <2>2. QED
      BY <1>7, <1>9, <2>1, WorkStable DEF Alone, IInv
  <1>13. WorkInv(c)'
    <2>1. \A b \in Clients \ {c} : Establishing(b)' =>
            work'[b].envelope.state.session # EstablishmentIv
      <3>1. \A b \in Clients \ {c} : Establishing(b)' => Establishing(b) /\ work'[b] = work[b]
        BY <1>9 DEF Alone, Establishing
      <3>2. QED
        BY <1>1, <1>10, <3>1
    <2>2. label = "accepting" => Spent(key, e.state)
      BY <1>2 DEF Spent
    <2>3. \A f \in committed' : f.state.session # EstablishmentIv
      BY <1>1, <1>5, <1>11
    <2>4. EstablishInv(c)'
      BY <1>1, <1>2, <1>3, <1>4, <2>1, <2>2, <2>3 DEF EstablishInv
    <2>5. QED
      BY <1>4, <2>4 DEF WorkInv, Establishing
  <1>14. QED
    BY <1>6, <1>8, <1>12, <1>13

-----------------------------------------------------------------------------
\* An attempt that ends without touching the store or releasing a key.
LEMMA GiveUpInv ==
  ASSUME IInv, AttemptTyped, NEW c \in Clients, Finish(c),
         UNCHANGED <<storeVars, released, resets>>
  PROVE  StoreInv' /\ (\A d \in Clients : WorkInv(d)') /\ ReleasedInv'
  <1>1. Alone(c) /\ pc'[c] = "idle"
    BY FinishAlone DEF IInv
  <1>2. StoreGrew
    BY StoreSame DEF storeVars, IInv, TypeOK, StoreTypeOK
  <1>3. StoreInv' /\ ReleasedInv'
    BY DEF storeVars, IInv, StoreInv, MarkInv, EpochInv, ChainInv, FreshInv, ReleasedInv, FirstUse
  <1>4. \A d \in Clients \ {c} : WorkInv(d)'
    BY <1>1, <1>2, OthersStable DEF IInv, WorkInv, EstablishInv, Establishing, storeVars
  <1>5. QED
    BY <1>1, <1>3, <1>4, IdleInv

LEMMA LoadInv ==
  ASSUME IInv, AttemptTyped, NEW c \in Clients, Load(c)
  PROVE  StoreInv' /\ (\A d \in Clients : WorkInv(d)') /\ ReleasedInv'
  <1>1. PICK k \in UsableKeys(record.state) :
          work' = [work EXCEPT ![c] = [NoWork EXCEPT !.key = k, !.loaded = record]]
    BY DEF Load
  <1>2. record \in Envelope /\ record.state \in EngineState /\ record \in committed
    BY ValidRecord DEF Load, Envelope, IInv, StoreInv, MarkInv, LoadStatus
  <1>3. Usable(k, record.state)
    BY <1>2, UsableKeysUsable
  <1>4. Alone(c) /\ pc'[c] = "loaded"
    BY <1>1 DEF Load, Goto, Alone, IInv, TypeOK
  <1>5. work'[c].key = k /\ work'[c].loaded = record
    BY <1>1 DEF NoWork, IInv, TypeOK
  <1>6. UNCHANGED <<record, watermark, fresh, committed, released>>
    BY DEF Load, storeVars
  <1>7. WorkInv(c)'
    BY <1>2, <1>3, <1>4, <1>5, <1>6 DEF WorkInv, LoadedInv, Establishing
  <1>8. StoreGrew
    BY <1>6, StoreSame DEF IInv, TypeOK, StoreTypeOK
  <1>9. \A d \in Clients \ {c} : WorkInv(d)'
    BY <1>4, <1>6, <1>8, OthersStable DEF IInv, WorkInv, EstablishInv, Establishing
  <1>10. StoreInv' /\ ReleasedInv'
    BY <1>6 DEF IInv, StoreInv, MarkInv, EpochInv, ChainInv, FreshInv, ReleasedInv, FirstUse
  <1>11. QED
    BY <1>7, <1>9, <1>10

LEMMA PrepareInv ==
  ASSUME IInv, AttemptTyped, NEW c \in Clients, Prepare(c)
  PROVE  StoreInv' /\ (\A d \in Clients : WorkInv(d)') /\ ReleasedInv'
  <1> DEFINE loaded == work[c].loaded
             e == Sealed(loaded, Advance(loaded.state, work[c].key))
             w == [key |-> work[c].key, loaded |-> loaded, pre |-> PreRead, envelope |-> e]
  <1>1. work[c] \in Work /\ loaded \in Envelope /\ LoadedInv(c)
    BY DEF Prepare, AttemptTyped, IInv, TypeOK, WorkInv
  <1>2. e \in Envelope
    BY <1>1, AdvanceType DEF Sealed, Envelope, Work, IInv, TypeOK, StoreTypeOK
  <1>3. work'[c] = w /\ pc'[c] = "sealed" /\ Alone(c)
    BY DEF Prepare, Goto, Alone, IInv, TypeOK
  <1>4. record \in committed /\ SameVersion(record, loaded)
    BY DEF Prepare, CanPrepare, IInv, StoreInv, MarkInv
  <1>5. UNCHANGED <<record, watermark, committed, released>> /\ fresh' = fresh + 1
    BY DEF Prepare
  <1>6. WorkInv(c)'
    <2>1. LoadedInv(c)'
      BY <1>1, <1>3, <1>5 DEF LoadedInv
    <2>2. SealedInv(c)'
      BY <1>2, <1>3, <1>4, <1>5 DEF SealedInv, PreRead, Sealed
    <2>3. QED
      BY <1>3, <2>1, <2>2 DEF WorkInv, Establishing
  <1>7. fresh' \in Nat /\ fresh <= fresh'
    BY <1>5 DEF IInv, TypeOK, StoreTypeOK
  <1>8. StoreGrew
    BY <1>5, <1>7, StoreSame DEF IInv, TypeOK
  <1>9. \A d \in Clients \ {c} : WorkInv(d)'
    BY <1>3, <1>5, <1>8, OthersStable DEF IInv, WorkInv, EstablishInv, Establishing
  <1>10. FreshInv'
    BY <1>5 DEF IInv, StoreInv, FreshInv, TypeOK, StoreTypeOK, Envelope, EngineState
  <1>11. StoreInv' /\ ReleasedInv'
    BY <1>5, <1>10 DEF IInv, StoreInv, MarkInv, EpochInv, ChainInv, ReleasedInv, FirstUse
  <1>12. QED
    BY <1>6, <1>9, <1>11

LEMMA CommitInv ==
  ASSUME IInv, AttemptTyped, NEW c \in Clients, Commit(c)
  PROVE  StoreInv' /\ (\A d \in Clients : WorkInv(d)') /\ ReleasedInv'
  <1> DEFINE e == work[c].envelope
             l == work[c].loaded
             k == work[c].key
  <1>1. LoadedInv(c) /\ SealedInv(c) /\ k \in Keys /\ e \in Envelope
    BY DEF Commit, IInv, WorkInv, TypeOK, Work, SealedInv
  <1>2. Put(e) /\ watermark.kind # "MALFORMED" /\ Older(watermark, e)
        /\ UNCHANGED <<fresh, work, released>>
    BY DEF Commit, CasHolds
  <1>3. StoreInv' /\ FirstUse(k, e)'
    BY <1>1, <1>2, ExtendStore DEF LoadedInv, SealedInv, IInv, TypeOK
  <1>4. StoreGrew
    BY <1>1, <1>2, PutAbove, PutGrew DEF IInv, TypeOK
  <1>5. Alone(c) /\ pc'[c] = "committed"
    BY <1>2 DEF Commit, Goto, Alone, IInv, TypeOK
  <1>6. e.state.session = l.state.session /\ l \in committed
    BY <1>1, AdvanceSpends DEF LoadedInv, SealedInv, IInv, TypeOK, StoreTypeOK, Envelope
  <1>7. \A d \in Clients : Establishing(d) =>
          \A f \in committed' : f.state.session # work[d].envelope.state.session
    BY <1>2, <1>6 DEF Put, IInv, WorkInv, EstablishInv
  <1>8. \A d \in Clients \ {c} : WorkInv(d)'
    BY <1>4, <1>5, <1>7, OthersStable DEF IInv, Establishing
  <1>9. WorkInv(c)'
    BY <1>2, <1>3, <1>5 DEF WorkInv, Establishing
  <1>10. ReleasedInv'
    BY <1>2, <1>4, ReleasedStays DEF IInv
  <1>11. QED
    BY <1>3, <1>8, <1>9, <1>10

LEMMA AdoptInv ==
  ASSUME IInv, AttemptTyped, NEW c \in Clients, Establishing(c),
         AdoptHolds(work[c].pre, work[c].envelope), Put(work[c].envelope),
         Alone(c), UNCHANGED <<fresh, released>>,
         \/ pc'[c] = "idle"
         \/ pc[c] = "accepting" /\ pc'[c] = "committed" /\ work'[c] = work[c]
  PROVE  StoreInv' /\ (\A d \in Clients : WorkInv(d)') /\ ReleasedInv'
  <1> DEFINE e == work[c].envelope
             k == work[c].key
  <1>1. EstablishInv(c) /\ e \in Envelope /\ k \in Keys
    BY DEF IInv, WorkInv, TypeOK, Work, EstablishInv
  <1>2. ASSUME NEW f \in Envelope, f = e
        PROVE  /\ StoreInv'
               /\ \A j \in Keys : Spent(j, f.state) /\ f.revision = 1 => FirstUse(j, f)'
    <2>1. /\ f.state.session < fresh
          /\ \A g \in committed : g.state.session # f.state.session
          /\ watermark.kind # "MALFORMED" /\ watermark.epoch < f.epoch
      BY <1>1, <1>2 DEF EstablishInv, AdoptHolds
    <2>2. StoreTypeOK /\ StoreInv /\ fresh' = fresh /\ Put(f)
      BY <1>2 DEF IInv, TypeOK
    <2>3. QED
      BY <2>1, <2>2, OpenStore
  <1>3. Older(watermark, e) /\ watermark.kind # "MALFORMED"
    BY DEF AdoptHolds, Older
  <1>4. StoreGrew
    BY <1>1, <1>3, PutAbove, PutGrew DEF IInv, TypeOK
  <1>5. ~Establishing(c)'
    BY DEF Establishing
  <1>6. \A d \in Clients \ {c} : Establishing(d) =>
          \A f \in committed' : f.state.session # work[d].envelope.state.session
    BY <1>1 DEF Put, IInv, WorkInv, EstablishInv
  <1>7. \A d \in Clients \ {c} : WorkInv(d)'
    BY <1>4, <1>5, <1>6, OthersStable DEF IInv
  <1>8. WorkInv(c)'
    BY <1>1, <1>2 DEF WorkInv, Establishing, EstablishInv, FirstUse
  <1>9. ReleasedInv'
    BY <1>4, ReleasedStays DEF IInv
  <1>10. QED
    BY <1>1, <1>2, <1>7, <1>8, <1>9

LEMMA ExternaliseInv ==
  ASSUME IInv, AttemptTyped, NEW c \in Clients, Externalise(c)
  PROVE  StoreInv' /\ (\A d \in Clients : WorkInv(d)') /\ ReleasedInv'
  <1> DEFINE e == work[c].envelope
  <1>1. FirstUse(work[c].key, e) /\ e \in committed
    BY DEF Externalise, IInv, WorkInv, FirstUse
  <1>2. UNCHANGED <<record, watermark, fresh, committed>>
        /\ released' = released \cup {Outcome(work[c])}
    BY DEF Externalise, storeVars
  <1>3. Alone(c) /\ pc'[c] = "idle"
    BY FinishAlone DEF Externalise, IInv
  <1>4. StoreGrew
    BY <1>2, StoreSame DEF IInv, TypeOK, StoreTypeOK
  <1>5. \A d \in Clients \ {c} : WorkInv(d)'
    BY <1>2, <1>3, <1>4, OthersStable DEF IInv, WorkInv, EstablishInv, Establishing
  <1>6. ReleasedInv'
    BY <1>1, <1>2 DEF IInv, ReleasedInv, FirstUse, Outcome
  <1>7. StoreInv'
    BY <1>2 DEF IInv, StoreInv, MarkInv, EpochInv, ChainInv, FreshInv
  <1>8. QED
    BY <1>3, <1>5, <1>6, <1>7, IdleInv

LEMMA RefusedInv ==
  ASSUME IInv, AttemptTyped, NEW c \in Clients, EstablishRefused(c)
  PROVE  StoreInv' /\ (\A d \in Clients : WorkInv(d)') /\ ReleasedInv'
  <1>1. UNCHANGED <<record, watermark, committed, pc, work, released>>
    BY DEF EstablishRefused
  <1>2. fresh \in Nat /\ fresh' \in Nat /\ fresh <= fresh'
    BY DEF EstablishRefused, EstablishmentIv, IInv, TypeOK, StoreTypeOK
  <1>3. FreshInv'
    BY <1>1, <1>2 DEF IInv, StoreInv, FreshInv, TypeOK, StoreTypeOK, Envelope, EngineState
  <1>4. StoreInv' /\ ReleasedInv'
    BY <1>1, <1>3 DEF IInv, StoreInv, MarkInv, EpochInv, ChainInv, ReleasedInv, FirstUse
  <1>5. ASSUME NEW d \in Clients PROVE WorkInv(d)'
    <2>1. (Establishing(d) => EstablishInv(d))'
      BY <1>1, <1>2 DEF IInv, WorkInv, EstablishInv, Establishing, Envelope, EngineState
    <2>2. QED
      BY <1>1, <2>1 DEF IInv, WorkInv, LoadedInv, SealedInv, FirstUse
  <1>6. QED
    BY <1>4, <1>5

LEMMA ClientStepInv ==
  ASSUME IInv, AttemptTyped, NEW c \in Clients, ClientStep(c)
  PROVE  StoreInv' /\ (\A d \in Clients : WorkInv(d)') /\ ReleasedInv'
  <1>1. CASE PrepareFails(c) \/ CommitFails(c) \/ Crash(c) \/ AdoptFails(c)
    BY <1>1, GiveUpInv DEF PrepareFails, CommitFails, Crash, AdoptFails
  <1>2. CASE EstablishAsSender(c)
    BY <1>2, BeginEstablishInv DEF EstablishAsSender, NoKey, Keys
  <1>3. CASE EstablishAsReceiver(c)
    <2>1. PICK n \in Incoming : BeginEstablish(c, [kind |-> "receive", n |-> n], {n})
      BY <1>3 DEF EstablishAsReceiver
    <2>2. [kind |-> "receive", n |-> n] \in Keys
      BY DEF Keys
    <2>3. QED
      BY <1>3, <2>1, <2>2, BeginEstablishInv DEF EstablishAsReceiver
  <1>4. CASE AdoptAsSender(c)
    BY <1>4, AdoptInv, FinishAlone DEF AdoptAsSender, Establishing, IInv
  <1>5. CASE AdoptAsReceiver(c)
    <2>1. Alone(c) /\ pc'[c] = "committed" /\ work'[c] = work[c]
      BY <1>5 DEF AdoptAsReceiver, Goto, Alone, IInv, TypeOK
    <2>2. QED
      BY <1>5, <2>1, AdoptInv DEF AdoptAsReceiver, Establishing
  <1>6. QED
    BY <1>1, <1>2, <1>3, <1>4, <1>5, LoadInv, PrepareInv, CommitInv, ExternaliseInv,
       RefusedInv DEF ClientStep

LEMMA FaultInv ==
  ASSUME IInv, AttemptTyped, StorageFault
  PROVE  StoreInv' /\ (\A d \in Clients : WorkInv(d)') /\ ReleasedInv'
  <1>1. UNCHANGED <<fresh, committed, pc, work, released>>
    BY DEF StorageFault
  <1>2. record' \in committed \cup {None, record}
        /\ (watermark' = watermark \/ watermark'.kind = "MALFORMED")
    BY DEF StorageFault
  <1>3. StoreInv'
    <2>1. record' # None => record' \in committed'
      BY <1>1, <1>2 DEF IInv, StoreInv, MarkInv
    <2>2. MarkInv'
      <3>1. CASE watermark' = watermark
        BY <1>1, <2>1, <3>1 DEF IInv, StoreInv, MarkInv, Older
      <3>2. CASE watermark'.kind = "MALFORMED"
        BY <2>1, <3>2 DEF MarkInv
      <3>3. QED
        BY <1>2, <3>1, <3>2
    <2>3. EpochInv' /\ ChainInv' /\ FreshInv'
      BY <1>1 DEF IInv, StoreInv, EpochInv, ChainInv, FreshInv
    <2>4. QED
      BY <2>2, <2>3 DEF StoreInv
  <1>4. \A d \in Clients : WorkInv(d)'
    BY <1>1 DEF IInv, WorkInv, LoadedInv, SealedInv, FirstUse, EstablishInv, Establishing
  <1>5. ReleasedInv'
    BY <1>1 DEF IInv, ReleasedInv, FirstUse
  <1>6. QED
    BY <1>3, <1>4, <1>5

LEMMA IInvInit == Init => IInv /\ AttemptTyped
  <1> SUFFICES ASSUME Init PROVE IInv /\ AttemptTyped
    OBVIOUS
  <1>1. TypeOK /\ AttemptTyped
    BY TypeInit
  <1>2. StoreInv /\ ReleasedInv /\ resets = 0
    BY DEF Init, StoreInit, NoWatermark, StoreInv, MarkInv, EpochInv, ChainInv, FreshInv,
           ReleasedInv
  <1>3. \A c \in Clients : WorkInv(c)
    BY DEF Init, WorkInv, Establishing
  <1>4. QED
    BY <1>1, <1>2, <1>3 DEF IInv

LEMMA IInvStep ==
  ASSUME MaxResets = 0, IInv, AttemptTyped, [Next]_vars
  PROVE  (IInv /\ AttemptTyped)'
  <1>1. TypeOK' /\ AttemptTyped'
    BY TypeStep DEF IInv
  <1>2. ~Reset
    BY DEF Reset, IInv
  <1>3. ASSUME NEW c \in Clients, ClientStep(c)
        PROVE  resets' = 0 /\ StoreInv' /\ (\A d \in Clients : WorkInv(d)') /\ ReleasedInv'
    <2>1. resets' = resets
      BY <1>3 DEF ClientStep, Load, Prepare, PrepareFails, Commit, CommitFails, Externalise,
        Crash, EstablishAsSender, EstablishAsReceiver, EstablishRefused, BeginEstablish, AdoptAsSender,
        AdoptAsReceiver, AdoptFails
    <2>2. QED
      BY <1>3, <2>1, ClientStepInv DEF IInv
  <1>4. CASE StorageFault
    BY <1>1, <1>4, FaultInv DEF IInv, StorageFault
  <1>5. CASE UNCHANGED vars
    BY <1>1, <1>5 DEF vars, storeVars, IInv, StoreInv, MarkInv, EpochInv, ChainInv, FreshInv,
      WorkInv, LoadedInv, SealedInv, FirstUse, EstablishInv, Establishing, ReleasedInv
  <1>6. QED
    BY <1>1, <1>2, <1>3, <1>4, <1>5 DEF Next, IInv

\* The conjunction above is an invariant of every run without resets.
THEOREM Inductive ==
  ASSUME MaxResets = 0
  PROVE  Spec => [](IInv /\ AttemptTyped)
  <1>1. IInv /\ AttemptTyped /\ [Next]_vars => (IInv /\ AttemptTyped)'
    BY IInvStep
  <1>2. QED
    BY IInvInit, <1>1, PTL DEF Spec

-----------------------------------------------------------------------------
\* Released keys come from first uses, and a key has one first use per epoch.
LEMMA OnceFromInv == IInv => KeyReleasedOnce
  <1> SUFFICES ASSUME IInv, NEW x \in released, NEW y \in released,
                      x.session = y.session, x.key = y.key
               PROVE  x.attempt = y.attempt
    BY DEF KeyReleasedOnce
  <1>1. PICK e \in committed :
          e.iv = x.attempt /\ e.state.session = x.session /\ FirstUse(x.key, e)
    BY DEF IInv, ReleasedInv
  <1>2. PICK f \in committed :
          f.iv = y.attempt /\ f.state.session = y.session /\ FirstUse(y.key, f)
    BY DEF IInv, ReleasedInv
  <1>3. e.epoch = f.epoch
    BY <1>1, <1>2 DEF IInv, StoreInv, EpochInv
  <1>4. ~(e.revision < f.revision) /\ ~(f.revision < e.revision)
    BY <1>1, <1>2, <1>3 DEF FirstUse
  <1>5. e.revision = f.revision
    BY <1>4 DEF IInv, TypeOK, StoreTypeOK, Envelope
  <1>6. e = f
    BY <1>3, <1>5 DEF IInv, StoreInv, ChainInv, TypeOK, StoreTypeOK, Envelope
  <1>7. QED
    BY <1>1, <1>2, <1>6

\* Nothing committed is above the stored record.
RecordIsLast == \A e \in committed : ~Older(record, e)

\* What loads as VALID is the last envelope of its epoch.
LEMMA ValidIsLast ==
  IInv /\ LoadStatus = "VALID" => record \in committed /\ record \in Envelope /\ RecordIsLast
  <1> SUFFICES ASSUME IInv, LoadStatus = "VALID"
               PROVE  record \in committed /\ record \in Envelope /\ RecordIsLast
    OBVIOUS
  <1>1. record \in Envelope /\ watermark.kind = "OK" /\ ~Older(record, watermark)
    BY ValidRecord DEF IInv
  <1>2. record \in committed
    BY <1>1, NoneAssumption DEF IInv, StoreInv, MarkInv, Envelope
  <1>3. \A e \in committed : ~Older(watermark, e)
    BY <1>1 DEF IInv, StoreInv, MarkInv
  <1>4. RecordIsLast
    BY <1>1, <1>3 DEF RecordIsLast, Older, IInv, TypeOK, StoreTypeOK, Watermark, Envelope
  <1>5. QED
    BY <1>1, <1>2, <1>4

LEMMA SpentFromInv == IInv => ReleasedIsSpent
  <1> SUFFICES ASSUME IInv, LoadStatus = "VALID", NEW x \in released,
                      x.session = record.state.session
               PROVE  Spent(x.key, record.state)
    BY DEF ReleasedIsSpent
  <1>1. PICK e \in committed :
          e.iv = x.attempt /\ e.state.session = x.session /\ FirstUse(x.key, e)
    BY DEF IInv, ReleasedInv
  <1>2. record \in committed /\ record \in Envelope /\ ~Older(record, e)
    BY ValidIsLast DEF RecordIsLast
  <1>3. e.epoch = record.epoch
    BY <1>1, <1>2 DEF IInv, StoreInv, EpochInv
  <1>4. e \in Envelope /\ e.revision <= record.revision
    BY <1>2, <1>3 DEF Older, IInv, TypeOK, StoreTypeOK, Envelope
  <1>5. NotBehind(record.state, e.state)
    BY <1>2, <1>3, <1>4 DEF IInv, StoreInv, ChainInv
  <1>6. Spent(x.key, e.state) /\ x.key \in Keys
    BY <1>1 DEF FirstUse, IInv, TypeOK, Release
  <1>7. QED
    BY <1>2, <1>4, <1>5, <1>6, SpentStays DEF Envelope

LEMMA LinearFromInv == IInv => LinearHistory
  BY DEF IInv, StoreInv, EpochInv, ChainInv, LinearHistory, NotBehind

\* A compare-and-swap that would pass is over the envelope that was loaded.
LEMMA NoStaleFromInv == IInv => NoStalePair
  <1> SUFFICES ASSUME IInv, NEW c \in Clients, pc[c] = "sealed",
                      CasHolds(work[c].pre, work[c].envelope)
               PROVE  record = work[c].loaded
    BY DEF NoStalePair
  <1>1. SealedInv(c) /\ LoadedInv(c) /\ record = work[c].pre.record
    BY DEF IInv, WorkInv, CasHolds
  <1>2. record \in committed /\ work[c].loaded \in committed
        /\ SameVersion(record, work[c].loaded)
    BY <1>1 DEF SealedInv, LoadedInv
  <1>3. QED
    BY <1>2 DEF SameVersion, IInv, StoreInv, ChainInv, TypeOK, StoreTypeOK, Envelope

\* Committed envelopes stay committed, whatever happens to the store.
LEMMA CommittedGrows == [Next]_vars => committed \subseteq committed'
  BY DEF Next, ClientStep, Load, Prepare, PrepareFails, Commit, CommitFails, Externalise,
    Crash, EstablishAsSender, EstablishAsReceiver, EstablishRefused, BeginEstablish, AdoptAsSender,
    AdoptAsReceiver, AdoptFails, Put, Reset, DeleteSession, StorageFault, vars, storeVars

(***************************************************************************)
(* No message key is released for two attempts, for any number of tabs,    *)
(* with or without the Web Lock, through crashes and storage faults.       *)
(***************************************************************************)
THEOREM KeysReleasedOnce ==
  ASSUME MaxResets = 0
  PROVE  Spec => []KeyReleasedOnce
  BY Inductive, OnceFromInv, PTL

(***************************************************************************)
(* A state that loads as VALID has consumed every key its session let out. *)
(***************************************************************************)
THEOREM ReleasedAreSpent ==
  ASSUME MaxResets = 0
  PROVE  Spec => []ReleasedIsSpent
  BY Inductive, SpentFromInv, PTL

(***************************************************************************)
(* The envelopes of a handshake form one line of ever more consumed keys.  *)
(***************************************************************************)
THEOREM HistoryIsLinear ==
  ASSUME MaxResets = 0
  PROVE  Spec => []LinearHistory
  BY Inductive, LinearFromInv, PTL

(***************************************************************************)
(* Without deletions, "no stale pair can ever compare as current" holds by *)
(* the compare-and-swap alone.                                             *)
(***************************************************************************)
THEOREM StalePairsRefused ==
  ASSUME MaxResets = 0
  PROVE  Spec => []NoStalePair
  BY Inductive, NoStaleFromInv, PTL

(***************************************************************************)
(* A state that loads as VALID is never followed by an older one: the mark *)
(* is at least every commit, so whatever a fault restores is found out.    *)
(***************************************************************************)
THEOREM StateNeverOlder ==
  ASSUME MaxResets = 0
  PROVE  Spec => NeverOlder
  <1> DEFINE Valid == LoadStatus = "VALID"
  <1>1. (IInv /\ Valid => RecordIsLast)'
    BY ValidIsLast, PTL
  <1>2. IInv /\ IInv' /\ [Next]_vars => [Valid /\ Valid' => ~Older(record', record)]_vars
    BY <1>1, ValidIsLast, CommittedGrows DEF RecordIsLast
  <1>3. QED
    BY <1>2, Inductive, PTL DEF Spec, NeverOlder

-----------------------------------------------------------------------------
(***************************************************************************)
(* What an attempt is named by. Every attempt that has an envelope drew an *)
(* IV of its own, and a handshake it prepares is named by that IV and has  *)
(* consumed nothing but the message it came with.                          *)
(***************************************************************************)
HasEnvelope(c) == pc[c] \in {"sealed", "committed", "initiating", "accepting"}

IvInv ==
  /\ \A c \in Clients :
       HasEnvelope(c) => work[c].envelope.iv < fresh /\ work[c].envelope.iv <= MaxFresh
  /\ \A c, d \in Clients :
       HasEnvelope(c) /\ HasEnvelope(d) /\ c # d => work[c].envelope.iv # work[d].envelope.iv

HandshakeOf(w, seen) ==
  w.envelope.state = [session |-> w.envelope.iv, sent |-> 0, seen |-> seen]

HandshakeInv ==
  \A c \in Clients :
    /\ pc[c] = "initiating" => HandshakeOf(work[c], {})
    /\ pc[c] = "accepting" =>
         \E n \in Incoming :
           /\ work[c].key = [kind |-> "receive", n |-> n]
           /\ HandshakeOf(work[c], {n})

AttemptInv == TypeOK /\ AttemptTyped /\ IvInv /\ HandshakeInv

(***************************************************************************)
(* What the refinement needs of the store and of the attempts: a handshake *)
(* has one envelope per revision, a compare-and-swap that would pass takes *)
(* an unused key of the last envelope of its handshake, and the handshakes *)
(* under way are new.                                                      *)
(***************************************************************************)
OneLine ==
  \A e, f \in committed :
    e.state.session = f.state.session /\ e.revision = f.revision => e = f

CommitsExtend ==
  \A c \in Clients :
    pc[c] = "sealed" /\ CasHolds(work[c].pre, work[c].envelope) =>
      /\ work[c].loaded \in Latest
      /\ Usable(work[c].key, work[c].loaded.state)
      /\ work[c].envelope.revision = work[c].loaded.revision + 1
      /\ work[c].envelope.state = Advance(work[c].loaded.state, work[c].key)

HandshakesNew ==
  \A c \in Clients : Establishing(c) =>
    \A e \in committed : e.state.session # work[c].envelope.state.session

LedgerReady == AttemptInv /\ OneLine /\ CommitsExtend /\ HandshakesNew

(***************************************************************************)
(* The inductive invariant under the Web Lock, through deletions: at most  *)
(* one attempt is under way, what is stored is the last envelope of its    *)
(* handshake, and so is what an attempt has loaded, which nobody replaces  *)
(* while the attempt runs.                                                 *)
(***************************************************************************)
OneAtATime ==
  \A c, d \in Clients : pc[c] # "idle" /\ pc[d] # "idle" => c = d

LockedStore ==
  /\ record # None => record \in Latest
  /\ \A e \in committed : e.state.session < fresh

LockedWork(c) ==
  /\ pc[c] \in {"loaded", "sealed"} =>
       /\ work[c].loaded \in Latest
       /\ record \in {work[c].loaded, None}
       /\ Usable(work[c].key, work[c].loaded.state)
  /\ pc[c] = "sealed" =>
       /\ work[c].pre.record # None
       /\ work[c].envelope.epoch = work[c].loaded.epoch
       /\ work[c].envelope.revision = work[c].loaded.revision + 1
       /\ work[c].envelope.state = Advance(work[c].loaded.state, work[c].key)
  /\ Establishing(c) =>
       /\ work[c].envelope.state.session < fresh
       /\ \A e \in committed : e.state.session # work[c].envelope.state.session

LockedInv ==
  /\ AttemptInv
  /\ OneAtATime
  /\ LockedStore
  /\ LinearHistory
  /\ \A c \in Clients : LockedWork(c)

-----------------------------------------------------------------------------
\* A step that draws no IV leaves the attempts that have one as they are.
LEMMA AttemptQuiet ==
  ASSUME AttemptInv, TypeOK', AttemptTyped', fresh <= fresh',
         \A c \in Clients :
           HasEnvelope(c)' => HasEnvelope(c) /\ work'[c] = work[c]
                              /\ (pc'[c] = pc[c] \/ pc'[c] = "committed")
  PROVE  AttemptInv'
  <1>1. IvInv'
    <2>1. \A c \in Clients : HasEnvelope(c)' => work'[c].envelope.iv \in Nat
      BY DEF AttemptTyped, HasEnvelope, Envelope
    <2>2. fresh \in Nat /\ fresh' \in Nat
      BY DEF AttemptInv, TypeOK, StoreTypeOK
    <2>3. QED
      BY <2>1, <2>2 DEF AttemptInv, IvInv
  <1>2. HandshakeInv'
    BY DEF AttemptInv, HandshakeInv, HandshakeOf, HasEnvelope
  <1>3. QED
    BY <1>1, <1>2 DEF AttemptInv

\* An attempt that draws its IV from the unused ones keeps all IVs apart.
LEMMA AttemptDraws ==
  ASSUME AttemptInv, TypeOK', AttemptTyped', NEW c \in Clients, Alone(c),
         HasEnvelope(c)', work'[c].envelope.iv \in Nat, fresh <= work'[c].envelope.iv,
         work'[c].envelope.iv < fresh', work'[c].envelope.iv <= MaxFresh
  PROVE  IvInv'
  <1>1. fresh \in Nat /\ fresh' \in Nat /\ MaxFresh \in Nat
    BY MaxFreshAssumption DEF AttemptInv, TypeOK, StoreTypeOK
  <1>2. \A d \in Clients \ {c} :
          HasEnvelope(d)' => HasEnvelope(d) /\ work'[d] = work[d]
    BY DEF Alone, HasEnvelope
  <1>3. \A d \in Clients : HasEnvelope(d)' => work'[d].envelope.iv \in Nat
    BY DEF AttemptTyped, HasEnvelope, Envelope
  <1>4. \A d \in Clients \ {c} :
          HasEnvelope(d)' => /\ work'[d].envelope.iv < fresh
                             /\ work'[d].envelope.iv <= MaxFresh
    BY <1>2 DEF AttemptInv, IvInv
  <1>5. \A d \in Clients : HasEnvelope(d)' =>
          work'[d].envelope.iv < fresh' /\ work'[d].envelope.iv <= MaxFresh
    BY <1>1, <1>3, <1>4
  <1>6. \A b, d \in Clients : HasEnvelope(b)' /\ HasEnvelope(d)' /\ b # d =>
          work'[b].envelope.iv # work'[d].envelope.iv
    <2> SUFFICES ASSUME NEW b \in Clients, NEW d \in Clients, HasEnvelope(b)', HasEnvelope(d)',
                        b # d
                 PROVE  work'[b].envelope.iv # work'[d].envelope.iv
      OBVIOUS
    <2>1. CASE b # c /\ d # c
      BY <1>2, <2>1 DEF AttemptInv, IvInv
    <2>2. CASE b = c
      BY <1>1, <1>3, <1>4, <2>2
    <2>3. CASE d = c
      BY <1>1, <1>3, <1>4, <2>3
    <2>4. QED
      BY <2>1, <2>2, <2>3
  <1>7. QED
    BY <1>5, <1>6 DEF IvInv

LEMMA PrepareAttempt ==
  ASSUME AttemptInv, TypeOK', AttemptTyped', NEW c \in Clients, Prepare(c)
  PROVE  AttemptInv'
  <1>1. work'[c].envelope.iv = fresh /\ pc'[c] = "sealed" /\ Alone(c)
    BY DEF Prepare, Goto, Alone, Sealed, AttemptInv, TypeOK
  <1>2. fresh \in Nat /\ fresh' = fresh + 1 /\ fresh < MaxFresh
    BY DEF Prepare, AttemptInv, TypeOK, StoreTypeOK
  <1>3. IvInv'
    BY <1>1, <1>2, MaxFreshAssumption, AttemptDraws DEF HasEnvelope
  <1>4. HandshakeInv'
    BY <1>1 DEF Alone, AttemptInv, HandshakeInv, HandshakeOf
  <1>5. QED
    BY <1>3, <1>4 DEF AttemptInv

LEMMA EstablishAttempt ==
  ASSUME AttemptInv, TypeOK', AttemptTyped', NEW c \in Clients,
         EstablishAsSender(c) \/ EstablishAsReceiver(c)
  PROVE  AttemptInv'
  <1>1. ASSUME NEW key, NEW seen, NEW label \in {"initiating", "accepting"},
               BeginEstablish(c, key, seen), Goto(c, label)
        PROVE  /\ IvInv'
               /\ Alone(c) /\ pc'[c] = label
               /\ work'[c].key = key
               /\ HandshakeOf(work'[c], seen)
    <2>1. work'[c] = [key |-> key, loaded |-> None, pre |-> PreRead,
                      envelope |-> Established(seen)]
      BY <1>1 DEF BeginEstablish, AttemptInv, TypeOK
    <2>2. work'[c].envelope.iv = EstablishmentIv /\ HandshakeOf(work'[c], seen)
      BY <2>1 DEF Established, HandshakeOf
    <2>3. Alone(c) /\ pc'[c] = label
      BY <1>1 DEF BeginEstablish, Goto, Alone, AttemptInv, TypeOK
    <2>4. /\ EstablishmentIv \in Nat /\ fresh <= EstablishmentIv
          /\ EstablishmentIv < MaxFresh /\ fresh' = EstablishmentIv + 1
      BY <1>1 DEF BeginEstablish, EstablishmentIv, AttemptInv, TypeOK, StoreTypeOK
    <2>5. IvInv'
      BY <2>2, <2>3, <2>4, MaxFreshAssumption, AttemptDraws DEF HasEnvelope
    <2>6. QED
      BY <2>1, <2>2, <2>3, <2>5
  <1>2. CASE EstablishAsSender(c)
    <2>1. /\ IvInv' /\ Alone(c) /\ pc'[c] = "initiating"
          /\ HandshakeOf(work'[c], {})
      BY <1>1, <1>2 DEF EstablishAsSender
    <2>2. HandshakeInv'
      BY <2>1 DEF Alone, AttemptInv, HandshakeInv, HandshakeOf
    <2>3. QED
      BY <2>1, <2>2 DEF AttemptInv
  <1>3. CASE EstablishAsReceiver(c)
    <2>1. PICK n \in Incoming : BeginEstablish(c, [kind |-> "receive", n |-> n], {n})
      BY <1>3 DEF EstablishAsReceiver
    <2>2. /\ IvInv' /\ Alone(c) /\ pc'[c] = "accepting"
          /\ work'[c].key = [kind |-> "receive", n |-> n]
          /\ HandshakeOf(work'[c], {n})
      BY <1>1, <1>3, <2>1 DEF EstablishAsReceiver
    <2>3. HandshakeInv'
      BY <2>2 DEF Alone, AttemptInv, HandshakeInv, HandshakeOf
    <2>4. QED
      BY <2>2, <2>3 DEF AttemptInv
  <1>4. QED
    BY <1>2, <1>3

LEMMA AttemptStep ==
  ASSUME AttemptInv, [Next]_vars
  PROVE  AttemptInv'
  <1>1. TypeOK' /\ AttemptTyped'
    BY TypeStep DEF AttemptInv
  <1> USE DEF HasEnvelope
  <1>2. fresh \in Nat
    BY DEF AttemptInv, TypeOK, StoreTypeOK
  <1>3. ASSUME NEW c \in Clients, ClientStep(c)
        PROVE  AttemptInv'
    <2>1. CASE PrepareFails(c) \/ CommitFails(c) \/ Crash(c) \/ AdoptFails(c) \/ Externalise(c)
               \/ AdoptAsSender(c)
      <3>1. Finish(c) /\ fresh' = fresh
        BY <2>1 DEF PrepareFails, CommitFails, Crash, AdoptFails, Externalise, AdoptAsSender,
          storeVars
      <3>2. Alone(c) /\ pc'[c] = "idle"
        BY <3>1, FinishAlone DEF AttemptInv
      <3>3. QED
        BY <1>1, <1>2, <3>1, <3>2, AttemptQuiet DEF Alone
    <2>2. CASE Load(c)
      <3>1. Alone(c) /\ pc'[c] = "loaded" /\ fresh' = fresh
        BY <2>2 DEF Load, Goto, Alone, storeVars, AttemptInv, TypeOK
      <3>2. QED
        BY <1>1, <1>2, <3>1, AttemptQuiet DEF Alone
    <2>3. CASE Commit(c) \/ AdoptAsReceiver(c)
      <3>1. HasEnvelope(c) /\ Alone(c) /\ pc'[c] = "committed" /\ work' = work /\ fresh' = fresh
        BY <2>3 DEF Commit, AdoptAsReceiver, Goto, Alone, AttemptInv, TypeOK
      <3>2. QED
        BY <1>1, <1>2, <3>1, AttemptQuiet DEF Alone
    <2>4. CASE EstablishRefused(c)
      <3>1. pc' = pc /\ work' = work /\ fresh <= fresh'
        BY <1>2, <2>4 DEF EstablishRefused, EstablishmentIv
      <3>2. QED
        BY <1>1, <3>1, AttemptQuiet
    <2>5. QED
      BY <1>1, <1>3, <2>1, <2>2, <2>3, <2>4, PrepareAttempt, EstablishAttempt DEF ClientStep
  <1>4. CASE Reset \/ StorageFault \/ UNCHANGED vars
    <2>1. pc' = pc /\ work' = work /\ fresh' = fresh
      BY <1>4 DEF Reset, DeleteSession, StorageFault, vars, storeVars
    <2>2. QED
      BY <1>1, <1>2, <2>1, AttemptQuiet
  <1>5. QED
    BY <1>3, <1>4 DEF Next

LEMMA AttemptStart == Init => AttemptInv
  BY TypeInit DEF Init, AttemptInv, IvInv, HandshakeInv, HasEnvelope

-----------------------------------------------------------------------------
\* Without deletions the compare-and-swap gives the refinement what it needs.
LEMMA ReadyFromIInv == IInv /\ AttemptInv => LedgerReady
  <1> SUFFICES ASSUME IInv, AttemptInv PROVE LedgerReady
    OBVIOUS
  <1> USE DEF TypeOK, StoreTypeOK
  <1>1. OneLine
    BY DEF OneLine, IInv, StoreInv, EpochInv, ChainInv, Envelope
  <1>2. HandshakesNew
    BY DEF HandshakesNew, IInv, WorkInv, EstablishInv
  <1>3. ASSUME NEW c \in Clients, pc[c] = "sealed", CasHolds(work[c].pre, work[c].envelope)
        PROVE  work[c].loaded \in Latest
    <2> DEFINE l == work[c].loaded
               e == work[c].envelope
    <2>1. LoadedInv(c) /\ SealedInv(c)
      BY <1>3 DEF IInv, WorkInv
    <2>2. l \in committed /\ l \in Envelope /\ e \in Envelope
          /\ e.epoch = l.epoch /\ e.revision = l.revision + 1
      BY <2>1 DEF LoadedInv, SealedInv, IInv
    <2>3. watermark.kind = "OK" /\ Older(watermark, e)
      BY <1>3, <2>2 DEF CasHolds, IInv, StoreInv, MarkInv, Watermark
    <2>4. ASSUME NEW f \in committed, f.state.session = l.state.session
          PROVE  f.revision <= l.revision
      <3>1. f.epoch = l.epoch /\ f \in Envelope
        BY <2>2, <2>4 DEF IInv, StoreInv, EpochInv
      <3>2. ~Older(watermark, f)
        BY <2>3 DEF IInv, StoreInv, MarkInv
      <3>3. QED
        BY <2>2, <2>3, <3>1, <3>2 DEF Older, Envelope, Watermark, IInv
    <2>5. QED
      BY <2>2, <2>4 DEF Latest
  <1>4. CommitsExtend
    BY <1>3 DEF CommitsExtend, IInv, WorkInv, LoadedInv, SealedInv
  <1>5. QED
    BY <1>1, <1>2, <1>4 DEF LedgerReady

-----------------------------------------------------------------------------
(***************************************************************************)
(* How the chains of KeyLedger move with the store.                        *)
(***************************************************************************)
Chains == {e.state : e \in Latest}

\* A state is the last of one envelope at most.
LEMMA LatestOfState ==
  ASSUME committed \subseteq Envelope, OneLine, NEW e \in Latest, NEW f \in Latest,
         e.state.session = f.state.session
  PROVE  e = f
  <1>1. e.revision <= f.revision /\ f.revision <= e.revision
    BY DEF Latest
  <1>2. QED
    BY <1>1 DEF Latest, OneLine, Envelope

\* The next envelope of a handshake takes the place of its last one.
LEMMA ChainAdvances ==
  ASSUME committed \subseteq Envelope, OneLine, NEW l \in Latest, NEW e \in Envelope,
         e.state.session = l.state.session, e.revision = l.revision + 1, Put(e)
  PROVE  /\ l.state \in Chains
         /\ Chains' = (Chains \ {l.state}) \cup {e.state}
         /\ Latest' = (Latest \ {l}) \cup {e}
  <1>1. committed' = committed \cup {e} /\ l \in committed /\ l \in Envelope
    BY DEF Put, Latest
  <1>2. \A f \in committed : f.state.session = e.state.session =>
          f \in Envelope /\ f.revision <= l.revision /\ f.revision < e.revision
    BY <1>1 DEF Latest, Envelope
  <1>3. e \in Latest' /\ l \notin Latest'
    BY <1>1, <1>2 DEF Latest, Envelope
  <1>4. ASSUME NEW f \in Latest, f # l
        PROVE  f \in Latest' /\ f.state # l.state
    <2>1. f.state.session # l.state.session
      BY <1>4, LatestOfState
    <2>2. QED
      BY <1>1, <2>1 DEF Latest
  <1>5. ASSUME NEW f \in Latest', f # e
        PROVE  f \in Latest
    BY <1>1, <1>5 DEF Latest
  <1>6. Latest' = (Latest \ {l}) \cup {e}
    BY <1>3, <1>4, <1>5
  <1>7. Chains' = {f.state : f \in Latest'}
    BY DEF Chains
  <1>8. Chains' = (Chains \ {l.state}) \cup {e.state}
    BY <1>4, <1>6, <1>7 DEF Chains
  <1>9. QED
    BY <1>6, <1>8 DEF Chains

\* The first envelope of a handshake opens a chain.
LEMMA ChainOpens ==
  ASSUME NEW e \in Envelope, \A f \in committed : f.state.session # e.state.session, Put(e)
  PROVE  /\ Chains' = Chains \cup {e.state}
         /\ Latest' = Latest \cup {e}
  <1>1. committed' = committed \cup {e}
    BY DEF Put
  <1>2. Latest' = Latest \cup {e}
    BY <1>1 DEF Latest, Envelope
  <1>3. Chains' = {f.state : f \in Latest'}
    BY DEF Chains
  <1>4. QED
    BY <1>2, <1>3 DEF Chains

LEMMA ChainsStay ==
  ASSUME committed' = committed
  PROVE  Chains' = Chains /\ Latest' = Latest
  BY DEF Chains, Latest

-----------------------------------------------------------------------------
(***************************************************************************)
(* How its promises move with the attempts.                                *)
(***************************************************************************)
Promised == {Outcome(work[c]) : c \in {d \in Clients : pc[d] = "committed"}}

LEMMA PromiseMade ==
  ASSUME NEW c \in Clients, Alone(c), pc'[c] = "committed", pc[c] # "committed",
         work'[c] = work[c]
  PROVE  Promised' = Promised \cup {Outcome(work[c])}
  <1>1. Promised' = {Outcome(work'[b]) : b \in {d \in Clients : pc'[d] = "committed"}}
    BY DEF Promised, Outcome
  <1>2. QED
    BY <1>1 DEF Promised, Alone, Outcome

LEMMA PromiseEnds ==
  ASSUME AttemptInv, NEW c \in Clients, Alone(c), pc'[c] # "committed", pc[c] = "committed"
  PROVE  Promised' = Promised \ {Outcome(work[c])}
  <1>1. Promised' = {Outcome(work'[b]) : b \in {d \in Clients : pc'[d] = "committed"}}
    BY DEF Promised, Outcome
  <1>2. \A d \in Clients \ {c} : pc[d] = "committed" => Outcome(work[d]) # Outcome(work[c])
    BY DEF AttemptInv, IvInv, HasEnvelope, Outcome
  <1>3. \A d \in Clients \ {c} : Outcome(work'[d]) = Outcome(work[d]) /\ pc'[d] = pc[d]
    BY DEF Alone
  <1>4. QED
    BY <1>1, <1>2, <1>3 DEF Promised

LEMMA PromisesStay ==
  ASSUME NEW c \in Clients, Alone(c), pc'[c] # "committed", pc[c] # "committed"
  PROVE  Promised' = Promised
  <1>1. Promised' = {Outcome(work'[b]) : b \in {d \in Clients : pc'[d] = "committed"}}
    BY DEF Promised, Outcome
  <1>2. QED
    BY <1>1 DEF Promised, Alone, Outcome

-----------------------------------------------------------------------------
(***************************************************************************)
(* The actions of the instance, in the names above.                        *)
(***************************************************************************)
LEMMA InitiateIsNext ==
  ASSUME NEW name \in 0..MaxFresh, \A s \in Chains : s.session # name,
         Chains' = Chains \cup {[session |-> name, sent |-> 0, seen |-> {}]},
         Promised' = Promised, released' = released
  PROVE  Ledger!Next
  <1>1. Ledger!Initiate(name)
    BY DEF Ledger!Initiate, Ledger!NewName, Chains, Promised
  <1>2. QED
    BY <1>1 DEF Ledger!Next

LEMMA AcceptIsNext ==
  ASSUME NEW name \in 0..MaxFresh, NEW n \in Incoming, \A s \in Chains : s.session # name,
         Chains' = Chains \cup {[session |-> name, sent |-> 0, seen |-> {n}]},
         Promised' = Promised \cup
           {[session |-> name, key |-> [kind |-> "receive", n |-> n], attempt |-> name]},
         released' = released
  PROVE  Ledger!Next
  <1>1. Ledger!Accept(name, n)
    BY DEF Ledger!Accept, Ledger!NewName, Chains, Promised
  <1>2. QED
    BY <1>1 DEF Ledger!Next

LEMMA TakeIsNext ==
  ASSUME NEW s \in Chains, NEW k \in UsableKeys(s), NEW name \in 0..MaxFresh,
         Chains' = (Chains \ {s}) \cup {Advance(s, k)},
         Promised' = Promised \cup {[session |-> s.session, key |-> k, attempt |-> name]},
         released' = released
  PROVE  Ledger!Next
  <1>1. Ledger!Take(s, k, name)
    BY DEF Ledger!Take, Ledger!Advance, Advance, Chains, Promised
  <1>2. k \in Ledger!UsableKeys(s) /\ s \in {e.state : e \in Latest}
    BY DEF Ledger!UsableKeys, UsableKeys, Chains
  <1>3. QED
    BY <1>1, <1>2 DEF Ledger!Next

LEMMA LetOutIsNext ==
  ASSUME NEW p \in Promised, Promised' = Promised \ {p}, Chains' = Chains,
         released' \in {released, released \cup {p}}
  PROVE  Ledger!Next
  <1>1. Ledger!LetOut(p) \/ Ledger!Forget(p)
    BY DEF Ledger!LetOut, Ledger!Forget, Chains, Promised
  <1>2. p \in {Outcome(work[c]) : c \in {d \in Clients : pc[d] = "committed"}}
    BY DEF Promised
  <1>3. QED
    BY <1>1, <1>2 DEF Ledger!Next

\* Phase 2 takes a key of the chain it extends.
LEMMA CommitTakes ==
  ASSUME LedgerReady, NEW c \in Clients, Commit(c)
  PROVE  Ledger!Next
  <1> DEFINE l == work[c].loaded
             k == work[c].key
             e == work[c].envelope
             x == Outcome(work[c])
  <1>1. /\ l \in Latest /\ Usable(k, l.state) /\ e.revision = l.revision + 1
        /\ e.state = Advance(l.state, k)
    BY DEF Commit, LedgerReady, CommitsExtend
  <1>2. /\ k \in Keys /\ e \in Envelope /\ l \in Envelope /\ committed \subseteq Envelope
        /\ l.state \in EngineState
    BY <1>1 DEF Commit, LedgerReady, AttemptInv, AttemptTyped, TypeOK, StoreTypeOK, Work, Latest,
      Envelope
  <1>3. e.state.session = l.state.session /\ k \in UsableKeys(l.state)
    BY <1>1, <1>2 DEF Advance, EngineState, UsableKeys, Usable, Keys
  <1>4. Put(e) /\ released' = released
    BY DEF Commit
  <1>5. l.state \in Chains /\ Chains' = (Chains \ {l.state}) \cup {Advance(l.state, k)}
    BY <1>1, <1>2, <1>3, <1>4, ChainAdvances DEF LedgerReady
  <1>6. Promised' = Promised \cup {x}
    <2>1. Alone(c) /\ pc'[c] = "committed" /\ pc[c] # "committed" /\ work'[c] = work[c]
      BY DEF Commit, Goto, Alone, LedgerReady, AttemptInv, TypeOK
    <2>2. QED
      BY <2>1, PromiseMade
  <1>7. x = [session |-> l.state.session, key |-> k, attempt |-> e.iv]
    BY <1>3 DEF Outcome
  <1>8. e.iv \in 0..MaxFresh
    BY <1>2, MaxFreshAssumption DEF Commit, LedgerReady, AttemptInv, IvInv, HasEnvelope, Envelope
  <1>9. QED
    BY <1>3, <1>4, <1>5, <1>6, <1>7, <1>8, TakeIsNext

\* Adoption opens a chain; the receiver's has consumed the first message.
LEMMA AdoptOpens ==
  ASSUME LedgerReady, NEW c \in Clients, AdoptAsSender(c) \/ AdoptAsReceiver(c)
  PROVE  Ledger!Next
  <1> DEFINE e == work[c].envelope
             x == Outcome(work[c])
  <1>1. Establishing(c) /\ Put(e) /\ e \in Envelope
    BY DEF AdoptAsSender, AdoptAsReceiver, Establishing, LedgerReady, AttemptInv, AttemptTyped
  <1>2. \A f \in committed : f.state.session # e.state.session
    BY <1>1 DEF LedgerReady, HandshakesNew
  <1>3. Chains' = Chains \cup {e.state} /\ \A s \in Chains : s.session # e.state.session
    BY <1>1, <1>2, ChainOpens DEF Chains, Latest
  <1>4. e.iv \in 0..MaxFresh
    BY <1>1, MaxFreshAssumption DEF Establishing, LedgerReady, AttemptInv, IvInv, HasEnvelope,
      Envelope
  <1>5. CASE AdoptAsSender(c)
    <2>1. e.state = [session |-> e.iv, sent |-> 0, seen |-> {}]
      BY <1>5 DEF AdoptAsSender, LedgerReady, AttemptInv, HandshakeInv, HandshakeOf
    <2>2. released' = released /\ Alone(c) /\ pc'[c] = "idle" /\ pc[c] = "initiating"
      BY <1>5, FinishAlone DEF AdoptAsSender, LedgerReady, AttemptInv
    <2>3. Promised' = Promised
      BY <2>2, PromisesStay
    <2>4. QED
      BY <1>3, <1>4, <2>1, <2>2, <2>3, InitiateIsNext
  <1>6. CASE AdoptAsReceiver(c)
    <2>1. PICK n \in Incoming :
            /\ work[c].key = [kind |-> "receive", n |-> n]
            /\ HandshakeOf(work[c], {n})
      BY <1>6 DEF AdoptAsReceiver, LedgerReady, AttemptInv, HandshakeInv
    <2>2. e.state = [session |-> e.iv, sent |-> 0, seen |-> {n}]
      BY <2>1 DEF HandshakeOf
    <2>3. /\ released' = released /\ Alone(c) /\ pc'[c] = "committed" /\ pc[c] = "accepting"
          /\ work'[c] = work[c]
      BY <1>6 DEF AdoptAsReceiver, Goto, Alone, LedgerReady, AttemptInv, TypeOK
    <2>4. Promised' = Promised \cup {x}
      BY <2>3, PromiseMade
    <2>5. x = [session |-> e.iv, key |-> [kind |-> "receive", n |-> n], attempt |-> e.iv]
      BY <2>1, <2>2 DEF Outcome
    <2>6. QED
      BY <1>3, <1>4, <2>2, <2>3, <2>4, <2>5, AcceptIsNext
  <1>7. QED
    BY <1>5, <1>6

\* Leaving a committed attempt lets its key out, or drops it for good.
LEMMA EndSettles ==
  ASSUME LedgerReady, NEW c \in Clients, pc[c] = "committed", Externalise(c) \/ Crash(c)
  PROVE  Ledger!Next
  <1> DEFINE x == Outcome(work[c])
  <1>1. Alone(c) /\ pc'[c] = "idle"
    BY FinishAlone DEF Externalise, Crash, LedgerReady, AttemptInv
  <1>2. x \in Promised /\ Promised' = Promised \ {x}
    BY <1>1, PromiseEnds DEF LedgerReady, Promised
  <1>3. Chains' = Chains
    BY ChainsStay DEF Externalise, Crash, storeVars
  <1>4. released' \in {released, released \cup {x}}
    BY DEF Externalise, Crash
  <1>5. QED
    BY <1>2, <1>3, <1>4, LetOutIsNext

(***************************************************************************)
(* Every step of the sequencer is a step of KeyLedger or changes nothing   *)
(* it can see.                                                             *)
(***************************************************************************)
LEMMA LedgerStep ==
  ASSUME LedgerReady, [Next]_vars
  PROVE  [Ledger!Next]_(Ledger!vars)
  <1>1. ASSUME Chains' = Chains, Promised' = Promised, released' = released
        PROVE  UNCHANGED Ledger!vars
    BY <1>1 DEF Ledger!vars, Chains, Promised
  <1>2. ASSUME NEW c \in Clients, ClientStep(c)
        PROVE  [Ledger!Next]_(Ledger!vars)
    <2>1. CASE Commit(c)
      BY <2>1, CommitTakes
    <2>2. CASE AdoptAsSender(c) \/ AdoptAsReceiver(c)
      BY <2>2, AdoptOpens
    <2>3. CASE Externalise(c) \/ (Crash(c) /\ pc[c] = "committed")
      BY <2>3, EndSettles DEF Externalise
    <2>4. CASE \/ PrepareFails(c) \/ CommitFails(c) \/ AdoptFails(c)
               \/ Crash(c) /\ pc[c] # "committed"
      <3>1. Finish(c) /\ committed' = committed /\ released' = released /\ pc[c] # "committed"
        BY <2>4 DEF PrepareFails, CommitFails, AdoptFails, Crash, storeVars
      <3>2. Alone(c) /\ pc'[c] = "idle"
        BY <3>1, FinishAlone DEF LedgerReady, AttemptInv
      <3>3. QED
        BY <1>1, <3>1, <3>2, ChainsStay, PromisesStay
    <2>5. CASE Load(c) \/ Prepare(c) \/ EstablishAsSender(c) \/ EstablishAsReceiver(c)
      <3>1. /\ committed' = committed /\ released' = released
            /\ Alone(c) /\ pc'[c] # "committed" /\ pc[c] # "committed"
        BY <2>5 DEF Load, Prepare, EstablishAsSender, EstablishAsReceiver, BeginEstablish, Goto,
          Alone, storeVars, LedgerReady, AttemptInv, TypeOK
      <3>2. QED
        BY <1>1, <3>1, ChainsStay, PromisesStay
    <2>6. CASE EstablishRefused(c)
      <3>1. UNCHANGED <<committed, pc, work, released>>
        BY <2>6 DEF EstablishRefused
      <3>2. Promised' = Promised
        BY <3>1 DEF Promised, Outcome
      <3>3. QED
        BY <1>1, <3>1, <3>2, ChainsStay
    <2>7. QED
      BY <1>2, <2>1, <2>2, <2>3, <2>4, <2>5, <2>6 DEF ClientStep
  <1>3. CASE Reset \/ StorageFault \/ UNCHANGED vars
    <2>1. UNCHANGED <<committed, pc, work, released>>
      BY <1>3 DEF Reset, DeleteSession, StorageFault, vars, storeVars
    <2>2. Promised' = Promised
      BY <2>1 DEF Promised, Outcome
    <2>3. QED
      BY <1>1, <2>1, <2>2, ChainsStay
  <1>4. QED
    BY <1>2, <1>3 DEF Next

LEMMA LedgerStart == Init => Ledger!Init
  BY DEF Init, StoreInit, Ledger!Init, Latest

(***************************************************************************)
(* Without deletions the sequencer implements KeyLedger, whatever the tabs *)
(* do to each other and whatever becomes of the storage.                   *)
(***************************************************************************)
THEOREM LedgerImplemented ==
  ASSUME MaxResets = 0
  PROVE  Spec => KeepsLedger
  <1>1. Init => AttemptInv /\ Ledger!Init
    BY AttemptStart, LedgerStart
  <1>2. AttemptInv /\ [Next]_vars => AttemptInv'
    BY AttemptStep
  <1>3. IInv /\ AttemptInv /\ [Next]_vars => [Ledger!Next]_(Ledger!vars)
    BY ReadyFromIInv, LedgerStep
  <1>4. Spec => [](IInv /\ AttemptTyped)
    BY Inductive
  <1>5. QED
    BY <1>1, <1>2, <1>3, <1>4, PTL DEF Spec, KeepsLedger, Ledger!Spec

-----------------------------------------------------------------------------
(***************************************************************************)
(* KeyLedger keeps its promise: its invariant, for chains and taken keys   *)
(* of any kind, and through its steps.                                     *)
(***************************************************************************)
LedgerSound(chains, taken) ==
  /\ chains \subseteq EngineState
  /\ \A s, t \in chains : s.session = t.session => s = t
  /\ \A p \in taken :
       p.key \in Keys /\ \E s \in chains : s.session = p.session /\ Spent(p.key, s)
  /\ \A p, q \in taken : p.session = q.session /\ p.key = q.key => p = q

\* A chain under a new name has consumed nothing.
LEMMA InitiateKeeps ==
  ASSUME NEW chains, NEW taken, LedgerSound(chains, taken),
         NEW session \in Nat, \A s \in chains : s.session # session
  PROVE  LedgerSound(chains \cup {[session |-> session, sent |-> 0, seen |-> {}]}, taken)
  <1> DEFINE s == [session |-> session, sent |-> 0, seen |-> {}]
             opened == chains \cup {s}
  <1>1. s \in EngineState /\ s.session = session
    BY DEF EngineState
  <1> HIDE DEF s
  <1>2. opened \subseteq EngineState /\ \A u, v \in opened : u.session = v.session => u = v
    BY <1>1 DEF LedgerSound
  <1>3. \A p \in taken :
          p.key \in Keys /\ \E u \in opened : u.session = p.session /\ Spent(p.key, u)
    BY DEF LedgerSound
  <1>4. \A p, q \in taken : p.session = q.session /\ p.key = q.key => p = q
    BY DEF LedgerSound
  <1>5. LedgerSound(opened, taken)
    BY <1>2, <1>3, <1>4 DEF LedgerSound
  <1>6. QED
    BY <1>5 DEF s

\* Accepting a handshake consumes the key of its first message in a chain of its own.
LEMMA AcceptKeeps ==
  ASSUME NEW chains, NEW taken, LedgerSound(chains, taken),
         NEW session \in Nat, NEW n \in Incoming, \A s \in chains : s.session # session
  PROVE  LedgerSound(
           chains \cup {[session |-> session, sent |-> 0, seen |-> {n}]},
           taken \cup {[session |-> session, key |-> [kind |-> "receive", n |-> n], attempt |-> session]})
  <1> DEFINE k == [kind |-> "receive", n |-> n]
             s == [session |-> session, sent |-> 0, seen |-> {n}]
             x == [session |-> session, key |-> k, attempt |-> session]
             opened == chains \cup {s}
  <1>1. k \in Keys /\ Spent(k, s)
    BY DEF Keys, Spent
  <1>2. s \in EngineState /\ s.session = session
    BY DEF EngineState
  <1>3. x.session = session /\ x.key = k
    OBVIOUS
  <1> HIDE DEF k, s, x
  <1>4. opened \subseteq EngineState /\ \A u, v \in opened : u.session = v.session => u = v
    BY <1>2 DEF LedgerSound
  <1>5. \A p \in taken : p.session # session
    BY DEF LedgerSound
  <1>6. \A p \in taken :
          p.key \in Keys /\ \E u \in opened : u.session = p.session /\ Spent(p.key, u)
    BY DEF LedgerSound
  <1>7. x.key \in Keys /\ \E u \in opened : u.session = x.session /\ Spent(x.key, u)
    BY <1>1, <1>2, <1>3
  <1>8. \A p, q \in taken \cup {x} : p.session = q.session /\ p.key = q.key => p = q
    BY <1>3, <1>5 DEF LedgerSound
  <1>9. LedgerSound(opened, taken \cup {x})
    BY <1>4, <1>6, <1>7, <1>8 DEF LedgerSound
  <1>10. QED
    BY <1>9 DEF k, s, x

\* Taking a key advances the chain, so the key and all before it are consumed.
LEMMA TakeKeeps ==
  ASSUME NEW chains, NEW taken, LedgerSound(chains, taken),
         NEW s \in chains, NEW k \in UsableKeys(s), NEW attempt
  PROVE  LedgerSound((chains \ {s}) \cup {Advance(s, k)},
                     taken \cup {[session |-> s.session, key |-> k, attempt |-> attempt]})
  <1> DEFINE t == Advance(s, k)
             x == [session |-> s.session, key |-> k, attempt |-> attempt]
             chains2 == (chains \ {s}) \cup {t}
             taken2 == taken \cup {x}
  <1>1. s \in EngineState /\ k \in Keys /\ Usable(k, s)
    BY DEF LedgerSound, EngineState, UsableKeys, Keys, Usable
  <1>2. /\ ~Spent(k, s) /\ Spent(k, t) /\ t \in EngineState /\ t.session = s.session
        /\ \A j \in Keys : Spent(j, s) => Spent(j, t)
    BY <1>1 DEF EngineState, Keys, Usable, Spent, Advance
  <1>3. x.session = s.session /\ x.key = k
    OBVIOUS
  <1> HIDE DEF t, x
  <1>4. chains2 \subseteq EngineState /\ \A u, v \in chains2 : u.session = v.session => u = v
    BY <1>2 DEF LedgerSound
  <1>5. ASSUME NEW p \in taken
        PROVE  p.key \in Keys /\ \E u \in chains2 : u.session = p.session /\ Spent(p.key, u)
    <2>1. PICK u \in chains : u.session = p.session /\ Spent(p.key, u)
      BY DEF LedgerSound
    <2>2. p.key \in Keys
      BY DEF LedgerSound
    <2>3. CASE u = s
      BY <1>2, <2>1, <2>2, <2>3
    <2>4. CASE u # s
      BY <2>1, <2>2, <2>4
    <2>5. QED
      BY <2>3, <2>4
  <1>6. \A p \in taken : ~(p.session = s.session /\ p.key = k)
    BY <1>2 DEF LedgerSound
  <1>7. \A p, q \in taken2 : p.session = q.session /\ p.key = q.key => p = q
    BY <1>3, <1>6 DEF LedgerSound
  <1>8. x.key \in Keys /\ \E u \in chains2 : u.session = x.session /\ Spent(x.key, u)
    BY <1>1, <1>2, <1>3
  <1>9. LedgerSound(chains2, taken2)
    BY <1>4, <1>5, <1>7, <1>8 DEF LedgerSound
  <1>10. QED
    BY <1>9 DEF t, x

\* The invariant of the instance, in the names above.
LEMMA LedgerInvIs ==
  /\ Ledger!LedgerInv <=> LedgerSound(Chains, Promised \cup released)
  /\ Ledger!LedgerInv' <=> LedgerSound(Chains', Promised' \cup released')
  BY DEF Ledger!LedgerInv, Ledger!Taken, Ledger!EngineState, Ledger!Keys, Ledger!Spent,
         LedgerSound, EngineState, Keys, Spent, Chains, Promised

LEMMA PromiseKept == Ledger!LedgerInv /\ [Ledger!Next]_(Ledger!vars) => Ledger!LedgerInv'
  <1> SUFFICES ASSUME Ledger!LedgerInv, [Ledger!Next]_(Ledger!vars) PROVE Ledger!LedgerInv'
    OBVIOUS
  <1> DEFINE taken == Promised \cup released
  <1>1. LedgerSound(Chains, taken)
    BY LedgerInvIs
  <1>2. ASSUME NEW session \in 0 .. MaxFresh, Ledger!Initiate(session)
        PROVE  LedgerSound(Chains', Promised' \cup released')
    <2>1. /\ \A s \in Chains : s.session # session
          /\ Chains' = Chains \cup {[session |-> session, sent |-> 0, seen |-> {}]}
          /\ Promised' = Promised /\ released' = released
      BY <1>2 DEF Ledger!Initiate, Ledger!NewName, Chains, Promised
    <2>2. LedgerSound(Chains \cup {[session |-> session, sent |-> 0, seen |-> {}]}, taken)
      BY <1>1, <2>1, InitiateKeeps
    <2>3. QED
      BY <2>1, <2>2
  <1>3. ASSUME NEW session \in 0 .. MaxFresh, NEW n \in Incoming, Ledger!Accept(session, n)
        PROVE  LedgerSound(Chains', Promised' \cup released')
    <2> DEFINE x == [session |-> session, key |-> [kind |-> "receive", n |-> n], attempt |-> session]
    <2>1. /\ \A s \in Chains : s.session # session
          /\ Chains' = Chains \cup {[session |-> session, sent |-> 0, seen |-> {n}]}
          /\ Promised' = Promised \cup {x} /\ released' = released
      BY <1>3 DEF Ledger!Accept, Ledger!NewName, Chains, Promised
    <2>2. Promised' \cup released' = taken \cup {x}
      BY <2>1
    <2>3. LedgerSound(Chains \cup {[session |-> session, sent |-> 0, seen |-> {n}]}, taken \cup {x})
      BY <1>1, <2>1, AcceptKeeps
    <2>4. QED
      BY <2>1, <2>2, <2>3
  <1>4. ASSUME NEW s \in Chains, NEW k \in UsableKeys(s), NEW attempt \in 0 .. MaxFresh,
               Ledger!Take(s, k, attempt)
        PROVE  LedgerSound(Chains', Promised' \cup released')
    <2> DEFINE x == [session |-> s.session, key |-> k, attempt |-> attempt]
    <2>1. /\ Chains' = (Chains \ {s}) \cup {Advance(s, k)}
          /\ Promised' = Promised \cup {x} /\ released' = released
      BY <1>4 DEF Ledger!Take, Ledger!Advance, Advance, Chains, Promised
    <2>2. Promised' \cup released' = taken \cup {x}
      BY <2>1
    <2>3. LedgerSound((Chains \ {s}) \cup {Advance(s, k)}, taken \cup {x})
      BY <1>1, TakeKeeps
    <2>4. QED
      BY <2>1, <2>2, <2>3
  <1>5. ASSUME NEW p \in Promised, Ledger!LetOut(p) \/ Ledger!Forget(p)
        PROVE  LedgerSound(Chains', Promised' \cup released')
    <2>1. Chains' = Chains /\ Promised' \cup released' \subseteq taken
      BY <1>5 DEF Ledger!LetOut, Ledger!Forget, Chains, Promised
    <2>2. QED
      BY <1>1, <2>1 DEF LedgerSound
  <1>6. CASE UNCHANGED Ledger!vars
    <2>1. Chains' = Chains /\ Promised' = Promised /\ released' = released
      BY <1>6 DEF Ledger!vars, Chains, Promised
    <2>2. QED
      BY <1>1, <2>1, LedgerInvIs
  <1>7. CASE Ledger!Next
    <2>1. \A s : Ledger!UsableKeys(s) = UsableKeys(s)
      BY DEF Ledger!UsableKeys, UsableKeys
    <2>2. LedgerSound(Chains', Promised' \cup released')
      BY <1>2, <1>3, <1>4, <1>5, <1>7, <2>1 DEF Ledger!Next, Chains, Promised
    <2>3. QED
      BY <2>2, LedgerInvIs
  <1>8. QED
    BY <1>6, <1>7

(***************************************************************************)
(* The promise holds: every key let out is consumed in the chain of its    *)
(* handshake, and it was let out for one attempt.                          *)
(***************************************************************************)
THEOREM LedgerKept == KeepsLedger => []Ledger!LedgerInv
  <1>1. Ledger!Init => Ledger!LedgerInv
    BY DEF Ledger!Init, Ledger!LedgerInv, Ledger!Taken
  <1>2. QED
    BY <1>1, PromiseKept, PTL DEF KeepsLedger, Ledger!Spec

(***************************************************************************)
(* No key is let out for two attempts, whatever is initiated, accepted,    *)
(* taken, let out and forgotten.                                           *)
(***************************************************************************)
THEOREM LedgerLetsOutOnce == KeepsLedger => []Ledger!LetOutOnce
  <1>1. Ledger!LedgerInv => Ledger!LetOutOnce
    BY DEF Ledger!LedgerInv, Ledger!Taken, Ledger!LetOutOnce
  <1>2. QED
    BY <1>1, LedgerKept, PTL

-----------------------------------------------------------------------------
\* The lock gives the refinement what it needs, whatever was deleted.
LEMMA ReadyFromLocked == LockedInv => LedgerReady
  <1> SUFFICES ASSUME LockedInv PROVE LedgerReady
    OBVIOUS
  <1>1. OneLine
    BY DEF OneLine, LockedInv, LinearHistory, AttemptInv, TypeOK, StoreTypeOK, Envelope
  <1>2. CommitsExtend /\ HandshakesNew
    BY DEF CommitsExtend, HandshakesNew, LockedInv, LockedWork
  <1>3. QED
    BY <1>1, <1>2 DEF LedgerReady, LockedInv

\* While a client moves, the others hold no attempt.
LEMMA OthersIdle ==
  ASSUME Serialised, LockedInv, NEW c \in Clients, ClientStep(c)
  PROVE  \A d \in Clients \ {c} : pc[d] = "idle" /\ pc'[d] = "idle"
  <1>1. Alone(c) \/ pc' = pc
    BY DEF LockedInv, AttemptInv, TypeOK, ClientStep, Load, Prepare, PrepareFails, Commit,
      CommitFails, Externalise, Crash, EstablishAsSender, EstablishAsReceiver, EstablishRefused,
      BeginEstablish, AdoptAsSender, AdoptAsReceiver, AdoptFails, Finish, Goto, Alone
  <1>2. pc[c] # "idle" \/ LockFree
    BY DEF ClientStep, Load, Prepare, PrepareFails, Commit, CommitFails, Externalise, Crash,
      EstablishAsSender, EstablishAsReceiver, EstablishRefused, BeginEstablish, AdoptAsSender,
      AdoptAsReceiver, AdoptFails
  <1>3. \A d \in Clients \ {c} : pc[d] = "idle"
    BY <1>2 DEF LockedInv, OneAtATime, LockFree
  <1>4. QED
    BY <1>1, <1>3 DEF Alone

\* With the other clients idle, what is left to show is about c and the store.
LEMMA LockedFrom ==
  ASSUME NEW c \in Clients, \A d \in Clients \ {c} : pc'[d] = "idle",
         AttemptInv', LockedStore', LinearHistory', LockedWork(c)'
  PROVE  LockedInv'
  <1>1. OneAtATime'
    BY DEF OneAtATime
  <1>2. \A d \in Clients \ {c} : LockedWork(d)'
    BY DEF LockedWork, Establishing
  <1>3. QED
    BY <1>1, <1>2 DEF LockedInv

\* A step that commits nothing keeps the histories as they are.
LEMMA LockedQuiet ==
  ASSUME LockedInv, committed' = committed, fresh' \in Nat, fresh <= fresh',
         record' \in {record, None}
  PROVE  LockedStore' /\ LinearHistory'
  <1>1. Latest' = Latest
    BY ChainsStay
  <1>2. \A e \in committed : e.state.session \in Nat
    BY DEF LockedInv, AttemptInv, TypeOK, StoreTypeOK, Envelope, EngineState
  <1>3. \A e \in committed : e.state.session < fresh'
    BY <1>2 DEF LockedInv, LockedStore, AttemptInv, TypeOK, StoreTypeOK
  <1>4. QED
    BY <1>1, <1>3 DEF LockedInv, LockedStore, LinearHistory

LEMMA LoadLocked ==
  ASSUME Serialised, LockedInv, AttemptInv', NEW c \in Clients, Load(c)
  PROVE  LockedInv'
  <1>1. PICK k \in UsableKeys(record.state) :
          work' = [work EXCEPT ![c] = [NoWork EXCEPT !.key = k, !.loaded = record]]
    BY DEF Load
  <1>2. record \in Envelope /\ record.state \in EngineState
    BY ValidRecord DEF Load, Envelope, LockedInv, AttemptInv
  <1>3. record \in Latest /\ Usable(k, record.state)
    BY <1>2, UsableKeysUsable, NoneAssumption DEF LockedInv, LockedStore, Envelope
  <1>4. work'[c].key = k /\ work'[c].loaded = record /\ pc'[c] = "loaded"
    BY <1>1 DEF NoWork, Load, Goto, LockedInv, AttemptInv, TypeOK
  <1>5. UNCHANGED <<record, fresh, committed>> /\ fresh \in Nat
    BY DEF Load, storeVars, LockedInv, AttemptInv, TypeOK, StoreTypeOK
  <1>6. LockedStore' /\ LinearHistory' /\ Latest' = Latest
    BY <1>5, LockedQuiet, ChainsStay
  <1>7. LockedWork(c)'
    BY <1>3, <1>4, <1>5, <1>6 DEF LockedWork, Establishing
  <1>8. \A d \in Clients \ {c} : pc'[d] = "idle"
    BY OthersIdle DEF ClientStep
  <1>9. QED
    BY <1>6, <1>7, <1>8, LockedFrom

LEMMA PrepareLocked ==
  ASSUME Serialised, LockedInv, AttemptInv', NEW c \in Clients, Prepare(c)
  PROVE  LockedInv'
  <1> DEFINE loaded == work[c].loaded
  <1>1. /\ work'[c].key = work[c].key /\ work'[c].loaded = loaded /\ pc'[c] = "sealed"
        /\ work'[c].pre.record = record
        /\ work'[c].envelope = Sealed(loaded, Advance(loaded.state, work[c].key))
    BY DEF Prepare, PreRead, Goto, LockedInv, AttemptInv, TypeOK
  <1>2. record # None /\ pc[c] = "loaded"
    BY DEF Prepare, CanPrepare
  <1>3. UNCHANGED <<record, committed>> /\ fresh' \in Nat /\ fresh <= fresh'
    BY DEF Prepare, LockedInv, AttemptInv, TypeOK, StoreTypeOK
  <1>4. LockedStore' /\ LinearHistory' /\ Latest' = Latest
    BY <1>3, LockedQuiet, ChainsStay
  <1>5. LockedWork(c)'
    BY <1>1, <1>2, <1>3, <1>4 DEF LockedInv, LockedWork, Establishing, Sealed
  <1>6. \A d \in Clients \ {c} : pc'[d] = "idle"
    BY OthersIdle DEF ClientStep
  <1>7. QED
    BY <1>4, <1>5, <1>6, LockedFrom

LEMMA EstablishLocked ==
  ASSUME Serialised, LockedInv, AttemptInv', NEW c \in Clients,
         EstablishAsSender(c) \/ EstablishAsReceiver(c)
  PROVE  LockedInv'
  <1>1. /\ EstablishmentIv \in Nat /\ fresh \in Nat /\ fresh <= EstablishmentIv
        /\ fresh' = EstablishmentIv + 1 /\ UNCHANGED <<record, committed>>
    <2>1. fresh' = EstablishmentIv + 1 /\ UNCHANGED <<record, committed>>
      BY DEF EstablishAsSender, EstablishAsReceiver, BeginEstablish
    <2>2. fresh \in Nat
      BY DEF LockedInv, AttemptInv, TypeOK, StoreTypeOK
    <2>3. EstablishmentIv \in Nat /\ fresh <= EstablishmentIv
      BY <2>2 DEF EstablishmentIv
    <2>4. QED
      BY <2>1, <2>2, <2>3
  <1>2. work'[c].envelope.state.session = EstablishmentIv /\ Establishing(c)'
    BY DEF EstablishAsSender, EstablishAsReceiver, BeginEstablish, Established, Goto,
      Establishing, LockedInv, AttemptInv, TypeOK
  <1>3. \A e \in committed : e.state.session # EstablishmentIv
    BY <1>1 DEF LockedInv, LockedStore, AttemptInv, TypeOK, StoreTypeOK, Envelope, EngineState
  <1>4. LockedWork(c)'
    BY <1>1, <1>2, <1>3 DEF LockedWork, Establishing
  <1>5. LockedStore' /\ LinearHistory'
    BY <1>1, LockedQuiet DEF LockedInv, AttemptInv, TypeOK, StoreTypeOK
  <1>6. \A d \in Clients \ {c} : pc'[d] = "idle"
    BY OthersIdle DEF ClientStep
  <1>7. QED
    BY <1>4, <1>5, <1>6, LockedFrom

LEMMA CommitLocked ==
  ASSUME Serialised, LockedInv, AttemptInv', NEW c \in Clients, Commit(c)
  PROVE  LockedInv'
  <1> DEFINE l == work[c].loaded
             k == work[c].key
             e == work[c].envelope
  <1>1. /\ l \in Latest /\ Usable(k, l.state) /\ e.revision = l.revision + 1
        /\ e.state = Advance(l.state, k)
    BY DEF Commit, LockedInv, LockedWork
  <1>2. /\ k \in Keys /\ e \in Envelope /\ l \in Envelope /\ committed \subseteq Envelope
        /\ l.state \in EngineState /\ e.state \in EngineState /\ l \in committed
    BY <1>1 DEF Commit, LockedInv, AttemptInv, AttemptTyped, TypeOK, StoreTypeOK, Work, Latest,
      Envelope
  <1>3. e.state.session = l.state.session /\ NotBehind(e.state, l.state)
    BY <1>1, <1>2, AdvanceSpends
  <1>4. Put(e) /\ fresh' = fresh
    BY DEF Commit
  <1>5. e \in Latest' /\ committed' = committed \cup {e} /\ record' = e
    BY <1>1, <1>2, <1>3, <1>4, ChainAdvances, ReadyFromLocked DEF LedgerReady, Put
  <1>6. LockedStore'
    BY <1>2, <1>3, <1>4, <1>5 DEF LockedStore, LockedInv
  <1>7. \A f \in committed : f.state.session = e.state.session =>
          /\ f.revision < e.revision
          /\ f.state.sent <= e.state.sent
          /\ f.state.seen \subseteq e.state.seen
    <2> SUFFICES ASSUME NEW f \in committed, f.state.session = e.state.session
                 PROVE  /\ f.revision < e.revision
                        /\ f.state.sent <= e.state.sent
                        /\ f.state.seen \subseteq e.state.seen
      OBVIOUS
    <2>1. f \in Envelope /\ f.state \in EngineState /\ f.revision <= l.revision
      BY <1>1, <1>2, <1>3 DEF Latest, Envelope
    <2>2. f.state.sent <= l.state.sent /\ f.state.seen \subseteq l.state.seen
      BY <1>2, <1>3, <2>1 DEF LockedInv, LinearHistory
    <2>3. QED
      BY <1>1, <1>2, <1>3, <2>1, <2>2 DEF NotBehind, Envelope, EngineState
  <1>8. LinearHistory'
    <2> SUFFICES ASSUME NEW f \in committed', NEW g \in committed',
                        f.state.session = g.state.session, f.revision <= g.revision
                 PROVE  /\ f.revision = g.revision => f = g
                        /\ f.state.sent <= g.state.sent
                        /\ f.state.seen \subseteq g.state.seen
      BY DEF LinearHistory
    <2>1. CASE f \in committed /\ g \in committed
      BY <2>1 DEF LockedInv, LinearHistory
    <2>2. CASE f \in committed /\ g = e
      BY <1>2, <1>7, <2>2 DEF Envelope
    <2>3. CASE f = e /\ g = e
      BY <1>2, <2>3 DEF EngineState
    <2>4. CASE f = e /\ g \in committed
      BY <1>2, <1>7, <2>4 DEF Envelope
    <2>5. QED
      BY <1>5, <2>1, <2>2, <2>3, <2>4
  <1>9. pc'[c] = "committed"
    BY DEF Commit, Goto, LockedInv, AttemptInv, TypeOK
  <1>10. LockedWork(c)'
    BY <1>9 DEF LockedWork, Establishing
  <1>11. \A d \in Clients \ {c} : pc'[d] = "idle"
    BY OthersIdle DEF ClientStep
  <1>12. QED
    BY <1>6, <1>8, <1>10, <1>11, LockedFrom

LEMMA AdoptLocked ==
  ASSUME Serialised, LockedInv, AttemptInv', NEW c \in Clients,
         AdoptAsSender(c) \/ AdoptAsReceiver(c)
  PROVE  LockedInv'
  <1> DEFINE e == work[c].envelope
  <1>1. /\ Establishing(c) /\ Put(e) /\ e \in Envelope /\ fresh' = fresh
        /\ committed' = committed \cup {e} /\ record' = e
    BY DEF AdoptAsSender, AdoptAsReceiver, Establishing, Put, LockedInv, AttemptInv, AttemptTyped
  <1>2. e.state.session < fresh /\ \A f \in committed : f.state.session # e.state.session
    BY <1>1 DEF LockedInv, LockedWork
  <1>3. e \in Latest'
    BY <1>1, <1>2, ChainOpens
  <1>4. LockedStore'
    BY <1>1, <1>2, <1>3 DEF LockedStore, LockedInv
  <1>5. LinearHistory'
    BY <1>1, <1>2 DEF LockedInv, LinearHistory, Envelope, EngineState
  <1>6. pc'[c] \in {"idle", "committed"}
    BY DEF AdoptAsSender, AdoptAsReceiver, Finish, Goto, LockedInv, AttemptInv, TypeOK
  <1>7. LockedWork(c)'
    BY <1>6 DEF LockedWork, Establishing
  <1>8. \A d \in Clients \ {c} : pc'[d] = "idle"
    BY OthersIdle DEF ClientStep
  <1>9. QED
    BY <1>4, <1>5, <1>7, <1>8, LockedFrom

\* An attempt that ends without a commit, or the refusal to begin one.
LEMMA EndLocked ==
  ASSUME Serialised, LockedInv, AttemptInv', NEW c \in Clients,
         PrepareFails(c) \/ CommitFails(c) \/ AdoptFails(c) \/ Crash(c) \/ Externalise(c)
           \/ EstablishRefused(c)
  PROVE  LockedInv'
  <1>1. /\ pc'[c] = "idle" /\ record' = record /\ committed' = committed
        /\ fresh' \in Nat /\ fresh <= fresh'
    BY DEF PrepareFails, CommitFails, AdoptFails, Crash, Externalise, EstablishRefused,
      EstablishmentIv, Finish, Goto, storeVars, LockedInv, AttemptInv, TypeOK, StoreTypeOK
  <1>2. LockedStore' /\ LinearHistory'
    BY <1>1, LockedQuiet
  <1>3. LockedWork(c)'
    BY <1>1 DEF LockedWork, Establishing
  <1>4. \A d \in Clients \ {c} : pc'[d] = "idle"
    BY OthersIdle DEF ClientStep
  <1>5. QED
    BY <1>2, <1>3, <1>4, LockedFrom

\* Deletion waits for the lock; a fault that restores no old record leaves the
\* stored one or none.
LEMMA EnvironmentLocked ==
  ASSUME Serialised, "restored" \notin Faults, LockedInv, AttemptInv',
         Reset \/ StorageFault \/ UNCHANGED vars
  PROVE  LockedInv'
  <1>1. /\ pc' = pc /\ work' = work /\ record' \in {record, None} /\ committed' = committed
        /\ fresh' = fresh /\ fresh \in Nat
    BY DEF Reset, DeleteSession, StorageFault, vars, storeVars, LockedInv, AttemptInv, TypeOK,
      StoreTypeOK
  <1>2. LockedStore' /\ LinearHistory' /\ Latest' = Latest
    BY <1>1, LockedQuiet, ChainsStay
  <1>3. OneAtATime'
    BY <1>1 DEF LockedInv, OneAtATime
  <1>4. \A c \in Clients : LockedWork(c)'
    BY <1>1, <1>2 DEF LockedInv, LockedWork, Establishing
  <1>5. QED
    BY <1>2, <1>3, <1>4 DEF LockedInv

LEMMA LockedStep ==
  ASSUME Serialised, "restored" \notin Faults, LockedInv, [Next]_vars
  PROVE  LockedInv'
  <1>1. AttemptInv'
    BY AttemptStep DEF LockedInv
  <1>2. ASSUME NEW c \in Clients, ClientStep(c)
        PROVE  LockedInv'
    BY <1>1, <1>2, LoadLocked, PrepareLocked, EstablishLocked, CommitLocked, AdoptLocked,
       EndLocked DEF ClientStep
  <1>3. QED
    BY <1>1, <1>2, EnvironmentLocked DEF Next

LEMMA LockedStart == Init => LockedInv
  <1> SUFFICES ASSUME Init PROVE LockedInv
    OBVIOUS
  <1>1. AttemptInv
    BY AttemptStart
  <1>2. OneAtATime /\ LockedStore /\ LinearHistory /\ \A c \in Clients : LockedWork(c)
    BY DEF Init, StoreInit, OneAtATime, LockedStore, LinearHistory, LockedWork, Establishing
  <1>3. QED
    BY <1>1, <1>2 DEF LockedInv

\* The invariant under the Web Lock holds however often sessions are deleted,
\* unless a deleted session's record can come back.
THEOREM LockedInductive ==
  ASSUME Serialised, "restored" \notin Faults
  PROVE  Spec => []LockedInv
  <1>1. LockedInv /\ [Next]_vars => LockedInv'
    BY LockedStep
  <1>2. QED
    BY LockedStart, <1>1, PTL DEF Spec

(***************************************************************************)
(* Under the Web Lock the sequencer implements KeyLedger through any       *)
(* number of deletions and new handshakes.                                 *)
(***************************************************************************)
THEOREM LedgerImplementedUnderLock ==
  ASSUME Serialised, "restored" \notin Faults
  PROVE  Spec => KeepsLedger
  <1>1. LockedInv /\ [Next]_vars => [Ledger!Next]_(Ledger!vars)
    BY ReadyFromLocked, LedgerStep
  <1>2. QED
    BY <1>1, LedgerStart, LockedInductive, PTL DEF Spec, KeepsLedger, Ledger!Spec

(***************************************************************************)
(* No message key is released for two attempts, although deletions make    *)
(* epochs and revisions repeat: what KeyLedger promises.                   *)
(***************************************************************************)
THEOREM KeysReleasedOnceUnderLock ==
  ASSUME Serialised, "restored" \notin Faults
  PROVE  Spec => []KeyReleasedOnce
  <1>1. Ledger!LetOutOnce => KeyReleasedOnce
    BY DEF Ledger!LetOutOnce, KeyReleasedOnce
  <1>2. QED
    BY <1>1, LedgerLetsOutOnce, LedgerImplementedUnderLock, PTL

(***************************************************************************)
(* A state that loads as VALID has consumed every key its session let out: *)
(* it is the chain of its session in KeyLedger.                            *)
(***************************************************************************)
THEOREM ReleasedAreSpentUnderLock ==
  ASSUME Serialised, "restored" \notin Faults
  PROVE  Spec => []ReleasedIsSpent
  <1>1. ASSUME LockedInv, Ledger!LedgerInv, LoadStatus = "VALID", NEW x \in released,
               x.session = record.state.session
        PROVE  Spent(x.key, record.state)
    <2>1. record \in Envelope
      BY <1>1, ValidRecord DEF LockedInv, AttemptInv
    <2>2. record.state \in Chains
      BY <1>1, <2>1, NoneAssumption DEF LockedInv, LockedStore, Envelope, Chains
    <2>3. \E s \in Chains : s.session = x.session /\ Spent(x.key, s)
      BY <1>1 DEF Ledger!LedgerInv, Ledger!Taken, Ledger!Spent, Spent, Chains
    <2>4. \A s, t \in Chains : s.session = t.session => s = t
      BY <1>1 DEF Ledger!LedgerInv, Chains
    <2>5. QED
      BY <1>1, <2>2, <2>3, <2>4
  <1>2. LockedInv /\ Ledger!LedgerInv => ReleasedIsSpent
    BY <1>1 DEF ReleasedIsSpent
  <1>3. QED
    BY <1>2, LedgerKept, LockedInductive, LedgerImplementedUnderLock, PTL

(***************************************************************************)
(* The history of every handshake stays linear, before and after its       *)
(* session is deleted.                                                     *)
(***************************************************************************)
THEOREM HistoryIsLinearUnderLock ==
  ASSUME Serialised, "restored" \notin Faults
  PROVE  Spec => []LinearHistory
  BY LockedInductive, PTL DEF LockedInv

\* A compare-and-swap that would pass is over the envelope that was loaded.
LEMMA NoStaleFromLocked == LockedInv => NoStalePair
  BY DEF LockedInv, LockedWork, NoStalePair, CasHolds

(***************************************************************************)
(* What deleteRatchetSession says of stale pairs holds when deletions and  *)
(* attempts both take the Web Lock.                                        *)
(***************************************************************************)
THEOREM StalePairsRefusedUnderLock ==
  ASSUME Serialised, "restored" \notin Faults
  PROVE  Spec => []NoStalePair
  BY LockedInductive, NoStaleFromLocked, PTL

\* The only step between two VALID states that writes is phase 2.
LEMMA NeverOlderStep ==
  ASSUME LockedInv, "restored" \notin Faults, [Next]_vars, LoadStatus = "VALID",
         (LoadStatus = "VALID")'
  PROVE  ~Older(record', record)
  <1>1. record \in Envelope /\ record # None
    BY ValidRecord, NoneAssumption DEF LockedInv, AttemptInv, Envelope
  <1>2. record' \in Envelope /\ record' # None
    <2>1. TypeOK'
      BY AttemptStep DEF LockedInv, AttemptInv
    <2>2. record' # None
      BY <2>1 DEF LoadStatus, TypeOK, StoreTypeOK, Watermark
    <2>3. QED
      BY <2>1, <2>2 DEF TypeOK, StoreTypeOK
  <1>3. CASE record' = record
    BY <1>1, <1>3 DEF Older, Envelope
  <1>4. ASSUME NEW c \in Clients, Commit(c)
        PROVE  ~Older(record', record)
    <2>1. record = work[c].loaded /\ record' = work[c].envelope
      BY <1>4, NoStaleFromLocked DEF NoStalePair, Commit, Put
    <2>2. record'.epoch = record.epoch /\ record'.revision = record.revision + 1
      BY <1>4, <2>1 DEF Commit, LockedInv, LockedWork
    <2>3. QED
      BY <1>1, <2>2 DEF Older, Envelope
  <1>5. ASSUME record' # record
        PROVE  \E c \in Clients : Commit(c)
    BY <1>1, <1>2, <1>5 DEF Next, ClientStep, Load, Prepare, PrepareFails, CommitFails,
      Externalise, Crash, EstablishAsSender, EstablishAsReceiver, EstablishRefused,
      BeginEstablish, AdoptAsSender, AdoptAsReceiver, AdoptFails, AdoptHolds, Reset,
      DeleteSession, StorageFault, vars, storeVars
  <1>6. QED
    BY <1>3, <1>4, <1>5

(***************************************************************************)
(* A state that loads as VALID is never followed by an older one.          *)
(***************************************************************************)
THEOREM StateNeverOlderUnderLock ==
  ASSUME Serialised, "restored" \notin Faults
  PROVE  Spec => NeverOlder
  <1>1. LockedInv /\ [Next]_vars =>
          [LoadStatus = "VALID" /\ (LoadStatus = "VALID")' => ~Older(record', record)]_vars
    BY NeverOlderStep
  <1>2. QED
    BY <1>1, LockedInductive, PTL DEF Spec, NeverOlder
=============================================================================
