--------------------------- MODULE ChatDisplayProofs ---------------------------
(***************************************************************************)
(* What the display effect of a chat keeps for any messages, any number of *)
(* instances of the chat and any mishaps: that no bubble is left without   *)
(* an outcome, and that the notice is shown only for what cannot be read.  *)
(***************************************************************************)
EXTENDS ChatDisplay, WellFoundedInduction, TLAPS

Walking == {walk} \cup stale

\* The types, and what ties a walk and a send to the messages there are.
DisplayTyped ==
  /\ TypeOK
  /\ walk.open = open
  /\ \A w \in stale : w.open <= open /\ w.row \in server
  /\ \A w \in Walking : Decrypting(w) => w.row \in Incoming
  /\ \A o \in 1 .. MaxOpens : o > open => asked[o] = {}
  /\ sending.pc # "none" => sending.row \in server \cap Own
  /\ sending.pc = "none" => sending = NotSending
  /\ walk.pc # "rest" => walk.row \notin resolved
  /\ resolved \subseteq plain \cup undecryptable

\* A decrypt is asked for once in an instance of the chat, and one that an earlier
\* instance has under way is known to happen twice.
DecryptsClaimed ==
  /\ \A w \in Walking : Decrypting(w) => w.row \in asked[w.open]
  /\ \A v, w \in Walking :
       Decrypting(v) /\ Decrypting(w) /\ v.row = w.row /\ v.open = w.open => v = w
  /\ Decrypting(walk) => walk \notin stale
  /\ \A w \in stale : Decrypting(w) /\ w.open # open => w.row \in twice

\* What the ratchet has spent is in the cache, or a walk is about to put it there.
SpentIsStored ==
  \A m \in spent : m \in cached \/ \E w \in Walking : w.pc = "store" /\ w.row = m

\* The running walk is refused what another instance has decrypted.
RefusedTwice == walk.pc = "decrypt" /\ walk.row \in spent => walk.row \in twice

\* An own message is in the cache, was abandoned, or waits for its answer.
OwnKept ==
  \A m \in (server \cap Own) \ Incoming :
    m \in cached \cup abandoned \/ (sending.pc = "posted" /\ sending.row = m)

ShownIsKnown == walk.pc = "show" => walk.row \in cached \cup (Own \ Incoming)

NoticeKept ==
  \A m \in undecryptable \ plain :
    \/ m \in failed \cup twice \cup abandoned
    \/ m = sending.row /\ sending.pc # "none" /\ (sending.pc = "cached" => sending.open = open)

\* A message the engine was asked for has its result, or will get it.
AskedHasOutcome ==
  \A m \in asked[open] :
    m \in resolved \cup lost \cup cached \/ (Decrypting(walk) /\ walk.row = m)

\* A walk that has the manager leaves nothing behind it without a result.
WalkedHasOutcome ==
  /\ engine = "ready" /\ list # {} => walk.manager
  /\ walk.manager =>
       \A m \in list \ erased :
         m \in resolved \cup lost \/ (walk.pc # "rest" /\ m >= walk.row)

DisplayInv ==
  /\ DisplayTyped /\ DecryptsClaimed /\ SpentIsStored /\ RefusedTwice
  /\ OwnKept /\ ShownIsKnown /\ NoticeKept
  /\ AskedHasOutcome /\ WalkedHasOutcome

-----------------------------------------------------------------------------
(* The walk *)

\* A set of natural numbers that is not empty has a least one, which Min chooses.
LEMMA MinIsLeast ==
  ASSUME NEW T \in SUBSET Nat, T # {}
  PROVE  Min(T) \in T /\ \A y \in T : Min(T) <= y
  <1>1. IsWellFoundedOn(OpToRel(<, Nat), Nat)
    BY NatLessThanWellFounded
  <1>2. PICK x \in T : \A y \in T : <<y, x>> \notin OpToRel(<, Nat)
    BY <1>1, WFMin
  <1>3. \A y \in T : ~(y < x)
    BY <1>2 DEF OpToRel
  <1>4. \A y \in T : x <= y
    BY <1>3
  <1>5. QED
    BY <1>4 DEF Min

\* The walk over what is still to do.
WalkOver(todo, managed, here) ==
  [pc |-> IF todo = {} THEN "rest" ELSE "cache", row |-> IF todo = {} THEN 0 ELSE Min(todo),
   manager |-> managed, open |-> here]

\* It stands at the first message of these.
LEMMA WalkOverFacts ==
  ASSUME NEW todo \in SUBSET Messages, NEW managed \in BOOLEAN, NEW here \in 1 .. MaxOpens
  PROVE  LET w == WalkOver(todo, managed, here) IN
           /\ w \in Walks
           /\ w.manager = managed /\ w.open = here /\ w.pc \in {"rest", "cache"}
           /\ w.pc # "rest" => w.row \in todo
           /\ \A m \in todo : w.pc # "rest" /\ m >= w.row
  <1> DEFINE w == WalkOver(todo, managed, here)
  <1>1. Messages \subseteq Nat
    BY DisplayAssumption
  <1>2. todo # {} => Min(todo) \in todo /\ \A m \in todo : Min(todo) <= m
    <2>1. todo \in SUBSET Nat
      BY <1>1
    <2>2. QED
      BY <2>1, MinIsLeast
  <1>3. CASE todo = {}
    BY <1>3 DEF Walks, WalkOver
  <1>4. CASE todo # {}
    <2>1. w.row \in todo /\ \A m \in todo : w.row <= m
      BY <1>2, <1>4 DEF WalkOver
    <2>2. w.pc = "cache" /\ w.manager = managed /\ w.open = here
      BY <1>4 DEF WalkOver
    <2>3. w \in Walks
      BY <1>4, <2>1 DEF Walks, WalkOver
    <2>4. \A m \in todo : m >= w.row
      BY <1>1, <2>1
    <2>5. QED
      BY <2>1, <2>2, <2>3, <2>4
  <1>5. QED
    BY <1>3, <1>4

-----------------------------------------------------------------------------
(***************************************************************************)
(* The steps, by what they do to the walks.                                *)
(***************************************************************************)

\* The walk has its result, or finds that there is none, and goes on.
Settling ==
  /\ walk.pc \in {"show", "decrypt", "store"}
  /\ resolved' = resolved \cup {walk.row}
  /\ walk' = WalkFrom(walk.row + 1, list \ erased, resolved', walk.manager)
  /\ \/ plain' = plain \cup {walk.row} /\ undecryptable' = undecryptable
     \/ /\ plain' = plain /\ undecryptable' = undecryptable \cup {walk.row}
        /\ \/ walk.pc = "show" /\ walk.row \notin cached
           \/ walk.pc = "decrypt" /\ walk.row \in spent
           \/ walk.row \in failed'
  /\ \/ cached' = cached /\ walk.pc # "store"
     \/ cached' = cached \cup {walk.row} /\ walk.pc = "store"
  /\ failed \subseteq failed' /\ budget' \in {budget, budget - 1} /\ budget' >= 0
  /\ UNCHANGED <<server, erased, spent, engine, open, gate, list, asked, stale,
                 sending, lost, twice, abandoned>>

\* The effect runs again.
Restarting ==
  /\ walk' = WalkFrom(1, list' \ erased', resolved, engine' = "ready")
  /\ stale' = IF walk.pc = "rest" THEN stale ELSE stale \cup {walk}
  /\ lost' = (lost \cup (IF Decrypting(walk) THEN {walk.row} ELSE {})) \ cached
  /\ server \subseteq server' /\ server' \ server \subseteq Incoming
  /\ list \subseteq list' /\ list' \subseteq server'
  /\ erased \subseteq erased' /\ erased' \subseteq server'
  /\ engine' \in Statuses /\ (engine = "ready" => engine' = "ready")
  /\ gate' \in {"loading", "settling", "open"}
  /\ budget' \in {budget, budget - 1} /\ budget' >= 0
  /\ \/ sending' = sending /\ plain' = plain
     \/ /\ sending.pc = "cached" /\ sending' = NotSending
        /\ plain' = (IF sending.open = open THEN plain \cup {sending.row} ELSE plain)
        /\ plain' \subseteq list'
  /\ UNCHANGED <<cached, spent, open, undecryptable, resolved, asked, twice, failed,
                 abandoned>>

\* The walks are left alone.
Elsewhere ==
  /\ server \subseteq server'
  /\ \/ server' \ server \subseteq Incoming
     \/ sending'.pc = "posted" /\ server' = server \cup {sending'.row}
  /\ engine' \in Statuses /\ (engine' = "ready" <=> engine = "ready")
  /\ gate' \in {"loading", "settling", "open"}
  /\ budget' \in {budget, budget - 1} /\ budget' >= 0
  /\ \/ UNCHANGED <<sending, cached, plain, abandoned>>
     \/ /\ sending = NotSending
        /\ sending' = [pc |-> "posted", row |-> sending'.row, open |-> open]
        /\ sending'.row \in Own \cap server'
        /\ UNCHANGED <<cached, plain, abandoned>>
     \/ /\ sending.pc = "posted" /\ sending.open = open
        /\ sending' = [sending EXCEPT !.pc = "cached"]
        /\ cached' = cached \cup {sending.row}
        /\ UNCHANGED <<plain, abandoned>>
     \/ /\ sending.pc = "posted" /\ sending.open # open /\ sending' = NotSending
        /\ abandoned' = abandoned \cup {sending.row}
        /\ UNCHANGED <<cached, plain>>
     \/ /\ sending.pc = "cached" /\ sending' = NotSending
        /\ plain' = (IF sending.open = open THEN plain \cup {sending.row} ELSE plain)
        /\ plain' \subseteq plain \cup list
        /\ UNCHANGED <<cached, abandoned>>
  /\ UNCHANGED <<erased, spent, open, list, undecryptable, resolved, asked, walk,
                 stale, lost, twice, failed>>

\* Every step is one of these, or of a replaced walk, or opens the chat anew.
LEMMA StepKinds ==
  ASSUME DisplayTyped, Next
  PROVE  CacheRead \/ Decrypt \/ Settling \/ StaleStep \/ Restarting \/ Reopen \/ Elsewhere
  <1> USE DEF DisplayTyped, TypeOK
  <1>1. ASSUME Show \/ FoundLate \/ DecryptRefused \/ DecryptFails \/ Store
        PROVE  Settling
    <2>1. CASE Show
      BY <2>1 DEF Show, Settle, Advance, Settling, historyVars
    <2>2. CASE FoundLate
      BY <2>2 DEF FoundLate, Settle, Advance, Settling, historyVars
    <2>3. CASE DecryptRefused
      BY <2>3 DEF DecryptRefused, Settle, Advance, Settling, historyVars
    <2>4. CASE DecryptFails
      BY <2>4 DEF DecryptFails, Settle, Advance, Settling, historyVars
    <2>5. CASE Store
      BY <2>5 DEF Store, Settle, Advance, Settling, historyVars
    <2>6. QED
      BY <1>1, <2>1, <2>2, <2>3, <2>4, <2>5
  <1>2. CASE EngineReady
    <2>1. engine' = "ready" /\ (engine' = "ready") = TRUE
      BY <1>2 DEF EngineReady
    <2>2. walk' = WalkFrom(1, list \ erased, resolved, engine' = "ready")
      BY <1>2, <2>1, Zenon DEF EngineReady, Restart
    <2>3. /\ stale' = IF walk.pc = "rest" THEN stale ELSE stale \cup {walk}
          /\ lost' = (lost \cup (IF Decrypting(walk) THEN {walk.row} ELSE {})) \ cached
      BY <1>2, Zenon DEF EngineReady, Restart
    <2>4. UNCHANGED <<server, erased, cached, spent, open, gate, list, plain, undecryptable,
                      resolved, asked, sending, twice, failed, abandoned, budget>>
      BY <1>2, Zenon DEF EngineReady
    <2>5. QED
      BY <2>1, <2>2, <2>3, <2>4 DEF Restarting, Statuses
  <1>3. CASE LoadCommit
    BY <1>3 DEF LoadCommit, Restart, Restarting, Managed
  <1>4. CASE ConnChanges
    BY <1>4 DEF ConnChanges, Restart, Restarting, Managed
  <1>5. ASSUME NEW m \in Messages, PeerPosts(m)
        PROVE  Restarting \/ Elsewhere
    <2>1. CASE gate = "loading"
      BY <1>5, <2>1 DEF PeerPosts, Elsewhere
    <2>2. CASE gate # "loading"
      BY <1>5, <2>2 DEF PeerPosts, Restart, Restarting, Managed
    <2>3. QED
      BY <2>1, <2>2
  <1>6. ASSUME NEW m \in Messages, Echo(m)
        PROVE  Restarting
    BY <1>6 DEF Echo, Restart, Restarting, Managed
  <1>7. ASSUME NEW m \in Messages, Erase(m)
        PROVE  Restarting
    BY <1>7 DEF Erase, Restart, Restarting, Managed
  <1>8. ASSUME NEW m \in Messages, Send(m)
        PROVE  Elsewhere
    BY <1>8 DEF Send, Elsewhere, historyVars, displayVars
  <1>9. CASE EngineFails \/ RetryEngine \/ Reload \/ Reveal
    BY <1>9 DEF EngineFails, RetryEngine, Reload, Reveal, Elsewhere, historyVars, displayVars, Statuses
  <1>10. CASE SendAnswered
    BY <1>10 DEF SendAnswered, Elsewhere, displayVars
  <1>11. CASE SendShown
    <2>1. CASE sending.open = open /\ sending.row \notin list
      BY <1>11, <2>1 DEF SendShown, Restart, Restarting, Managed
    <2>2. CASE sending.open = open /\ sending.row \in list
      <3>1. list' = list \cup {sending.row}
        BY <1>11, <2>2 DEF SendShown
      <3>2. list' = list
        BY <2>2, <3>1
      <3>3. QED
        BY <1>11, <2>2, <3>2 DEF SendShown, Elsewhere
    <2>3. CASE sending.open # open
      BY <1>11, <2>3 DEF SendShown, Elsewhere
    <2>4. QED
      BY <2>1, <2>2, <2>3
  <1>12. QED
    BY <1>1, <1>2, <1>3, <1>4, <1>5, <1>6, <1>7, <1>8, <1>9, <1>10, <1>11 DEF Next

-----------------------------------------------------------------------------
(* The parts of the invariant, one by one *)

\* Records of a walk, changed in their place.
LEMMA WalkAt ==
  ASSUME NEW w \in Walks, NEW at \in {"rest", "cache", "show", "decrypt", "store"},
         NEW v, v = [w EXCEPT !.pc = at]
  PROVE  v \in Walks /\ v.pc = at /\ v.row = w.row /\ v.manager = w.manager /\ v.open = w.open
  BY DEF Walks

\* What a restarted or advanced walk is, in a step that keeps the instance.
LEMMA Restarted ==
  ASSUME DisplayTyped, Restarting
  PROVE  /\ walk' \in Walks /\ walk'.open = open /\ walk'.pc \in {"rest", "cache"}
         /\ walk'.manager = (engine' = "ready")
         /\ walk'.pc # "rest" => walk'.row \in (list' \ erased') \ resolved
         /\ \A m \in (list' \ erased') \ resolved : walk'.pc # "rest" /\ m >= walk'.row
  <1>1. server' \subseteq Messages
    BY DEF DisplayTyped, TypeOK, Restarting, Messages
  <1>2. (list' \ erased') \in SUBSET Messages /\ 1 \in Nat /\ (engine' = "ready") \in BOOLEAN
    BY <1>1 DEF Restarting
  <1>3. open \in 1 .. MaxOpens /\ walk' = WalkFrom(1, list' \ erased', resolved, engine' = "ready")
    BY DEF DisplayTyped, TypeOK, Restarting
  <1>4. \A m \in Messages : m \in Nat \ {0}
    BY DisplayAssumption
  <1>5. \A m \in (list' \ erased') \ resolved : m >= 1
    BY <1>2, <1>4
  <1>6. PICK todo \in SUBSET Messages :
          /\ todo = {m \in (list' \ erased') \ resolved : m >= 1}
          /\ walk' = WalkOver(todo, engine' = "ready", open)
    BY <1>2, <1>3 DEF WalkFrom, WalkOver
  <1>7. PICK managed \in BOOLEAN : managed = (engine' = "ready") /\ walk' = WalkOver(todo, managed, open)
    BY <1>6
  <1>8. /\ walk' \in Walks /\ walk'.open = open /\ walk'.pc \in {"rest", "cache"}
        /\ walk'.manager = managed
        /\ walk'.pc # "rest" => walk'.row \in todo
        /\ \A m \in todo : walk'.pc # "rest" /\ m >= walk'.row
    <2>1. open \in 1 .. MaxOpens /\ walk' = WalkOver(todo, managed, open)
      BY <1>3, <1>7
    <2>2. QED
      BY <2>1, WalkOverFacts
  <1>9. QED
    BY <1>5, <1>6, <1>7, <1>8

\* A walk that goes on is still a walk of the same instance of the chat.
LEMMA Advanced ==
  ASSUME DisplayTyped, Settling
  PROVE  /\ walk' \in Walks /\ walk'.open = open /\ walk'.pc \in {"rest", "cache"}
         /\ walk'.manager = walk.manager
         /\ walk'.pc # "rest" => walk'.row \in (list \ erased) \ resolved'
         /\ \A m \in (list \ erased) \ resolved' :
              m > walk.row => walk'.pc # "rest" /\ m >= walk'.row
  <1>1. walk \in Walks /\ walk.row \in list /\ open \in 1 .. MaxOpens
    BY DEF DisplayTyped, TypeOK, Settling
  <1>2. list \in SUBSET Messages /\ walk.row \in Nat
    BY <1>1, DisplayAssumption DEF DisplayTyped, TypeOK
  <1>3. (list \ erased) \in SUBSET Messages /\ walk.row + 1 \in Nat /\ walk.manager \in BOOLEAN
    BY <1>1, <1>2 DEF Walks
  <1>4. walk' = WalkFrom(walk.row + 1, list \ erased, resolved', walk.manager)
    BY DEF Settling
  <1>5. \A m \in (list \ erased) \ resolved' : m > walk.row => m >= walk.row + 1
    BY <1>2, <1>3, DisplayAssumption
  <1>6. PICK todo \in SUBSET Messages :
          /\ todo = {m \in (list \ erased) \ resolved' : m >= walk.row + 1}
          /\ walk' = WalkOver(todo, walk.manager, open)
    BY <1>3, <1>4 DEF WalkFrom, WalkOver
  <1>7. /\ walk' \in Walks /\ walk'.open = open /\ walk'.pc \in {"rest", "cache"}
        /\ walk'.manager = walk.manager
        /\ walk'.pc # "rest" => walk'.row \in todo
        /\ \A m \in todo : walk'.pc # "rest" /\ m >= walk'.row
    <2>1. /\ open \in 1 .. MaxOpens /\ walk.manager \in BOOLEAN
          /\ walk' = WalkOver(todo, walk.manager, open)
      BY <1>1, <1>3, <1>6
    <2>2. QED
      BY <2>1, WalkOverFacts
  <1>8. QED
    BY <1>5, <1>6, <1>7

\* A read of the cache asks the engine, shows what is there, or goes on.
LEMMA ReadFacts ==
  ASSUME DisplayTyped, CacheRead
  PROVE  /\ walk.pc = "cache" /\ walk' \in Walks /\ walk'.open = open
         /\ walk'.manager = walk.manager
         /\ \/ /\ walk'.pc = "show" /\ walk'.row = walk.row /\ asked' = asked
               /\ walk.row \in cached \/ walk.row \notin Incoming
            \/ /\ walk'.pc = "decrypt" /\ walk'.row = walk.row
               /\ walk.row \in Incoming \ cached /\ walk.row \notin asked[open]
               /\ asked' = [asked EXCEPT ![open] = @ \cup {walk.row}]
            \/ /\ walk'.pc \in {"rest", "cache"} /\ asked' = asked
               /\ walk.row \notin cached /\ (walk.manager => walk.row \in asked[open])
               /\ walk'.pc # "rest" => walk'.row \in (list \ erased) \ resolved
               /\ \A m \in (list \ erased) \ resolved :
                    m > walk.row => walk'.pc # "rest" /\ m >= walk'.row
  <1>1. walk \in Walks /\ walk.row \in list /\ open \in 1 .. MaxOpens /\ walk.open = open
    BY DEF DisplayTyped, TypeOK, CacheRead
  <1>2. walk.pc = "cache"
    BY DEF CacheRead
  <1>3. CASE LookedUp(walk) = "show"
    <2>1. walk.row \in cached \/ walk.row \notin Incoming
      BY <1>3 DEF LookedUp
    <2>2. walk' = [walk EXCEPT !.pc = "show"] /\ asked' = asked
      BY <1>3 DEF CacheRead, Claimed
    <2>3. QED
      BY <1>1, <1>2, <2>1, <2>2, WalkAt
  <1>4. CASE LookedUp(walk) = "decrypt"
    <2>1. walk.row \in Incoming \ cached /\ walk.row \notin asked[open]
      BY <1>1, <1>4 DEF LookedUp, mayAsk
    <2>2. walk' = [walk EXCEPT !.pc = "decrypt"]
      BY <1>4 DEF CacheRead
    <2>3. asked' = [asked EXCEPT ![open] = @ \cup {walk.row}]
      BY <1>1, <1>4 DEF CacheRead, Claimed
    <2>4. QED
      BY <1>1, <1>2, <2>1, <2>2, <2>3, WalkAt
  <1>5. CASE LookedUp(walk) = "skip"
    <2>1. walk.row \notin cached /\ (walk.manager => walk.row \in asked[open])
      BY <1>1, <1>5 DEF LookedUp, mayAsk
    <2>2. list \in SUBSET Messages /\ walk.row \in Nat
      BY <1>1, DisplayAssumption DEF DisplayTyped, TypeOK
    <2>3. (list \ erased) \in SUBSET Messages /\ walk.row + 1 \in Nat /\ walk.manager \in BOOLEAN
      BY <1>1, <2>2 DEF Walks
    <2>4. walk' = WalkFrom(walk.row + 1, list \ erased, resolved, walk.manager) /\ asked' = asked
      BY <1>5 DEF CacheRead, Claimed
    <2>5. \A m \in (list \ erased) \ resolved : m > walk.row => m >= walk.row + 1
      BY <2>2, <2>3, DisplayAssumption
    <2>6. PICK todo \in SUBSET Messages :
          /\ todo = {m \in (list \ erased) \ resolved : m >= walk.row + 1}
          /\ walk' = WalkOver(todo, walk.manager, open)
      BY <2>3, <2>4 DEF WalkFrom, WalkOver
    <2>7. /\ walk' \in Walks /\ walk'.manager = walk.manager /\ walk'.open = open
          /\ walk'.pc \in {"rest", "cache"}
          /\ walk'.pc # "rest" => walk'.row \in (list \ erased) \ resolved
          /\ \A m \in (list \ erased) \ resolved :
               m >= walk.row + 1 => walk'.pc # "rest" /\ m >= walk'.row
      BY <1>1, <2>3, <2>6, WalkOverFacts
    <2>8. QED
      BY <1>2, <2>1, <2>4, <2>5, <2>7
  <1>6. QED
    BY <1>3, <1>4, <1>5 DEF LookedUp

\* A send, marked otherwise.
LEMMA SendingAt ==
  ASSUME DisplayTyped, NEW v, v = NotSending \/ v = [sending EXCEPT !.pc = "cached"]
                              \/ (\E m \in Own : v = [pc |-> "posted", row |-> m, open |-> open])
  PROVE  v \in [pc : {"none", "posted", "cached"}, row : Own \cup {0}, open : 1 .. MaxOpens]
  <1>1. /\ sending \in [pc : {"none", "posted", "cached"}, row : Own \cup {0}, open : 1 .. MaxOpens]
        /\ open \in 1 .. MaxOpens /\ 1 \in 1 .. MaxOpens
    BY DisplayAssumption DEF DisplayTyped, TypeOK
  <1>2. CASE v = NotSending
    BY <1>1, <1>2 DEF NotSending
  <1>3. CASE v = [sending EXCEPT !.pc = "cached"]
    BY <1>1, <1>3
  <1>4. CASE \E m \in Own : v = [pc |-> "posted", row |-> m, open |-> open]
    BY <1>1, <1>4
  <1>5. QED
    BY <1>2, <1>3, <1>4

\* Every step keeps the types.
LEMMA DisplayTypedKept ==
  ASSUME DisplayInv, Next
  PROVE  DisplayTyped'
  <1> USE DEF DisplayInv
  <1>1. CASE CacheRead
    <2>1. /\ walk' \in Walks /\ walk'.open = open /\ asked' \in [1 .. MaxOpens -> SUBSET Incoming]
          /\ walk'.pc # "rest" => walk'.row \in list /\ walk'.row \notin resolved
          /\ Decrypting(walk') => walk'.row \in Incoming
          /\ \A o \in 1 .. MaxOpens : o > open => asked'[o] = {}
      <3>1. walk.row \in list /\ walk.row \notin resolved /\ open \in 1 .. MaxOpens
        BY <1>1 DEF CacheRead, DisplayTyped, TypeOK
      <3>2. asked' = asked \/ (walk.row \in Incoming /\ asked' = [asked EXCEPT ![open] = @ \cup {walk.row}])
        BY <1>1, ReadFacts
      <3>3. asked' \in [1 .. MaxOpens -> SUBSET Incoming]
        BY <3>1, <3>2 DEF DisplayTyped, TypeOK
      <3>4. \A o \in 1 .. MaxOpens : o > open => asked'[o] = {}
        <4>1. \A o \in 1 .. MaxOpens : o > open => o # open
          BY <3>1
        <4>2. QED
          BY <3>1, <3>2, <4>1 DEF DisplayTyped, TypeOK
      <3>5. QED
        BY <1>1, <3>1, <3>3, <3>4, ReadFacts DEF Decrypting
    <2>2. UNCHANGED <<server, erased, cached, spent, engine, open, gate, list, plain,
                      undecryptable, resolved, stale, sending, budget>>
      BY <1>1 DEF CacheRead
    <2>3. QED
      BY <2>1, <2>2 DEF DisplayTyped, TypeOK, Walking, Decrypting
  <1>2. CASE Decrypt
    <2>1. /\ walk' \in Walks /\ walk'.pc = "store" /\ walk'.row = walk.row /\ walk'.open = open
          /\ Decrypting(walk)
      BY <1>2, WalkAt DEF Decrypt, DisplayTyped, TypeOK, Decrypting
    <2>2. spent' = spent \cup {walk.row} /\ walk.row \in list \cap Incoming
      BY <1>2, <2>1 DEF Decrypt, DisplayTyped, TypeOK, Walking
    <2>3. UNCHANGED <<server, erased, cached, engine, open, gate, list, plain,
                      undecryptable, resolved, asked, stale, sending, budget>>
      BY <1>2 DEF Decrypt
    <2>4. QED
      BY <1>2, <2>1, <2>2, <2>3 DEF Decrypt, DisplayTyped, TypeOK, Walking, Decrypting
  <1>3. CASE Settling
    <2>1. /\ walk' \in Walks /\ walk'.open = open /\ walk'.pc \in {"rest", "cache"}
          /\ walk'.pc # "rest" => walk'.row \in list /\ walk'.row \notin resolved'
      BY <1>3, Advanced
    <2>2. walk.row \in list
      BY <1>3 DEF Settling, DisplayTyped, TypeOK
    <2>3. /\ plain' \cup undecryptable' \cup resolved' \subseteq list
          /\ resolved' \subseteq plain' \cup undecryptable'
          /\ cached' \subseteq server
      BY <1>3, <2>2 DEF Settling, DisplayTyped, TypeOK
    <2>4. budget' \in 0 .. MaxMishaps
      BY <1>3, DisplayAssumption DEF Settling, DisplayTyped, TypeOK
    <2>5. UNCHANGED <<server, erased, spent, engine, open, gate, list, asked, stale, sending>>
      BY <1>3 DEF Settling
    <2>6. QED
      BY <2>1, <2>3, <2>4, <2>5 DEF DisplayTyped, TypeOK, Walking, Decrypting
  <1>4. CASE StaleStep
    <2>1. PICK w \in stale :
            StaleRead(w) \/ StaleEnds(w) \/ StaleDecrypt(w) \/ StaleFails(w) \/ StaleStore(w)
      BY <1>4 DEF StaleStep
    <2>2. w \in Walks /\ w.row \in server /\ w.open <= open /\ w.open \in 1 .. MaxOpens
      BY DEF DisplayTyped, TypeOK, Walks
    <2>3. /\ stale' \subseteq Walks
          /\ \A v \in stale' : /\ v.open <= open /\ v.row \in server
                               /\ Decrypting(v) => v.row \in Incoming
      <3>1. CASE StaleEnds(w) \/ StaleFails(w) \/ StaleStore(w)
        BY <3>1 DEF StaleEnds, StaleFails, StaleStore, DisplayTyped, TypeOK, Walking
      <3>2. CASE StaleRead(w)
        <4>1. PICK v : v = [w EXCEPT !.pc = "decrypt"]
          OBVIOUS
        <4>2. stale' = (stale \ {w}) \cup {v} /\ w.row \in Incoming
          BY <3>2, <4>1 DEF StaleRead, LookedUp
        <4>3. v \in Walks /\ v.row = w.row /\ v.open = w.open
          BY <2>2, <4>1, WalkAt
        <4>4. QED
          BY <2>2, <4>2, <4>3 DEF DisplayTyped, TypeOK, Walking
      <3>3. CASE StaleDecrypt(w)
        <4>1. PICK v : v = [w EXCEPT !.pc = "store"]
          OBVIOUS
        <4>2. stale' = (stale \ {w}) \cup {v} /\ w.row \in Incoming
          BY <3>3, <4>1 DEF StaleDecrypt, DisplayTyped, Walking, Decrypting
        <4>3. v \in Walks /\ v.row = w.row /\ v.open = w.open
          BY <2>2, <4>1, WalkAt
        <4>4. QED
          BY <2>2, <4>2, <4>3 DEF DisplayTyped, TypeOK, Walking
      <3>4. QED
        BY <2>1, <3>1, <3>2, <3>3
    <2>4. /\ asked' \in [1 .. MaxOpens -> SUBSET Incoming]
          /\ \A o \in 1 .. MaxOpens : o > open => asked'[o] = {}
      <3>1. CASE LookedUp(w) = "decrypt" /\ asked' = Claimed(w)
        <4>1. asked' = [asked EXCEPT ![w.open] = @ \cup {w.row}] /\ w.row \in Incoming
          BY <3>1 DEF Claimed, LookedUp
        <4>2. \A o \in 1 .. MaxOpens : o > open => o # w.open
          BY <2>2 DEF DisplayTyped, TypeOK
        <4>3. QED
          BY <2>2, <4>1, <4>2 DEF DisplayTyped, TypeOK
      <3>2. CASE asked' = asked
        BY <3>2 DEF DisplayTyped, TypeOK
      <3>3. QED
        BY <2>1, <3>1, <3>2 DEF StaleRead, StaleEnds, StaleDecrypt, StaleFails, StaleStore
    <2>5. cached' \cup spent' \subseteq server /\ budget' \in 0 .. MaxMishaps
      <3>1. /\ cached' \subseteq cached \cup {w.row} /\ spent' \subseteq spent \cup {w.row}
            /\ budget' = budget \/ (budget > 0 /\ budget' = budget - 1)
        BY <2>1 DEF StaleRead, StaleEnds, StaleDecrypt, StaleFails, StaleStore
      <3>2. cached \cup spent \subseteq server /\ budget \in 0 .. MaxMishaps /\ MaxMishaps \in Nat
        BY DisplayAssumption DEF DisplayTyped, TypeOK
      <3>3. QED
        BY <2>2, <3>1, <3>2
    <2>6. UNCHANGED <<server, erased, engine, open, gate, list, plain, undecryptable,
                      resolved, walk, sending>>
      BY <1>4 DEF StaleStep
    <2>7. QED
      BY <2>3, <2>4, <2>5, <2>6 DEF DisplayTyped, TypeOK, Walking, Decrypting
  <1>5. CASE Restarting
    <2>1. /\ walk' \in Walks /\ walk'.open = open /\ walk'.pc \in {"rest", "cache"}
          /\ walk'.pc # "rest" => walk'.row \in list' /\ walk'.row \notin resolved
      BY <1>5, Restarted
    <2>2. /\ stale' \subseteq Walks
          /\ \A v \in stale' : /\ v.open <= open /\ v.row \in server'
                               /\ Decrypting(v) => v.row \in Incoming
      BY <1>5 DEF Restarting, DisplayTyped, TypeOK, Walking
    <2>3. /\ server' \subseteq Messages
          /\ plain' \cup undecryptable' \cup resolved' \subseteq list'
          /\ resolved' \subseteq plain' \cup undecryptable'
          /\ cached' \cup spent' \subseteq server'
      BY <1>5 DEF Restarting, DisplayTyped, TypeOK, Messages
    <2>4. /\ sending' \in [pc : {"none", "posted", "cached"}, row : Own \cup {0}, open : 1 .. MaxOpens]
          /\ sending'.pc # "none" => sending'.row \in server' \cap Own
          /\ sending'.pc = "none" => sending' = NotSending
      <3>1. sending' = sending \/ sending' = NotSending
        BY <1>5 DEF Restarting
      <3>2. server \subseteq server' /\ NotSending.pc = "none"
        BY <1>5 DEF Restarting, NotSending
      <3>3. QED
        BY <3>1, <3>2, SendingAt DEF DisplayTyped, TypeOK
    <2>5. budget' \in 0 .. MaxMishaps
      BY <1>5, DisplayAssumption DEF Restarting, DisplayTyped, TypeOK
    <2>6. /\ UNCHANGED <<open, asked, resolved>> /\ list' \subseteq server' /\ erased' \subseteq server'
          /\ engine' \in Statuses /\ gate' \in {"loading", "settling", "open"}
      BY <1>5 DEF Restarting
    <2>7. QED
      BY <2>1, <2>2, <2>3, <2>4, <2>5, <2>6 DEF DisplayTyped, TypeOK, Walking, Decrypting
  <1>6. CASE Reopen
    <2>1. open' = open + 1 /\ open' \in 1 .. MaxOpens
      BY <1>6, DisplayAssumption DEF Reopen, DisplayTyped, TypeOK
    <2>2. walk' = [pc |-> "rest", row |-> 0, manager |-> FALSE, open |-> open']
      BY <1>6 DEF Reopen, Resting
    <2>3. walk' \in Walks
      BY <2>1, <2>2 DEF Walks
    <2>4. /\ stale' \subseteq Walks
          /\ \A v \in stale' : /\ v.open <= open' /\ v.row \in server
                               /\ Decrypting(v) => v.row \in Incoming
      <3>1. \A v \in stale' : v \in Walks /\ v.open <= open /\ v.row \in server
                              /\ (Decrypting(v) => v.row \in Incoming)
        BY <1>6 DEF Reopen, DisplayTyped, TypeOK, Walking
      <3>2. \A v \in Walks : v.open \in Int
        BY DEF Walks
      <3>3. open \in Int /\ \A v \in stale' : v.open <= open'
        BY <2>1, <3>1, <3>2 DEF DisplayTyped, TypeOK
      <3>4. QED
        BY <3>1, <3>3
    <2>5. \A o \in 1 .. MaxOpens : o > open' => asked[o] = {}
      BY <2>1 DEF DisplayTyped, TypeOK
    <2>6. UNCHANGED <<server, erased, cached, spent, engine, asked, sending, budget>>
      BY <1>6 DEF Reopen
    <2>7. list' = {} /\ plain' = {} /\ undecryptable' = {} /\ resolved' = {} /\ gate' = "loading"
      BY <1>6 DEF Reopen
    <2>8. TypeOK'
      BY <2>1, <2>2, <2>3, <2>4, <2>6, <2>7 DEF DisplayTyped, TypeOK
    <2>9. walk'.open = open' /\ walk'.pc = "rest"
      BY <2>2
    <2>10. QED
      BY <2>4, <2>5, <2>6, <2>7, <2>8, <2>9 DEF DisplayTyped, Walking, Decrypting
  <1>7. CASE Elsewhere
    <2>1. /\ sending' \in [pc : {"none", "posted", "cached"}, row : Own \cup {0}, open : 1 .. MaxOpens]
          /\ sending'.pc # "none" => sending'.row \in server' \cap Own
          /\ sending'.pc = "none" => sending' = NotSending
      <3>1. server \subseteq server'
        BY <1>7 DEF Elsewhere
      <3>2. CASE sending' = sending
        BY <3>1, <3>2 DEF DisplayTyped, TypeOK
      <3>3. CASE sending' = NotSending
        BY <3>3, SendingAt DEF NotSending
      <3>4. CASE /\ sending' = [pc |-> "posted", row |-> sending'.row, open |-> open]
                 /\ sending'.row \in Own \cap server'
        <4>1. PICK m \in Own \cap server' : sending' = [pc |-> "posted", row |-> m, open |-> open]
          BY <3>4
        <4>2. QED
          BY <4>1, SendingAt
      <3>5. CASE sending.pc = "posted" /\ sending' = [sending EXCEPT !.pc = "cached"]
        <4>1. sending.row \in server \cap Own
          BY <3>5 DEF DisplayTyped
        <4>2. sending' \in [pc : {"none", "posted", "cached"}, row : Own \cup {0}, open : 1 .. MaxOpens]
          BY <3>5, SendingAt
        <4>3. sending'.row = sending.row /\ sending'.pc = "cached"
          BY <3>5 DEF DisplayTyped, TypeOK
        <4>4. QED
          BY <3>1, <4>1, <4>2, <4>3
      <3>6. QED
        BY <1>7, <3>2, <3>3, <3>4, <3>5 DEF Elsewhere
    <2>2. server' \subseteq Messages /\ cached' \cup spent' \subseteq server' /\ plain' \subseteq list'
      <3>1. server' \subseteq Messages
        <4>1. server' \ server \subseteq Incoming \/ server' \ server \subseteq Own
          BY <1>7, <2>1 DEF Elsewhere
        <4>2. QED
          BY <4>1 DEF Messages, DisplayTyped, TypeOK
      <3>2. cached' = cached \/ (sending.pc = "posted" /\ cached' = cached \cup {sending.row})
        BY <1>7 DEF Elsewhere
      <3>3. plain' = plain \/ plain' \subseteq plain \cup list
        BY <1>7 DEF Elsewhere
      <3>4. list' = list /\ spent' = spent /\ server \subseteq server'
        BY <1>7 DEF Elsewhere
      <3>5. QED
        BY <3>1, <3>2, <3>3, <3>4 DEF DisplayTyped, TypeOK
    <2>3. budget' \in 0 .. MaxMishaps
      BY <1>7, DisplayAssumption DEF Elsewhere, DisplayTyped, TypeOK
    <2>4. plain \subseteq plain'
      BY <1>7 DEF Elsewhere
    <2>5. QED
      BY <1>7, <2>1, <2>2, <2>3, <2>4 DEF Elsewhere, DisplayTyped, TypeOK, Walking
  <1>8. QED
    BY <1>1, <1>2, <1>3, <1>4, <1>5, <1>6, <1>7, StepKinds

\* One decrypt of a message in an instance: whoever asks is the first.
LEMMA DecryptsClaimedKept ==
  ASSUME DisplayInv, Next
  PROVE  DecryptsClaimed'
  <1> USE DEF DisplayInv
  <1>1. CASE CacheRead
    <2>1. open \in 1 .. MaxOpens /\ walk.open = open /\ UNCHANGED <<stale, open, twice>>
      BY <1>1 DEF CacheRead, DisplayTyped, TypeOK, historyVars
    <2>2. CASE asked' = asked /\ ~Decrypting(walk')
      BY <2>1, <2>2 DEF DecryptsClaimed, Walking, Decrypting
    <2>3. CASE /\ walk'.pc = "decrypt" /\ walk'.row = walk.row /\ walk'.open = open
               /\ walk.row \notin asked[open]
               /\ asked' = [asked EXCEPT ![open] = @ \cup {walk.row}]
      <3>1. /\ \A o \in 1 .. MaxOpens : asked[o] \subseteq asked'[o]
            /\ walk.row \in asked'[open]
        BY <2>1, <2>3 DEF DisplayTyped, TypeOK
      <3>2. \A v \in stale : v.open \in 1 .. MaxOpens
        BY DEF DisplayTyped, TypeOK, Walks
      <3>3. \A v \in stale : Decrypting(v) => ~(v.row = walk.row /\ v.open = open)
        BY <2>3 DEF DecryptsClaimed, Walking
      <3>4. \A v \in Walking' : v = walk' \/ v \in stale
        BY <2>1 DEF Walking
      <3>5. \A v \in Walking' : Decrypting(v) => v.row \in asked'[v.open]
        BY <2>3, <3>1, <3>2, <3>4 DEF DecryptsClaimed, Walking
      <3>6. \A u, v \in Walking' :
               Decrypting(u) /\ Decrypting(v) /\ u.row = v.row /\ u.open = v.open => u = v
        BY <2>3, <3>3, <3>4 DEF DecryptsClaimed, Walking
      <3>7. walk' \notin stale
        BY <2>3, <3>3 DEF Decrypting
      <3>8. QED
        BY <2>1, <3>5, <3>6, <3>7 DEF DecryptsClaimed, Decrypting
    <2>4. QED
      BY <1>1, <2>2, <2>3, ReadFacts DEF Decrypting
  <1>2. CASE Decrypt
    <2>1. /\ walk' \in Walks /\ walk'.pc = "store" /\ walk'.row = walk.row /\ walk'.open = walk.open
          /\ Decrypting(walk) /\ UNCHANGED <<stale, open, asked, twice>>
      BY <1>2, WalkAt DEF Decrypt, DisplayTyped, TypeOK, Decrypting, historyVars
    <2>2. \A v \in stale : Decrypting(v) => ~(v.row = walk.row /\ v.open = walk.open)
      BY <2>1 DEF DecryptsClaimed, Walking
    <2>3. walk' \notin stale
      BY <2>1, <2>2 DEF Decrypting
    <2>4. \A v \in Walking' : v = walk' \/ v \in stale
      BY <2>1 DEF Walking
    <2>5. QED
      BY <2>1, <2>2, <2>3, <2>4 DEF DecryptsClaimed, Walking
  <1>3. CASE Settling
    <2>1. ~Decrypting(walk') /\ UNCHANGED <<stale, open, asked, twice>>
      BY <1>3, Advanced DEF Settling, Decrypting
    <2>2. QED
      BY <2>1 DEF DecryptsClaimed, Walking
  <1>4. CASE StaleStep
    <2>1. PICK w \in stale :
            StaleRead(w) \/ StaleEnds(w) \/ StaleDecrypt(w) \/ StaleFails(w) \/ StaleStore(w)
      BY <1>4 DEF StaleStep
    <2>2. UNCHANGED <<open, walk>> /\ w \in Walks /\ w.open \in 1 .. MaxOpens
      BY <1>4 DEF StaleStep, DisplayTyped, TypeOK, Walks
    <2>3. CASE StaleEnds(w) \/ StaleFails(w) \/ StaleStore(w)
      <3>1. stale' = stale \ {w} /\ UNCHANGED <<asked, twice>>
        BY <2>3 DEF StaleEnds, StaleFails, StaleStore
      <3>2. QED
        BY <2>2, <3>1 DEF DecryptsClaimed, Walking
    <2>4. CASE StaleRead(w)
      <3>1. PICK v : v = [w EXCEPT !.pc = "decrypt"]
        OBVIOUS
      <3>2. v \in Walks /\ v.pc = "decrypt" /\ v.row = w.row /\ v.open = w.open /\ Decrypting(v)
        BY <2>2, <3>1, WalkAt DEF Decrypting
      <3>3. w.row \notin asked[w.open] /\ asked' = [asked EXCEPT ![w.open] = @ \cup {w.row}]
        BY <2>4 DEF StaleRead, Claimed, LookedUp, mayAsk
      <3>4. stale' = (stale \ {w}) \cup {v} /\ twice \subseteq twice' /\ (w.open # open => w.row \in twice')
        BY <2>4, <3>1 DEF StaleRead
      <3>5. /\ \A o \in 1 .. MaxOpens : asked[o] \subseteq asked'[o]
            /\ w.row \in asked'[w.open]
        BY <2>2, <3>3 DEF DisplayTyped, TypeOK
      <3>6. \A u \in Walking : u.open \in 1 .. MaxOpens
        BY DEF DisplayTyped, TypeOK, Walks, Walking
      <3>7. \A u \in Walking : Decrypting(u) => ~(u.row = w.row /\ u.open = w.open)
        BY <3>3 DEF DecryptsClaimed
      <3>8. \A u \in Walking' : u = v \/ u \in Walking
        BY <2>2, <3>4 DEF Walking
      <3>9. \A u \in Walking' : Decrypting(u) => u.row \in asked'[u.open]
        BY <3>2, <3>5, <3>6, <3>8 DEF DecryptsClaimed
      <3>10. \A u, x \in Walking' :
               Decrypting(u) /\ Decrypting(x) /\ u.row = x.row /\ u.open = x.open => u = x
        BY <3>2, <3>7, <3>8 DEF DecryptsClaimed
      <3>11. Decrypting(walk) => walk # v /\ walk \notin stale
        BY <3>2, <3>7 DEF DecryptsClaimed, Walking
      <3>12. \A u \in stale' : Decrypting(u) /\ u.open # open => u.row \in twice'
        BY <3>2, <3>4 DEF DecryptsClaimed
      <3>13. QED
        BY <2>2, <3>4, <3>9, <3>10, <3>11, <3>12 DEF DecryptsClaimed
    <2>5. CASE StaleDecrypt(w)
      <3>1. PICK v : v = [w EXCEPT !.pc = "store"]
        OBVIOUS
      <3>2. v \in Walks /\ v.pc = "store" /\ v.row = w.row /\ v.open = w.open /\ Decrypting(v)
        BY <2>2, <3>1, WalkAt DEF Decrypting
      <3>3. stale' = (stale \ {w}) \cup {v} /\ UNCHANGED <<asked, twice>> /\ Decrypting(w)
        BY <2>5, <3>1 DEF StaleDecrypt, Decrypting
      <3>4. \A u \in Walking : Decrypting(u) /\ u.row = w.row /\ u.open = w.open => u = w
        BY <3>3 DEF DecryptsClaimed, Walking
      <3>5. Decrypting(walk) => walk # w /\ walk \notin stale
        BY DEF DecryptsClaimed
      <3>6. \A u \in Walking' : u = v \/ (u \in Walking /\ (Decrypting(u) => u # w))
        BY <2>2, <3>3, <3>5 DEF Walking
      <3>7. \A u, x \in Walking' :
               Decrypting(u) /\ Decrypting(x) /\ u.row = x.row /\ u.open = x.open => u = x
        BY <3>2, <3>4, <3>6 DEF DecryptsClaimed
      <3>8. \A u \in Walking' : Decrypting(u) => u.row \in asked'[u.open]
        BY <3>2, <3>3, <3>6 DEF DecryptsClaimed, Walking
      <3>9. Decrypting(walk) => walk \notin stale'
        BY <3>2, <3>3, <3>4, <3>5 DEF Walking
      <3>10. \A u \in stale' : Decrypting(u) /\ u.open # open => u.row \in twice'
        BY <3>2, <3>3 DEF DecryptsClaimed
      <3>11. QED
        BY <2>2, <3>7, <3>8, <3>9, <3>10 DEF DecryptsClaimed
    <2>6. QED
      BY <2>1, <2>3, <2>4, <2>5
  <1>5. CASE Restarting
    <2>1. ~Decrypting(walk') /\ UNCHANGED <<open, asked, twice>>
      BY <1>5, Restarted DEF Restarting, Decrypting
    <2>2. stale' \subseteq Walking /\ walk.open = open
      BY <1>5 DEF Restarting, Walking, DisplayTyped
    <2>3. QED
      BY <2>1, <2>2 DEF DecryptsClaimed, Walking
  <1>6. CASE Reopen
    <2>1. ~Decrypting(walk') /\ asked' = asked /\ stale' \subseteq Walking
      BY <1>6 DEF Reopen, Resting, Walking, Decrypting
    <2>2. \A w \in Walking : Decrypting(w) => w.row \in twice'
      BY <1>6 DEF Reopen, Walking
    <2>3. QED
      BY <2>1, <2>2 DEF DecryptsClaimed, Walking
  <1>7. CASE Elsewhere
    BY <1>7 DEF Elsewhere, DecryptsClaimed, Walking
  <1>8. QED
    BY <1>1, <1>2, <1>3, <1>4, <1>5, <1>6, <1>7, StepKinds

\* Whatever the ratchet spends, the walk that asked for it carries to the cache.
LEMMA SpentIsStoredKept ==
  ASSUME DisplayInv, Next
  PROVE  SpentIsStored'
  <1> USE DEF DisplayInv
  <1>1. CASE CacheRead
    <2>1. UNCHANGED <<stale, spent, cached>> /\ walk.pc = "cache"
      BY <1>1 DEF CacheRead
    <2>2. QED
      BY <2>1 DEF SpentIsStored, Walking
  <1>2. CASE Decrypt
    <2>1. /\ walk'.pc = "store" /\ walk'.row = walk.row /\ walk.pc = "decrypt"
          /\ UNCHANGED <<stale, cached>> /\ spent' = spent \cup {walk.row}
      BY <1>2, WalkAt DEF Decrypt, DisplayTyped, TypeOK
    <2>2. QED
      BY <2>1 DEF SpentIsStored, Walking
  <1>3. CASE Settling
    <2>1. /\ UNCHANGED <<stale, spent>> /\ cached \subseteq cached'
          /\ walk.pc = "store" => walk.row \in cached'
      BY <1>3 DEF Settling
    <2>2. QED
      BY <2>1 DEF SpentIsStored, Walking
  <1>4. CASE StaleStep
    <2>1. PICK w \in stale :
            StaleRead(w) \/ StaleEnds(w) \/ StaleDecrypt(w) \/ StaleFails(w) \/ StaleStore(w)
      BY <1>4 DEF StaleStep
    <2>2. walk' = walk /\ w \in Walks
      BY <1>4 DEF StaleStep, DisplayTyped, TypeOK
    <2>3. CASE StaleEnds(w) \/ StaleFails(w) \/ StaleRead(w)
      <3>1. stale \ {w} \subseteq stale' /\ w.pc # "store" /\ UNCHANGED <<cached, spent>>
        BY <2>3 DEF StaleEnds, StaleFails, StaleRead
      <3>2. QED
        BY <2>2, <3>1 DEF SpentIsStored, Walking
    <2>4. CASE StaleDecrypt(w)
      <3>1. PICK v : v = [w EXCEPT !.pc = "store"]
        OBVIOUS
      <3>2. v.pc = "store" /\ v.row = w.row
        BY <2>2, <3>1, WalkAt
      <3>3. /\ stale' = (stale \ {w}) \cup {v} /\ w.pc # "store" /\ cached' = cached
            /\ spent' = spent \cup {w.row}
        BY <2>4, <3>1 DEF StaleDecrypt
      <3>4. QED
        BY <2>2, <3>2, <3>3 DEF SpentIsStored, Walking
    <2>5. CASE StaleStore(w)
      <3>1. stale' = stale \ {w} /\ cached' = cached \cup {w.row} /\ spent' = spent
        BY <2>5 DEF StaleStore
      <3>2. QED
        BY <2>2, <3>1 DEF SpentIsStored, Walking
    <2>6. QED
      BY <2>1, <2>3, <2>4, <2>5
  <1>5. CASE Restarting \/ Reopen
    <2>1. /\ UNCHANGED <<cached, spent>> /\ stale \subseteq stale'
          /\ walk.pc # "rest" => walk \in stale'
      BY <1>5 DEF Restarting, Reopen
    <2>2. QED
      BY <2>1 DEF SpentIsStored, Walking
  <1>6. CASE Elsewhere
    <2>1. UNCHANGED <<walk, stale, spent>> /\ cached \subseteq cached'
      BY <1>6 DEF Elsewhere
    <2>2. QED
      BY <2>1 DEF SpentIsStored, Walking
  <1>7. QED
    BY <1>1, <1>2, <1>3, <1>4, <1>5, <1>6, StepKinds

\* A message is spent before the running walk asks for it only by another instance.
LEMMA RefusedTwiceKept ==
  ASSUME DisplayInv, Next
  PROVE  RefusedTwice'
  <1> USE DEF DisplayInv
  <1>1. CASE CacheRead
    <2>1. SUFFICES ASSUME walk'.pc = "decrypt", walk'.row \in spent'
                   PROVE  walk'.row \in twice'
      BY DEF RefusedTwice
    <2>2. walk'.row = walk.row /\ walk.row \notin asked[open] /\ walk.row \notin cached /\ walk.pc = "cache"
      BY <1>1, <2>1, ReadFacts
    <2>3. UNCHANGED <<spent, twice>>
      BY <1>1 DEF CacheRead, historyVars
    <2>4. PICK w \in stale : w.pc = "store" /\ w.row = walk.row
      BY <2>1, <2>2, <2>3 DEF SpentIsStored, Walking
    <2>5. w.open # open
      BY <2>2, <2>4 DEF DecryptsClaimed, Walking, Decrypting
    <2>6. QED
      BY <2>2, <2>3, <2>4, <2>5 DEF DecryptsClaimed, Decrypting
  <1>2. CASE Decrypt
    BY <1>2, WalkAt DEF Decrypt, DisplayTyped, TypeOK, RefusedTwice
  <1>3. CASE Settling
    BY <1>3, Advanced DEF RefusedTwice
  <1>4. CASE StaleStep
    <2>1. PICK w \in stale :
            StaleRead(w) \/ StaleEnds(w) \/ StaleDecrypt(w) \/ StaleFails(w) \/ StaleStore(w)
      BY <1>4 DEF StaleStep
    <2>2. walk' = walk /\ twice \subseteq twice'
      BY <1>4, <2>1 DEF StaleStep, StaleRead, StaleEnds, StaleDecrypt, StaleFails, StaleStore
    <2>3. spent' = spent \/ (StaleDecrypt(w) /\ spent' = spent \cup {w.row})
      BY <2>1 DEF StaleRead, StaleEnds, StaleDecrypt, StaleFails, StaleStore
    <2>4. CASE StaleDecrypt(w) /\ spent' = spent \cup {w.row} /\ walk.pc = "decrypt" /\ walk.row = w.row
      <3>1. Decrypting(w) /\ Decrypting(walk)
        BY <2>4 DEF StaleDecrypt, Decrypting
      <3>2. w.open # open
        BY <2>4, <3>1 DEF DecryptsClaimed, DisplayTyped, Walking
      <3>3. QED
        BY <2>2, <2>4, <3>1, <3>2 DEF DecryptsClaimed, RefusedTwice
    <2>5. QED
      BY <2>2, <2>3, <2>4 DEF RefusedTwice
  <1>5. CASE Restarting
    BY <1>5, Restarted DEF RefusedTwice
  <1>6. CASE Reopen
    BY <1>6 DEF Reopen, Resting, RefusedTwice
  <1>7. CASE Elsewhere
    BY <1>7 DEF Elsewhere, RefusedTwice
  <1>8. QED
    BY <1>1, <1>2, <1>3, <1>4, <1>5, <1>6, <1>7, StepKinds

\* An own message is cached before its send is over, or its caching was abandoned.
LEMMA OwnIsKept ==
  ASSUME DisplayInv, Next
  PROVE  OwnKept' /\ ShownIsKnown'
  <1> USE DEF DisplayInv
  <1>1. CASE CacheRead
    <2>1. UNCHANGED <<server, cached, sending, abandoned>> /\ walk.row \in server
      BY <1>1 DEF CacheRead, historyVars, DisplayTyped, TypeOK
    <2>2. walk'.pc = "show" => walk'.row \in cached \cup (Own \ Incoming)
      BY <1>1, <2>1, ReadFacts DEF DisplayTyped, TypeOK, Messages
    <2>3. QED
      BY <2>1, <2>2 DEF OwnKept, ShownIsKnown
  <1>2. CASE Decrypt
    <2>1. UNCHANGED <<server, cached, sending, abandoned>> /\ walk'.pc = "store"
      BY <1>2, WalkAt DEF Decrypt, historyVars, DisplayTyped, TypeOK
    <2>2. QED
      BY <2>1 DEF OwnKept, ShownIsKnown
  <1>3. CASE Settling
    <2>1. /\ UNCHANGED <<server, sending, abandoned>> /\ cached \subseteq cached'
          /\ walk'.pc \in {"rest", "cache"}
      BY <1>3, Advanced DEF Settling
    <2>2. QED
      BY <2>1 DEF OwnKept, ShownIsKnown
  <1>4. CASE StaleStep
    <2>1. /\ UNCHANGED <<server, sending, abandoned, walk>> /\ cached \subseteq cached'
      BY <1>4 DEF StaleStep, StaleRead, StaleEnds, StaleDecrypt, StaleFails, StaleStore
    <2>2. QED
      BY <2>1 DEF OwnKept, ShownIsKnown
  <1>5. CASE Restarting
    <2>1. walk'.pc \in {"rest", "cache"}
      BY <1>5, Restarted
    <2>2. /\ server' \ server \subseteq Incoming /\ UNCHANGED <<cached, abandoned>>
          /\ sending' = sending \/ sending.pc = "cached"
      BY <1>5 DEF Restarting
    <2>3. QED
      BY <2>1, <2>2 DEF OwnKept, ShownIsKnown
  <1>6. CASE Reopen
    BY <1>6 DEF Reopen, Resting, OwnKept, ShownIsKnown
  <1>7. CASE Elsewhere
    <2>1. walk' = walk /\ cached \subseteq cached' /\ abandoned \subseteq abandoned'
      BY <1>7 DEF Elsewhere
    <2>2. \A m \in server' \ Incoming : m \in server \/ (sending'.pc = "posted" /\ sending'.row = m)
      BY <1>7 DEF Elsewhere
    <2>3. \/ sending' = sending
          \/ sending.pc # "posted"
          \/ sending.row \in cached' \cup abandoned'
      BY <1>7 DEF Elsewhere, NotSending
    <2>4. QED
      BY <2>1, <2>2, <2>3 DEF OwnKept, ShownIsKnown
  <1>8. QED
    BY <1>1, <1>2, <1>3, <1>4, <1>5, <1>6, <1>7, StepKinds

\* The notice is put only where nothing else can come.
LEMMA NoticeIsKept ==
  ASSUME DisplayInv, Next
  PROVE  NoticeKept'
  <1> USE DEF DisplayInv
  <1>1. CASE CacheRead \/ Decrypt
    BY <1>1 DEF CacheRead, Decrypt, historyVars, NoticeKept
  <1>2. CASE Settling
    <2>1. /\ failed \subseteq failed' /\ UNCHANGED <<twice, abandoned, sending, open>>
          /\ plain \subseteq plain'
      BY <1>2 DEF Settling
    <2>2. CASE undecryptable' = undecryptable
      BY <2>1, <2>2 DEF NoticeKept
    <2>3. CASE /\ undecryptable' = undecryptable \cup {walk.row}
               /\ \/ walk.pc = "show" /\ walk.row \notin cached
                  \/ walk.pc = "decrypt" /\ walk.row \in spent
                  \/ walk.row \in failed'
      <3>1. CASE walk.pc = "show" /\ walk.row \notin cached
        <4>1. walk.row \in (server \cap Own) \ Incoming
          BY <3>1 DEF ShownIsKnown, DisplayTyped, TypeOK
        <4>2. walk.row \in abandoned \/ (sending.pc = "posted" /\ sending.row = walk.row)
          BY <3>1, <4>1 DEF OwnKept
        <4>3. QED
          BY <2>1, <2>3, <4>2 DEF NoticeKept
      <3>2. CASE walk.pc = "decrypt" /\ walk.row \in spent
        BY <2>1, <2>3, <3>2 DEF NoticeKept, RefusedTwice
      <3>3. CASE walk.row \in failed'
        BY <2>1, <2>3, <3>3 DEF NoticeKept
      <3>4. QED
        BY <2>3, <3>1, <3>2, <3>3
    <2>4. QED
      BY <1>2, <2>2, <2>3 DEF Settling
  <1>3. CASE StaleStep
    <2>1. /\ failed \subseteq failed' /\ twice \subseteq twice'
          /\ UNCHANGED <<plain, undecryptable, abandoned, sending, open>>
      BY <1>3 DEF StaleStep, StaleRead, StaleEnds, StaleDecrypt, StaleFails, StaleStore
    <2>2. QED
      BY <2>1 DEF NoticeKept
  <1>4. CASE Restarting
    <2>1. UNCHANGED <<undecryptable, failed, twice, abandoned, open>>
      BY <1>4 DEF Restarting
    <2>2. CASE sending' = sending /\ plain' = plain
      BY <2>1, <2>2 DEF NoticeKept
    <2>3. CASE /\ sending.pc = "cached"
               /\ plain' = (IF sending.open = open THEN plain \cup {sending.row} ELSE plain)
      BY <2>1, <2>3 DEF NoticeKept
    <2>4. QED
      BY <1>4, <2>2, <2>3 DEF Restarting
  <1>5. CASE Reopen
    BY <1>5 DEF Reopen, NoticeKept
  <1>6. CASE Elsewhere
    <2>1. UNCHANGED <<undecryptable, failed, twice, open>> /\ abandoned \subseteq abandoned'
      BY <1>6 DEF Elsewhere
    <2>2. CASE UNCHANGED <<sending, plain>>
      BY <2>1, <2>2 DEF NoticeKept
    <2>3. CASE sending = NotSending /\ plain' = plain
      BY <2>1, <2>3 DEF NoticeKept, NotSending
    <2>4. CASE /\ sending.pc = "posted" /\ sending.open = open /\ plain' = plain
               /\ sending' = [sending EXCEPT !.pc = "cached"]
      <3>1. sending'.pc = "cached" /\ sending'.row = sending.row /\ sending'.open = open
        BY <2>4 DEF DisplayTyped, TypeOK
      <3>2. QED
        BY <2>1, <2>4, <3>1 DEF NoticeKept
    <2>5. CASE abandoned' = abandoned \cup {sending.row} /\ plain' = plain
      BY <2>1, <2>5 DEF NoticeKept
    <2>6. CASE /\ sending.pc = "cached"
               /\ plain' = (IF sending.open = open THEN plain \cup {sending.row} ELSE plain)
      BY <2>1, <2>6 DEF NoticeKept
    <2>7. QED
      BY <1>6, <2>2, <2>3, <2>4, <2>5, <2>6 DEF Elsewhere
  <1>7. QED
    BY <1>1, <1>2, <1>3, <1>4, <1>5, <1>6, StepKinds

\* No walk passes a message without a result.
LEMMA OutcomeKept ==
  ASSUME DisplayInv, Next
  PROVE  AskedHasOutcome' /\ WalkedHasOutcome'
  <1> USE DEF DisplayInv
  <1>1. \A m \in Messages : m \in Nat
    BY DisplayAssumption
  <1>2. CASE CacheRead
    <2>1. /\ UNCHANGED <<resolved, lost, cached, open, engine, list, erased>> /\ walk.pc = "cache"
          /\ walk'.manager = walk.manager
      BY <1>2, ReadFacts DEF CacheRead, historyVars
    <2>2. open \in 1 .. MaxOpens
      BY DEF DisplayTyped, TypeOK
    <2>3. AskedHasOutcome'
      <3>1. \/ asked' = asked
            \/ /\ walk'.pc = "decrypt" /\ walk'.row = walk.row
               /\ asked' = [asked EXCEPT ![open] = @ \cup {walk.row}]
        BY <1>2, ReadFacts
      <3>2. \/ asked'[open] = asked[open]
            \/ /\ walk'.pc = "decrypt" /\ walk'.row = walk.row
               /\ asked'[open] = asked[open] \cup {walk.row}
        BY <2>2, <3>1 DEF DisplayTyped, TypeOK
      <3>3. QED
        BY <2>1, <3>2 DEF AskedHasOutcome, Decrypting
    <2>4. WalkedHasOutcome'
      <3>1. CASE walk'.pc # "rest" /\ walk'.row = walk.row
        BY <2>1, <3>1 DEF WalkedHasOutcome
      <3>2. CASE /\ walk.row \notin cached /\ (walk.manager => walk.row \in asked[open])
                 /\ \A m \in (list \ erased) \ resolved :
                      m > walk.row => walk'.pc # "rest" /\ m >= walk'.row
        <4>1. walk.manager => walk.row \in resolved \cup lost
          BY <2>1, <3>2 DEF AskedHasOutcome, Decrypting
        <4>2. walk.row \in list /\ list \subseteq Messages
          BY <2>1 DEF DisplayTyped, TypeOK
        <4>3. ASSUME walk.manager, NEW m \in list \ erased
              PROVE  m \in resolved \cup lost \/ (walk'.pc # "rest" /\ m >= walk'.row)
          <5>1. m \in resolved \cup lost \/ m >= walk.row
            BY <4>3 DEF WalkedHasOutcome
          <5>2. m >= walk.row => m = walk.row \/ m > walk.row
            BY <1>1, <4>2
          <5>3. QED
            BY <3>2, <4>1, <4>3, <5>1, <5>2
        <4>4. QED
          BY <2>1, <4>3 DEF WalkedHasOutcome
      <3>3. QED
        BY <1>2, <3>1, <3>2, ReadFacts
    <2>5. QED
      BY <2>3, <2>4
  <1>3. CASE Decrypt
    <2>1. /\ UNCHANGED <<resolved, lost, cached, open, engine, list, erased, asked>>
          /\ walk'.pc = "store" /\ walk'.row = walk.row /\ walk'.manager = walk.manager
          /\ walk.pc = "decrypt"
      BY <1>3, WalkAt DEF Decrypt, historyVars, DisplayTyped, TypeOK
    <2>2. QED
      BY <2>1 DEF AskedHasOutcome, WalkedHasOutcome, Decrypting
  <1>4. CASE Settling
    <2>1. /\ UNCHANGED <<lost, open, engine, list, erased, asked>> /\ cached \subseteq cached'
          /\ resolved' = resolved \cup {walk.row} /\ walk'.manager = walk.manager
          /\ walk.row \in list
      BY <1>4, Advanced DEF Settling, DisplayTyped, TypeOK
    <2>2. AskedHasOutcome'
      BY <2>1 DEF AskedHasOutcome
    <2>3. list \subseteq Messages
      BY DEF DisplayTyped, TypeOK
    <2>4. ASSUME walk.manager, NEW m \in list \ erased
          PROVE  m \in resolved' \cup lost \/ (walk'.pc # "rest" /\ m >= walk'.row)
      <3>1. m \in resolved \cup lost \/ m >= walk.row
        BY <2>4 DEF WalkedHasOutcome
      <3>2. m >= walk.row => m = walk.row \/ m > walk.row
        BY <1>1, <2>1, <2>3
      <3>3. m > walk.row => m \in resolved' \/ (walk'.pc # "rest" /\ m >= walk'.row)
        BY <1>4, Advanced
      <3>4. QED
        BY <2>1, <3>1, <3>2, <3>3
    <2>5. QED
      BY <2>1, <2>2, <2>4 DEF WalkedHasOutcome
  <1>5. CASE StaleStep
    <2>1. PICK w \in stale :
            StaleRead(w) \/ StaleEnds(w) \/ StaleDecrypt(w) \/ StaleFails(w) \/ StaleStore(w)
      BY <1>5 DEF StaleStep
    <2>2. UNCHANGED <<engine, open, list, erased, resolved, walk>>
      BY <1>5 DEF StaleStep
    <2>3. lost \subseteq lost' /\ cached \subseteq cached'
      BY <2>1 DEF StaleRead, StaleEnds, StaleDecrypt, StaleFails, StaleStore
    <2>4. asked'[open] \subseteq asked[open] \cup lost'
      <3>1. CASE asked' = [asked EXCEPT ![w.open] = @ \cup {w.row}] /\ lost' = lost \cup {w.row}
        BY <3>1 DEF DisplayTyped, TypeOK
      <3>2. CASE asked' = asked
        BY <3>2
      <3>3. QED
        BY <2>1, <3>1, <3>2 DEF StaleRead, StaleEnds, StaleDecrypt, StaleFails, StaleStore, Claimed
    <2>5. QED
      BY <2>2, <2>3, <2>4 DEF AskedHasOutcome, WalkedHasOutcome
  <1>6. CASE Restarting
    <2>1. /\ lost' = (lost \cup (IF Decrypting(walk) THEN {walk.row} ELSE {})) \ cached
          /\ UNCHANGED <<cached, open, resolved, asked>>
      BY <1>6 DEF Restarting
    <2>2. AskedHasOutcome'
      BY <2>1 DEF AskedHasOutcome
    <2>3. /\ engine' = "ready" => walk'.manager
          /\ \A m \in (list' \ erased') \ resolved : walk'.pc # "rest" /\ m >= walk'.row
      BY <1>6, Restarted
    <2>4. QED
      BY <2>1, <2>2, <2>3 DEF WalkedHasOutcome
  <1>7. CASE Reopen
    <2>1. list' = {} /\ asked' = asked /\ open' = open + 1 /\ open' \in 1 .. MaxOpens
      BY <1>7, DisplayAssumption DEF Reopen, DisplayTyped, TypeOK
    <2>2. open' > open
      BY <2>1 DEF DisplayTyped, TypeOK
    <2>3. asked'[open'] = {}
      BY <2>1, <2>2 DEF DisplayTyped
    <2>4. QED
      BY <2>1, <2>3 DEF AskedHasOutcome, WalkedHasOutcome
  <1>8. CASE Elsewhere
    <2>1. /\ UNCHANGED <<open, list, erased, resolved, asked, walk, lost>> /\ cached \subseteq cached'
          /\ engine' = "ready" <=> engine = "ready"
      BY <1>8 DEF Elsewhere
    <2>2. QED
      BY <2>1 DEF AskedHasOutcome, WalkedHasOutcome
  <1>9. QED
    BY <1>2, <1>3, <1>4, <1>5, <1>6, <1>7, <1>8, StepKinds

-----------------------------------------------------------------------------
(* The theorems *)

\* The invariant holds in every state the display effect reaches.
THEOREM DisplayInductive == Spec => []DisplayInv
  <1>1. Init => DisplayInv
    <2>1. SUFFICES ASSUME Init PROVE DisplayInv
      OBVIOUS
    <2>2. /\ 1 \in 1 .. MaxOpens /\ MaxMishaps \in 0 .. MaxMishaps /\ Initially \subseteq Messages
          /\ \A m \in Messages : m # 0
      BY DisplayAssumption
    <2>3. /\ walk = [pc |-> "rest", row |-> 0, manager |-> FALSE, open |-> 1]
          /\ sending = [pc |-> "none", row |-> 0, open |-> 1]
      BY <2>1 DEF Init, Resting, NotSending
    <2>4. TypeOK
      BY <2>1, <2>2, <2>3 DEF Init, TypeOK, Statuses, Walks
    <2>5. DisplayTyped
      BY <2>1, <2>2, <2>3, <2>4 DEF Init, DisplayTyped, Walking, Decrypting
    <2>6. DecryptsClaimed /\ SpentIsStored /\ RefusedTwice
      BY <2>1, <2>3 DEF Init, DecryptsClaimed, SpentIsStored, RefusedTwice, Walking, Decrypting
    <2>7. OwnKept /\ ShownIsKnown /\ NoticeKept
      BY <2>1, <2>3 DEF Init, OwnKept, ShownIsKnown, NoticeKept
    <2>8. AskedHasOutcome /\ WalkedHasOutcome
      BY <2>1, <2>2, <2>3 DEF Init, AskedHasOutcome, WalkedHasOutcome
    <2>9. QED
      BY <2>5, <2>6, <2>7, <2>8 DEF DisplayInv
  <1>2. DisplayInv /\ [Next]_vars => DisplayInv'
    <2>1. SUFFICES ASSUME DisplayInv, [Next]_vars PROVE DisplayInv'
      OBVIOUS
    <2>2. CASE Next
      BY <2>1, <2>2, DisplayTypedKept, DecryptsClaimedKept, SpentIsStoredKept,
         RefusedTwiceKept, OwnIsKept, NoticeIsKept, OutcomeKept DEF DisplayInv
    <2>3. CASE UNCHANGED vars
      BY <2>1, <2>3 DEF vars, displayVars, historyVars, DisplayInv, DisplayTyped, TypeOK,
         DecryptsClaimed, SpentIsStored, RefusedTwice, OwnKept, ShownIsKnown, NoticeKept,
         AskedHasOutcome, WalkedHasOutcome, Walking, Decrypting
    <2>4. QED
      BY <2>1, <2>2, <2>3
  <1>3. QED
    BY <1>1, <1>2, PTL DEF Spec

\* The state of the chat has its type.
THEOREM DisplayTypeCorrect == Spec => []TypeOK
  <1>1. DisplayInv => TypeOK
    BY DEF DisplayInv, DisplayTyped
  <1>2. QED
    BY <1>1, DisplayInductive, PTL

\* PENDING is transient: with the engine ready and the effect at rest, each bubble
\* has an outcome (resolveBubbleText, lib/chatDisplay.ts).
THEOREM PendingGoes == Spec => []PendingIsTransient
  <1>1. DisplayInv => PendingIsTransient
    BY DEF DisplayInv, DisplayTyped, WalkedHasOutcome, PendingIsTransient, AtRest, Settled
  <1>2. QED
    BY <1>1, DisplayInductive, PTL

\* The notice is shown only for a message that cannot be read.
THEOREM NoticesAreTrue == Spec => []NoticeIsTrue
  <1>1. DisplayInv => NoticeIsTrue
    BY DEF DisplayInv, NoticeKept, NoticeIsTrue
  <1>2. QED
    BY <1>1, DisplayInductive, PTL
=============================================================================
