----------------------------- MODULE KeyLedger -----------------------------
(***************************************************************************)
(* What the encryption core promises, without storage, versions, tabs or   *)
(* crashes: every handshake is one chain of engine states; taking a key    *)
(* advances the chain first; a taken key is then released once, or never.  *)
(***************************************************************************)
EXTENDS DoubleRatchet

CONSTANT Names  \* random values naming handshakes and attempts

VARIABLES
  chains,    \* the current engine state of every handshake
  promised,  \* keys taken from their chain and not let out yet
  ledger     \* keys let out, with the attempt that used them

vars == <<chains, promised, ledger>>

Init == chains = {} /\ promised = {} /\ ledger = {}

NewName(session) == \A s \in chains : s.session # session

Initiate(session) ==
  /\ NewName(session)
  /\ chains' = chains \cup {[session |-> session, sent |-> 0, seen |-> {}]}
  /\ UNCHANGED <<promised, ledger>>

\* Accepting a handshake consumes the key of its first message.
Accept(session, n) ==
  /\ NewName(session)
  /\ chains' = chains \cup {[session |-> session, sent |-> 0, seen |-> {n}]}
  /\ promised' = promised \cup
       {[session |-> session, key |-> [kind |-> "receive", n |-> n], attempt |-> session]}
  /\ UNCHANGED ledger

Take(s, k, attempt) ==
  /\ chains' = (chains \ {s}) \cup {Advance(s, k)}
  /\ promised' = promised \cup {[session |-> s.session, key |-> k, attempt |-> attempt]}
  /\ UNCHANGED ledger

LetOut(p) ==
  /\ promised' = promised \ {p}
  /\ ledger' = ledger \cup {p}
  /\ UNCHANGED chains

Forget(p) ==
  /\ promised' = promised \ {p}
  /\ UNCHANGED <<chains, ledger>>

Next ==
  \/ \E session \in Names : Initiate(session) \/ \E n \in Incoming : Accept(session, n)
  \/ \E s \in chains : \E k \in UsableKeys(s), attempt \in Names : Take(s, k, attempt)
  \/ \E p \in promised : LetOut(p) \/ Forget(p)

Spec == Init /\ [][Next]_vars

(***************************************************************************)
(* No key is let out for two attempts.                                     *)
(***************************************************************************)
LetOutOnce ==
  \A x, y \in ledger : x.session = y.session /\ x.key = y.key => x.attempt = y.attempt

-----------------------------------------------------------------------------
\* The keys that have left their chain.
Taken == promised \cup ledger

(***************************************************************************)
(* The inductive invariant: a handshake has one chain, and a key that left *)
(* a chain is consumed in it and left it for one attempt only.             *)
(***************************************************************************)
LedgerInv ==
  /\ chains \subseteq EngineState
  /\ \A s, t \in chains : s.session = t.session => s = t
  /\ \A p \in Taken :
       p.key \in Keys /\ \E s \in chains : s.session = p.session /\ Spent(p.key, s)
  /\ \A p, q \in Taken : p.session = q.session /\ p.key = q.key => p = q
=============================================================================
