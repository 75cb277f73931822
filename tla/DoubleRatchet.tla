---------------------------- MODULE DoubleRatchet ----------------------------
(***************************************************************************)
(* The libsignal engine (vendored WASM, driven by                          *)
(* src/lib/e2ee/engine-adapter.ts) as far as key use goes. A state is the  *)
(* handshake it came from, the number of sending keys it has used and the  *)
(* incoming message keys it has consumed. A key is single-use.             *)
(***************************************************************************)
EXTENDS Naturals

CONSTANT Incoming  \* message numbers of the peer's sending chain

EngineState == [session : Nat, sent : Nat, seen : SUBSET Incoming]

\* The n-th key of the own sending chain, or the key of the peer's message n.
Keys == [kind : {"send"}, n : Nat] \cup [kind : {"receive"}, n : Incoming]

Spent(k, s) == IF k.kind = "send" THEN k.n < s.sent ELSE k.n \in s.seen

\* encrypt takes the next sending key; decrypt takes any incoming key that
\* was not consumed before (skipped keys are kept) and fails on a duplicate.
Usable(k, s) == IF k.kind = "send" THEN k.n = s.sent ELSE k.n \notin s.seen

UsableKeys(s) ==
  [kind : {"send"}, n : {s.sent}] \cup [kind : {"receive"}, n : Incoming \ s.seen]

Advance(s, k) ==
  IF k.kind = "send" THEN [s EXCEPT !.sent = @ + 1]
                     ELSE [s EXCEPT !.seen = @ \cup {k.n}]

\* t has consumed everything s has.
NotBehind(t, s) == s.sent <= t.sent /\ s.seen \subseteq t.seen

\* What lets a key out: the key, its handshake, and the attempt that used it
\* (two attempts carry two plaintexts).
Release == [session : Nat, key : Keys, attempt : Nat]
=============================================================================
