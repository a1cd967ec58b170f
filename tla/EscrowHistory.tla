--------------------------- MODULE EscrowHistory ---------------------------
(***************************************************************************)
(* What a program that watches escrows from outside can read of them: per  *)
(* address, whether the account is there, and its transactions, oldest     *)
(* first.  A failed transaction is on record like any other.  All of it is *)
(* the cluster's, InertiaEscrow has the rules; the ages are left out.      *)
(***************************************************************************)
EXTENDS TipCurve, Sequences, FiniteSets

CONSTANTS
  Escrows,    \* escrow addresses; every creation takes a fresh one
  Buffer,     \* the buffer an escrow is created with
  TopUp,      \* what a top-up adds
  MaxTxs      \* bound on the transactions of one escrow

ASSUME HistoryAssumption == {Buffer, TopUp, MaxTxs} \subseteq Nat /\ IsFiniteSet(Escrows)

VARIABLE history

-----------------------------------------------------------------------------
(* "swap" and "rescue" are execute_swap, before and after the time to live. *)
Closing == {"swap", "rescue", "self_rescue", "cleanup"}

(* A rescue that fails only after it has logged its event, at the rent check *)
(* that ends the transaction, keeps the event in its logs.                  *)
Entry == [kind : Closing \cup {"initialize", "top_up"}, ok : BOOLEAN, logged : BOOLEAN]

HistoryInit == history = [e \in Escrows |-> <<>>]

Used(e) == history[e] # <<>>

Opened(e) == Used(e) /\ history[e][1].ok

ClosedBy(e, i) == history[e][i].kind \in Closing /\ history[e][i].ok

Closed(e) == \E i \in DOMAIN history[e] : ClosedBy(e, i)

(* getAccountInfo answers null. *)
Gone(e) == ~Opened(e) \/ Closed(e)

Newest(e) == Len(history[e])

Append1(e, entry) ==
  /\ Newest(e) < MaxTxs
  /\ history' = [history EXCEPT ![e] = Append(@, entry)]

Creation(e, ok) ==
  /\ ~Used(e)
  /\ Append1(e, [kind |-> "initialize", ok |-> ok, logged |-> FALSE])

(* Whoever: the user, keepers, anybody.  One that comes too late fails. *)
Transaction(e) ==
  /\ Opened(e)
  /\ \E entry \in [kind : Closing \cup {"top_up"}, ok : BOOLEAN, logged : BOOLEAN] :
       /\ entry.ok => ~Closed(e)
       /\ entry.logged => entry.kind = "rescue" /\ ~Closed(e)
       /\ entry.ok /\ entry.kind = "rescue" => entry.logged
       /\ Append1(e, entry)

Buffered(e) ==
  Buffer + TopUp * Cardinality({i \in DOMAIN history[e] : history[e][i].kind = "top_up" /\ history[e][i].ok})

Rescued(e) == \E i \in DOMAIN history[e] : history[e][i].kind = "rescue" /\ history[e][i].ok

(* A rescue of it failed after its event was logged. *)
FailedLate(e) == \E i \in DOMAIN history[e] : history[e][i].logged /\ ~history[e][i].ok

=============================================================================
