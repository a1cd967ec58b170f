---------------------------- MODULE EscrowPromise ----------------------------
(***************************************************************************)
(* What the escrow promises its user, without instructions, accounts or    *)
(* delegations: a vault per escrow that is opened once, can only grow, and *)
(* is paid out whole, once, in one of four ways, each with a window of     *)
(* slots and a ceiling on what strangers get.  InertiaEscrow is shown to   *)
(* implement it.                                                           *)
(***************************************************************************)
EXTENDS Integers

CONSTANTS
  Escrows,
  TTL, SELF_RESCUE, CLEANUP,        \* the slots each window opens after
  BPS, KEEPER_BPS, BOUNTY_BPS,      \* the strangers' ceilings, out of BPS
  RENT                              \* never part of a stranger's payout

VARIABLES
  clock,    \* the slot
  vault,    \* lamports held for each escrow, 0 when there is none
  opened,   \* the slot it was opened at, 0 when there is none
  payout    \* how it last ended, and what the user and the caller got

vars == <<clock, vault, opened, payout>>

Payout == [outcome : {"none", "ordinary", "rescue", "self_rescue", "cleanup"},
           user : Nat, caller : Nat, others : Nat]

Age(e) == clock - opened[e]

-----------------------------------------------------------------------------
Init ==
  /\ clock = 0
  /\ vault = [e \in Escrows |-> 0]
  /\ opened = [e \in Escrows |-> 0]
  /\ payout = [e \in Escrows |->
                 [outcome |-> "none", user |-> 0, caller |-> 0, others |-> 0]]

OtherVaultsUnchanged(e) == \A f \in Escrows \ {e} : vault'[f] = vault[f]

Open(e) ==
  /\ vault[e] = 0
  /\ vault'[e] >= RENT
  /\ OtherVaultsUnchanged(e)
  /\ opened' = [opened EXCEPT ![e] = clock]
  /\ UNCHANGED <<clock, payout>>

Fund(e) ==
  /\ vault[e] > 0
  /\ vault'[e] > vault[e]
  /\ OtherVaultsUnchanged(e)
  /\ UNCHANGED <<clock, opened, payout>>

(* What the user must get of a vault, and who else may be paid. *)
Fair(p, age, held) ==
  \/ /\ p.outcome = "ordinary"
     /\ age <= TTL
     /\ p.user = held
  \/ /\ p.outcome = "rescue"
     /\ age > TTL
     /\ p.user >= RENT
     /\ BPS * p.caller <= KEEPER_BPS * (held - RENT)
  \/ /\ p.outcome = "self_rescue"
     /\ age > SELF_RESCUE
     /\ p.user = held
  \/ /\ p.outcome = "cleanup"
     /\ age > CLEANUP
     /\ p.others = 0
     /\ BPS * p.caller <= BOUNTY_BPS * (held - RENT)

Resolve(e) ==
  LET p == payout'[e] IN
  /\ vault[e] > 0
  /\ vault' = [vault EXCEPT ![e] = 0]
  /\ opened' = [opened EXCEPT ![e] = 0]
  /\ \A f \in Escrows \ {e} : payout'[f] = payout[f]
  /\ p.user + p.caller + p.others = vault[e]
  /\ Fair(p, Age(e), vault[e])
  /\ UNCHANGED clock

Tick ==
  /\ clock' = clock + 1
  /\ UNCHANGED <<vault, opened, payout>>

Next ==
  \/ \E e \in Escrows : Open(e) \/ Fund(e) \/ Resolve(e)
  \/ Tick

Spec == Init /\ [][Next]_vars

=============================================================================
