--------------------------- MODULE MCInertiaEscrow ---------------------------
(* Small instances of InertiaEscrow: rates in twentieths so that shares       *)
(* round, windows a few slots wide, wallets with enough for a life or two.    *)
EXTENDS ChainAsSeen

CONSTANTS u1, u2, k1, p1, treasury, jito, a1, a2, a3, UserFunds, KeeperFunds, PartnerFunds

MCWallets == Users \cup {k1, p1, treasury, jito}

MCInitialLamports ==
  [w \in MCWallets |-> CASE w \in Users -> UserFunds
                         [] w = k1 -> KeeperFunds
                         [] OTHER -> PartnerFunds]

MCTokenOwner == [a \in TokenAccounts |-> u1]

(* What the swap program draws on a1 and on a2, and what it delivers. *)
Outcome3(first, second, delivered) ==
  [spent |-> [a \in TokenAccounts |-> CASE a = a1 -> first [] a = a2 -> second [] OTHER -> 0],
   delivered |-> delivered]

MCSwapOutcomes == {Outcome3(1, 0, 0), Outcome3(2, 0, 5), Outcome3(3, 0, 8)}

TwoInputOutcomes == {Outcome3(1, 0, 5), Outcome3(2, 0, 5), Outcome3(1, 1, 5), Outcome3(3, 0, 8)}

=============================================================================
