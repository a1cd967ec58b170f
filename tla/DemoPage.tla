------------------------------ MODULE DemoPage ------------------------------
(***************************************************************************)
(* The demo page (site/app/demo/page.tsx): connect a wallet, fund it, open *)
(* an escrow with it, and poll until the account is gone.                  *)
(***************************************************************************)
EXTENDS EscrowHistory

CONSTANT MAX_POLLS

ASSUME PageAssumption == MAX_POLLS \in Nat \ {0}

VARIABLES
  page,       \* the state shown: its phase, escrow and resolution signature
  pollCount,
  pollers,    \* the escrows a tick is scheduled or under way for
  seenGone    \* those whose tick found the account gone and reads on

pageVars == <<page, pollCount, pollers, seenGone>>

-----------------------------------------------------------------------------
Shows(phase) == [phase |-> phase, escrow |-> "none", resolution |-> 0]

ShowsEscrow(phase, e, resolution) == [phase |-> phase, escrow |-> e, resolution |-> resolution]

PageInit ==
  /\ page = Shows("idle")
  /\ pollCount = 0
  /\ pollers = {}
  /\ seenGone = {}

OnPage(phase) == page.phase = phase

MoveTo(phases) ==
  /\ \E phase \in phases : page' = Shows(phase)
  /\ UNCHANGED <<history, pollCount, pollers, seenGone>>

(* The wallet may be missing, refuse, or be short of SOL. *)
ConnectWallet == OnPage("idle") /\ MoveTo({"connecting", "no-wallet"})

Connected == OnPage("connecting") /\ MoveTo({"creating", "needs-sol", "no-wallet", "error"})

RequestAirdrop == OnPage("needs-sol") /\ MoveTo({"airdropping"})

Airdropped == OnPage("airdropping") /\ MoveTo({"creating", "no-wallet", "error"})

(* Neither signed nor sent, or lost on the way. *)
NotSent == OnPage("creating") /\ MoveTo({"error"})

(* The transaction lands or fails on chain; confirmTransaction returns in     *)
(* either case, and throws when the confirmation is lost.                     *)
CreateEscrow ==
  /\ OnPage("creating")
  /\ \E e \in Escrows, ok \in BOOLEAN :
       /\ Creation(e, ok)
       /\ \/ /\ page' = ShowsEscrow("pending", e, 0)
             /\ pollCount' = 0
             /\ pollers' = pollers \cup {e}
          \/ page' = Shows("error") /\ UNCHANGED <<pollCount, pollers>>
  /\ UNCHANGED seenGone

-----------------------------------------------------------------------------
(* The next tick, unless the polls are used up. *)
PollAgain(e) ==
  /\ pollers' = IF pollCount' < MAX_POLLS THEN pollers ELSE pollers \ {e}
  /\ seenGone' = seenGone \ {e}

(* A tick counts itself and reads the account. *)
ReadsAccount(e) ==
  /\ e \in pollers \ seenGone
  /\ pollCount' = pollCount + 1
  /\ UNCHANGED <<history, page>>

NotYet == \E e \in pollers : ReadsAccount(e) /\ ~Gone(e) /\ PollAgain(e)

SeesGone ==
  \E e \in pollers :
    /\ ReadsAccount(e) /\ Gone(e)
    /\ seenGone' = seenGone \cup {e}
    /\ UNCHANGED pollers

(* A failing read is swallowed, whichever of the two it is. *)
AccountReadFails == \E e \in pollers : ReadsAccount(e) /\ PollAgain(e)

SignaturesReadFails ==
  /\ UNCHANGED <<history, page, pollCount>>
  /\ \E e \in seenGone : PollAgain(e)

PollsOn ==                                           \* mistake: no return after setState
  /\ UNCHANGED <<history, pollCount>>
  /\ \E e \in seenGone :
       /\ page' = ShowsEscrow("resolved", e, Newest(e))
       /\ PollAgain(e)

Resolved ==
  /\ UNCHANGED <<history, pollCount>>
  /\ \E e \in seenGone :
       /\ page' = ShowsEscrow("resolved", e, Newest(e))
       /\ pollers' = pollers \ {e}
       /\ seenGone' = seenGone \ {e}

TryAgain == OnPage("error") /\ MoveTo({"idle"})

DoItAgain == OnPage("resolved") /\ MoveTo({"idle"})

PageStep ==
  \/ ConnectWallet \/ Connected \/ RequestAirdrop \/ Airdropped \/ NotSent \/ CreateEscrow
  \/ NotYet \/ SeesGone \/ AccountReadFails \/ SignaturesReadFails \/ Resolved
  \/ TryAgain \/ DoItAgain

=============================================================================
