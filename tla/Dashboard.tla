----------------------------- MODULE Dashboard -----------------------------
(***************************************************************************)
(* The partner dashboard (site/app/dashboard/page.tsx): a scan lists the   *)
(* program's transactions, reads each for a creation with this partner,    *)
(* then per escrow reads its newest signatures and the transaction taken   *)
(* for its resolution.  Each is a read of its own while the escrows go on. *)
(* All escrows here are the partner's; a creation by others is filtered    *)
(* out by its own bytes.                                                   *)
(***************************************************************************)
EXTENDS EscrowHistory, FiniteSetsExt

VARIABLES
  scan,      \* phase; the creations listed and not yet read; the matches;
             \* the escrow and signature being resolved
  outcome    \* per escrow: how the scan classified it

dashboardVars == <<scan, outcome>>

-----------------------------------------------------------------------------
Kinds == {"pending", "rescued", "landed-normally", "self-rescued", "expired-cleanup"}

Nothing == [escrow |-> "none", index |-> 0]

NewScan(phase, listed) ==
  [phase |-> phase, listed |-> listed, matches |-> {}, reading |-> Nothing]

DashboardInit ==
  /\ scan = NewScan("idle", {})
  /\ outcome = [e \in Escrows |-> "none"]

In(phase) == scan.phase = phase

(* A scan lists what is there; creations older than the limit are missed.    *)
(* The button is disabled while one runs.                                    *)
LookUp ==
  /\ scan.phase \in {"idle", "done", "failed"}
  /\ \E listed \in SUBSET {e \in Escrows : Used(e)} : scan' = NewScan("matching", listed)
  /\ outcome' = [e \in Escrows |-> "none"]

(* withRetry gave up on some read. *)
ScanFails ==
  /\ scan.phase \in {"matching", "resolving"}
  /\ scan' = NewScan("failed", {})
  /\ UNCHANGED outcome

(* The creation matches, whether or not it succeeded, or its transaction is *)
(* not to be had.                                                           *)
ReadCreation ==
  /\ In("matching")
  /\ \E e \in scan.listed, found \in BOOLEAN :
       scan' = [scan EXCEPT !.listed = @ \ {e}, !.matches = IF found THEN @ \cup {e} ELSE @]
  /\ UNCHANGED outcome

AllMatched ==
  /\ In("matching") /\ scan.listed = {}
  /\ scan' = [scan EXCEPT !.phase = "resolving"]
  /\ UNCHANGED outcome

-----------------------------------------------------------------------------
(* The newest signature that is not the creation's, which is the first there. *)
ReadSignatures ==
  /\ In("resolving") /\ scan.reading = Nothing
  /\ \E e \in scan.matches :
       /\ outcome[e] = "none"
       /\ IF Newest(e) = 1
          THEN outcome' = [outcome EXCEPT ![e] = "pending"] /\ UNCHANGED scan
          ELSE /\ scan' = [scan EXCEPT !.reading = [escrow |-> e, index |-> Newest(e)]]
               /\ UNCHANGED outcome

AnySwap(entry) ==                                    \* mistake: was_rescue not looked at
  CASE entry.kind \in {"rescue", "swap"} -> "rescued"
    [] entry.kind = "self_rescue" -> "self-rescued"
    [] entry.kind = "cleanup" -> "expired-cleanup"
    [] OTHER -> "pending"

(* By the instruction it carries and the event in its logs, whether or not    *)
(* the transaction succeeded.                                                 *)
Classified(entry) ==
  CASE entry.kind = "rescue" /\ entry.logged -> "rescued"
    [] entry.kind = "swap" \/ (entry.kind = "rescue" /\ ~entry.logged) -> "landed-normally"
    [] entry.kind = "self_rescue" -> "self-rescued"
    [] entry.kind = "cleanup" -> "expired-cleanup"
    [] OTHER -> "pending"

ReadResolution ==
  /\ In("resolving") /\ scan.reading # Nothing
  /\ LET e == scan.reading.escrow
     IN \E kind \in {"pending", Classified(history[e][scan.reading.index])} :
          outcome' = [outcome EXCEPT ![e] = kind]
  /\ scan' = [scan EXCEPT !.reading = Nothing]

ShowMetrics ==
  /\ In("resolving") /\ scan.reading = Nothing
  /\ \A e \in scan.matches : outcome[e] # "none"
  /\ scan' = [scan EXCEPT !.phase = "done"]
  /\ UNCHANGED outcome

DashboardStep ==
  \/ LookUp \/ ScanFails \/ ReadCreation \/ AllMatched
  \/ ReadSignatures \/ ReadResolution \/ ShowMetrics

-----------------------------------------------------------------------------
rescued == {e \in scan.matches : outcome[e] = "rescued"}

landedNormally == {e \in scan.matches : outcome[e] = "landed-normally"}

SharesOfAllSwaps ==                                  \* mistake: a refunded buffer pays no share
  MapThenSumSet(LAMBDA e : PartnerShare(Buffer), rescued \cup landedNormally)

(* From what the creations say, top-ups are not looked at. *)
revenueLamports == MapThenSumSet(LAMBDA e : PartnerShare(Buffer), rescued)

=============================================================================
