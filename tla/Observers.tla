----------------------------- MODULE Observers -----------------------------
(***************************************************************************)
(* Programs that look at escrows from outside, each with the escrows' own  *)
(* life going on between any two of its reads.  They share nothing and run *)
(* one at a time.                                                          *)
(***************************************************************************)
EXTENDS Dashboard, RescueBenchmark, DemoPage

VARIABLE observer    \* which of them runs

vars == <<observer, history, dashboardVars, benchVars, pageVars>>

-----------------------------------------------------------------------------
Init ==
  /\ observer \in {"dashboard", "benchmark", "demo"}
  /\ HistoryInit /\ DashboardInit /\ BenchInit /\ PageInit

DashboardRuns ==
  /\ observer = "dashboard"
  /\ DashboardStep /\ UNCHANGED <<observer, history, benchVars, pageVars>>

BenchmarkRuns ==
  /\ observer = "benchmark"
  /\ BenchStep /\ UNCHANGED <<observer, dashboardVars, pageVars>>

DemoPageRuns ==
  /\ observer = "demo"
  /\ PageStep /\ UNCHANGED <<observer, dashboardVars, benchVars>>

(* Others open escrows for the dashboard to find; the other two open theirs. *)
EscrowsGoOn ==
  /\ \E e \in Escrows :
       \/ Transaction(e)
       \/ observer = "dashboard" /\ \E ok \in BOOLEAN : Creation(e, ok)
  /\ UNCHANGED <<observer, dashboardVars, benchVars, pageVars>>

Next == DashboardRuns \/ BenchmarkRuns \/ DemoPageRuns \/ EscrowsGoOn

Spec == Init /\ [][Next]_vars

-----------------------------------------------------------------------------
(* The revenue the dashboard shows, "real lamports moved on-chain", was paid *)
(* to the partner: its sum is not more than the partner received for the     *)
(* escrows that were rescued.  (dashboard/page.tsx 226-262 and 356-357)      *)
SharesOf(escrows) == MapThenSumSet(LAMBDA e : PartnerShare(Buffered(e)), escrows)

RevenueWasReceived ==
  scan.phase = "done" => revenueLamports <= SharesOf({e \in Escrows : Rescued(e)})

(* What holds of it: an escrow counted as rescued was, or had a rescue that  *)
(* failed only after its event was logged, and each counts at most for the   *)
(* share it pays or would have paid, whatever other failed transactions,     *)
(* top-ups and late landings the scan met.  (the same, 169-262)              *)
RevenueIsOfRescues ==
  scan.phase = "done" =>
    /\ \A e \in rescued : Rescued(e) \/ FailedLate(e)
    /\ revenueLamports <= SharesOf({e \in Escrows : Rescued(e) \/ FailedLate(e)})

(* An escrow that met neither a failed transaction nor a top-up is shown the *)
(* way it ended, or as pending if its end came after its signatures were     *)
(* read or could not be fetched.  (the same, 169-224)                        *)
Plain(e) == \A i \in DOMAIN history[e] : history[e][i].ok /\ history[e][i].kind # "top_up"

Shown(kind) ==
  CASE kind = "rescue" -> "rescued"
    [] kind = "swap" -> "landed-normally"
    [] kind = "self_rescue" -> "self-rescued"
    [] kind = "cleanup" -> "expired-cleanup"

PlainHistoriesReadRight ==
  \A e \in scan.matches :
    outcome[e] \notin {"none", "pending"} /\ Plain(e) =>
      \E i \in DOMAIN history[e] : ClosedBy(e, i) /\ outcome[e] = Shown(history[e][i].kind)

(* What the benchmark or its report calls rescued is closed, the signature   *)
(* it names for that is not older than the transaction that closed it, and a *)
(* finished report has every escrow it knows it opened exactly once.         *)
(* (devnet-rescue-benchmark.mjs 89-95, 124-147, devnet-rescue-report.mjs 65-69) *)
ReportedClosingsHappened ==
  /\ \A e \in Escrows :
       result[e].outcome = "rescued" =>
         \E i \in DOMAIN history[e] : ClosedBy(e, i) /\ i <= result[e].closing
  /\ bench.phase = "done" => {e \in Escrows : result[e].outcome # "none"} = bench.opened

(* The page polls at most for the escrow it shows as pending, so that the    *)
(* outcome of an earlier one never overwrites a later one's; and what it     *)
(* shows as resolved is gone, by whatever closed it, or was never opened.    *)
(* (demo/page.tsx 178-203)                                                   *)
PageShowsItsOwnEscrow ==
  /\ pollers # {} => page.phase = "pending" /\ pollers = {page.escrow}
  /\ page.phase = "resolved" => Gone(page.escrow)

=============================================================================
