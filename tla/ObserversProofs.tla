-------------------------- MODULE ObserversProofs --------------------------
(* What the dashboard, the benchmark with its report, and the demo page show  *)
(* is so, for every number of escrows and transactions, however the escrows'  *)
(* own life falls between two reads.  The argument: histories only grow, so   *)
(* that what a program has seen of an escrow stays true of it.                *)
EXTENDS Observers, TipCurveProofs

-----------------------------------------------------------------------------
(* Histories: what is on record can have happened. *)
Recorded == {entry \in Entry : entry.ok /\ entry.kind = "rescue" => entry.logged}

Histories == history \in [Escrows -> Seq(Recorded)]

(* What a step may do to histories: nothing that is on record goes away.      *)
Grows ==
  /\ Histories'
  /\ \A e \in Escrows :
       /\ Newest(e) <= Newest(e)'
       /\ \A i \in DOMAIN history[e] : i \in DOMAIN history'[e] /\ history'[e][i] = history[e][i]

(* A transaction put on record only makes its history longer. *)
LEMMA AppendGrows ==
  ASSUME Histories, NEW e \in Escrows, NEW entry \in Recorded, Append1(e, entry)
  PROVE  /\ Grows
         /\ Newest(e)' = Newest(e) + 1
         /\ history'[e][Newest(e) + 1] = entry
<1>2. history[e] \in Seq(Recorded) /\ history' = [history EXCEPT ![e] = Append(history[e], entry)]
  BY DEF Histories, Append1
<1>3. /\ Append(history[e], entry) \in Seq(Recorded)
      /\ Len(Append(history[e], entry)) = Len(history[e]) + 1
      /\ Append(history[e], entry)[Len(history[e]) + 1] = entry
      /\ \A i \in 1 .. Len(history[e]) : Append(history[e], entry)[i] = history[e][i]
  BY <1>2
<1>4. history'[e] = Append(history[e], entry) /\ \A f \in Escrows \ {e} : history'[f] = history[f]
  BY <1>2 DEF Histories
<1>5. Histories'
  BY <1>2, <1>3 DEF Histories
<1>6. \A f \in Escrows : Len(history[f]) \in Nat /\ DOMAIN history[f] = 1 .. Len(history[f])
                         /\ DOMAIN history'[f] = 1 .. Len(history'[f])
  BY <1>5 DEF Histories
<1>7. Grows
  BY <1>3, <1>4, <1>5, <1>6 DEF Grows, Newest
<1> QED
  BY <1>3, <1>4, <1>7 DEF Newest

(* What comes on record is an entry that can have happened. *)
LEMMA CreationIsRecorded ==
  ASSUME NEW e \in Escrows, NEW ok \in BOOLEAN, Creation(e, ok)
  PROVE  \E entry \in Recorded :
           /\ entry = [kind |-> "initialize", ok |-> ok, logged |-> FALSE]
           /\ Append1(e, entry)
BY DEF Creation, Recorded, Entry

(* The same of what happens to an escrow later. *)
LEMMA TransactionIsRecorded ==
  ASSUME NEW e \in Escrows, Transaction(e)
  PROVE  \E entry \in Recorded : Append1(e, entry)
<1>1. PICK entry \in [kind : Closing \cup {"top_up"}, ok : BOOLEAN, logged : BOOLEAN] :
        /\ entry.ok /\ entry.kind = "rescue" => entry.logged
        /\ Append1(e, entry)
  BY DEF Transaction
<1>2. entry \in Recorded
  BY <1>1 DEF Recorded, Entry
<1> QED
  BY <1>1, <1>2

(* Nothing happening is growing, too. *)
LEMMA StillGrows ==
  ASSUME Histories, UNCHANGED history
  PROVE  Grows
<1>1. \A e \in Escrows : Len(history[e]) \in Nat
  BY DEF Histories
<1> QED
  BY <1>1 DEF Grows, Histories, Newest

(* Every step of the system appends or leaves histories as they are. *)
LEMMA HistoriesGrow ==
  ASSUME Histories, bench.toOpen \subseteq Escrows, [Next]_vars
  PROVE  Grows
<1>1. ASSUME NEW e \in Escrows, NEW ok \in BOOLEAN, Creation(e, ok)
      PROVE  Grows
  BY <1>1, AppendGrows, CreationIsRecorded
<1>2. ASSUME NEW e \in Escrows, Transaction(e)
      PROVE  Grows
  BY <1>2, AppendGrows, TransactionIsRecorded
<1>3. ASSUME EscrowsGoOn
      PROVE  Grows
  BY <1>1, <1>2, <1>3 DEF EscrowsGoOn
<1>4. ASSUME DashboardRuns \/ UNCHANGED vars
      PROVE  Grows
  BY <1>4, StillGrows DEF DashboardRuns, vars
<1>5. ASSUME BenchmarkRuns
      PROVE  Grows
  <2>1. CASE CreateOneEscrow
    BY <1>1, <2>1, StillGrows DEF CreateOneEscrow
  <2>2. CASE ~CreateOneEscrow
    <3>1. UNCHANGED history
      BY <1>5, <2>2 DEF BenchmarkRuns, BenchStep, BenchStart, StartWatching, StartPass, Look,
            FindClosingSignature, BenchCrashes, Summary, ReportStart, ReportEntry, ReportDone
    <3> QED
      BY <3>1, StillGrows
  <2> QED
    BY <2>1, <2>2
<1>6. ASSUME DemoPageRuns
      PROVE  Grows
  <2>1. CASE CreateEscrow
    BY <1>1, <2>1 DEF CreateEscrow
  <2>2. CASE ~CreateEscrow
    <3>1. UNCHANGED history
      BY <1>6, <2>2 DEF DemoPageRuns, PageStep, ConnectWallet, Connected, RequestAirdrop,
            Airdropped, NotSent, NotYet, SeesGone, AccountReadFails, SignaturesReadFails,
            ReadsAccount, Resolved, TryAgain, DoItAgain, MoveTo
    <3> QED
      BY <3>1, StillGrows
  <2> QED
    BY <2>1, <2>2
<1> QED
  BY <1>3, <1>4, <1>5, <1>6 DEF Next

(* What stays true of an escrow while its history grows. *)
LEMMA SeenStaysTrue ==
  ASSUME Histories, Grows, NEW e \in Escrows
  PROVE  /\ \A i \in DOMAIN history[e] : ClosedBy(e, i) => i \in DOMAIN history'[e] /\ ClosedBy(e, i)'
         /\ Used(e) => Used(e)'
         /\ Opened(e) => Opened(e)'
         /\ Closed(e) => Closed(e)'
         /\ Rescued(e) => Rescued(e)'
         /\ FailedLate(e) => FailedLate(e)'
         /\ Used(e) /\ Gone(e) => Gone(e)'
         /\ Plain(e)' => Plain(e)
         /\ \A kind : (\E i \in DOMAIN history[e] :
                         ClosedBy(e, i) /\ kind = Shown(history[e][i].kind))
                      => \E i \in DOMAIN history'[e] :
                           ClosedBy(e, i)' /\ kind = Shown(history'[e][i].kind)
<1>1. /\ history[e] \in Seq(Recorded) /\ history'[e] \in Seq(Recorded)
      /\ Len(history[e]) \in Nat /\ Len(history[e]) <= Len(history'[e])
      /\ DOMAIN history[e] = 1 .. Len(history[e])
      /\ \A i \in DOMAIN history[e] : i \in DOMAIN history'[e] /\ history'[e][i] = history[e][i]
  BY DEF Histories, Grows, Newest
<1>2. \A i \in DOMAIN history[e] : ClosedBy(e, i) => i \in DOMAIN history'[e] /\ ClosedBy(e, i)'
  BY <1>1 DEF ClosedBy
<1>3. Used(e) => 1 \in DOMAIN history[e]
  BY <1>1 DEF Used
<1>4. Used(e) => Used(e)'
  <2>1. history'[e] = <<>> => DOMAIN history'[e] = {}
    OBVIOUS
  <2> QED
    BY <1>1, <1>3, <2>1 DEF Used
<1>5. Used(e) => history'[e][1] = history[e][1]
  BY <1>1, <1>3
<1>6. Closed(e) => Closed(e)'
  BY <1>2 DEF Closed
<1>7. (Rescued(e) => Rescued(e)') /\ (FailedLate(e) => FailedLate(e)')
  BY <1>1 DEF Rescued, FailedLate
<1>8. Plain(e)' => Plain(e)
  BY <1>1 DEF Plain
<1>9. ASSUME NEW kind, NEW i \in DOMAIN history[e],
             ClosedBy(e, i), kind = Shown(history[e][i].kind)
      PROVE  \E j \in DOMAIN history'[e] : ClosedBy(e, j)' /\ kind = Shown(history'[e][j].kind)
  BY <1>1, <1>2, <1>9
<1> QED
  BY <1>2, <1>4, <1>5, <1>6, <1>7, <1>8, <1>9 DEF Opened, Gone

-----------------------------------------------------------------------------
(* The dashboard: it only scans escrows that have a history, and what it says *)
(* of one -- also of one an earlier scan left behind -- happened to it.       *)
ScanTypeOK ==
  /\ scan \in [phase : {"idle", "matching", "resolving", "done", "failed"},
               listed : SUBSET Escrows, matches : SUBSET Escrows,
               reading : [escrow : Escrows \cup {"none"}, index : Nat]]
  /\ outcome \in [Escrows -> Kinds \cup {"none"}]

ScansTheUsed ==
  /\ \A e \in scan.listed \cup scan.matches : Used(e)
  /\ scan.reading # Nothing =>
       /\ scan.reading.escrow \in Escrows
       /\ scan.reading.index \in DOMAIN history[scan.reading.escrow]

OutcomesHappened ==
  \A e \in Escrows :
    /\ outcome[e] = "rescued" => Rescued(e) \/ FailedLate(e)
    /\ outcome[e] \notin {"none", "pending"} /\ Plain(e) =>
         \E i \in DOMAIN history[e] : ClosedBy(e, i) /\ outcome[e] = Shown(history[e][i].kind)

DashboardInv == ScanTypeOK /\ ScansTheUsed /\ OutcomesHappened

(* The benchmark: the escrows it knows were opened; one it took for gone, or  *)
(* reports on after a crash, is closed; it loses track of none.               *)
BenchTypeOK ==
  /\ bench \in [phase : {"start", "creating", "watching", "crashed", "reporting", "done"},
                toOpen : SUBSET Escrows, opened : SUBSET Escrows, pending : SUBSET Escrows,
                pass : SUBSET Escrows, gone : SUBSET Escrows]
  /\ result \in [Escrows -> [outcome : {"none", "rescued", "unrescued"}, closing : Nat]]

KnownAreOpened == \A e \in bench.opened : Opened(e)

GoneAreClosed ==
  /\ bench.phase = "watching" => \A e \in bench.gone : Closed(e)
  /\ bench.phase = "reporting" => \A e \in bench.pass : Closed(e)

ClosingsNamed ==
  \A e \in Escrows :
    result[e].outcome = "rescued" =>
      \E i \in DOMAIN history[e] : ClosedBy(e, i) /\ i <= result[e].closing

Reported == {e \in Escrows : result[e].outcome # "none"}

NoneLost ==
  /\ bench.phase \in {"start", "creating"} =>
       Reported = {} /\ bench.pass = {} /\ bench.gone = {}
  /\ bench.phase = "watching" =>
       /\ Reported = bench.opened \ bench.pending
       /\ bench.pending \subseteq bench.opened
       /\ bench.pass \cup bench.gone \subseteq bench.pending
       /\ bench.pass \cap bench.gone = {}
  /\ bench.phase = "reporting" =>
       Reported = bench.opened \ bench.pass /\ bench.pass \subseteq bench.opened
  /\ bench.phase = "done" => Reported = bench.opened

BenchInv == BenchTypeOK /\ KnownAreOpened /\ GoneAreClosed /\ ClosingsNamed /\ NoneLost

(* The demo page: a poller runs only for the escrow shown as pending, an      *)
(* escrow shown was sent to the chain, and one a tick found gone is gone.     *)
PageTypeOK ==
  /\ page \in [phase : {"idle", "connecting", "no-wallet", "creating", "needs-sol",
                        "airdropping", "error", "pending", "resolved"},
               escrow : Escrows \cup {"none"}, resolution : Nat]
  /\ pollers \in SUBSET Escrows

SeenIsGone == seenGone \subseteq pollers /\ \A e \in seenGone : Gone(e)

ShownIsUsed ==
  page.phase \in {"pending", "resolved"} => page.escrow \in Escrows /\ Used(page.escrow)

PageInv == PageTypeOK /\ ShownIsUsed /\ SeenIsGone /\ PageShowsItsOwnEscrow

Inv == Histories /\ DashboardInv /\ BenchInv /\ PageInv

-----------------------------------------------------------------------------
(* What the dashboard reads of a transaction is what that transaction did. *)
LEMMA ClassifiedHappened ==
  ASSUME Histories, NEW e \in Escrows, NEW i \in DOMAIN history[e],
         NEW kind \in {"pending", Classified(history[e][i])}
  PROVE  /\ kind \in Kinds
         /\ kind = "rescued" => Rescued(e) \/ FailedLate(e)
         /\ kind # "pending" /\ Plain(e) =>
              ClosedBy(e, i) /\ kind = Shown(history[e][i].kind)
<1> DEFINE entry == history[e][i]
<1>1. entry \in Recorded
  BY DEF Histories
<1>2. kind = "rescued" => entry.kind = "rescue" /\ entry.logged
  BY <1>1 DEF Classified, Recorded, Entry, Closing
<1>3. entry.ok \in BOOLEAN
  BY <1>1 DEF Recorded, Entry
<1>4. kind \in Kinds
  BY <1>1 DEF Classified, Recorded, Entry, Closing, Kinds
<1>5. ASSUME kind # "pending", entry.ok
      PROVE  entry.kind \in Closing /\ kind = Shown(entry.kind)
  BY <1>1, <1>5 DEF Classified, Recorded, Entry, Closing, Shown
<1> QED
  BY <1>2, <1>3, <1>4, <1>5 DEF Rescued, FailedLate, Plain, ClosedBy

(* While the dashboard is not running, or between its steps, what it holds    *)
(* stays true.                                                                *)
LEMMA DashboardWaits ==
  ASSUME Histories, Grows, DashboardInv, UNCHANGED dashboardVars
  PROVE  DashboardInv'
<1> USE DEF dashboardVars
<1>1. ScanTypeOK'
  BY DEF DashboardInv, ScanTypeOK
<1>2. ScansTheUsed'
  <2>1. \A e \in scan.listed \cup scan.matches : e \in Escrows /\ Used(e)
    BY DEF DashboardInv, ScansTheUsed, ScanTypeOK
  <2>2. \A e \in scan'.listed \cup scan'.matches : Used(e)'
    BY <2>1, SeenStaysTrue
  <2>3. scan.reading # Nothing =>
          /\ scan.reading.escrow \in Escrows
          /\ scan.reading.index \in DOMAIN history'[scan.reading.escrow]
    BY DEF DashboardInv, ScansTheUsed, Grows
  <2> QED
    BY <2>2, <2>3 DEF ScansTheUsed
<1>3. OutcomesHappened'
  <2> SUFFICES ASSUME NEW e \in Escrows
               PROVE  /\ outcome'[e] = "rescued" => Rescued(e)' \/ FailedLate(e)'
                      /\ outcome'[e] \notin {"none", "pending"} /\ Plain(e)' =>
                           \E i \in DOMAIN history'[e] :
                             ClosedBy(e, i)' /\ outcome'[e] = Shown(history'[e][i].kind)
    BY DEF OutcomesHappened
  <2>1. /\ outcome'[e] = outcome[e]
        /\ outcome[e] = "rescued" => Rescued(e) \/ FailedLate(e)
        /\ outcome[e] \notin {"none", "pending"} /\ Plain(e) =>
             \E i \in DOMAIN history[e] : ClosedBy(e, i) /\ outcome[e] = Shown(history[e][i].kind)
    BY DEF DashboardInv, OutcomesHappened
  <2> QED
    BY <2>1, SeenStaysTrue
<1> QED
  BY <1>1, <1>2, <1>3 DEF DashboardInv

(* Each step of a scan keeps it. *)
LEMMA DashboardSteps ==
  ASSUME Histories, DashboardInv, DashboardStep, UNCHANGED history
  PROVE  DashboardInv'
<1>0. /\ ScanTypeOK /\ ScansTheUsed /\ OutcomesHappened
      /\ \A e \in Escrows : /\ Used(e)' <=> Used(e)
                            /\ Rescued(e)' <=> Rescued(e)
                            /\ FailedLate(e)' <=> FailedLate(e)
                            /\ Plain(e)' <=> Plain(e)
                            /\ \A i : ClosedBy(e, i)' <=> ClosedBy(e, i)
  BY DEF DashboardInv, Used, Rescued, FailedLate, Plain, ClosedBy
<1>1. ASSUME LookUp
      PROVE  DashboardInv'
  <2>1. PICK listed \in SUBSET {e \in Escrows : Used(e)} : scan' = NewScan("matching", listed)
    BY <1>1 DEF LookUp
  <2>2. outcome' = [e \in Escrows |-> "none"]
    BY <1>1 DEF LookUp
  <2>3. ScanTypeOK'
    BY <2>1, <2>2 DEF ScanTypeOK, NewScan, Nothing
  <2>4. ScansTheUsed'
    BY <1>0, <2>1 DEF ScansTheUsed, NewScan
  <2>5. OutcomesHappened'
    BY <2>2 DEF OutcomesHappened
  <2> QED
    BY <2>3, <2>4, <2>5 DEF DashboardInv
<1>2. ASSUME ScanFails
      PROVE  DashboardInv'
  <2>1. scan' = NewScan("failed", {}) /\ outcome' = outcome
    BY <1>2 DEF ScanFails
  <2>2. ScanTypeOK'
    BY <1>0, <2>1 DEF ScanTypeOK, NewScan, Nothing
  <2>3. ScansTheUsed'
    BY <2>1 DEF ScansTheUsed, NewScan
  <2>4. OutcomesHappened'
    BY <1>0, <2>1 DEF OutcomesHappened
  <2> QED
    BY <2>2, <2>3, <2>4 DEF DashboardInv
<1>3. ASSUME ReadCreation
      PROVE  DashboardInv'
  <2>1. PICK e \in scan.listed, found \in BOOLEAN :
          scan' = [scan EXCEPT !.listed = @ \ {e}, !.matches = IF found THEN @ \cup {e} ELSE @]
    BY <1>3 DEF ReadCreation
  <2>2. outcome' = outcome
    BY <1>3 DEF ReadCreation
  <2>3. /\ scan'.phase = scan.phase /\ scan'.reading = scan.reading
        /\ scan'.listed = scan.listed \ {e}
        /\ scan'.matches \in {scan.matches, scan.matches \cup {e}}
    BY <1>0, <2>1 DEF ScanTypeOK
  <2>4. ScanTypeOK'
    BY <1>0, <2>1, <2>2 DEF ScanTypeOK
  <2>5. ScansTheUsed'
    <3>1. \A f \in scan.listed \cup scan.matches : f \in Escrows /\ Used(f)
      BY <1>0 DEF ScansTheUsed, ScanTypeOK
    <3>2. scan'.listed \cup scan'.matches \subseteq scan.listed \cup scan.matches
      BY <2>3
    <3> QED
      BY <1>0, <2>3, <3>1, <3>2 DEF ScansTheUsed
  <2>6. OutcomesHappened'
    BY <1>0, <2>2 DEF OutcomesHappened
  <2> QED
    BY <2>4, <2>5, <2>6 DEF DashboardInv
<1>4. ASSUME NEW phase \in {"resolving", "done"}, scan' = [scan EXCEPT !.phase = phase],
             outcome' = outcome
      PROVE  DashboardInv'
  <2>1. /\ scan'.listed = scan.listed /\ scan'.matches = scan.matches
        /\ scan'.reading = scan.reading
    BY <1>0, <1>4 DEF ScanTypeOK
  <2>2. ScanTypeOK'
    BY <1>0, <1>4 DEF ScanTypeOK
  <2>3. ScansTheUsed'
    BY <1>0, <2>1 DEF ScansTheUsed, ScanTypeOK
  <2>4. OutcomesHappened'
    BY <1>0, <1>4 DEF OutcomesHappened
  <2> QED
    BY <2>2, <2>3, <2>4 DEF DashboardInv
<1>5. ASSUME NEW e \in scan.matches, UNCHANGED scan,
             outcome' = [outcome EXCEPT ![e] = "pending"]
      PROVE  DashboardInv'
  <2>1. ScanTypeOK'
    BY <1>0, <1>5 DEF ScanTypeOK, Kinds
  <2>2. ScansTheUsed'
    BY <1>0, <1>5 DEF ScansTheUsed, ScanTypeOK
  <2>3. \A f \in Escrows : outcome'[f] \in {outcome[f], "pending"}
    BY <1>0, <1>5 DEF ScanTypeOK
  <2>4. OutcomesHappened'
    BY <1>0, <2>3 DEF OutcomesHappened
  <2> QED
    BY <2>1, <2>2, <2>4 DEF DashboardInv
<1>6. ASSUME NEW e \in scan.matches, UNCHANGED outcome,
             scan' = [scan EXCEPT !.reading = [escrow |-> e, index |-> Newest(e)]]
      PROVE  DashboardInv'
  <2>1. e \in Escrows /\ Used(e)
    BY <1>0 DEF ScanTypeOK, ScansTheUsed
  <2>2. Newest(e) \in Nat /\ Newest(e) \in DOMAIN history[e]
    BY <2>1 DEF Histories, Used, Newest
  <2>3. /\ scan'.listed = scan.listed /\ scan'.matches = scan.matches
        /\ scan'.reading.escrow = e /\ scan'.reading.index = Newest(e)
    BY <1>0, <1>6 DEF ScanTypeOK
  <2>4. ScanTypeOK'
    BY <1>0, <1>6, <2>1, <2>2 DEF ScanTypeOK
  <2>5. ScansTheUsed'
    BY <1>0, <2>1, <2>2, <2>3 DEF ScansTheUsed, ScanTypeOK
  <2>6. OutcomesHappened'
    BY <1>0, <1>6 DEF OutcomesHappened
  <2> QED
    BY <2>4, <2>5, <2>6 DEF DashboardInv
<1>7. ASSUME ReadResolution
      PROVE  DashboardInv'
  <2> DEFINE e == scan.reading.escrow
             i == scan.reading.index
  <2>1. e \in Escrows /\ i \in DOMAIN history[e]
    BY <1>0, <1>7 DEF ReadResolution, ScansTheUsed
  <2>2. PICK kind \in {"pending", Classified(history[e][i])} :
          outcome' = [outcome EXCEPT ![e] = kind]
    BY <1>7 DEF ReadResolution
  <2>3. scan' = [scan EXCEPT !.reading = Nothing]
    BY <1>7 DEF ReadResolution
  <2> HIDE DEF e, i
  <2>4. /\ kind \in Kinds
        /\ kind = "rescued" => Rescued(e) \/ FailedLate(e)
        /\ kind # "pending" /\ Plain(e) =>
             ClosedBy(e, i) /\ kind = Shown(history[e][i].kind)
    BY <2>1, <2>2, ClassifiedHappened
  <2>5. ScanTypeOK'
    BY <1>0, <2>1, <2>2, <2>3, <2>4 DEF ScanTypeOK, Nothing
  <2>6. ScansTheUsed'
    <3>1. /\ scan'.listed = scan.listed /\ scan'.matches = scan.matches
          /\ scan'.reading = Nothing
      BY <1>0, <2>3 DEF ScanTypeOK
    <3> QED
      BY <1>0, <3>1 DEF ScansTheUsed, ScanTypeOK
  <2>7. OutcomesHappened'
    <3>1. outcome'[e] = kind /\ \A f \in Escrows \ {e} : outcome'[f] = outcome[f]
      BY <1>0, <2>1, <2>2 DEF ScanTypeOK
    <3> QED
      BY <1>0, <2>1, <2>4, <3>1 DEF OutcomesHappened
  <2> QED
    BY <2>5, <2>6, <2>7 DEF DashboardInv
<1> QED
  BY <1>1, <1>2, <1>3, <1>4, <1>5, <1>6, <1>7
     DEF DashboardStep, AllMatched, ReadSignatures, ShowMetrics

-----------------------------------------------------------------------------
(* While the benchmark is not running, what it holds stays true. *)
LEMMA BenchWaits ==
  ASSUME Histories, Grows, BenchInv, UNCHANGED benchVars
  PROVE  BenchInv'
<1> USE DEF benchVars
<1>1. BenchTypeOK' /\ NoneLost'
  BY DEF BenchInv, BenchTypeOK, NoneLost, Reported
<1>2. KnownAreOpened'
  BY SeenStaysTrue DEF BenchInv, BenchTypeOK, KnownAreOpened
<1>3. GoneAreClosed'
  BY SeenStaysTrue DEF BenchInv, BenchTypeOK, GoneAreClosed
<1>4. ClosingsNamed'
  <2> SUFFICES ASSUME NEW e \in Escrows, result[e].outcome = "rescued"
               PROVE  \E i \in DOMAIN history'[e] : ClosedBy(e, i)' /\ i <= result[e].closing
    BY DEF ClosingsNamed
  <2>1. PICK i \in DOMAIN history[e] : ClosedBy(e, i) /\ i <= result[e].closing
    BY DEF BenchInv, ClosingsNamed
  <2> QED
    BY <2>1, SeenStaysTrue
<1> QED
  BY <1>1, <1>2, <1>3, <1>4 DEF BenchInv

(* The newest signature of a closed escrow is not older than its closing. *)
LEMMA NewestIsLate ==
  ASSUME Histories, NEW e \in Escrows, Closed(e)
  PROVE  /\ Newest(e) \in Nat
         /\ \E i \in DOMAIN history[e] : ClosedBy(e, i) /\ i <= Newest(e)
<1>1. Len(history[e]) \in Nat /\ DOMAIN history[e] = 1 .. Len(history[e])
  BY DEF Histories
<1> QED
  BY <1>1 DEF Closed, Newest

(* An escrow whose creation was seen is open, whatever else happens. *)
LEMMA CreateKeepsBench ==
  ASSUME Histories, BenchInv, CreateOneEscrow
  PROVE  BenchInv'
<1>1. PICK e \in bench.toOpen, seen \in BOOLEAN :
        /\ bench' = [bench EXCEPT !.toOpen = @ \ {e}, !.opened = IF seen THEN @ \cup {e} ELSE @]
        /\ Creation(e, TRUE) \/ (~seen /\ (Creation(e, FALSE) \/ UNCHANGED history))
  BY DEF CreateOneEscrow
<1>2. bench.phase = "creating" /\ result' = result /\ e \in Escrows
  BY DEF CreateOneEscrow, Benching, BenchInv, BenchTypeOK
<1>3. Grows
  BY <1>1, <1>2, AppendGrows, CreationIsRecorded, StillGrows
<1>4. seen => Opened(e)'
  <2> SUFFICES ASSUME Creation(e, TRUE) PROVE Opened(e)'
    BY <1>1
  <2>1. /\ Newest(e) = 0
        /\ history'[e][Newest(e) + 1] = [kind |-> "initialize", ok |-> TRUE, logged |-> FALSE]
        /\ Newest(e)' = Newest(e) + 1
    BY <1>2, AppendGrows, CreationIsRecorded DEF Creation, Used, Newest
  <2>2. history'[e][1].ok /\ Len(history'[e]) = 1
    BY <2>1 DEF Newest
  <2> QED
    BY <2>2 DEF Opened, Used
<1>5. /\ bench'.phase = bench.phase /\ bench'.pending = bench.pending
      /\ bench'.pass = bench.pass /\ bench'.gone = bench.gone
      /\ bench'.opened = IF seen THEN bench.opened \cup {e} ELSE bench.opened
  BY <1>1 DEF BenchInv, BenchTypeOK
<1>6. BenchTypeOK'
  BY <1>1, <1>2 DEF BenchInv, BenchTypeOK
<1>7. KnownAreOpened'
  <2>1. \A f \in bench.opened : f \in Escrows /\ Opened(f)'
    BY <1>3, SeenStaysTrue DEF BenchInv, BenchTypeOK, KnownAreOpened
  <2> QED
    BY <1>4, <1>5, <2>1 DEF KnownAreOpened
<1>8. GoneAreClosed' /\ NoneLost'
  BY <1>2, <1>5 DEF BenchInv, GoneAreClosed, NoneLost, Reported
<1>9. ClosingsNamed'
  <2>1. \A f \in Escrows : result[f].outcome # "rescued"
    BY <1>2 DEF BenchInv, NoneLost, Reported
  <2> QED
    BY <1>2, <2>1 DEF ClosingsNamed
<1> QED
  BY <1>6, <1>7, <1>8, <1>9 DEF BenchInv

(* Naming the newest signature of a closed escrow. *)
LEMMA NamingAClosing ==
  ASSUME Histories, BenchInv, UNCHANGED history, NEW e \in Escrows, Closed(e),
         result' = [result EXCEPT ![e] = Result("rescued", Newest(e))]
  PROVE  /\ result' \in [Escrows -> [outcome : {"none", "rescued", "unrescued"}, closing : Nat]]
         /\ ClosingsNamed'
         /\ Reported' = Reported \cup {e}
<1>1. /\ Newest(e) \in Nat
      /\ \E i \in DOMAIN history[e] : ClosedBy(e, i) /\ i <= Newest(e)
  BY NewestIsLate
<1>2. /\ result'[e] = Result("rescued", Newest(e))
      /\ \A f \in Escrows \ {e} : result'[f] = result[f]
  BY DEF BenchInv, BenchTypeOK
<1>3. result' \in [Escrows -> [outcome : {"none", "rescued", "unrescued"}, closing : Nat]]
  BY <1>1 DEF BenchInv, BenchTypeOK, Result
<1>4. ClosingsNamed'
  BY <1>1, <1>2 DEF BenchInv, ClosingsNamed, Result, ClosedBy
<1>5. Reported' = Reported \cup {e}
  BY <1>2 DEF Reported, Result
<1> QED
  BY <1>3, <1>4, <1>5

(* Each step of the benchmark and of its report keeps the rest. *)
LEMMA BenchSteps ==
  ASSUME Histories, BenchInv, BenchStep
  PROVE  BenchInv'
<1>0. BenchTypeOK /\ KnownAreOpened /\ GoneAreClosed /\ ClosingsNamed /\ NoneLost
  BY DEF BenchInv
<1>a. ASSUME UNCHANGED history
      PROVE  \A e \in Escrows : (Opened(e)' <=> Opened(e)) /\ (Closed(e)' <=> Closed(e))
  BY <1>a DEF Opened, Used, Closed, ClosedBy
<1>b. ASSUME UNCHANGED <<history, result>>
      PROVE  ClosingsNamed' /\ Reported' = Reported
  BY <1>0, <1>b DEF ClosingsNamed, ClosedBy, Reported
<1>1. ASSUME BenchStart
      PROVE  BenchInv'
  <2>1. /\ bench.phase = "start" /\ UNCHANGED <<history, result>>
        /\ bench' = [bench EXCEPT !.phase = "creating"]
    BY <1>1 DEF BenchStart, Benching
  <2>2. BenchTypeOK'
    BY <1>0, <2>1 DEF BenchTypeOK
  <2>3. /\ bench'.phase = "creating" /\ bench'.opened = bench.opened
        /\ bench'.pass = bench.pass /\ bench'.gone = bench.gone
    BY <1>0, <2>1 DEF BenchTypeOK
  <2> QED
    BY <1>0, <1>a, <1>b, <2>1, <2>2, <2>3
       DEF BenchInv, KnownAreOpened, GoneAreClosed, NoneLost, BenchTypeOK
<1>2. ASSUME StartWatching
      PROVE  BenchInv'
  <2>1. /\ bench.phase = "creating" /\ UNCHANGED <<history, result>>
        /\ bench' = [bench EXCEPT !.phase = "watching", !.pending = bench.opened]
    BY <1>2 DEF StartWatching, Benching
  <2>2. BenchTypeOK'
    BY <1>0, <2>1 DEF BenchTypeOK
  <2>3. /\ bench'.phase = "watching" /\ bench'.opened = bench.opened
        /\ bench'.pending = bench.opened
        /\ bench'.pass = bench.pass /\ bench'.gone = bench.gone
    BY <1>0, <2>1 DEF BenchTypeOK
  <2>4. Reported = {} /\ bench.pass = {} /\ bench.gone = {}
    BY <1>0, <2>1 DEF NoneLost
  <2> QED
    BY <1>0, <1>a, <1>b, <2>1, <2>2, <2>3, <2>4
       DEF BenchInv, KnownAreOpened, GoneAreClosed, NoneLost, BenchTypeOK
<1>3. ASSUME StartPass
      PROVE  BenchInv'
  <2>1. /\ bench.phase = "watching" /\ UNCHANGED <<history, result>>
        /\ bench.gone = {}
        /\ bench' = [bench EXCEPT !.pass = bench.pending]
    BY <1>3 DEF StartPass, Benching
  <2>2. BenchTypeOK'
    BY <1>0, <2>1 DEF BenchTypeOK
  <2>3. /\ bench'.phase = "watching" /\ bench'.opened = bench.opened
        /\ bench'.pending = bench.pending
        /\ bench'.pass = bench.pending /\ bench'.gone = {}
    BY <1>0, <2>1 DEF BenchTypeOK
  <2> QED
    BY <1>0, <1>a, <1>b, <2>1, <2>2, <2>3
       DEF BenchInv, KnownAreOpened, GoneAreClosed, NoneLost, BenchTypeOK
<1>4. ASSUME Look
      PROVE  BenchInv'
  <2>1. PICK e \in bench.pass :
          bench' = [bench EXCEPT !.pass = @ \ {e}, !.gone = IF InfoIsNull(e) THEN {e} ELSE {}]
    BY <1>4 DEF Look
  <2>2. bench.phase = "watching" /\ UNCHANGED <<history, result>>
    BY <1>4 DEF Look, Benching
  <2>3. /\ e \in bench.pending /\ e \in bench.opened /\ e \in Escrows
        /\ bench.pass \subseteq bench.pending
    BY <1>0, <2>2 DEF NoneLost, BenchTypeOK
  <2>4. InfoIsNull(e) => Closed(e)
    BY <1>0, <2>3 DEF InfoIsNull, Gone, KnownAreOpened
  <2>5. BenchTypeOK'
    <3> DEFINE gone == IF InfoIsNull(e) THEN {e} ELSE {}
    <3>1. gone \in SUBSET Escrows
      BY <2>3
    <3>2. bench' = [bench EXCEPT !.pass = @ \ {e}, !.gone = gone]
      BY <2>1
    <3> HIDE DEF gone
    <3> QED
      BY <1>0, <2>2, <3>1, <3>2 DEF BenchTypeOK
  <2>6. /\ bench'.phase = "watching" /\ bench'.opened = bench.opened
        /\ bench'.pending = bench.pending /\ bench'.pass = bench.pass \ {e}
        /\ bench'.gone = IF InfoIsNull(e) THEN {e} ELSE {}
    BY <1>0, <2>1, <2>2 DEF BenchTypeOK
  <2>7. KnownAreOpened'
    BY <1>0, <1>a, <2>2, <2>6 DEF KnownAreOpened, BenchTypeOK
  <2>8. GoneAreClosed'
    BY <1>a, <2>2, <2>3, <2>4, <2>6 DEF GoneAreClosed
  <2>9. NoneLost'
    BY <1>0, <1>b, <2>2, <2>3, <2>6 DEF NoneLost
  <2> QED
    BY <1>b, <2>2, <2>5, <2>7, <2>8, <2>9 DEF BenchInv
<1>5. ASSUME FindClosingSignature
      PROVE  BenchInv'
  <2>1. PICK e \in bench.gone :
          /\ result' = [result EXCEPT ![e] = Result("rescued", Newest(e))]
          /\ bench' = [bench EXCEPT !.gone = {}, !.pending = @ \ {e}]
    BY <1>5 DEF FindClosingSignature
  <2>2. bench.phase = "watching" /\ UNCHANGED history
    BY <1>5 DEF FindClosingSignature, Benching
  <2>3. e \in Escrows /\ Closed(e) /\ e \in bench.pending /\ e \notin bench.pass
    BY <1>0, <2>2 DEF NoneLost, BenchTypeOK, GoneAreClosed
  <2>4. /\ result' \in [Escrows -> [outcome : {"none", "rescued", "unrescued"}, closing : Nat]]
        /\ ClosingsNamed' /\ Reported' = Reported \cup {e}
    BY <2>1, <2>2, <2>3, NamingAClosing
  <2>5. BenchTypeOK'
    BY <1>0, <2>1, <2>4 DEF BenchTypeOK
  <2>6. /\ bench'.phase = "watching" /\ bench'.opened = bench.opened
        /\ bench'.pending = bench.pending \ {e} /\ bench'.pass = bench.pass
        /\ bench'.gone = {}
    BY <1>0, <2>1, <2>2 DEF BenchTypeOK
  <2>7. KnownAreOpened' /\ GoneAreClosed'
    BY <1>0, <1>a, <2>2, <2>6 DEF KnownAreOpened, GoneAreClosed, BenchTypeOK
  <2>8. NoneLost'
    BY <1>0, <2>2, <2>3, <2>4, <2>6 DEF NoneLost
  <2> QED
    BY <2>4, <2>5, <2>7, <2>8 DEF BenchInv
<1>6. ASSUME BenchCrashes
      PROVE  BenchInv'
  <2>1. bench' = [bench EXCEPT !.phase = "crashed"] /\ UNCHANGED <<history, result>>
    BY <1>6 DEF BenchCrashes
  <2>2. BenchTypeOK'
    BY <1>0, <2>1 DEF BenchTypeOK
  <2>3. bench'.phase = "crashed" /\ bench'.opened = bench.opened
    BY <1>0, <2>1 DEF BenchTypeOK
  <2> QED
    BY <1>0, <1>a, <1>b, <2>1, <2>2, <2>3
       DEF BenchInv, KnownAreOpened, GoneAreClosed, NoneLost, BenchTypeOK
<1>7. ASSUME Summary
      PROVE  BenchInv'
  <2>1. /\ bench.phase = "watching" /\ UNCHANGED history
        /\ result' = [e \in Escrows |->
                        IF e \in bench.pending THEN Result("unrescued", 0) ELSE result[e]]
        /\ bench' = [bench EXCEPT !.phase = "done"]
    BY <1>7 DEF Summary, Benching
  <2>2. BenchTypeOK'
    BY <1>0, <2>1 DEF BenchTypeOK, Result
  <2>3. bench'.phase = "done" /\ bench'.opened = bench.opened
    BY <1>0, <2>1 DEF BenchTypeOK
  <2>4. KnownAreOpened' /\ GoneAreClosed'
    BY <1>0, <1>a, <2>1, <2>3 DEF KnownAreOpened, GoneAreClosed, BenchTypeOK
  <2>5. ClosingsNamed'
    BY <1>0, <2>1 DEF ClosingsNamed, ClosedBy, Result
  <2>6. Reported' = Reported \cup bench.pending
    <3>1. bench.pending \subseteq Escrows
      BY <1>0 DEF BenchTypeOK
    <3> QED
      BY <2>1, <3>1 DEF Reported, Result
  <2>7. NoneLost'
    BY <1>0, <2>1, <2>3, <2>6 DEF NoneLost
  <2> QED
    BY <2>2, <2>4, <2>5, <2>7 DEF BenchInv
<1>8. ASSUME ReportStart
      PROVE  BenchInv'
  <2>1. /\ bench.phase = "crashed" /\ UNCHANGED history
        /\ \A e \in bench.opened : Closed(e)
        /\ result' = [e \in Escrows |-> NoResult]
        /\ bench' = [bench EXCEPT !.phase = "reporting", !.pass = bench.opened,
                                  !.gone = {}, !.pending = {}]
    BY <1>8 DEF ReportStart, Benching
  <2>2. BenchTypeOK'
    BY <1>0, <2>1 DEF BenchTypeOK, NoResult
  <2>3. /\ bench'.phase = "reporting" /\ bench'.opened = bench.opened
        /\ bench'.pass = bench.opened
    BY <1>0, <2>1 DEF BenchTypeOK
  <2>4. KnownAreOpened' /\ GoneAreClosed'
    BY <1>0, <1>a, <2>1, <2>3 DEF KnownAreOpened, GoneAreClosed, BenchTypeOK
  <2>5. ClosingsNamed' /\ Reported' = {}
    BY <2>1 DEF ClosingsNamed, NoResult, Reported
  <2> QED
    BY <2>2, <2>3, <2>4, <2>5 DEF BenchInv, NoneLost
<1>9. ASSUME ReportEntry
      PROVE  BenchInv'
  <2>1. PICK e \in bench.pass :
          /\ result' = [result EXCEPT ![e] = Result("rescued", Newest(e))]
          /\ bench' = [bench EXCEPT !.pass = @ \ {e}]
    BY <1>9 DEF ReportEntry
  <2>2. bench.phase = "reporting" /\ UNCHANGED history
    BY <1>9 DEF ReportEntry, Benching
  <2>3. e \in Escrows /\ Closed(e) /\ e \in bench.opened
    BY <1>0, <2>2 DEF NoneLost, BenchTypeOK, GoneAreClosed
  <2>4. /\ result' \in [Escrows -> [outcome : {"none", "rescued", "unrescued"}, closing : Nat]]
        /\ ClosingsNamed' /\ Reported' = Reported \cup {e}
    BY <2>1, <2>2, <2>3, NamingAClosing
  <2>5. BenchTypeOK'
    BY <1>0, <2>1, <2>4 DEF BenchTypeOK
  <2>6. /\ bench'.phase = "reporting" /\ bench'.opened = bench.opened
        /\ bench'.pass = bench.pass \ {e}
    BY <1>0, <2>1, <2>2 DEF BenchTypeOK
  <2>7. KnownAreOpened' /\ GoneAreClosed'
    BY <1>0, <1>a, <2>2, <2>6 DEF KnownAreOpened, GoneAreClosed, BenchTypeOK
  <2>8. NoneLost'
    BY <1>0, <2>2, <2>3, <2>4, <2>6 DEF NoneLost
  <2> QED
    BY <2>4, <2>5, <2>7, <2>8 DEF BenchInv
<1>10. ASSUME ReportDone
       PROVE  BenchInv'
  <2>1. /\ bench.phase = "reporting" /\ bench.pass = {} /\ UNCHANGED <<history, result>>
        /\ bench' = [bench EXCEPT !.phase = "done"]
    BY <1>10 DEF ReportDone, Benching
  <2>2. BenchTypeOK'
    BY <1>0, <2>1 DEF BenchTypeOK
  <2>3. bench'.phase = "done" /\ bench'.opened = bench.opened
    BY <1>0, <2>1 DEF BenchTypeOK
  <2>4. NoneLost'
    BY <1>0, <1>b, <2>1, <2>3 DEF NoneLost
  <2> QED
    BY <1>0, <1>a, <1>b, <2>1, <2>2, <2>3, <2>4
       DEF BenchInv, KnownAreOpened, GoneAreClosed, BenchTypeOK
<1> QED
  BY <1>1, <1>2, <1>3, <1>4, <1>5, <1>6, <1>7, <1>8, <1>9, <1>10, CreateKeepsBench DEF BenchStep

-----------------------------------------------------------------------------
(* While the page does nothing, what it shows stays true. *)
LEMMA PageWaits ==
  ASSUME Histories, Grows, PageInv, UNCHANGED <<page, pollers, seenGone>>
  PROVE  PageInv'
<1>1. PageTypeOK'
  BY DEF PageInv, PageTypeOK
<1>2. page.phase \in {"pending", "resolved"} =>
        /\ page.escrow \in Escrows /\ Used(page.escrow)
        /\ page.phase = "resolved" => Gone(page.escrow)
  BY DEF PageInv, ShownIsUsed, PageShowsItsOwnEscrow
<1>3. page.phase \in {"pending", "resolved"} => Used(page.escrow)'
  <2> DEFINE e == page.escrow
  <2>1. ASSUME NEW f \in Escrows, Used(f)
        PROVE  Used(f)'
    BY <2>1, SeenStaysTrue
  <2> QED
    BY <1>2, <2>1 DEF Used
<1>4. page.phase = "resolved" => Gone(page.escrow)'
  <2>1. ASSUME NEW f \in Escrows, Used(f), Gone(f)
        PROVE  Gone(f)'
    BY <2>1, SeenStaysTrue
  <2> QED
    BY <1>2, <2>1 DEF Gone, Opened, Used, Closed, ClosedBy
<1>5. SeenIsGone'
  <2>1. seenGone \subseteq pollers /\ \A e \in seenGone : Gone(e) /\ e = page.escrow
    BY DEF PageInv, SeenIsGone, PageShowsItsOwnEscrow
  <2>2. ASSUME NEW f \in Escrows, Used(f), Gone(f)
        PROVE  Gone(f)'
    BY <2>2, SeenStaysTrue
  <2>3. seenGone # {} => page.escrow \in Escrows /\ Used(page.escrow)
    BY <1>2, <2>1 DEF PageInv, PageShowsItsOwnEscrow
  <2>4. \A e \in seenGone : e \in Escrows /\ Used(e) /\ Gone(e)
    BY <2>1, <2>3
  <2> QED
    BY <2>1, <2>2, <2>4 DEF SeenIsGone
<1> QED
  BY <1>1, <1>2, <1>3, <1>4, <1>5 DEF PageInv, ShownIsUsed, PageShowsItsOwnEscrow

(* A page that shows no escrow polls for none. *)
LEMMA PageMoves ==
  ASSUME PageInv, page.phase # "pending", UNCHANGED <<history, pollCount, pollers, seenGone>>,
         NEW phase \in {"idle", "connecting", "no-wallet", "creating", "needs-sol",
                        "airdropping", "error"},
         page' = Shows(phase)
  PROVE  PageInv'
<1>1. pollers' = {} /\ seenGone' = {}
  BY DEF PageInv, SeenIsGone, PageShowsItsOwnEscrow
<1>2. page'.phase = phase
  BY DEF Shows
<1>3. PageTypeOK'
  BY <1>1 DEF PageTypeOK, Shows
<1> QED
  BY <1>1, <1>2, <1>3 DEF PageInv, SeenIsGone, ShownIsUsed, PageShowsItsOwnEscrow

(* Each step of the page keeps it. *)
LEMMA PageSteps ==
  ASSUME Histories, PageInv, PageStep
  PROVE  PageInv'
<1>0. PageTypeOK /\ ShownIsUsed /\ SeenIsGone /\ PageShowsItsOwnEscrow
  BY DEF PageInv
<1>a. ASSUME UNCHANGED history
      PROVE  \A e : (Used(e)' <=> Used(e)) /\ (Gone(e)' <=> Gone(e))
  BY <1>a DEF Used, Gone, Opened, Closed, ClosedBy
<1>1. ASSUME CreateEscrow
      PROVE  PageInv'
  <2>1. PICK e \in Escrows, ok \in BOOLEAN :
          /\ Creation(e, ok)
          /\ \/ page' = ShowsEscrow("pending", e, 0) /\ pollers' = pollers \cup {e}
             \/ page' = Shows("error") /\ UNCHANGED pollers
    BY <1>1 DEF CreateEscrow
  <2>2. pollers = {} /\ seenGone = {} /\ seenGone' = {}
    BY <1>0, <1>1 DEF CreateEscrow, OnPage, SeenIsGone, PageShowsItsOwnEscrow
  <2>3. CASE page' = Shows("error") /\ UNCHANGED pollers
    BY <1>0, <2>2, <2>3 DEF PageInv, PageTypeOK, ShownIsUsed, SeenIsGone, PageShowsItsOwnEscrow, Shows
  <2>4. CASE page' = ShowsEscrow("pending", e, 0) /\ pollers' = pollers \cup {e}
    <3>1. Histories' /\ Newest(e)' = Newest(e) + 1
      BY <2>1, AppendGrows, CreationIsRecorded DEF Grows
    <3>2. Used(e)'
      <4>1. Newest(e) \in Nat
        BY DEF Newest, Histories
      <4> QED
        BY <3>1, <4>1 DEF Used, Newest
    <3>3. page'.phase = "pending" /\ page'.escrow = e /\ pollers' = {e}
      BY <2>2, <2>4 DEF ShowsEscrow
    <3>4. PageTypeOK'
      BY <2>4, <3>3 DEF PageTypeOK, ShowsEscrow
    <3>5. SeenIsGone'
      BY <2>2 DEF SeenIsGone
    <3> QED
      BY <3>2, <3>3, <3>4, <3>5 DEF PageInv, ShownIsUsed, PageShowsItsOwnEscrow, Used
  <2> QED
    BY <2>1, <2>3, <2>4
<1>2. ASSUME NEW e \in pollers, PollAgain(e), UNCHANGED <<history, page>>
      PROVE  PageInv'
  <2>1. pollers' \in {pollers, pollers \ {e}} /\ seenGone' = seenGone \ {e}
    BY <1>2 DEF PollAgain
  <2>2. ShownIsUsed' /\ PageShowsItsOwnEscrow'
    BY <1>0, <1>2, <1>a, <2>1 DEF ShownIsUsed, PageShowsItsOwnEscrow
  <2>3. SeenIsGone'
    BY <1>0, <1>2, <1>a, <2>1 DEF SeenIsGone
  <2> QED
    BY <1>0, <1>2, <2>1, <2>2, <2>3 DEF PageInv, PageTypeOK
<1>3. ASSUME Resolved
      PROVE  PageInv'
  <2>1. PICK e \in seenGone : /\ page' = ShowsEscrow("resolved", e, Newest(e))
                              /\ pollers' = pollers \ {e}
                              /\ seenGone' = seenGone \ {e}
    BY <1>3 DEF Resolved
  <2>2. UNCHANGED history
    BY <1>3 DEF Resolved
  <2>3. e \in Escrows /\ Used(e) /\ Gone(e) /\ pollers' = {} /\ seenGone' = {}
    BY <1>0, <2>1 DEF PageTypeOK, ShownIsUsed, SeenIsGone, PageShowsItsOwnEscrow
  <2>4. page'.phase = "resolved" /\ page'.escrow = e
    BY <2>1 DEF ShowsEscrow
  <2>5. Newest(e) \in Nat
    BY <2>3 DEF Newest, Histories
  <2>6. PageTypeOK'
    BY <2>1, <2>3, <2>5 DEF PageTypeOK, ShowsEscrow
  <2>7. Used(e)' /\ Gone(e)'
    BY <1>a, <2>2, <2>3
  <2>8. SeenIsGone'
    BY <2>3 DEF SeenIsGone
  <2> QED
    BY <2>3, <2>4, <2>6, <2>7, <2>8
       DEF PageInv, ShownIsUsed, PageShowsItsOwnEscrow, Used, Gone, Opened, Closed, ClosedBy
<1>4. ASSUME \/ ConnectWallet \/ Connected \/ RequestAirdrop \/ Airdropped
             \/ NotSent \/ TryAgain \/ DoItAgain
      PROVE  PageInv'
  <2>1. PICK phase \in {"idle", "connecting", "no-wallet", "creating", "needs-sol",
                        "airdropping", "error"} : page' = Shows(phase)
    BY <1>4 DEF ConnectWallet, Connected, RequestAirdrop, Airdropped, NotSent, TryAgain,
                DoItAgain, MoveTo
  <2>2. page.phase # "pending" /\ UNCHANGED <<history, pollCount, pollers, seenGone>>
    BY <1>4 DEF ConnectWallet, Connected, RequestAirdrop, Airdropped, NotSent, TryAgain,
                DoItAgain, MoveTo, OnPage
  <2> QED
    BY <2>1, <2>2, PageMoves
<1>5. ASSUME SeesGone
      PROVE  PageInv'
  <2>1. PICK e \in pollers : /\ Gone(e) /\ seenGone' = seenGone \cup {e}
                             /\ UNCHANGED <<history, page, pollers>>
    BY <1>5 DEF SeesGone, ReadsAccount
  <2>2. ShownIsUsed' /\ PageShowsItsOwnEscrow'
    BY <1>0, <1>a, <2>1 DEF ShownIsUsed, PageShowsItsOwnEscrow
  <2>3. SeenIsGone'
    BY <1>0, <1>a, <2>1 DEF SeenIsGone
  <2> QED
    BY <1>0, <2>1, <2>2, <2>3 DEF PageInv, PageTypeOK
<1>6. ASSUME NotYet \/ AccountReadFails
      PROVE  PageInv'
  <2>1. \E e \in pollers : PollAgain(e) /\ UNCHANGED <<history, page>>
    BY <1>6 DEF NotYet, AccountReadFails, ReadsAccount
  <2> QED
    BY <1>2, <2>1
<1>7. ASSUME SignaturesReadFails
      PROVE  PageInv'
  <2>1. \E e \in pollers : PollAgain(e) /\ UNCHANGED <<history, page>>
    BY <1>0, <1>7 DEF SignaturesReadFails, SeenIsGone
  <2> QED
    BY <1>2, <2>1
<1> QED
  BY <1>1, <1>3, <1>4, <1>5, <1>6, <1>7 DEF PageStep

-----------------------------------------------------------------------------
(* At first nobody has seen anything. *)
LEMMA InitInv ==
  ASSUME Init
  PROVE  Inv
<1>1. Histories /\ \A e \in Escrows : history[e] = <<>>
  BY DEF Init, HistoryInit, Histories
<1>2. DashboardInv
  BY DEF Init, DashboardInit, DashboardInv, ScanTypeOK, ScansTheUsed, OutcomesHappened,
         NewScan, Nothing
<1>3. BenchInv
  BY DEF Init, BenchInit, BenchInv, BenchTypeOK, KnownAreOpened, GoneAreClosed,
         ClosingsNamed, NoneLost, Reported, NoResult
<1>4. PageInv
  BY DEF Init, PageInit, PageInv, PageTypeOK, ShownIsUsed, SeenIsGone,
         PageShowsItsOwnEscrow, Shows
<1> QED
  BY <1>1, <1>2, <1>3, <1>4 DEF Inv

(* A step is one of the program that runs, or one of the escrows; the others  *)
(* wait meanwhile.                                                            *)
LEMMA NextInv ==
  ASSUME Inv, [Next]_vars
  PROVE  Inv'
<1>1. Histories /\ DashboardInv /\ BenchInv /\ PageInv
  BY DEF Inv
<1>2. Grows /\ Histories'
  <2>1. bench.toOpen \subseteq Escrows
    BY <1>1 DEF BenchInv, BenchTypeOK
  <2>2. Grows
    BY <1>1, <2>1, HistoriesGrow
  <2> QED
    BY <2>2 DEF Grows
<1>3. DashboardInv'
  <2>1. CASE DashboardRuns
    BY <1>1, <2>1, DashboardSteps DEF DashboardRuns
  <2>2. CASE UNCHANGED dashboardVars
    BY <1>1, <1>2, <2>2, DashboardWaits
  <2> QED
    BY <2>1, <2>2 DEF Next, BenchmarkRuns, DemoPageRuns, EscrowsGoOn, vars
<1>4. BenchInv'
  <2>1. CASE BenchmarkRuns
    BY <1>1, <2>1, BenchSteps DEF BenchmarkRuns
  <2>2. CASE UNCHANGED benchVars
    BY <1>1, <1>2, <2>2, BenchWaits
  <2> QED
    BY <2>1, <2>2 DEF Next, DashboardRuns, DemoPageRuns, EscrowsGoOn, vars
<1>5. PageInv'
  <2>1. CASE DemoPageRuns
    BY <1>1, <2>1, PageSteps DEF DemoPageRuns
  <2>2. CASE UNCHANGED pageVars
    BY <1>1, <1>2, <2>2, PageWaits DEF pageVars
  <2> QED
    BY <2>1, <2>2 DEF Next, DashboardRuns, BenchmarkRuns, EscrowsGoOn, vars
<1> QED
  BY <1>2, <1>3, <1>4, <1>5 DEF Inv

(* What the three programs hold of the escrows they look at is so, at all     *)
(* times.                                                                     *)
THEOREM ObserversInvariant ==
  Spec => []Inv
<1>1. Init => Inv
  BY InitInv
<1>2. Inv /\ [Next]_vars => Inv'
  BY NextInv
<1> QED
  BY <1>1, <1>2, PTL DEF Spec

(* The dashboard shows an escrow that met no failed transaction and no top-up *)
(* the way it ended, wherever its end fell between two reads of the scan.     *)
(* (dashboard/page.tsx 169-224)                                               *)
THEOREM DashboardReadsPlainHistories ==
  Spec => []PlainHistoriesReadRight
<1>1. Inv => PlainHistoriesReadRight
  BY DEF Inv, DashboardInv, ScanTypeOK, OutcomesHappened, PlainHistoriesReadRight
<1> QED
  BY <1>1, ObserversInvariant, PTL

(* The benchmark and the report made up after a crash call only closed        *)
(* escrows rescued, name a signature no older than the closing, and report    *)
(* every escrow once. (devnet-rescue-benchmark.mjs 89-95, 124-147,            *)
(* devnet-rescue-report.mjs 65-69)                                            *)
THEOREM BenchmarkReportsClosings ==
  Spec => []ReportedClosingsHappened
<1>1. Inv => ReportedClosingsHappened
  BY DEF Inv, BenchInv, ClosingsNamed, NoneLost, Reported, ReportedClosingsHappened
<1> QED
  BY <1>1, ObserversInvariant, PTL

(* The demo page never lets an earlier escrow's outcome overwrite a later     *)
(* one's, and shows as resolved only what is gone. (demo/page.tsx 178-203)    *)
THEOREM DemoPageShowsItsOwn ==
  Spec => []PageShowsItsOwnEscrow
<1>1. Inv => PageShowsItsOwnEscrow
  BY DEF Inv, PageInv
<1> QED
  BY <1>1, ObserversInvariant, PTL

-----------------------------------------------------------------------------
(* The revenue.  What the partner is paid for an escrow as it was created,    *)
(* and for one as it was when it was rescued.                                 *)
Claimed == [e \in Escrows |-> PartnerShare(Buffer)]

Received == [e \in Escrows |-> PartnerShare(Buffered(e))]

(* A larger buffer has no smaller partner share. *)
LEMMA PartnerShareMonotone ==
  ASSUME NEW m \in Nat, NEW n \in Nat, m <= n
  PROVE  PartnerShare(m) <= PartnerShare(n)
<1> DEFINE a == m * PARTNER_SHARE_BPS
           b == n * PARTNER_SHARE_BPS
<1>1. BASIS_POINTS_DIVISOR \in Nat \ {0} /\ PARTNER_SHARE_BPS \in Nat
  BY RatesAssumption
<1>2. a = PARTNER_SHARE_BPS * m /\ b = PARTNER_SHARE_BPS * n
  BY <1>1
<1>3. a \in Nat /\ b \in Nat /\ a <= b
  BY <1>1, <1>2, MultiplyMonotone
<1> HIDE DEF a, b
<1>4. a \div BASIS_POINTS_DIVISOR <= b \div BASIS_POINTS_DIVISOR
  BY <1>1, <1>3, DivideMonotone
<1> QED
  BY <1>4 DEF PartnerShare, split_share, a, b

(* Top-ups only add: no escrow paid the partner less than its creation says.  *)
LEMMA ReceivedIsMore ==
  ASSUME Histories, NEW e \in Escrows
  PROVE  /\ Claimed[e] \in Nat /\ Received[e] \in Nat
         /\ Claimed[e] <= Received[e]
<1> DEFINE topUps == {i \in DOMAIN history[e] : history[e][i].kind = "top_up" /\ history[e][i].ok}
           n == Cardinality(topUps)
<1>1. Len(history[e]) \in Nat /\ DOMAIN history[e] = 1 .. Len(history[e])
  BY DEF Histories
<1>2. IsFiniteSet(topUps)
  <2>1. IsFiniteSet(1 .. Len(history[e]))
    BY <1>1, FS_Interval
  <2>2. topUps \in SUBSET (1 .. Len(history[e]))
    BY <1>1
  <2> QED
    BY <2>1, <2>2, FS_Subset
<1>3. n \in Nat
  BY <1>2, FS_CardinalityType
<1>4. Buffered(e) = Buffer + TopUp * n
  BY DEF Buffered
<1> HIDE DEF n
<1>5. Buffer \in Nat /\ TopUp \in Nat
  BY HistoryAssumption
<1>6. TopUp * n \in Nat
  BY <1>3, <1>5
<1>7. Buffered(e) \in Nat /\ Buffer <= Buffered(e)
  BY <1>4, <1>5, <1>6
<1>8. /\ PartnerShare(Buffer) \in Nat /\ PartnerShare(Buffered(e)) \in Nat
      /\ PartnerShare(Buffer) <= PartnerShare(Buffered(e))
  BY <1>5, <1>7, PartnerShareMonotone, SharesAreTheBuffer
<1> QED
  BY <1>8 DEF Claimed, Received

(* The dashboard's sum is the sum of what is claimed for each.                *)
LEMMA RevenueIsClaimed ==
  ASSUME rescued \in SUBSET Escrows
  PROVE  revenueLamports = SumFunctionOnSet(Claimed, rescued)
<1> DEFINE S == rescued
           r == CHOOSE g : g = [s \in SUBSET S |->
                                  IF s = {} THEN 0
                                  ELSE LET x == CHOOSE x \in s : TRUE
                                       IN  PartnerShare(Buffer) + g[s \ {x}]]
<1>1. revenueLamports = r[S]
  BY DEF revenueLamports, MapThenSumSet, MapThenFoldSet
<1>2. IsFiniteSet(S)
  BY HistoryAssumption, FS_Subset
<1>3. PICK h : Adds(Claimed, h, S) /\ SumFunctionOnSet(Claimed, S) = h[S]
  BY <1>2, SumAdds
<1> HIDE DEF S
<1>4. ASSUME NEW s \in SUBSET S, s # {}
      PROVE  Claimed[Pick(s)] = PartnerShare(Buffer)
  <2>1. Pick(s) \in s
    BY <1>4, Picked
  <2> QED
    BY <2>1 DEF Claimed, S
<1>5. ASSUME NEW g
      PROVE  Adds(Claimed, g, S)
               <=> g = [s \in SUBSET S |->
                          IF s = {} THEN 0
                          ELSE LET x == CHOOSE x \in s : TRUE
                               IN  PartnerShare(Buffer) + g[s \ {x}]]
  BY <1>4 DEF Adds, Pick
<1>6. Adds(Claimed, r, S)
  BY <1>3, <1>5
<1> HIDE DEF r
<1>7. r[S] = h[S]
  BY <1>2, <1>3, <1>6, AddsAgree
<1> QED
  BY <1>1, <1>3, <1>7 DEF S

(* What is received for some escrows is the sum of what is for each of them.  *)
LEMMA IncomeIsReceived ==
  ASSUME NEW S \in SUBSET Escrows
  PROVE  SharesOf(S) = SumFunctionOnSet(Received, S)
<1> DEFINE r == CHOOSE g : g = [s \in SUBSET S |->
                                  IF s = {} THEN 0
                                  ELSE LET x == CHOOSE x \in s : TRUE
                                       IN  PartnerShare(Buffered(x)) + g[s \ {x}]]
<1>1. SharesOf(S) = r[S]
  BY DEF SharesOf, MapThenSumSet, MapThenFoldSet
<1>2. IsFiniteSet(S)
  BY HistoryAssumption, FS_Subset
<1>3. PICK h : Adds(Received, h, S) /\ SumFunctionOnSet(Received, S) = h[S]
  BY <1>2, SumAdds
<1>4. ASSUME NEW s \in SUBSET S, s # {}
      PROVE  Received[Pick(s)] = PartnerShare(Buffered(Pick(s)))
  <2>1. Pick(s) \in s
    BY <1>4, Picked
  <2> QED
    BY <2>1 DEF Received
<1>5. ASSUME NEW g
      PROVE  Adds(Received, g, S)
               <=> g = [s \in SUBSET S |->
                          IF s = {} THEN 0
                          ELSE LET x == CHOOSE x \in s : TRUE
                               IN  PartnerShare(Buffered(x)) + g[s \ {x}]]
  BY <1>4 DEF Adds, Pick
<1>6. Adds(Received, r, S)
  BY <1>3, <1>5
<1> HIDE DEF r
<1>7. r[S] = h[S]
  BY <1>2, <1>3, <1>6, AddsAgree
<1> QED
  BY <1>1, <1>3, <1>7

(* What holds of the revenue the dashboard shows: each escrow it counts was   *)
(* rescued, or had a rescue fail after its event was logged, and the shares   *)
(* it adds up are no more than those of all such escrows.                     *)
(* (dashboard/page.tsx 169-262)                                               *)
THEOREM DashboardRevenueIsOfRescues ==
  Spec => []RevenueIsOfRescues
<1>1. ASSUME Inv
      PROVE  RevenueIsOfRescues
  <2> DEFINE Paid == {e \in Escrows : Rescued(e) \/ FailedLate(e)}
  <2>1. rescued \in SUBSET Paid
    BY <1>1 DEF Inv, DashboardInv, ScanTypeOK, OutcomesHappened, rescued
  <2>2. IsFiniteSet(Paid) /\ IsFiniteSet(rescued)
    BY <2>1, HistoryAssumption, FS_Subset
  <2>3. \A e \in Paid : Claimed[e] \in Nat /\ Received[e] \in Nat /\ Claimed[e] <= Received[e]
    BY <1>1, ReceivedIsMore DEF Inv
  <2>4. revenueLamports = SumFunctionOnSet(Claimed, rescued)
    BY <2>1, RevenueIsClaimed
  <2>5. SharesOf(Paid) = SumFunctionOnSet(Received, Paid)
    BY IncomeIsReceived
  <2> HIDE DEF Paid
  <2>6. SumFunctionOnSet(Claimed, rescued) <= SumFunctionOnSet(Received, rescued)
    BY <2>1, <2>2, <2>3, SumMonotone
  <2>7. SumFunctionOnSet(Received, rescued) <= SumFunctionOnSet(Received, Paid)
    BY <2>1, <2>2, <2>3, SumOfMore
  <2>8. /\ SumFunctionOnSet(Claimed, rescued) \in Int
        /\ SumFunctionOnSet(Received, rescued) \in Int
        /\ SumFunctionOnSet(Received, Paid) \in Int
    BY <2>1, <2>2, <2>3, SumInt
  <2>9. SumFunctionOnSet(Claimed, rescued) <= SumFunctionOnSet(Received, Paid)
    BY <2>6, <2>7, <2>8
  <2> QED
    BY <2>1, <2>4, <2>5, <2>9 DEF RevenueIsOfRescues, Paid
<1> QED
  BY <1>1, ObserversInvariant, PTL

=============================================================================
