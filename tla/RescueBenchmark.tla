-------------------------- MODULE RescueBenchmark --------------------------
(***************************************************************************)
(* The rescue benchmark (devnet-rescue-benchmark.mjs): open escrows, leave *)
(* them, look at each in turn until it is gone, and report; and the script *)
(* that made the report up after a crash (devnet-rescue-report.mjs).       *)
(***************************************************************************)
EXTENDS EscrowHistory

VARIABLES
  bench,    \* phase; the escrows it opened and still to open; those still
            \* pending; the rest of the current pass; the one found gone
  result    \* per escrow: its outcome, and the signature taken for its closing

benchVars == <<bench, result>>

-----------------------------------------------------------------------------
NoResult == [outcome |-> "none", closing |-> 0]

Result(outcome, closing) == [outcome |-> outcome, closing |-> closing]

BenchInit ==
  /\ bench = [phase |-> "start", toOpen |-> Escrows, opened |-> {}, pending |-> {},
              pass |-> {}, gone |-> {}]
  /\ result = [e \in Escrows |-> NoResult]

Benching(phase) == bench.phase = phase

BenchStart ==
  /\ Benching("start")
  /\ bench' = [bench EXCEPT !.phase = "creating"]
  /\ UNCHANGED <<history, result>>

(* createOneEscrow: whatever fails, the next one is tried; an escrow may be   *)
(* open although its confirmation was lost.                                   *)
CreateOneEscrow ==
  /\ Benching("creating")
  /\ \E e \in bench.toOpen, seen \in BOOLEAN :
       /\ bench' = [bench EXCEPT !.toOpen = @ \ {e}, !.opened = IF seen THEN @ \cup {e} ELSE @]
       /\ Creation(e, TRUE) \/ (~seen /\ (Creation(e, FALSE) \/ UNCHANGED history))
  /\ UNCHANGED result

StartWatching ==
  /\ Benching("creating") /\ bench.toOpen = {}
  /\ bench' = [bench EXCEPT !.phase = "watching", !.pending = bench.opened]
  /\ UNCHANGED <<history, result>>

-----------------------------------------------------------------------------
(* The deadline is looked at between passes only. *)
StartPass ==
  /\ Benching("watching") /\ bench.pass = {} /\ bench.gone = {}
  /\ bench.pending # {}
  /\ bench' = [bench EXCEPT !.pass = bench.pending]
  /\ UNCHANGED <<history, result>>

FailedReadIsGone(e) == TRUE                          \* mistake: null for a failed read, too

InfoIsNull(e) == Gone(e)

Look ==
  /\ Benching("watching") /\ bench.gone = {}
  /\ \E e \in bench.pass :
       bench' = [bench EXCEPT !.pass = @ \ {e}, !.gone = IF InfoIsNull(e) THEN {e} ELSE {}]
  /\ UNCHANGED <<history, result>>

(* The newest signature, read after the account was seen gone. *)
FindClosingSignature ==
  /\ Benching("watching")
  /\ \E e \in bench.gone :
       /\ result' = [result EXCEPT ![e] = Result("rescued", Newest(e))]
       /\ bench' = [bench EXCEPT !.gone = {}, !.pending = @ \ {e}]
  /\ UNCHANGED history

(* Nothing catches a failing read: no report. *)
BenchCrashes ==
  /\ \/ Benching("watching") /\ (bench.pass # {} \/ bench.gone # {})
     \/ Benching("reporting")
  /\ bench' = [bench EXCEPT !.phase = "crashed"]
  /\ UNCHANGED <<history, result>>

Summary ==
  /\ Benching("watching") /\ bench.pass = {} /\ bench.gone = {}
  /\ result' = [e \in Escrows |->
                  IF e \in bench.pending THEN Result("unrescued", 0) ELSE result[e]]
  /\ bench' = [bench EXCEPT !.phase = "done"]
  /\ UNCHANGED history

-----------------------------------------------------------------------------
(* The report of a crashed run: its escrows are known to be closed by then.  *)
ReportStart ==
  /\ Benching("crashed")
  /\ \A e \in bench.opened : Closed(e)
  /\ result' = [e \in Escrows |-> NoResult]
  /\ bench' = [bench EXCEPT !.phase = "reporting", !.pass = bench.opened, !.gone = {}, !.pending = {}]
  /\ UNCHANGED history

ReportEntry ==
  /\ Benching("reporting")
  /\ \E e \in bench.pass :
       /\ result' = [result EXCEPT ![e] = Result("rescued", Newest(e))]
       /\ bench' = [bench EXCEPT !.pass = @ \ {e}]
  /\ UNCHANGED history

ReportDone ==
  /\ Benching("reporting") /\ bench.pass = {}
  /\ bench' = [bench EXCEPT !.phase = "done"]
  /\ UNCHANGED <<history, result>>

BenchStep ==
  \/ BenchStart \/ CreateOneEscrow \/ StartWatching \/ StartPass \/ Look
  \/ FindClosingSignature \/ BenchCrashes \/ Summary
  \/ ReportStart \/ ReportEntry \/ ReportDone

=============================================================================
