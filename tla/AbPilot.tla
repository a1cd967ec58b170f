------------------------------ MODULE AbPilot ------------------------------
(***************************************************************************)
(* The A/B pilot (mainnet-ab-pilot.mjs): per trial, one arm opens an       *)
(* escrow and watches a keeper rescue it, the other runs the retry loop,   *)
(* and the trial is reported when both have settled.  The retry script on  *)
(* its own is the other program here.  Each trial's escrow can be closed   *)
(* by the pilot's keeper, by another one, or by a cleanup.                 *)
(***************************************************************************)
EXTENDS RetryBaseline

VARIABLES
  program,   \* "pilot" or "retry": which main() runs
  live,      \* whether real submission was asked for
  standing,  \* the script: running, ended or crashed
  trial,     \* the trial the loop is at
  armA,      \* the Inertia side of the trial
  escrow,    \* per trial: its escrow account
  report     \* per trial: what the report will say of the two sides

pilotVars == <<program, live, standing, trial, armA, escrow, report>>

vars == <<retryVars, pilotVars>>

-----------------------------------------------------------------------------
Arm == {"idle", "creating", "watching", "looking", "rescued", "unrescued-timeout", "error"}

Settled == {"rescued", "unrescued-timeout", "error"}

Escrow == {"none", "pending", "closed"}

NoReport == [inertiaSide |-> "none", retrySide |-> "none"]

Init ==
  /\ RetryInit
  /\ program \in {"pilot", "retry"}
  /\ live \in BOOLEAN
  /\ standing = "running"
  /\ trial = 1
  /\ armA = "idle"
  /\ escrow = [t \in Runs |-> "none"]
  /\ report = [t \in Runs |-> NoReport]

ThisTrial == standing = "running" /\ program = "pilot"

(* The next trial, or the end of the loop over the trials. *)
NextTrial ==
  /\ armA' = "idle"
  /\ IF trial = TRIAL_COUNT
     THEN standing' = "ended" /\ UNCHANGED trial
     ELSE trial' = trial + 1 /\ UNCHANGED standing

-----------------------------------------------------------------------------
(* runOneTrial: the quote, then both arms at once. *)
StartTrial ==
  /\ ThisTrial /\ armA = "idle" /\ At("idle")
  /\ live
  /\ armA' = "creating"
  /\ attemptSwapWithRetry(trial)
  /\ UNCHANGED <<program, live, standing, trial, escrow, report>>

DryTrial ==
  /\ ThisTrial /\ armA = "idle"
  /\ ~live
  /\ report' = [report EXCEPT ![trial].retrySide = "dry-run"]
  /\ NextTrial
  /\ UNCHANGED <<retryVars, program, live, escrow>>

(* Nothing catches a failing quote: the script ends without a report. *)
TrialQuoteThrows ==
  /\ ThisTrial /\ armA = "idle"
  /\ standing' = "crashed"
  /\ UNCHANGED <<retryVars, program, live, trial, armA, escrow, report>>

-----------------------------------------------------------------------------
(* createInertiaSideEscrow: accounts, funds, the escrow itself; it may be    *)
(* opened although its confirmation is lost.                                 *)
CreateEscrow ==
  /\ armA = "creating"
  /\ escrow' = [escrow EXCEPT ![trial] = "pending"]
  /\ armA' \in {"watching", "error"}
  /\ UNCHANGED <<retryVars, program, live, standing, trial, report>>

ArmThrows ==
  /\ armA \in {"creating", "watching", "looking"}
  /\ armA' = "error"
  /\ UNCHANGED <<retryVars, program, live, standing, trial, escrow, report>>

(* watchForRescue: a keeper pass, then a look at the account.  What the pass *)
(* sends may land later, see Close.                                          *)
KeeperPass ==
  /\ armA = "watching"
  /\ armA' = "looking"
  /\ UNCHANGED <<retryVars, program, live, standing, trial, escrow, report>>

Look ==
  /\ armA = "looking"
  /\ armA' = IF escrow[trial] = "pending" THEN "watching" ELSE "rescued"
  /\ UNCHANGED <<retryVars, program, live, standing, trial, escrow, report>>

WatchTimesOut ==
  /\ armA = "watching"
  /\ armA' = "unrescued-timeout"
  /\ UNCHANGED <<retryVars, program, live, standing, trial, escrow, report>>

(* Promise.allSettled, then the next trial. *)
FirstRejection ==                                    \* mistake: Promise.all
  /\ ThisTrial
  /\ armA = "error" \/ (armA \in Settled /\ Returned)
  /\ report' = [report EXCEPT ![trial] =
                  [inertiaSide |-> armA, retrySide |-> IF Returned THEN loop.step ELSE "never-landed"]]
  /\ NextTrial
  /\ loop' = [loop EXCEPT !.step = IF Returned THEN "idle" ELSE @]
  /\ UNCHANGED <<sent, record, program, live, escrow>>

AllSettled ==
  /\ ThisTrial
  /\ armA \in Settled /\ Returned
  /\ report' = [report EXCEPT ![trial] = [inertiaSide |-> armA, retrySide |-> loop.step]]
  /\ NextTrial
  /\ loop' = [loop EXCEPT !.step = "idle"]
  /\ UNCHANGED <<sent, record, program, live, escrow>>

PilotStep ==
  \/ StartTrial \/ DryTrial \/ TrialQuoteThrows
  \/ CreateEscrow \/ ArmThrows \/ KeeperPass \/ Look \/ WatchTimesOut
  \/ AllSettled

-----------------------------------------------------------------------------
(* The retry script on its own. *)
RetryMain ==
  /\ program = "retry" /\ standing = "running"
  /\ \/ attemptSwapWithRetry(1) /\ UNCHANGED standing
     \/ Returned /\ standing' = "ended" /\ UNCHANGED retryVars
  /\ UNCHANGED <<program, live, trial, armA, escrow, report>>

(* A keeper's execute_swap, the pilot's or another's, or a cleanup. *)
Close(t) ==
  /\ escrow[t] = "pending"
  /\ escrow' = [escrow EXCEPT ![t] = "closed"]
  /\ UNCHANGED <<retryVars, program, live, standing, trial, armA, report>>

Next ==
  \/ PilotStep
  \/ RetryMain
  \/ RetryStep(~live) /\ UNCHANGED pilotVars
  \/ ExternalStep /\ UNCHANGED pilotVars
  \/ \E t \in Runs : Close(t)

Spec == Init /\ [][Next]_vars

-----------------------------------------------------------------------------
(* A call that reports "landed" means its last attempt: that transaction     *)
(* landed.  One of an earlier attempt that lands meanwhile is not mistaken   *)
(* for it, and the loop tries no further.                                    *)
(* (mainnet-retry-baseline.mjs 188-223)                                      *)
ReportedLandedIsReal ==
  \A i \in Runs \X Attempts :
    record[i] = "landed" =>
      /\ sent[i] = "landed"
      /\ \A a \in Attempts : a > i[2] => record[<<i[1], a>>] = "none"

(* Every swap the wallet paid for can be found: its attempt is on record as  *)
(* landed, timed out or failed in an unknown way, never as reverted or as a  *)
(* dry run.  More than one attempt may have landed.  (the same, 198-228)     *)
SwapsAreOnRecord ==
  \A i \in Runs \X Attempts :
    sent[i] = "landed" =>
      \/ record[i] \in {"landed", "timeout", "error"}
      \/ At("confirm") /\ This = i

(* A trial is reported, the next one started and the script ended only when  *)
(* neither arm of it is running any more, whichever of them failed.          *)
(* (mainnet-ab-pilot.mjs 132-158)                                            *)
NoArmOutlivesItsTrial ==
  program = "pilot" =>
    /\ loop.step \in Steps \ {"idle"} => loop.run = trial
    /\ armA = "idle" => loop.step = "idle"

=============================================================================
