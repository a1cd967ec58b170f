---------------------------- MODULE AbPilotProofs ----------------------------
(***************************************************************************)
(* The records of the retry loop and the order of the pilot's trials, for  *)
(* any number of trials and attempts, whatever lands when.                 *)
(*                                                                         *)
(* The loop's own state says how far it has come: nothing is sent or noted *)
(* ahead of it, what lies behind it is noted as whatever may still land,   *)
(* and a run that goes on has not landed.                                  *)
(***************************************************************************)
EXTENDS AbPilot, TLAPS

-----------------------------------------------------------------------------
TypeOK ==
  /\ sent \in [Runs \X Attempts -> Sent]
  /\ record \in [Runs \X Attempts -> Record]
  /\ loop \in Loop
  /\ trial \in Runs
  /\ armA \in Arm

Running == loop.step \in {"quote", "send", "confirm"}

(* Attempts the loop has not come to. *)
Ahead(i) ==
  \/ loop.run < i[1]
  \/ loop.run = i[1] /\ loop.attempt < i[2]
  \/ loop.step = "idle" /\ standing = "running" /\ trial <= i[1]

Unused(i) == sent[i] = "none" /\ record[i] = "none"

(* What may be out there, or may have landed, is on record as such. *)
Accounted(i) ==
  sent[i] \in {"inflight", "landed"} =>
    \/ record[i] \in {"landed", "timeout", "error"}
    \/ At("confirm") /\ This = i

LoopInv ==
  /\ \A i \in Runs \X Attempts : Ahead(i) => Unused(i)
  /\ Running => record[This] = "none"
  /\ At("quote") \/ At("send") => sent[This] = "none"
  /\ Running => \A a \in Attempts : record[<<loop.run, a>>] # "landed"
  /\ \A i \in Runs \X Attempts : Accounted(i)
  /\ ReportedLandedIsReal
  /\ NoArmOutlivesItsTrial
  /\ program = "pilot" /\ ~Running /\ loop.step # "idle" => loop.run = trial
  /\ program = "retry" => trial = 1 /\ armA = "idle"

(* The first run and the first attempt are within the bounds. *)
LEMMA Counts ==
  /\ TRIAL_COUNT \in Nat \ {0} /\ MAX_ATTEMPTS \in Nat \ {0}
  /\ 1 \in Runs /\ 1 \in Attempts
BY RetryAssumption DEF Runs, Attempts

(* The types hold at the start. *)
LEMMA TypesInitially == Init => TypeOK
BY Counts DEF Init, RetryInit, TypeOK, Sent, Record, Loop, Steps, Results, Arm

(* The shape of the loop's steps. *)
LEMMA NextAttempt ==
  ASSUME TypeOK, Running, NEW exhausted \in Results, TryAgain(exhausted)
  PROVE  \/ /\ loop.attempt < MAX_ATTEMPTS
            /\ loop' = [run |-> loop.run, attempt |-> loop.attempt + 1, step |-> "quote"]
            /\ loop.attempt + 1 \in Attempts
         \/ loop' = [run |-> loop.run, attempt |-> loop.attempt, step |-> exhausted]
<1>1. loop \in [run : Runs, attempt : Attempts, step : Steps \cup Results]
  BY DEF TypeOK, Loop
<1>2. CASE loop.attempt < MAX_ATTEMPTS
  <2> DEFINE next == [loop EXCEPT !.attempt = loop.attempt + 1]
  <2>1. loop' = [next EXCEPT !.step = "quote"]
    BY <1>2 DEF TryAgain
  <2>2. loop' = [run |-> loop.run, attempt |-> loop.attempt + 1, step |-> "quote"]
    BY <1>1, <2>1
  <2>3. loop.attempt + 1 \in Attempts
    BY <1>1, <1>2, Counts DEF Attempts
  <2> QED
    BY <1>2, <2>2, <2>3
<1>3. CASE ~(loop.attempt < MAX_ATTEMPTS)
  <2>1. loop' = [loop EXCEPT !.step = exhausted]
    BY <1>3 DEF TryAgain, Stops
  <2> QED
    BY <1>1, <2>1
<1> QED
  BY <1>2, <1>3

(* Every step of the loop moves on within the attempt, or notes an outcome    *)
(* and stops or tries again; none but a sending sends.                        *)
LoopMoves ==
  \/ /\ record' = record /\ Running
     /\ \/ /\ At("quote") /\ sent' = sent
           /\ loop' = [run |-> loop.run, attempt |-> loop.attempt, step |-> "send"]
        \/ /\ At("send") /\ sent' = [sent EXCEPT ![This] = "inflight"]
           /\ loop' = [run |-> loop.run, attempt |-> loop.attempt, step |-> "confirm"]
  \/ \E outcome \in Record \ {"none"} :
       /\ Running
       /\ record' = [record EXCEPT ![This] = outcome]
       /\ \/ /\ loop.attempt + 1 \in Attempts /\ outcome # "landed"
             /\ loop' = [run |-> loop.run, attempt |-> loop.attempt + 1, step |-> "quote"]
          \/ \E result \in Results :
               loop' = [run |-> loop.run, attempt |-> loop.attempt, step |-> result]
       /\ \/ sent' = sent
          \/ At("send") /\ outcome = "error" /\ sent' = [sent EXCEPT ![This] = "inflight"]
       /\ outcome = "landed" => sent[This] = "landed" /\ sent' = sent
       /\ At("confirm") => outcome \in {"landed", "timeout", "error"} \/ sent[This] = "reverted"

(* What any step of the retry loop does to the loop, the sends and the      *)
(* records.                                                                 *)
LEMMA RetryStepMoves ==
  ASSUME TypeOK, NEW dryRun \in BOOLEAN, RetryStep(dryRun)
  PROVE  LoopMoves
<1>1. loop \in [run : Runs, attempt : Attempts, step : Steps \cup Results]
  BY DEF TypeOK, Loop
<1>2. CASE Quote
  <2>1. loop' = [run |-> loop.run, attempt |-> loop.attempt, step |-> "send"]
    BY <1>1, <1>2 DEF Quote
  <2> QED
    BY <1>2, <2>1 DEF Quote, LoopMoves, At, Running
<1>3. CASE QuoteOnly
  <2>1. Running /\ TryAgain("dry-run-complete") /\ "dry-run-complete" \in Results
    BY <1>3 DEF QuoteOnly, Running, At, Results
  <2> QED
    BY <1>3, <2>1, NextAttempt DEF QuoteOnly, Noted, LoopMoves, At, Record
<1>4. CASE Throws(dryRun)
  <2>1. PICK result \in Results : Running /\ TryAgain(result)
    BY <1>4 DEF Throws, Running, Results
  <2> QED
    BY <1>4, <2>1, NextAttempt DEF Throws, Noted, LoopMoves, At, Record
<1>5. CASE SendRaw
  <2>1. CASE loop' = [loop EXCEPT !.step = "confirm"] /\ UNCHANGED record
    <3>1. loop' = [run |-> loop.run, attempt |-> loop.attempt, step |-> "confirm"]
      BY <1>1, <2>1
    <3> QED
      BY <1>5, <2>1, <3>1 DEF SendRaw, LoopMoves, At, Running
  <2>2. CASE Noted("error") /\ TryAgain("never-landed")
    <3>1. Running /\ "never-landed" \in Results
      BY <1>5 DEF SendRaw, Running, At, Results
    <3> QED
      BY <1>5, <2>2, <3>1, NextAttempt DEF SendRaw, Noted, LoopMoves, At, Record
  <2> QED
    BY <1>5, <2>1, <2>2 DEF SendRaw
<1>6. CASE ConfirmLanded
  <2>1. /\ loop' = [run |-> loop.run, attempt |-> loop.attempt, step |-> "landed"]
        /\ "landed" \in Results
    BY <1>1, <1>6 DEF ConfirmLanded, Stops, Results
  <2> QED
    BY <1>6, <2>1 DEF ConfirmLanded, Noted, LoopMoves, At, Running, Record
<1>7. CASE ConfirmReverted \/ TimesOut
  <2>1. Running /\ TryAgain("never-landed") /\ "never-landed" \in Results
    BY <1>7 DEF ConfirmReverted, TimesOut, Running, At, Results
  <2> QED
    BY <1>7, <2>1, NextAttempt DEF ConfirmReverted, TimesOut, Noted, LoopMoves, At, Record
<1> QED
  BY <1>2, <1>3, <1>4, <1>5, <1>6, <1>7 DEF RetryStep

-----------------------------------------------------------------------------
(* Types. *)
LEMMA LoopMovesKeepTypes ==
  ASSUME TypeOK, LoopMoves, trial' = trial, armA' = armA
  PROVE  TypeOK'
<1>1. This \in Runs \X Attempts /\ loop.run \in Runs /\ loop.attempt \in Attempts
  BY DEF TypeOK, Loop, This
<1>2. loop' \in Loop
  <2>1. \A a \in Attempts, step \in Steps \cup Results :
          [run |-> loop.run, attempt |-> a, step |-> step] \in Loop
    BY <1>1 DEF Loop
  <2>2. {"quote", "send", "confirm"} \subseteq Steps
    BY DEF Steps
  <2> QED
    BY <1>1, <2>1, <2>2 DEF LoopMoves
<1>3. sent' \in [Runs \X Attempts -> Sent]
  BY <1>1 DEF LoopMoves, TypeOK, Sent
<1>4. record' \in [Runs \X Attempts -> Record]
  BY <1>1 DEF LoopMoves, TypeOK
<1> QED
  BY <1>2, <1>3, <1>4 DEF TypeOK

(* A retry loop starts at its first attempt. *)
LEMMA BeginKeepsTypes ==
  ASSUME TypeOK, NEW run \in Runs, attemptSwapWithRetry(run)
  PROVE  loop' = [run |-> run, attempt |-> 1, step |-> "quote"] /\ loop' \in Loop
BY Counts DEF attemptSwapWithRetry, Loop, Steps

(* The pilot goes to the next trial or ends. *)
LEMMA NextTrialKeepsTypes ==
  ASSUME TypeOK, NextTrial
  PROVE  /\ trial' \in Runs /\ armA' = "idle"
         /\ \/ trial' = trial /\ standing' = "ended"
            \/ trial' = trial + 1 /\ standing' = standing
<1>1. trial \in Nat
  BY DEF TypeOK, Runs
<1> QED
  BY <1>1, Counts DEF NextTrial, TypeOK, Runs

(* Every step keeps the types. *)
LEMMA PilotTypes == TypeOK /\ [Next]_vars => TypeOK'
<1> SUFFICES ASSUME TypeOK, [Next]_vars
             PROVE  TypeOK'
  OBVIOUS
<1> USE DEF Arm
<1>1. CASE UNCHANGED vars
  BY <1>1 DEF vars, retryVars, pilotVars, TypeOK
<1>2. CASE StartTrial
  BY <1>2, BeginKeepsTypes DEF StartTrial, attemptSwapWithRetry, TypeOK
<1>3. CASE DryTrial
  BY <1>3, NextTrialKeepsTypes DEF DryTrial, retryVars, TypeOK
<1>4. CASE TrialQuoteThrows \/ CreateEscrow \/ ArmThrows \/ KeeperPass \/ Look \/ WatchTimesOut
  BY <1>4 DEF TrialQuoteThrows, CreateEscrow, ArmThrows, KeeperPass, Look, WatchTimesOut,
              retryVars, TypeOK
<1>5. CASE AllSettled
  <2>1. loop' \in Loop
    BY <1>5 DEF AllSettled, TypeOK, Loop, Steps
  <2> QED
    BY <1>5, <2>1, NextTrialKeepsTypes DEF AllSettled, TypeOK
<1>6. CASE RetryMain
  <2>1. CASE attemptSwapWithRetry(1)
    BY <1>6, <2>1, BeginKeepsTypes, Counts DEF RetryMain, attemptSwapWithRetry, TypeOK
  <2>2. CASE UNCHANGED retryVars
    BY <1>6, <2>2 DEF RetryMain, retryVars, TypeOK
  <2> QED
    BY <1>6, <2>1, <2>2 DEF RetryMain
<1>7. CASE RetryStep(~live) /\ UNCHANGED pilotVars
  <2>1. LoopMoves
    BY <1>7, RetryStepMoves
  <2> QED
    BY <1>7, <2>1, LoopMovesKeepTypes DEF pilotVars
<1>8. CASE ExternalStep /\ UNCHANGED pilotVars
  BY <1>8 DEF ExternalStep, Included, pilotVars, TypeOK, Sent
<1>9. ASSUME NEW t \in Runs, Close(t)
      PROVE  TypeOK'
  BY <1>9 DEF Close, retryVars, TypeOK
<1> QED
  BY <1>1, <1>2, <1>3, <1>4, <1>5, <1>6, <1>7, <1>8, <1>9 DEF Next, PilotStep

-----------------------------------------------------------------------------
(* The loop's own steps. *)
LEMMA LoopMovesKeepInv ==
  ASSUME TypeOK, TypeOK', LoopInv, LoopMoves, UNCHANGED pilotVars
  PROVE  LoopInv'
<1> DEFINE r == loop.run
           a == loop.attempt
<1>1. /\ Running /\ r \in Nat /\ a \in Nat /\ r \in Runs /\ a \in Attempts
      /\ This = <<r, a>> /\ This \in Runs \X Attempts
      /\ loop.step # "idle" /\ loop.step \in {"quote", "send", "confirm"}
  BY DEF LoopMoves, Running, TypeOK, Loop, This, Runs, Attempts
<1>2. /\ loop'.run = r /\ loop'.step # "idle"
      /\ loop'.attempt = a \/ (loop'.attempt = a + 1 /\ loop'.step = "quote")
  BY DEF LoopMoves, Results
<1>3. \A i \in Runs \X Attempts \ {This} : sent'[i] = sent[i] /\ record'[i] = record[i]
  BY <1>1 DEF LoopMoves, TypeOK
<1>4. \A i \in Runs \X Attempts : i = <<i[1], i[2]>> /\ i[1] \in Nat /\ i[2] \in Nat
  BY DEF Runs, Attempts
<1>5. \A i \in Runs \X Attempts : Ahead(i)' => Ahead(i) /\ i # This
  <2> SUFFICES ASSUME NEW i \in Runs \X Attempts, Ahead(i)'
               PROVE  Ahead(i) /\ i # This
    OBVIOUS
  <2>1. r < i[1] \/ (r = i[1] /\ loop'.attempt < i[2])
    BY <1>2 DEF Ahead
  <2>2. r < i[1] \/ (r = i[1] /\ a < i[2])
    BY <1>1, <1>2, <1>4, <2>1
  <2> QED
    BY <1>1, <1>4, <2>2 DEF Ahead
<1>6. \A i \in Runs \X Attempts : Ahead(i)' => Unused(i)'
  BY <1>3, <1>5 DEF LoopInv, Unused
<1>7. /\ Running' => record'[This'] = "none"
      /\ At("quote")' \/ At("send")' => sent'[This'] = "none"
  <2>1. CASE loop'.attempt = a + 1 /\ a + 1 \in Attempts
    <3>1. This' = <<r, a + 1>> /\ <<r, a + 1>> \in Runs \X Attempts
      BY <1>1, <1>2, <2>1 DEF This
    <3>2. Ahead(<<r, a + 1>>) /\ <<r, a + 1>> # This
      BY <1>1 DEF Ahead
    <3>3. sent'[<<r, a + 1>>] = "none" /\ record'[<<r, a + 1>>] = "none"
      BY <1>3, <3>1, <3>2 DEF LoopInv, Unused
    <3> QED
      BY <3>1, <3>3
  <2>2. CASE loop'.attempt = a
    <3>1. This' = This
      BY <1>2, <2>2 DEF This
    <3>2. Running' => record' = record
      BY <1>1, <2>2 DEF LoopMoves, Running, Results
    <3>3. At("quote")' \/ At("send")' => At("quote") /\ sent' = sent
      BY <1>1, <2>2 DEF LoopMoves, At, Results
    <3> QED
      BY <1>1, <3>1, <3>2, <3>3 DEF LoopInv
  <2> QED
    BY <1>1, <2>1, <2>2 DEF LoopMoves
<1>8. Running' => \A x \in Attempts : record'[<<loop'.run, x>>] # "landed"
  <2> SUFFICES ASSUME Running', NEW x \in Attempts
               PROVE  record'[<<r, x>>] # "landed"
    BY <1>2
  <2>1. record[<<r, x>>] # "landed" /\ <<r, x>> \in Runs \X Attempts
    BY <1>1 DEF LoopInv
  <2>2. record'[This] # "landed"
    BY <1>1 DEF LoopMoves, LoopInv, TypeOK, Running, Results
  <2> QED
    BY <1>3, <2>1, <2>2
<1>9. \A i \in Runs \X Attempts : Accounted(i)'
  <2> SUFFICES ASSUME NEW i \in Runs \X Attempts, sent'[i] \in {"inflight", "landed"}
               PROVE  \/ record'[i] \in {"landed", "timeout", "error"}
                      \/ At("confirm")' /\ This' = i
    BY DEF Accounted
  <2>1. CASE i # This
    <3>1. record[i] \in {"landed", "timeout", "error"}
      BY <1>3, <2>1 DEF LoopInv, Accounted
    <3> QED
      BY <1>3, <2>1, <3>1
  <2>2. CASE i = This /\ record' = record
    <3>1. At("send") /\ loop' = [run |-> r, attempt |-> a, step |-> "confirm"]
      <4>1. At("quote") => sent[This] = "none"
        BY DEF LoopInv
      <4>2. record[This] = "none"
        BY <1>1 DEF LoopInv
      <4> QED
        BY <1>1, <2>2, <4>1, <4>2 DEF LoopMoves, TypeOK
    <3> QED
      BY <1>1, <2>2, <3>1 DEF At, This
  <2>3. CASE i = This /\ record' # record
    <3>1. PICK outcome \in Record \ {"none"} :
            /\ record' = [record EXCEPT ![This] = outcome]
            /\ \/ sent' = sent
               \/ At("send") /\ outcome = "error" /\ sent' = [sent EXCEPT ![This] = "inflight"]
            /\ outcome = "landed" => sent[This] = "landed" /\ sent' = sent
            /\ At("confirm") => outcome \in {"landed", "timeout", "error"} \/ sent[This] = "reverted"
      BY <2>3 DEF LoopMoves
    <3>2. record'[This] = outcome
      BY <1>1, <3>1 DEF TypeOK
    <3>3. At("quote") \/ At("send") => sent[This] = "none"
      BY DEF LoopInv
    <3>4. outcome \in {"landed", "timeout", "error"}
      BY <1>1, <2>3, <3>1, <3>3 DEF At
    <3> QED
      BY <2>3, <3>2, <3>4
  <2> QED
    BY <2>1, <2>2, <2>3
<1>10. ReportedLandedIsReal'
  <2> SUFFICES ASSUME NEW i \in Runs \X Attempts, record'[i] = "landed"
               PROVE  /\ sent'[i] = "landed"
                      /\ \A x \in Attempts : x > i[2] => record'[<<i[1], x>>] = "none"
    BY DEF ReportedLandedIsReal
  <2>1. CASE i = This
    <3>1. record[This] = "none"
      BY <1>1 DEF LoopInv
    <3>2. sent'[i] = "landed"
      BY <1>1, <2>1, <3>1 DEF LoopMoves, TypeOK
    <3>3. ASSUME NEW x \in Attempts, x > i[2]
          PROVE  record'[<<i[1], x>>] = "none"
      <4>1. <<r, x>> \in Runs \X Attempts /\ <<r, x>> # This /\ i[1] = r /\ x > a
        BY <1>1, <2>1, <3>3
      <4>2. Ahead(<<r, x>>)
        BY <1>1, <4>1 DEF Ahead, Attempts
      <4> QED
        BY <1>3, <4>1, <4>2 DEF LoopInv, Unused
    <3> QED
      BY <3>2, <3>3
  <2>2. CASE i # This
    <3>1. record[i] = "landed"
      BY <1>3, <2>2
    <3>2. i[1] # r
      BY <1>1, <1>4, <3>1 DEF LoopInv
    <3>3. /\ sent[i] = "landed"
          /\ \A x \in Attempts : x > i[2] => record[<<i[1], x>>] = "none"
      BY <3>1 DEF LoopInv, ReportedLandedIsReal
    <3>4. \A x \in Attempts : <<i[1], x>> \in Runs \X Attempts /\ <<i[1], x>> # This
      BY <1>1, <3>2
    <3> QED
      BY <1>3, <2>2, <3>3, <3>4
  <2> QED
    BY <2>1, <2>2
<1>11. program = "pilot" => r = trial /\ armA # "idle"
  BY <1>1 DEF LoopInv, NoArmOutlivesItsTrial, Steps
<1>12. NoArmOutlivesItsTrial' /\ (program' = "pilot" => loop'.run = trial')
  BY <1>2, <1>11 DEF NoArmOutlivesItsTrial, pilotVars
<1>13. program' = "retry" => trial' = 1 /\ armA' = "idle"
  BY DEF LoopInv, pilotVars
<1> QED
  BY <1>6, <1>7, <1>8, <1>9, <1>10, <1>12, <1>13 DEF LoopInv

-----------------------------------------------------------------------------
(* Everybody else's steps. *)
LEMMA BeginKeepsInv ==
  ASSUME TypeOK, LoopInv, standing = "running", attemptSwapWithRetry(trial),
         UNCHANGED <<program, standing, trial>>,
         \/ program = "pilot" /\ armA' = "creating"
         \/ program = "retry" /\ armA' = armA
  PROVE  LoopInv'
<1>1. /\ At("idle") /\ sent' = sent /\ record' = record
      /\ loop' = [run |-> trial, attempt |-> 1, step |-> "quote"]
      /\ trial \in Runs /\ trial \in Nat /\ 1 \in Attempts
  BY Counts DEF attemptSwapWithRetry, TypeOK, Runs
<1>2. \A i \in Runs \X Attempts : i = <<i[1], i[2]>> /\ i[1] \in Nat /\ i[2] \in Nat
  BY DEF Runs, Attempts
<1>3. \A i \in Runs \X Attempts : trial <= i[1] => Unused(i)
  BY <1>1 DEF LoopInv, Ahead, At
<1>4. \A i \in Runs \X Attempts : Ahead(i)' => Unused(i)'
  BY <1>1, <1>2, <1>3 DEF Ahead, Unused
<1>5. \A x \in Attempts : Unused(<<trial, x>>)
  BY <1>1, <1>3
<1>6. /\ record'[This'] = "none" /\ sent'[This'] = "none"
      /\ \A x \in Attempts : record'[<<loop'.run, x>>] # "landed"
  BY <1>1, <1>5 DEF This, Unused
<1>7. \A i \in Runs \X Attempts : Accounted(i)'
  BY <1>1 DEF LoopInv, Accounted, At
<1>8. ReportedLandedIsReal'
  BY <1>1 DEF LoopInv, ReportedLandedIsReal
<1>9. /\ NoArmOutlivesItsTrial' /\ (program' = "pilot" => loop'.run = trial')
      /\ program' = "retry" => trial' = 1 /\ armA' = "idle"
  BY <1>1 DEF LoopInv, NoArmOutlivesItsTrial
<1> QED
  BY <1>4, <1>6, <1>7, <1>8, <1>9 DEF LoopInv

(* A transaction that lands late keeps the invariant: the record it belongs *)
(* to is not yet final.                                                     *)
LEMMA IncludedKeepsInv ==
  ASSUME TypeOK, LoopInv, ExternalStep, UNCHANGED pilotVars
  PROVE  LoopInv'
<1>1. PICK k \in Runs \X Attempts : Included(k)
  BY DEF ExternalStep
<1>2. /\ record' = record /\ loop' = loop /\ sent[k] = "inflight"
      /\ sent'[k] \in {"landed", "reverted"}
      /\ \A i \in Runs \X Attempts \ {k} : sent'[i] = sent[i]
  BY <1>1 DEF Included, TypeOK
<1>3. \A i \in Runs \X Attempts : sent[i] = "none" => sent'[i] = "none"
  BY <1>2
<1>4. \A i \in Runs \X Attempts : sent[i] = "landed" => sent'[i] = "landed"
  BY <1>2
<1>5. \A i \in Runs \X Attempts : Ahead(i)' => Unused(i)'
  BY <1>2, <1>3 DEF LoopInv, Ahead, Unused, pilotVars
<1>6. At("quote")' \/ At("send")' => sent'[This'] = "none"
  <2>1. This \in Runs \X Attempts
    BY DEF TypeOK, Loop, This
  <2> QED
    BY <1>2, <1>3, <2>1 DEF LoopInv, At, This
<1>7. \A i \in Runs \X Attempts : Accounted(i)'
  BY <1>2 DEF LoopInv, Accounted, At, This
<1>8. ReportedLandedIsReal'
  BY <1>2, <1>4 DEF LoopInv, ReportedLandedIsReal
<1> QED
  BY <1>2, <1>5, <1>6, <1>7, <1>8 DEF LoopInv, Running, This, NoArmOutlivesItsTrial, pilotVars

(* The next trial leaves the loop idle, or finds it so. *)
LEMMA NextTrialKeepsInv ==
  ASSUME TypeOK, LoopInv, standing = "running", program = "pilot", NextTrial,
         ~Running, loop.step = "idle" \/ loop.run = trial,
         UNCHANGED <<sent, record, program>>, loop' = [loop EXCEPT !.step = "idle"]
  PROVE  LoopInv'
<1>1. /\ loop'.run = loop.run /\ loop'.attempt = loop.attempt /\ loop'.step = "idle"
      /\ trial \in Nat /\ loop.run \in Nat
  BY DEF TypeOK, Loop, Runs
<1>2. /\ armA' = "idle"
      /\ \/ trial' = trial /\ standing' = "ended"
         \/ trial' = trial + 1 /\ standing' = standing
  BY NextTrialKeepsTypes
<1>3. \A i \in Runs \X Attempts : i[1] \in Nat /\ i[2] \in Nat
  BY DEF Runs, Attempts
<1>4. \A i \in Runs \X Attempts : Ahead(i)' => Ahead(i)
  BY <1>1, <1>2, <1>3 DEF Ahead
<1>5. \A i \in Runs \X Attempts : Ahead(i)' => Unused(i)'
  BY <1>4 DEF LoopInv, Unused
<1>6. \A i \in Runs \X Attempts : Accounted(i)'
  BY DEF LoopInv, Accounted, At, Running
<1>7. ReportedLandedIsReal'
  BY DEF LoopInv, ReportedLandedIsReal
<1> QED
  BY <1>1, <1>2, <1>5, <1>6, <1>7 DEF LoopInv, Running, At, NoArmOutlivesItsTrial, Steps

(* So does every step that leaves the loop, and the trial, where they are. *)
LEMMA StillLoopKeepsInv ==
  ASSUME LoopInv, UNCHANGED <<retryVars, program, trial>>,
         standing' = "running" => standing = "running",
         armA' = "idle" => armA = "idle", program = "retry" => armA' = armA
  PROVE  LoopInv'
<1>1. sent' = sent /\ record' = record /\ loop' = loop /\ program' = program /\ trial' = trial
  BY DEF retryVars
<1>2. \A i \in Runs \X Attempts : Ahead(i)' => Unused(i)'
  BY <1>1 DEF LoopInv, Ahead, Unused
<1>3. \A i \in Runs \X Attempts : Accounted(i)'
  BY <1>1 DEF LoopInv, Accounted, At, This
<1>4. ReportedLandedIsReal'
  BY <1>1 DEF LoopInv, ReportedLandedIsReal
<1> QED
  BY <1>1, <1>2, <1>3, <1>4 DEF LoopInv, Running, At, This, NoArmOutlivesItsTrial

(* The invariant holds at the start. *)
LEMMA LoopInvInitially == Init => LoopInv
<1> SUFFICES ASSUME Init
             PROVE  LoopInv
  OBVIOUS
<1>1. /\ loop.step = "idle" /\ ~Running /\ trial = 1 /\ armA = "idle"
      /\ \A i \in Runs \X Attempts : sent[i] = "none" /\ record[i] = "none"
  BY DEF Init, RetryInit, Running
<1> QED
  BY <1>1 DEF LoopInv, Unused, Accounted, At, ReportedLandedIsReal, NoArmOutlivesItsTrial, Steps

(* The loop's records, its transactions and the trials keep in step. *)
THEOREM LoopStaysInStep == Spec => []LoopInv
<1>1. TypeOK /\ TypeOK' /\ LoopInv /\ [Next]_vars => LoopInv'
  <2> SUFFICES ASSUME TypeOK, TypeOK', LoopInv, [Next]_vars
               PROVE  LoopInv'
    OBVIOUS
  <2>1. CASE UNCHANGED vars
    BY <2>1, StillLoopKeepsInv DEF vars, pilotVars
  <2>2. CASE StartTrial
    BY <2>2, BeginKeepsInv DEF StartTrial, ThisTrial
  <2>3. CASE DryTrial
    <3>1. loop.step = "idle" /\ ~Running
      BY <2>3 DEF DryTrial, ThisTrial, LoopInv, NoArmOutlivesItsTrial, Running
    <3>2. loop' = [loop EXCEPT !.step = "idle"]
      BY <2>3, <3>1 DEF DryTrial, retryVars, TypeOK, Loop
    <3> QED
      BY <2>3, <3>1, <3>2, NextTrialKeepsInv DEF DryTrial, ThisTrial, retryVars
  <2>4. CASE TrialQuoteThrows
    BY <2>4, StillLoopKeepsInv DEF TrialQuoteThrows
  <2>5. CASE CreateEscrow \/ ArmThrows \/ KeeperPass \/ Look \/ WatchTimesOut
    <3>1. /\ UNCHANGED <<retryVars, program, trial, standing>> /\ armA # "idle" /\ armA' # "idle"
      BY <2>5 DEF CreateEscrow, ArmThrows, KeeperPass, Look, WatchTimesOut
    <3>2. program # "retry"
      BY <3>1 DEF LoopInv
    <3> QED
      BY <3>1, <3>2, StillLoopKeepsInv
  <2>6. CASE AllSettled
    <3>1. ~Running /\ loop.run = trial /\ program = "pilot" /\ standing = "running"
      BY <2>6 DEF AllSettled, ThisTrial, Returned, Results, Running, LoopInv
    <3> QED
      BY <2>6, <3>1, NextTrialKeepsInv DEF AllSettled
  <2>7. CASE RetryMain
    <3>1. program = "retry" /\ standing = "running" /\ trial = 1 /\ armA = "idle"
      BY <2>7 DEF RetryMain, LoopInv
    <3>2. CASE attemptSwapWithRetry(1) /\ UNCHANGED standing
      BY <2>7, <3>1, <3>2, BeginKeepsInv DEF RetryMain
    <3>3. CASE UNCHANGED retryVars
      BY <2>7, <3>1, <3>3, StillLoopKeepsInv DEF RetryMain
    <3> QED
      BY <2>7, <3>2, <3>3 DEF RetryMain
  <2>8. CASE RetryStep(~live) /\ UNCHANGED pilotVars
    BY <2>8, RetryStepMoves, LoopMovesKeepInv
  <2>9. CASE ExternalStep /\ UNCHANGED pilotVars
    BY <2>9, IncludedKeepsInv
  <2>10. ASSUME NEW t \in Runs, Close(t)
         PROVE  LoopInv'
    BY <2>10, StillLoopKeepsInv DEF Close
  <2> QED
    BY <2>1, <2>2, <2>3, <2>4, <2>5, <2>6, <2>7, <2>8, <2>9, <2>10 DEF Next, PilotStep
<1>2. Spec => []TypeOK
  BY PilotTypes, TypesInitially, PTL DEF Spec
<1> QED
  BY <1>1, <1>2, LoopInvInitially, PTL DEF Spec

(* A call of attemptSwapWithRetry says "landed" of an attempt only when the   *)
(* transaction of that very attempt landed, and it tries no further.          *)
THEOREM LandedIsReal == Spec => []ReportedLandedIsReal
<1>1. LoopInv => ReportedLandedIsReal
  BY DEF LoopInv
<1> QED
  BY <1>1, LoopStaysInStep, PTL

(* No swap the wallet paid for hides behind a record that says it was not.    *)
THEOREM SwapsCanBeFound == Spec => []SwapsAreOnRecord
<1>1. LoopInv => SwapsAreOnRecord
  BY DEF LoopInv, Accounted, SwapsAreOnRecord
<1> QED
  BY <1>1, LoopStaysInStep, PTL

(* Both arms of a trial have ended when the pilot reports it and goes on.     *)
THEOREM ArmsEndWithTheirTrial == Spec => []NoArmOutlivesItsTrial
<1>1. LoopInv => NoArmOutlivesItsTrial
  BY DEF LoopInv
<1> QED
  BY <1>1, LoopStaysInStep, PTL

=============================================================================
