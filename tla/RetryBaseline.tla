--------------------------- MODULE RetryBaseline ---------------------------
(***************************************************************************)
(* The honest-retry loop (mainnet-retry-baseline.mjs): quote the pool,     *)
(* send, wait for the confirmation or a timeout, try again.  A transaction *)
(* that is given up on stays in flight and may land during a later attempt *)
(* or after the loop has returned.  Prices are left out: whether the pool   *)
(* still gives an attempt's floor when it lands is open.                    *)
(***************************************************************************)
EXTENDS Naturals, FiniteSets

CONSTANTS
  TRIAL_COUNT,     \* the calls of attemptSwapWithRetry, one after the other
  MAX_ATTEMPTS

ASSUME RetryAssumption == {TRIAL_COUNT, MAX_ATTEMPTS} \subseteq Nat \ {0}

VARIABLES
  sent,     \* how the transaction of every attempt stands
  record,   \* what the loop's attempts array says of every attempt
  loop      \* the running call: its run, attempt and step, or its result

retryVars == <<sent, record, loop>>

-----------------------------------------------------------------------------
Runs == 1 .. TRIAL_COUNT

Attempts == 1 .. MAX_ATTEMPTS

Sent == {"none", "inflight", "landed", "reverted"}

Record == {"none", "landed", "timeout", "reverted", "error", "dry-run-quote-only"}

Steps == {"idle", "quote", "send", "confirm"}

Results == {"landed", "never-landed", "dry-run-complete"}

Loop == [run : Runs, attempt : Attempts, step : Steps \cup Results]

RetryInit ==
  /\ sent = [i \in Runs \X Attempts |-> "none"]
  /\ record = [i \in Runs \X Attempts |-> "none"]
  /\ loop = [run |-> 1, attempt |-> 1, step |-> "idle"]

This == <<loop.run, loop.attempt>>

At(step) == loop.step = step

Returned == loop.step \in Results

-----------------------------------------------------------------------------
(* The next attempt, or what the loop returns when none is left. *)
Stops(result) == loop' = [loop EXCEPT !.step = result]

TryAgain(exhausted) ==
  IF loop.attempt < MAX_ATTEMPTS
  THEN loop' = [loop EXCEPT !.attempt = @ + 1, !.step = "quote"]
  ELSE Stops(exhausted)

Noted(outcome) == record' = [record EXCEPT ![This] = outcome]

attemptSwapWithRetry(run) ==
  /\ At("idle")
  /\ loop' = [run |-> run, attempt |-> 1, step |-> "quote"]
  /\ UNCHANGED <<sent, record>>

Quote ==
  /\ At("quote")
  /\ loop' = [loop EXCEPT !.step = "send"]
  /\ UNCHANGED <<sent, record>>

QuoteOnly ==
  /\ At("quote")
  /\ Noted("dry-run-quote-only")
  /\ TryAgain("dry-run-complete")
  /\ UNCHANGED sent

(* The quote, the blockhash, or the confirmation's own reads fail. *)
Throws(dryRun) ==
  /\ loop.step \in {"quote", "send", "confirm"}
  /\ Noted("error")
  /\ TryAgain(IF dryRun THEN "dry-run-complete" ELSE "never-landed")
  /\ UNCHANGED sent

(* sendRawTransaction may fail although the node has passed it on. *)
SendRaw ==
  /\ At("send")
  /\ sent' = [sent EXCEPT ![This] = "inflight"]
  /\ \/ loop' = [loop EXCEPT !.step = "confirm"] /\ UNCHANGED record
     \/ Noted("error") /\ TryAgain("never-landed")

AnyTransaction ==                                    \* mistake: not this attempt's own
  /\ At("confirm")
  /\ \E a \in Attempts : sent[<<loop.run, a>>] = "landed"
  /\ Noted("landed")
  /\ Stops("landed")
  /\ UNCHANGED sent

ConfirmLanded ==
  /\ At("confirm")
  /\ sent[This] = "landed"
  /\ Noted("landed")
  /\ Stops("landed")
  /\ UNCHANGED sent

ConfirmReverted ==
  /\ At("confirm")
  /\ sent[This] = "reverted"
  /\ Noted("reverted")
  /\ TryAgain("never-landed")
  /\ UNCHANGED sent

TakenForRevert ==                                    \* mistake: given up is gone
  /\ At("confirm")
  /\ Noted("reverted")
  /\ TryAgain("never-landed")
  /\ UNCHANGED sent

TimesOut ==
  /\ At("confirm")
  /\ Noted("timeout")
  /\ TryAgain("never-landed")
  /\ UNCHANGED sent

RetryStep(dryRun) ==
  \/ ~dryRun /\ Quote
  \/ dryRun /\ QuoteOnly
  \/ Throws(dryRun) \/ SendRaw \/ ConfirmLanded \/ ConfirmReverted \/ TimesOut

-----------------------------------------------------------------------------
(* A transaction in flight lands, or fails on chain (the pool no longer gives *)
(* its floor, the wallet cannot pay), or never comes up again.                *)
Included(i) ==
  /\ sent[i] = "inflight"
  /\ sent' \in {[sent EXCEPT ![i] = "landed"], [sent EXCEPT ![i] = "reverted"]}
  /\ UNCHANGED <<record, loop>>

ExternalStep == \E i \in Runs \X Attempts : Included(i)

=============================================================================
