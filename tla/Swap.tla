-------------------------------- MODULE Swap --------------------------------
(***************************************************************************)
(* `GenericTradeExecutor::swap` (trading/core/executor.rs): build the       *)
(* instructions, then either simulate, or submit through execute_parallel   *)
(* without waiting and, when asked to, confirm with                         *)
(* poll_any_transaction_confirmation.  Composes ExecuteParallel and         *)
(* Confirmation over one cluster: tasks that outlive the submit phase keep  *)
(* running, and what they sent can land, while the caller confirms and      *)
(* after it has returned.                                                   *)
(***************************************************************************)
EXTENDS Naturals, Sequences, FiniteSetsExt, Functions

CONSTANTS NumTasks, MaxPolls, GetTxAfter, MaxIterations, NoSig

VARIABLES
    simulate, need_confirm, has_rpc,   \* arguments of the swap
    phase,                             \* where the swap is
    out,                               \* what it returned
    wait, is_buy, nonce, task, outcome, results, success_flag,
    landed_failed_flag, completed_count, caller, drain, got, polls, ret,
    chain, poll_count, landed_sig, poller, answer

Tasks == 1..NumTasks
DefaultSig == 0                \* Signature::default()
SimulatedSig == NumTasks + 1   \* of a transaction that is never sent
Sigs == Tasks \cup {DefaultSig}

ASSUME NumTasksPositive == NumTasks \in Nat \ {0}
ASSUME BoundsAreNatural == MaxPolls \in Nat /\ GetTxAfter \in Nat /\ MaxIterations \in Nat
ASSUME NoSigIsNone == NoSig \notin Sigs

(* A task whose build failed reports Signature::default().                  *)
SigsOf(s) == [i \in DOMAIN s |-> IF outcome[s[i]] = "build" THEN DefaultSig ELSE s[i]]

EP == INSTANCE ExecuteParallel
CF == INSTANCE Confirmation WITH
        signatures <- SigsOf(ret.sigs), wait_confirmation <- TRUE, MaxSigs <- NumTasks

arguments == <<simulate, need_confirm, has_rpc>>
submitVars == <<wait, is_buy, nonce, task, outcome, results, success_flag,
                landed_failed_flag, completed_count, caller, drain, got, polls, ret>>
confirmVars == <<poll_count, landed_sig, poller, answer>>
vars == <<arguments, phase, out, submitVars, chain, confirmVars>>

-----------------------------------------------------------------------------
NoOutput == [kind |-> "none", success |-> FALSE, sigs |-> << >>, err |-> "none"]

Init ==
    /\ simulate \in BOOLEAN
    /\ need_confirm \in BOOLEAN
    /\ has_rpc \in BOOLEAN
    /\ phase = "build"
    /\ out = NoOutput
    /\ EP!Init /\ ~wait
    /\ chain = [s \in Sigs |-> "absent"]
    /\ CF!PollerInit

Output(kind, success, sigs, err) ==
    /\ out' = [kind |-> kind, success |-> success, sigs |-> sigs, err |-> err]
    /\ phase' = "returned"

(* The instruction builder, preprocess (no instructions) or a middleware    *)
(* fails, or the swap goes on.                                              *)
BuildInstructions ==
    /\ phase = "build"
    /\ \/ Output("err", FALSE, << >>, "other")
       \/ phase' = (IF simulate THEN "simulate" ELSE "submit") /\ UNCHANGED out
    /\ UNCHANGED <<arguments, submitVars, chain, confirmVars>>

(* simulate_transaction: without an RPC client, a Default strategy, a built *)
(* transaction or an RPC answer an error, else the simulation's verdict.    *)
SimulateTransaction ==
    /\ phase = "simulate"
    /\ \/ Output("err", FALSE, << >>, "other")
       \/ has_rpc /\ Output("ok", TRUE, <<SimulatedSig>>, "none")
       \/ has_rpc /\ Output("ok", FALSE, <<SimulatedSig>>, "other")
    /\ UNCHANGED <<arguments, submitVars, chain, confirmVars>>

SubmitStep ==
    /\ phase = "submit"
    /\ EP!Caller
    /\ UNCHANGED <<arguments, phase, out, chain, confirmVars>>

SubmitErr == IF ret.kind = "result" /\ ret.err = 0 THEN "none" ELSE "other"
SubmitKind == IF ret.kind \in {"error", "all_failed"} THEN "err" ELSE "ok"

(* Fault: nobody handles a submission without signatures.                   *)
SubmitReturnedWithSignatures ==
    /\ phase = "submit"
    /\ caller = "returned"
    /\ ret.sigs # << >>
    /\ IF need_confirm /\ has_rpc
       THEN phase' = "confirm" /\ UNCHANGED out
       ELSE Output("ok", ret.success, SigsOf(ret.sigs), SubmitErr)
    /\ UNCHANGED <<arguments, submitVars, chain, confirmVars>>

(* execute_parallel returned.  Without confirmation its result is the       *)
(* swap's; with it an Err becomes Ok((false, [], Some(e))), and the         *)
(* signatures, if any, are polled when there is an RPC client.              *)
SubmitReturned ==
    /\ phase = "submit"
    /\ caller = "returned"
    /\ IF need_confirm /\ has_rpc /\ ret.sigs # << >>
       THEN phase' = "confirm" /\ UNCHANGED out
       ELSE Output(IF need_confirm THEN "ok" ELSE SubmitKind,
                   ret.success, SigsOf(ret.sigs), SubmitErr)
    /\ UNCHANGED <<arguments, submitVars, chain, confirmVars>>

ConfirmStep ==
    /\ phase = "confirm"
    /\ CF!Poller
    /\ UNCHANGED <<arguments, phase, out, submitVars, chain>>

(* Fault: the polled signature is returned, also when there is none.        *)
ConfirmReturnedOneSignature ==
    /\ phase = "confirm"
    /\ poller = "returned"
    /\ Output("ok", answer.kind = "ok", <<answer.sig>>, "none")
    /\ UNCHANGED <<arguments, submitVars, chain, confirmVars>>

(* Fault: without a confirmation the submitters' word is taken.             *)
ConfirmReturnedOptimistic ==
    /\ phase = "confirm"
    /\ poller = "returned"
    /\ Output("ok", ret.success, SigsOf(ret.sigs), "none")
    /\ UNCHANGED <<arguments, submitVars, chain, confirmVars>>

(* Fault: a time-out is reported like a failed transaction.                 *)
ConfirmReturnedAnyError ==
    /\ phase = "confirm"
    /\ poller = "returned"
    /\ IF answer.kind = "ok"
       THEN Output("ok", TRUE, SigsOf(ret.sigs), "none")
       ELSE Output("ok", FALSE, SigsOf(ret.sigs), "trade_error")
    /\ UNCHANGED <<arguments, submitVars, chain, confirmVars>>

ConfirmReturned ==
    /\ phase = "confirm"
    /\ poller = "returned"
    /\ IF answer.kind = "ok"
       THEN Output("ok", TRUE, SigsOf(ret.sigs), "none")
       ELSE Output("ok", FALSE, SigsOf(ret.sigs),
                   IF answer.kind = "trade_error" THEN "trade_error" ELSE "other")
    /\ UNCHANGED <<arguments, submitVars, chain, confirmVars>>

TaskStep ==
    /\ \E t \in Tasks : EP!Task(t)
    /\ UNCHANGED <<arguments, phase, out, chain, confirmVars>>

(* A transaction can land from the moment its task sends it, whatever       *)
(* send_transaction goes on to report.                                      *)
Sending(t) == task[t] \in {"send", "push", "flag", "count", "done"} /\ outcome[t] # "build"

ClusterStep ==
    /\ \E t \in Tasks : Sending(t) /\ CF!ClusterStep(t)
    /\ UNCHANGED <<arguments, phase, out, submitVars, confirmVars>>

SwapStep ==
    \/ BuildInstructions \/ SimulateTransaction
    \/ SubmitStep \/ SubmitReturned
    \/ ConfirmStep \/ ConfirmReturned

Next == SwapStep \/ TaskStep \/ ClusterStep

(* The swap's own future is polled until ready; neither the tasks nor the   *)
(* cluster have to make progress.                                           *)
Spec == Init /\ [][Next]_vars /\ WF_vars(SwapStep)

-----------------------------------------------------------------------------
TypeOK ==
    /\ simulate \in BOOLEAN /\ need_confirm \in BOOLEAN /\ has_rpc \in BOOLEAN
    /\ phase \in {"build", "simulate", "submit", "confirm", "returned"}
    /\ out \in [kind : {"none", "ok", "err"}, success : BOOLEAN,
                sigs : Seq(Sigs \cup {SimulatedSig}),
                err : {"none", "other", "trade_error"}]
    /\ EP!TypeOK
    /\ CF!TypeOK

(* A confirmed swap that reports success names a transaction the cluster    *)
(* confirmed without error, whatever the submitters reported, forks and     *)
(* late tasks included.                                                     *)
ConfirmedSuccessIsOnChain ==
    out.success /\ need_confirm /\ has_rpc /\ ~simulate =>
        \E i \in DOMAIN out.sigs : chain[out.sigs[i]] = "ok"

(* A swap that returns the error of a failed transaction is over: under a   *)
(* durable nonce none of its transactions, returned or not, is confirmed    *)
(* then or later, so the caller may trade again.                            *)
FailedSwapIsFinal ==
    out.err = "trade_error" /\ nonce => \A t \in Tasks : chain[t] # "ok"

(* A buy is executed at most once, although every channel may be given a    *)
(* transaction for it, late tasks and transactions the call has given up    *)
(* included.                                                                *)
BuyLandsOnce ==
    is_buy => Cardinality({t \in Tasks : chain[t] = "ok"}) <= 1

(* Every swap returns.                                                      *)
SwapReturns == <>(phase = "returned")


(* What a swap answers is true of the chain at every later moment: a         *)
(* confirmed success is there, and what was called failed never succeeds.    *)
AnswerIsTrue == TypeOK /\ ConfirmedSuccessIsOnChain /\ FailedSwapIsFinal
=============================================================================
