--------------------------- MODULE ExecuteParallel ---------------------------
(***************************************************************************)
(* The parallel submitter: `execute_parallel` and its `ResultCollector`     *)
(* (trading/core/async_executor.rs).  One call spawns one tokio task per    *)
(* (SWQOS client, gas strategy) pair; the tasks report through a lock-free  *)
(* queue, two flags and a counter, and the caller polls these until it has  *)
(* an answer or runs out of time.                                           *)
(*                                                                         *)
(* A queued result is named by the task that submitted it; its content is   *)
(* outcome[t].  Every atomic access of the code is a step of its own: the   *)
(* three parts of `submit`, each flag read of the caller and each `pop`.    *)
(***************************************************************************)
EXTENDS Naturals, Sequences, FiniteSets, Functions

CONSTANTS
    NumTasks,   \* task_configs.len()
    MaxPolls    \* sleeps after which the time limit has certainly passed

ASSUME NumTasksAssumption == NumTasks \in Nat \ {0}
ASSUME MaxPollsAssumption == MaxPolls \in Nat

(* The tasks, numbered in the order of task_configs (the SWQOS order). *)
Tasks == 1..NumTasks

VARIABLES
    wait,       \* argument wait_transaction_confirmed
    is_buy,     \* argument is_buy
    nonce,      \* argument durable_nonce.is_some()
    task,       \* where each task is
    outcome,    \* what each task has to report, "none" until it knows
    results,    \* ResultCollector.results
    success_flag,
    landed_failed_flag,
    completed_count,
    caller,     \* where the caller is
    drain,      \* which of the drain loops the caller is in
    got,        \* the results popped by the current drain loop
    polls,      \* sleeps done by the polling loop
    ret         \* what the call returned

args == <<wait, is_buy, nonce>>
taskVars == <<task, outcome>>
collectorVars == <<results, success_flag, landed_failed_flag, completed_count>>
callerVars == <<caller, drain, got, polls, ret>>
vars == <<args, taskVars, collectorVars, callerVars>>

-----------------------------------------------------------------------------
(* What a task reports.  "ok": send_transaction returned Ok; "build": the   *)
(* transaction could not be built; "send": an error that is no TradeError   *)
(* (network, HTTP, confirmation timeout); "landed" and "landed0": the       *)
(* TradeError of a transaction that failed on chain, with code > 0 or = 0.  *)
TradeErrors == {"landed", "landed0"}
Errors == {"build", "send"} \cup TradeErrors
Reports == {"ok"} \cup Errors

TradeErrorCode(e) == IF e = "landed" THEN 6004 ELSE 0

(* Fault: every error counts as one of a landed transaction.                *)
is_landed_error_any(e) == e \in Errors

(* The "timed out" TradeError (code 500) is only made in lib.rs, after the  *)
(* call returned, so no error that reaches this function is one.            *)
is_landed_error(e) == e \in TradeErrors /\ TradeErrorCode(e) > 0

Success(t) == outcome[t] = "ok"
LandedFailed(t) == is_landed_error(outcome[t])

(* Without confirmation send_transaction never sees the chain.  With it, Ok  *)
(* and TradeErrors report a landed transaction; the transactions of a call   *)
(* that share a durable nonce cannot both land.                              *)
Landed(t) == wait /\ outcome[t] \in {"ok"} \cup TradeErrors
SendReports ==
    IF ~wait
    THEN {"ok", "send"}
    ELSE {r \in {"ok", "send"} \cup TradeErrors :
            r # "send" /\ nonce => \A u \in Tasks : ~Landed(u)}

-----------------------------------------------------------------------------
NotReturned == [kind |-> "none", success |-> FALSE, sigs |-> << >>, err |-> 0]

Init ==
    /\ wait \in BOOLEAN
    /\ is_buy \in BOOLEAN
    /\ nonce \in BOOLEAN
    /\ task = [t \in Tasks |-> "unspawned"]
    /\ outcome = [t \in Tasks |-> "none"]
    /\ results = << >>
    /\ success_flag = FALSE
    /\ landed_failed_flag = FALSE
    /\ completed_count = 0
    /\ caller = "start"
    /\ drain = "none"
    /\ got = << >>
    /\ polls = 0
    /\ ret = NotReturned

Return(kind, success, sigs, err) ==
    /\ caller' = "returned"
    /\ ret' = [kind |-> kind, success |-> success, sigs |-> sigs, err |-> err]

-----------------------------------------------------------------------------
(* The caller: guards and spawn loop.                                       *)

(* Fault: several transactions of a buy go out without a durable nonce.     *)
StartUnguarded ==
    /\ caller = "start"
    /\ caller' = "spawn"
    /\ UNCHANGED <<args, taskVars, collectorVars, drain, got, polls, ret>>

(* "Multiple swqos transactions require durable_nonce to be set."           *)
Start ==
    /\ caller = "start"
    /\ IF is_buy /\ NumTasks > 1 /\ ~nonce
       THEN Return("error", FALSE, << >>, 0)
       ELSE caller' = "spawn" /\ UNCHANGED ret
    /\ UNCHANGED <<args, taskVars, collectorVars, drain, got, polls>>

IsNext(t) == task[t] = "unspawned" /\ \A u \in 1..(t - 1) : task[u] # "unspawned"

FirstCheck == IF wait THEN "check_success" ELSE "check_count"

Spawn(t) ==
    /\ caller = "spawn"
    /\ IsNext(t)
    /\ task' = [task EXCEPT ![t] = "build"]
    /\ caller' = IF t = NumTasks THEN FirstCheck ELSE "spawn"
    /\ UNCHANGED <<args, outcome, collectorVars, drain, got, polls, ret>>

(* get_tip_account()? returns with the tasks spawned so far left running.   *)
TipAccountFails ==
    /\ caller = "spawn"
    /\ Return("error", FALSE, << >>, 0)
    /\ UNCHANGED <<args, taskVars, collectorVars, drain, got, polls>>

-----------------------------------------------------------------------------
(* A task.                                                                  *)

(* build_transaction succeeds, fails, or panics on an unwrap (neither       *)
(* blockhash nor nonce given): a panicked task never submits.               *)
Build(t) ==
    /\ task[t] = "build"
    /\ \/ task' = [task EXCEPT ![t] = "send"] /\ UNCHANGED outcome
       \/ /\ task' = [task EXCEPT ![t] = "push"]
          /\ outcome' = [outcome EXCEPT ![t] = "build"]
       \/ task' = [task EXCEPT ![t] = "panicked"] /\ UNCHANGED outcome
    /\ UNCHANGED <<args, collectorVars, callerVars>>

(* Fault: the success flag is raised before the result is pushed.           *)
SendFlagsFirst(t) ==
    /\ task[t] = "send"
    /\ \E r \in SendReports :
        /\ outcome' = [outcome EXCEPT ![t] = r]
        /\ success_flag' = (success_flag \/ r = "ok")
    /\ task' = [task EXCEPT ![t] = "push"]
    /\ UNCHANGED <<args, results, landed_failed_flag, completed_count, callerVars>>

Send(t) ==
    /\ task[t] = "send"
    /\ \E r \in SendReports : outcome' = [outcome EXCEPT ![t] = r]
    /\ task' = [task EXCEPT ![t] = "push"]
    /\ UNCHANGED <<args, collectorVars, callerVars>>

(* Fault: a queue one slot short.                                           *)
CapacityOneShort == NumTasks - 1

(* ResultCollector::new: the queue holds total_tasks results. *)
Capacity == NumTasks

(* ResultCollector::submit; push on a full queue fails and is ignored.      *)
SubmitPush(t) ==
    /\ task[t] = "push"
    /\ results' = IF Len(results) < Capacity THEN Append(results, t) ELSE results
    /\ task' = [task EXCEPT ![t] = "flag"]
    /\ UNCHANGED <<args, outcome, success_flag, landed_failed_flag,
                   completed_count, callerVars>>

SubmitFlag(t) ==
    /\ task[t] = "flag"
    /\ success_flag' = (success_flag \/ Success(t))
    /\ landed_failed_flag' = (landed_failed_flag \/ LandedFailed(t))
    /\ task' = [task EXCEPT ![t] = "count"]
    /\ UNCHANGED <<args, outcome, results, completed_count, callerVars>>

SubmitCount(t) ==
    /\ task[t] = "count"
    /\ completed_count' = completed_count + 1
    /\ task' = [task EXCEPT ![t] = "done"]
    /\ UNCHANGED <<args, outcome, results, success_flag, landed_failed_flag,
                   callerVars>>

-----------------------------------------------------------------------------
(* The caller: wait_for_success (wait) or wait_for_all_submitted (~wait).    *)

StartDrain(loop) ==
    /\ caller' = "drain"
    /\ drain' = loop

CheckSuccess ==
    /\ caller = "check_success"
    /\ IF success_flag
       THEN StartDrain("success")
       ELSE caller' = "check_landed" /\ UNCHANGED drain
    /\ UNCHANGED <<args, taskVars, collectorVars, got, polls, ret>>

CheckLanded ==
    /\ caller = "check_landed"
    /\ IF landed_failed_flag
       THEN StartDrain("landed")
       ELSE caller' = "check_count" /\ UNCHANGED drain
    /\ UNCHANGED <<args, taskVars, collectorVars, got, polls, ret>>

(* Fault: off by one in the test of the counter.                            *)
CheckCountOneEarly ==
    /\ caller = "check_count"
    /\ IF completed_count + 1 >= NumTasks
       THEN StartDrain("all")
       ELSE caller' = "check_time" /\ UNCHANGED drain
    /\ UNCHANGED <<args, taskVars, collectorVars, got, polls, ret>>

CheckCount ==
    /\ caller = "check_count"
    /\ IF completed_count >= NumTasks
       THEN StartDrain("all")
       ELSE caller' = "check_time" /\ UNCHANGED drain
    /\ UNCHANGED <<args, taskVars, collectorVars, got, polls, ret>>

(* Fault: only wait_for_all_submitted has a time limit.                     *)
TimeIsUpUnlessWaiting ==
    /\ caller = "check_time" /\ ~wait
    /\ StartDrain("late")
    /\ UNCHANGED <<args, taskVars, collectorVars, got, polls, ret>>

(* start.elapsed() > timeout can hold at any check.                         *)
TimeIsUp ==
    /\ caller = "check_time"
    /\ IF wait
       THEN Return("all_failed", FALSE, << >>, 0) /\ UNCHANGED drain
       ELSE StartDrain("late") /\ UNCHANGED ret
    /\ UNCHANGED <<args, taskVars, collectorVars, got, polls>>

Sleep ==
    /\ caller = "check_time"
    /\ polls < MaxPolls
    /\ polls' = polls + 1
    /\ caller' = FirstCheck
    /\ UNCHANGED <<args, taskVars, collectorVars, drain, got, ret>>

Pop ==
    /\ caller = "drain"
    /\ results # << >>
    /\ got' = Append(got, Head(results))
    /\ results' = Tail(results)
    /\ UNCHANGED <<args, taskVars, success_flag, landed_failed_flag,
                   completed_count, caller, drain, polls, ret>>

(* What the drain loops compute from the results they popped.               *)
HasSuccess(s) == \E i \in DOMAIN s : Success(s[i])
LastIn(s, I) == IF I = {} THEN 0 ELSE s[CHOOSE m \in I : \A i \in I : i <= m]
LastError(s) == LastIn(s, {i \in DOMAIN s : outcome[s[i]] \in Errors})
LandedError(s) == LastIn(s, {i \in DOMAIN s : LandedFailed(s[i])})

(* The success drain returns if it saw a success, else the popped results   *)
(* are dropped and the loop goes on.                                        *)
EndSuccessDrain ==
    /\ drain = "success"
    /\ IF HasSuccess(got)
       THEN Return("result", TRUE, got, 0) /\ UNCHANGED got
       ELSE caller' = "check_landed" /\ got' = << >> /\ UNCHANGED ret

(* Fault: the error of the landed transaction is not kept.                  *)
EndLandedDrainErrorLost ==
    /\ drain = "landed"
    /\ IF got # << >>
       THEN Return("result", FALSE, got, 0)
       ELSE caller' = "check_count" /\ UNCHANGED ret
    /\ UNCHANGED got

EndLandedDrain ==
    /\ drain = "landed"
    /\ IF got # << >>
       THEN Return("result", FALSE, got, LandedError(got))
       ELSE caller' = "check_count" /\ UNCHANGED ret
    /\ UNCHANGED got

(* Fault: success is taken to be the absence of an error.                   *)
EndFinalDrainNoErrorIsSuccess ==
    /\ drain \in {"all", "late"}
    /\ IF got # << >>
       THEN Return("result", LastError(got) = 0, got, LastError(got))
       ELSE Return(IF wait THEN "all_failed" ELSE "no_result", FALSE, << >>, 0)
    /\ UNCHANGED got

(* The drain after the count (both modes) or after the 30 s limit (~wait).   *)
EndFinalDrain ==
    /\ drain \in {"all", "late"}
    /\ IF got # << >>
       THEN Return("result", HasSuccess(got), got, LastError(got))
       ELSE Return(IF wait THEN "all_failed" ELSE "no_result", FALSE, << >>, 0)
    /\ UNCHANGED got

EndDrain ==
    /\ caller = "drain"
    /\ results = << >>
    /\ EndSuccessDrain \/ EndLandedDrain \/ EndFinalDrain
    /\ UNCHANGED <<args, taskVars, collectorVars, drain, polls>>

-----------------------------------------------------------------------------
Task(t) == Build(t) \/ Send(t) \/ SubmitPush(t) \/ SubmitFlag(t) \/ SubmitCount(t)

Caller ==
    \/ Start \/ TipAccountFails
    \/ \E t \in Tasks : Spawn(t)
    \/ CheckSuccess \/ CheckLanded \/ CheckCount
    \/ TimeIsUp \/ Sleep
    \/ Pop \/ EndDrain

Next == Caller \/ \E t \in Tasks : Task(t)

(* The caller's future is polled until it is ready; whether a task makes    *)
(* progress is up to the network.                                           *)
Spec == Init /\ [][Next]_vars /\ WF_vars(Caller)

-----------------------------------------------------------------------------
Submitted(t) == task[t] \in {"flag", "count", "done"}
Taken == Range(results) \cup Range(got)

TypeOK ==
    /\ wait \in BOOLEAN /\ is_buy \in BOOLEAN /\ nonce \in BOOLEAN
    /\ task \in [Tasks -> {"unspawned", "build", "send", "push", "flag",
                           "count", "done", "panicked"}]
    /\ outcome \in [Tasks -> Reports \cup {"none"}]
    /\ results \in Seq(Tasks)
    /\ success_flag \in BOOLEAN /\ landed_failed_flag \in BOOLEAN
    /\ completed_count \in Nat
    /\ caller \in {"start", "spawn", "check_success", "check_landed",
                   "check_count", "check_time", "drain", "returned"}
    /\ drain \in {"none", "success", "landed", "all", "late"}
    /\ got \in Seq(Tasks)
    /\ polls \in 0..MaxPolls
    /\ ret \in [kind : {"none", "error", "all_failed", "no_result", "result"},
                success : BOOLEAN, sigs : Seq(Tasks), err : Tasks \cup {0}]

-----------------------------------------------------------------------------
(* Properties.                                                              *)

(* No result is lost or duplicated between `submit` and the caller: what    *)
(* the tasks pushed is, once each, in the queue or among the results the    *)
(* caller popped, although the queue is bounded, a failed push is ignored   *)
(* and the drain loops may drop what they popped.                           *)
ResultsConserved ==
    /\ \A t \in Tasks : Submitted(t) <=> t \in Taken
    /\ Cardinality(Taken) = Len(results) + Len(got)

(* The drain entered because success_flag was set always finds the success: *)
(* its fall-through, which would forget popped signatures, is never taken.  *)
SuccessDrainFindsSuccess ==
    caller = "drain" /\ drain = "success" /\ results = << >> => HasSuccess(got)

(* Leaving the loop on completed_count means having every task's result.    *)
CompleteWhenAllCounted ==
    caller = "returned" /\ drain = "all" =>
        ret.kind = "result" /\ Range(ret.sigs) = Tasks

(* The flag returned says whether one of the returned signatures succeeded,  *)
(* when nothing is confirmed or all transactions share one durable nonce.    *)
FlagAgreesWithSignatures ==
    ret.kind = "result" /\ (nonce \/ ~wait) =>
        (ret.success <=> HasSuccess(ret.sigs))

(* The early exit on landed_failed_flag reports the error of a transaction  *)
(* that really failed on chain, and under a durable nonce no other task     *)
(* ever succeeds, before or after the exit ("other channels can't succeed"). *)
EarlyExitJustified ==
    ret.kind = "result" /\ drain = "landed" =>
        /\ ret.err # 0
        /\ outcome[ret.err] \in TradeErrors
        /\ nonce => \A t \in Tasks : ~Success(t)

(* The call keeps the promise of ResultExchange: a task has reported from    *)
(* the moment its result is in the queue; the answer is what the call        *)
(* returns, and nothing a late task does changes it.                         *)
Reported == [t \in Tasks |-> IF Submitted(t) THEN outcome[t] ELSE "none"]

RX == INSTANCE ResultExchange WITH report <- Reported, answer <- ret

KeepsPromise == RX!Spec

(* Every call returns, even when tasks panic or never answer: both polling   *)
(* loops are bounded by their time limit.                                    *)
CallReturns == <>(caller = "returned")
=============================================================================
