----------------------------- MODULE SwapProofs -----------------------------
(***************************************************************************)
(* Proofs about Swap, for every number of tasks and polls.  The submitter    *)
(* and the confirmation poll keep the invariants proved of them in           *)
(* ExecuteParallelProofs and ConfirmationProofs, whose lemmas are used here  *)
(* through an instance of each; what is added is how the two meet: the list  *)
(* that is polled is what the submitter returned, over a cluster that also   *)
(* executes what late tasks send.                                            *)
(***************************************************************************)
EXTENDS Swap, FiniteSetTheorems, TLAPS

EPP == INSTANCE ExecuteParallelProofs
CFP == INSTANCE ConfirmationProofs WITH
         signatures <- SigsOf(ret.sigs), wait_confirmation <- TRUE, MaxSigs <- NumTasks

-----------------------------------------------------------------------------
(* The instances of Swap and those of the proofs are the same modules.       *)

(* A call of execute_parallel starts in its invariant.                       *)
LEMMA SubmitStarts == EP!Init => EPP!IndInv
<1>1. EP!Init => EPP!Init
    BY DEF EP!Init, EPP!Init, EP!Tasks, EPP!Tasks, EP!NotReturned, EPP!NotReturned
<1> QED  BY <1>1, EPP!InitInv, NumTasksPositive, BoundsAreNatural

(* The steps of the caller are those the proofs are about.                   *)
LEMMA SameCaller == EP!Caller => EPP!Caller
<1>1. EP!Start => EPP!Start
    BY DEF EP!Start, EPP!Start, EP!Return, EPP!Return, EP!args, EPP!args, EP!taskVars,
       EPP!taskVars, EP!collectorVars, EPP!collectorVars
<1>2. EP!TipAccountFails => EPP!TipAccountFails
    BY DEF EP!TipAccountFails, EPP!TipAccountFails, EP!Return, EPP!Return, EP!args, EPP!args,
       EP!taskVars, EPP!taskVars, EP!collectorVars, EPP!collectorVars
<1>3. ASSUME NEW t \in EP!Tasks, EP!Spawn(t) PROVE t \in EPP!Tasks /\ EPP!Spawn(t)
    BY <1>3 DEF EP!Spawn, EPP!Spawn, EP!Tasks, EPP!Tasks, EP!IsNext, EPP!IsNext,
       EP!FirstCheck, EPP!FirstCheck, EP!args, EPP!args, EP!collectorVars, EPP!collectorVars
<1>4. EP!CheckSuccess => EPP!CheckSuccess
    BY DEF EP!CheckSuccess, EPP!CheckSuccess, EP!StartDrain, EPP!StartDrain, EP!args,
       EPP!args, EP!taskVars, EPP!taskVars, EP!collectorVars, EPP!collectorVars
<1>5. EP!CheckLanded => EPP!CheckLanded
    BY DEF EP!CheckLanded, EPP!CheckLanded, EP!StartDrain, EPP!StartDrain, EP!args,
       EPP!args, EP!taskVars, EPP!taskVars, EP!collectorVars, EPP!collectorVars
<1>6. EP!CheckCount => EPP!CheckCount
    BY DEF EP!CheckCount, EPP!CheckCount, EP!StartDrain, EPP!StartDrain, EP!args,
       EPP!args, EP!taskVars, EPP!taskVars, EP!collectorVars, EPP!collectorVars
<1>7. EP!TimeIsUp => EPP!TimeIsUp
    BY DEF EP!TimeIsUp, EPP!TimeIsUp, EP!StartDrain, EPP!StartDrain, EP!Return, EPP!Return,
       EP!args, EPP!args, EP!taskVars, EPP!taskVars, EP!collectorVars, EPP!collectorVars
<1>8. EP!Sleep => EPP!Sleep
    BY DEF EP!Sleep, EPP!Sleep, EP!FirstCheck, EPP!FirstCheck, EP!args, EPP!args,
       EP!taskVars, EPP!taskVars, EP!collectorVars, EPP!collectorVars
<1>9. EP!Pop => EPP!Pop
    BY DEF EP!Pop, EPP!Pop, EP!args, EPP!args, EP!taskVars, EPP!taskVars
<1>10. EP!EndDrain => EPP!EndDrain
    <2>1. /\ EP!HasSuccess(got) = EPP!HasSuccess(got)
          /\ EP!LandedError(got) = EPP!LandedError(got)
          /\ EP!LastError(got) = EPP!LastError(got)
        BY DEF EP!HasSuccess, EPP!HasSuccess, EP!Success, EPP!Success, EP!LandedError,
           EPP!LandedError, EP!LastError, EPP!LastError, EP!LastIn, EPP!LastIn,
           EP!LandedFailed, EPP!LandedFailed, EP!is_landed_error, EPP!is_landed_error,
           EP!TradeErrorCode, EPP!TradeErrorCode, EP!TradeErrors, EPP!TradeErrors,
           EP!Errors, EPP!Errors
    <2>2. EP!EndSuccessDrain => EPP!EndSuccessDrain
        BY <2>1 DEF EP!EndSuccessDrain, EPP!EndSuccessDrain, EP!Return, EPP!Return
    <2>3. EP!EndLandedDrain => EPP!EndLandedDrain
        BY <2>1 DEF EP!EndLandedDrain, EPP!EndLandedDrain, EP!Return, EPP!Return
    <2>4. EP!EndFinalDrain => EPP!EndFinalDrain
        BY <2>1 DEF EP!EndFinalDrain, EPP!EndFinalDrain, EP!Return, EPP!Return
    <2> QED  BY <2>2, <2>3, <2>4 DEF EP!EndDrain, EPP!EndDrain, EP!args, EPP!args,
                EP!taskVars, EPP!taskVars, EP!collectorVars, EPP!collectorVars
<1> QED  BY <1>1, <1>2, <1>3, <1>4, <1>5, <1>6, <1>7, <1>8, <1>9, <1>10
            DEF EP!Caller, EPP!Caller

(* So are the steps of a task.                                               *)
LEMMA SameTask == ASSUME NEW t, EP!Task(t) PROVE EPP!Task(t)
<1>1. EP!Build(t) => EPP!Build(t)
    BY DEF EP!Build, EPP!Build, EP!args, EPP!args, EP!collectorVars, EPP!collectorVars,
       EP!callerVars, EPP!callerVars
<1>2. EP!Send(t) => EPP!Send(t)
    <2>1. EP!SendReports = EPP!SendReports
        BY DEF EP!SendReports, EPP!SendReports, EP!TradeErrors, EPP!TradeErrors, EP!Tasks,
           EPP!Tasks, EP!Landed, EPP!Landed
    <2> QED  BY <2>1 DEF EP!Send, EPP!Send, EP!args, EPP!args, EP!collectorVars,
                EPP!collectorVars, EP!callerVars, EPP!callerVars
<1>3. EP!SubmitPush(t) => EPP!SubmitPush(t)
    BY DEF EP!SubmitPush, EPP!SubmitPush, EP!Capacity, EPP!Capacity, EP!args, EPP!args,
       EP!callerVars, EPP!callerVars
<1>4. EP!SubmitFlag(t) => EPP!SubmitFlag(t)
    BY DEF EP!SubmitFlag, EPP!SubmitFlag, EP!Success, EPP!Success, EP!LandedFailed,
       EPP!LandedFailed, EP!is_landed_error, EPP!is_landed_error, EP!TradeErrors,
       EPP!TradeErrors, EP!TradeErrorCode, EPP!TradeErrorCode, EP!args, EPP!args,
       EP!callerVars, EPP!callerVars
<1>5. EP!SubmitCount(t) => EPP!SubmitCount(t)
    BY DEF EP!SubmitCount, EPP!SubmitCount, EP!args, EPP!args, EP!callerVars, EPP!callerVars
<1> QED  BY <1>1, <1>2, <1>3, <1>4, <1>5 DEF EP!Task, EPP!Task

(* The submitter keeps its invariant within a swap.                          *)
LEMMA SubmitKeeps ==
    ASSUME EPP!IndInv, EP!Caller \/ \E t \in Tasks : EP!Task(t)
    PROVE  EPP!IndInv'
<1>1. Tasks = EPP!Tasks
    BY DEF Tasks, EPP!Tasks
<1>2. EPP!Next
    BY <1>1, SameCaller, SameTask DEF EPP!Next
<1> QED  BY <1>2, EPP!InvStep, NumTasksPositive, BoundsAreNatural

(* The steps of the poll are those the proofs are about.                     *)
LEMMA SamePoller == CF!Poller => CFP!Poller
<1> USE DEF CF!Answer, CFP!Answer
<1>1. CF!Enter => CFP!Enter
    BY DEF CF!Enter, CFP!Enter
<1>2. CF!TimeOut \/ CF!Iterate \/ CF!StatusesFail =>
          CFP!TimeOut \/ CFP!Iterate \/ CFP!StatusesFail
    BY DEF CF!TimeOut, CFP!TimeOut, CF!Iterate, CFP!Iterate, CF!StatusesFail, CFP!StatusesFail
<1>3. CF!Statuses => CFP!Statuses
    <2>1. CF!Confirmed = CFP!Confirmed /\ CF!Seen = CFP!Seen
        BY DEF CF!Confirmed, CFP!Confirmed, CF!Seen, CFP!Seen
    <2> QED  BY <2>1 DEF CF!Statuses, CFP!Statuses, CF!Min, CFP!Min
<1>4. CF!TransactionUnknown \/ CF!TransactionKnown =>
          CFP!TransactionUnknown \/ CFP!TransactionKnown
    BY DEF CF!TransactionUnknown, CFP!TransactionUnknown, CF!TransactionKnown,
       CFP!TransactionKnown
<1> QED  BY <1>1, <1>2, <1>3, <1>4 DEF CF!Poller, CFP!Poller

(* The poll keeps its invariant while the list it polls stays the same.       *)
LEMMA PollKeeps ==
    ASSUME CFP!PollInv, CF!Poller, UNCHANGED <<ret, outcome, nonce, chain>>
    PROVE  CFP!PollInv'
<1>1. SigsOf(ret.sigs)' = SigsOf(ret.sigs)
    BY DEF SigsOf
<1>2. CFP!PollStep
    BY <1>1, SamePoller DEF CFP!PollStep
<1> QED  BY <1>2, CFP!PollStepInv, NumTasksPositive, BoundsAreNatural, NoSigIsNone

(* So does the cluster, which also never takes back what it confirmed.        *)
LEMMA ClusterKeeps ==
    ASSUME CFP!PollInv, NEW t \in Tasks, CF!ClusterStep(t),
           UNCHANGED <<ret, outcome, nonce, poll_count, landed_sig, poller, answer>>
    PROVE  /\ CFP!PollInv'
           /\ \A s \in Sigs : chain[s] \in {"ok", "failed"} => chain'[s] = chain[s]
           /\ \A s \in Sigs : s # t => chain'[s] = chain[s]
<1>1. SigsOf(ret.sigs)' = SigsOf(ret.sigs)
    BY DEF SigsOf
<1>2. t \in Sigs
    BY DEF Sigs
<1>3. CFP!ClusterStep(t)
    BY DEF CF!ClusterStep, CFP!ClusterStep, CF!Land, CFP!Land, CF!Confirm, CFP!Confirm,
       CF!Abandon, CFP!Abandon
<1>4. CFP!ChainStep
    BY <1>1, <1>2, <1>3 DEF CFP!ChainStep, CFP!pollerVars
<1>5. CFP!PollInv'
    BY <1>4, CFP!ChainStepInv, NumTasksPositive, BoundsAreNatural, NoSigIsNone
<1>6. chain \in [Sigs -> CFP!ChainStatus]
    BY DEF CFP!PollInv, CFP!TypeOK
<1>7. /\ \A s \in Sigs : chain[s] \in {"ok", "failed"} => chain'[s] = chain[s]
      /\ \A s \in Sigs : s # t => chain'[s] = chain[s]
    BY <1>2, <1>3, <1>6 DEF CFP!ClusterStep, CFP!Land, CFP!Confirm, CFP!Abandon
<1> QED  BY <1>5, <1>7

-----------------------------------------------------------------------------
(* How the two phases hang together.                                         *)

(* The swap's own variables have their types.                                *)
SwapTyped ==
    /\ simulate \in BOOLEAN /\ need_confirm \in BOOLEAN /\ has_rpc \in BOOLEAN
    /\ phase \in {"build", "simulate", "submit", "confirm", "returned"}
    /\ out \in [kind : {"none", "ok", "err"}, success : BOOLEAN,
                sigs : Seq(Sigs \cup {SimulatedSig}),
                err : {"none", "other", "trade_error"}]

(* execute_parallel returns signatures, and success, only with a result.     *)
NothingUnlessResult == ret.kind # "result" => ~ret.success /\ ret.sigs = << >>

(* The poll starts when the submitter has returned.                          *)
PollAfterSubmit ==
    /\ phase = "simulate" => simulate
    /\ phase = "confirm" => caller = "returned"
    /\ caller # "returned" => landed_sig = NoSig /\ poller = "start" /\ answer = CF!NoAnswer

(* A confirmed success has been seen on chain, and so has a failure.          *)
OutputSeen ==
    /\ out.success /\ need_confirm /\ has_rpc /\ ~simulate =>
           \E i \in DOMAIN out.sigs : out.sigs[i] \in Sigs /\ chain[out.sigs[i]] = "ok"
    /\ out.err = "trade_error" => \E s \in Sigs : chain[s] = "failed"

(* What lands was sent by a task that was spawned.                           *)
SpawnedLands == \A t \in Tasks : chain[t] # "absent" => task[t] # "unspawned"

(* A buy through several channels without a nonce is refused before anything  *)
(* is spawned.                                                               *)
UnsafeBuyRefused ==
    is_buy /\ ~nonce /\ NumTasks > 1 =>
        /\ caller \in {"start", "returned"}
        /\ \A t \in Tasks : task[t] = "unspawned"

(* The inductive invariant.                                                  *)
SwapInv ==
    /\ EPP!IndInv
    /\ CFP!PollInv
    /\ SwapTyped
    /\ NothingUnlessResult
    /\ PollAfterSubmit
    /\ OutputSeen
    /\ SpawnedLands
    /\ UnsafeBuyRefused

(* What the swap uses of the submitter's invariant: the signatures it returns *)
(* are of tasks that have submitted, so nothing a late task does changes      *)
(* them.                                                                     *)
LEMMA SubmitFacts ==
    ASSUME EPP!IndInv
    PROVE  /\ task \in [Tasks -> {"unspawned", "build", "send", "push", "flag",
                                  "count", "done", "panicked"}]
           /\ outcome \in [Tasks -> EPP!Reports \cup {"none"}]
           /\ ret.sigs \in Seq(Tasks) /\ ret.success \in BOOLEAN
           /\ is_buy \in BOOLEAN /\ nonce \in BOOLEAN
           /\ ret.kind = "result" =>
                 \A i \in DOMAIN ret.sigs : task[ret.sigs[i]] \in {"flag", "count", "done"}
           /\ caller # "returned" => ret.kind = "none"
<1>1. EPP!TypeOK /\ Tasks = EPP!Tasks
    BY DEF EPP!IndInv, Tasks, EPP!Tasks
<1>2. ASSUME ret.kind = "result", NEW i \in DOMAIN ret.sigs
      PROVE  task[ret.sigs[i]] \in {"flag", "count", "done"}
    <2>1. ret.sigs = got /\ got \in Seq(Tasks)
        BY <1>1, <1>2 DEF EPP!IndInv, EPP!AnswerJustified, EPP!TypeOK
    <2>2. ret.sigs[i] \in EPP!Range(got) /\ ret.sigs[i] \in Tasks
        BY <2>1 DEF EPP!Range
    <2> QED  BY <1>1, <2>2 DEF EPP!IndInv, EPP!Exchanged, EPP!Submitted
<1>3. caller # "returned" => ret.kind = "none"
    BY DEF EPP!IndInv, EPP!AnswerJustified, EPP!NotReturned
<1> QED  BY <1>1, <1>2, <1>3 DEF EPP!TypeOK

(* The signatures that are polled are of the cluster's.                      *)
LEMMA PolledType ==
    ASSUME NEW s \in Seq(Tasks)
    PROVE  SigsOf(s) \in Seq(Sigs) /\ DOMAIN SigsOf(s) = DOMAIN s /\ SigsOf(<< >>) = << >>
<1>1. SigsOf(s) \in [1..Len(s) -> Sigs] /\ Len(s) \in Nat /\ DOMAIN s = 1..Len(s)
    BY DEF SigsOf, Sigs
<1>2. SigsOf(<< >>) = << >>
    BY DEF SigsOf
<1> QED  BY <1>1, <1>2

-----------------------------------------------------------------------------
(* The invariant holds when swap is called.                                  *)
LEMMA SwapInvInit == Init => SwapInv
<1> SUFFICES ASSUME Init PROVE SwapInv
    OBVIOUS
<1>1. EPP!IndInv
    BY SubmitStarts DEF Init
<1>2. ret = [kind |-> "none", success |-> FALSE, sigs |-> << >>, err |-> 0]
    BY DEF Init, EP!Init, EP!NotReturned
<1>3. SigsOf(ret.sigs) = << >> /\ SigsOf(ret.sigs) \in Seq(Sigs)
    BY <1>2 DEF SigsOf
<1>4. CFP!PollInv
    <2>1. CFP!TypeOK
        BY <1>3, NumTasksPositive, BoundsAreNatural
           DEF Init, EP!Init, CF!PollerInit, CF!NoAnswer, CFP!TypeOK, CFP!ChainStatus
    <2> QED  BY <2>1, NoSigIsNone DEF Init, CF!PollerInit, CF!NoAnswer, CFP!PollInv,
                CFP!OneOnChain, CFP!LandedIsListed, CFP!OkMeansConfirmed, CFP!ErrorIsFailed
<1>5. SwapTyped
    BY DEF Init, NoOutput, SwapTyped
<1>6. NothingUnlessResult
    BY <1>2 DEF NothingUnlessResult
<1>7. PollAfterSubmit /\ OutputSeen /\ SpawnedLands /\ UnsafeBuyRefused
    BY DEF Init, NoOutput, EP!Init, EP!Tasks, Tasks, Sigs, CF!PollerInit, PollAfterSubmit,
       OutputSeen, SpawnedLands, UnsafeBuyRefused
<1> QED  BY <1>1, <1>4, <1>5, <1>6, <1>7 DEF SwapInv

(* Steps of the swap itself leave submitter, poll and cluster alone.          *)
LEMMA SwapFrame ==
    ASSUME SwapInv, UNCHANGED <<arguments, submitVars, chain, confirmVars>>
    PROVE  /\ EPP!IndInv' /\ CFP!PollInv'
           /\ NothingUnlessResult' /\ SpawnedLands' /\ UnsafeBuyRefused'
           /\ SigsOf(ret.sigs)' = SigsOf(ret.sigs)
           /\ UNCHANGED <<simulate, need_confirm, has_rpc, caller, ret, landed_sig, poller, answer>>
<1> USE DEF SwapInv
<1>1. UNCHANGED <<simulate, need_confirm, has_rpc, caller, ret, outcome, nonce, is_buy, task, poll_count,
                  landed_sig, poller, answer, chain>>
    BY DEF arguments, submitVars, confirmVars
<1>2. SigsOf(ret.sigs)' = SigsOf(ret.sigs)
    BY <1>1 DEF SigsOf
<1>3. EPP!IndInv'
    <2>1. UNCHANGED EPP!vars
        BY DEF submitVars, EPP!vars, EPP!args, EPP!taskVars, EPP!collectorVars, EPP!callerVars
    <2> QED  BY <2>1, EPP!InvStep, NumTasksPositive, BoundsAreNatural
<1>4. CFP!PollInv'
    <2>1. UNCHANGED CFP!vars
        BY <1>1, <1>2 DEF CFP!vars, CFP!pollerVars
    <2> QED  BY <2>1, CFP!PollUntouched, NumTasksPositive, BoundsAreNatural, NoSigIsNone
<1>5. NothingUnlessResult' /\ SpawnedLands' /\ UnsafeBuyRefused'
    BY <1>1 DEF NothingUnlessResult, SpawnedLands, UnsafeBuyRefused
<1> QED  BY <1>1, <1>2, <1>3, <1>4, <1>5

(* Building and simulating keep the invariant.                               *)
LEMMA BuildAndSimulate ==
    ASSUME SwapInv, BuildInstructions \/ SimulateTransaction
    PROVE  SwapInv'
<1>1. UNCHANGED <<arguments, submitVars, chain, confirmVars>>
    BY DEF BuildInstructions, SimulateTransaction
<1>2. /\ EPP!IndInv' /\ CFP!PollInv'
      /\ NothingUnlessResult' /\ SpawnedLands' /\ UnsafeBuyRefused'
      /\ UNCHANGED <<simulate, need_confirm, has_rpc, caller, ret, landed_sig, poller, answer>>
    BY <1>1, SwapFrame
<1>3. \/ /\ phase' = "returned"
         /\ \E success \in BOOLEAN, sigs \in {<< >>, <<SimulatedSig>>},
               kind \in {"ok", "err"}, err \in {"none", "other"} :
               /\ out' = [kind |-> kind, success |-> success, sigs |-> sigs, err |-> err]
               /\ success => phase = "simulate"
      \/ phase' = (IF simulate THEN "simulate" ELSE "submit") /\ UNCHANGED out
    BY DEF BuildInstructions, SimulateTransaction, Output
<1>4. << >> \in Seq(Sigs \cup {SimulatedSig}) /\ <<SimulatedSig>> \in Seq(Sigs \cup {SimulatedSig})
    OBVIOUS
<1>5. SwapTyped'
    <2>1. phase' \in {"simulate", "submit", "returned"}
        BY <1>3
    <2>2. out' \in [kind : {"none", "ok", "err"}, success : BOOLEAN,
                   sigs : Seq(Sigs \cup {SimulatedSig}),
                   err : {"none", "other", "trade_error"}]
        <3>1. CASE UNCHANGED out
            BY <3>1 DEF SwapInv, SwapTyped
        <3>2. CASE ~(UNCHANGED out)
            <4>1. PICK success \in BOOLEAN, sigs \in {<< >>, <<SimulatedSig>>},
                       kind \in {"ok", "err"}, err \in {"none", "other"} :
                       out' = [kind |-> kind, success |-> success, sigs |-> sigs, err |-> err]
                BY <1>3, <3>2
            <4>2. sigs \in Seq(Sigs \cup {SimulatedSig})
                BY <1>4
            <4> QED  BY <4>1, <4>2
        <3> QED  BY <3>1, <3>2
    <2> QED  BY <1>2, <2>1, <2>2 DEF SwapInv, SwapTyped
<1>6. PollAfterSubmit'
    BY <1>2, <1>3 DEF SwapInv, PollAfterSubmit, CF!NoAnswer
<1>7. OutputSeen'
    <2>1. CASE UNCHANGED out
        BY <1>1, <1>2, <2>1 DEF SwapInv, OutputSeen
    <2>2. CASE ~(UNCHANGED out)
        BY <1>2, <1>3, <2>2 DEF SwapInv, OutputSeen, PollAfterSubmit
    <2> QED  BY <2>1, <2>2
<1> QED  BY <1>2, <1>5, <1>6, <1>7 DEF SwapInv

(* What the swap makes of the submitter's answer keeps the invariant: it      *)
(* polls, or its success is not one of a confirmed swap.                     *)
LEMMA SubmitReturnedKeeps == SwapInv /\ SubmitReturned => SwapInv'
<1> SUFFICES ASSUME SwapInv, SubmitReturned PROVE SwapInv'
    OBVIOUS
<1>1. UNCHANGED <<arguments, submitVars, chain, confirmVars>>
    BY DEF SubmitReturned
<1>2. /\ EPP!IndInv' /\ CFP!PollInv'
      /\ NothingUnlessResult' /\ SpawnedLands' /\ UnsafeBuyRefused'
      /\ UNCHANGED <<simulate, need_confirm, has_rpc, caller, ret, landed_sig, poller, answer>>
    BY <1>1, SwapFrame
<1>3. /\ ret.sigs \in Seq(Tasks) /\ ret.success \in BOOLEAN
      /\ ret.success => ret.sigs # << >>
    <2>1. ret.sigs \in Seq(Tasks) /\ ret.success \in BOOLEAN
        BY SubmitFacts DEF SwapInv
    <2>2. ret.success => ret.sigs # << >>
        BY DEF SwapInv, NothingUnlessResult, EPP!IndInv, EPP!AnswerJustified
    <2> QED  BY <2>1, <2>2
<1>4. SigsOf(ret.sigs) \in Seq(Sigs \cup {SimulatedSig})
    <2>1. SigsOf(ret.sigs) \in Seq(Sigs)
        BY <1>3, PolledType
    <2> QED  BY <2>1
<1>5. caller = "returned"
    BY DEF SubmitReturned
<1>6. CASE need_confirm /\ has_rpc /\ ret.sigs # << >>
    <2>1. phase' = "confirm" /\ UNCHANGED out
        BY <1>6 DEF SubmitReturned
    <2>2. SwapTyped' /\ PollAfterSubmit' /\ OutputSeen'
        BY <1>1, <1>2, <1>5, <2>1 DEF SwapInv, SwapTyped, PollAfterSubmit, OutputSeen
    <2> QED  BY <1>2, <2>2 DEF SwapInv
<1>7. CASE ~(need_confirm /\ has_rpc /\ ret.sigs # << >>)
    <2>1. PICK kind \in {"ok", "err"}, err \in {"none", "other"} :
            /\ phase' = "returned"
            /\ out' = [kind |-> kind, success |-> ret.success, sigs |-> SigsOf(ret.sigs), err |-> err]
        BY <1>7 DEF SubmitReturned, SubmitKind, SubmitErr, Output
    <2>2. SwapTyped'
        BY <1>2, <1>3, <1>4, <2>1 DEF SwapInv, SwapTyped
    <2>3. PollAfterSubmit' /\ OutputSeen'
        BY <1>2, <1>3, <1>5, <1>7, <2>1 DEF PollAfterSubmit, OutputSeen
    <2> QED  BY <1>2, <2>2, <2>3 DEF SwapInv
<1> QED  BY <1>6, <1>7

(* What the swap makes of the poll's answer keeps the invariant.             *)
LEMMA ConfirmReturnedKeeps == SwapInv /\ ConfirmReturned => SwapInv'
<1> SUFFICES ASSUME SwapInv, ConfirmReturned PROVE SwapInv'
    OBVIOUS
<1>1. UNCHANGED <<arguments, submitVars, chain, confirmVars>>
    BY DEF ConfirmReturned
<1>2. /\ EPP!IndInv' /\ CFP!PollInv'
      /\ NothingUnlessResult' /\ SpawnedLands' /\ UnsafeBuyRefused'
      /\ UNCHANGED <<simulate, need_confirm, has_rpc, caller, ret, landed_sig, poller, answer>>
    BY <1>1, SwapFrame
<1> DEFINE polled == SigsOf(ret.sigs)
<1>3. polled \in Seq(Sigs) /\ \A i \in DOMAIN polled : polled[i] \in Sigs
    BY SubmitFacts, PolledType DEF SwapInv
<1>4. /\ answer.kind = "ok" =>
            \E i \in DOMAIN polled : polled[i] \in Sigs /\ chain[polled[i]] = "ok"
      /\ answer.kind = "trade_error" => \E s \in Sigs : chain[s] = "failed"
    BY <1>3 DEF SwapInv, CFP!PollInv, CFP!OkMeansConfirmed, CFP!ErrorIsFailed
<1>5. polled \in Seq(Sigs \cup {SimulatedSig})
    BY <1>3
<1>6. PICK err \in {"none", "other", "trade_error"} :
        /\ phase' = "returned"
        /\ out' = [kind |-> "ok", success |-> answer.kind = "ok", sigs |-> polled, err |-> err]
        /\ err = "trade_error" => answer.kind = "trade_error"
    BY DEF ConfirmReturned, Output
<1> HIDE DEF polled
<1>7. SwapTyped'
    BY <1>2, <1>5, <1>6 DEF SwapInv, SwapTyped
<1>8. PollAfterSubmit'
    BY <1>2, <1>6 DEF SwapInv, PollAfterSubmit, CF!NoAnswer
<1>9. OutputSeen'
    BY <1>1, <1>4, <1>6 DEF OutputSeen
<1> QED  BY <1>2, <1>7, <1>8, <1>9 DEF SwapInv

(* Steps of the submitter's caller keep the invariant.                       *)
LEMMA SubmitStepKeeps == SwapInv /\ SubmitStep => SwapInv'
<1> SUFFICES ASSUME SwapInv, SubmitStep PROVE SwapInv'
    OBVIOUS
<1>1. /\ phase = "submit" /\ EP!Caller
      /\ UNCHANGED <<simulate, need_confirm, has_rpc, phase, out, chain, poll_count, landed_sig,
                     poller, answer>>
    BY DEF SubmitStep, arguments, confirmVars
<1>2. EPP!IndInv'
    BY <1>1, SubmitKeeps DEF SwapInv
<1>3. /\ caller # "returned"
      /\ UNCHANGED <<nonce, is_buy, outcome>>
      /\ \/ ret' = ret
         \/ ret'.kind = "result"
         \/ ret'.success = FALSE /\ ret'.sigs = << >>
    BY <1>1 DEF EP!Caller, EP!Start, EP!TipAccountFails, EP!Spawn, EP!CheckSuccess,
       EP!CheckLanded, EP!CheckCount, EP!TimeIsUp, EP!Sleep, EP!Pop, EP!EndDrain,
       EP!EndSuccessDrain, EP!EndLandedDrain, EP!EndFinalDrain, EP!Return, EP!StartDrain,
       EP!args, EP!taskVars
<1>4. \/ UNCHANGED task
      \/ \E t \in Tasks : caller = "spawn" /\ task' = [task EXCEPT ![t] = "build"]
    BY <1>1 DEF EP!Caller, EP!Start, EP!TipAccountFails, EP!Spawn, EP!CheckSuccess,
       EP!CheckLanded, EP!CheckCount, EP!TimeIsUp, EP!Sleep, EP!Pop, EP!EndDrain,
       EP!taskVars, EP!Tasks, Tasks
<1>5. CFP!PollInv'
    <2>1. landed_sig = NoSig /\ poller = "start" /\ answer = [kind |-> "none", sig |-> NoSig]
        BY <1>3 DEF SwapInv, PollAfterSubmit, CF!NoAnswer
    <2>2. SigsOf(ret.sigs)' \in Seq(Sigs)
        <3>1. ret'.sigs \in Seq(Tasks)
            BY <1>2 DEF EPP!IndInv, EPP!TypeOK, EPP!Tasks, Tasks
        <3>2. SigsOf(ret.sigs)' = SigsOf(ret'.sigs)
            BY <1>3 DEF SigsOf
        <3> QED  BY <3>1, <3>2, PolledType
    <2>3. CFP!TypeOK'
        BY <1>1, <1>3, <2>1, <2>2 DEF SwapInv, CFP!PollInv, CFP!TypeOK
    <2> QED  BY <1>1, <1>3, <2>1, <2>3 DEF SwapInv, CFP!PollInv, CFP!OneOnChain,
                CFP!LandedIsListed, CFP!OkMeansConfirmed, CFP!ErrorIsFailed
<1>6. NothingUnlessResult'
    BY <1>3 DEF SwapInv, NothingUnlessResult
<1>7. SwapTyped' /\ PollAfterSubmit' /\ OutputSeen'
    BY <1>1, <1>3 DEF SwapInv, SwapTyped, PollAfterSubmit, OutputSeen, CF!NoAnswer
<1>8. SpawnedLands'
    <2>1. \A t \in Tasks : task[t] # "unspawned" => task'[t] # "unspawned"
        BY <1>4, SubmitFacts DEF SwapInv
    <2> QED  BY <1>1, <2>1 DEF SwapInv, SpawnedLands
<1>9. UnsafeBuyRefused'
    <2> SUFFICES ASSUME is_buy, ~nonce, NumTasks > 1
                 PROVE  caller' \in {"start", "returned"} /\ UNCHANGED task
        BY <1>3 DEF SwapInv, UnsafeBuyRefused
    <2>1. caller = "start"
        BY <1>3 DEF SwapInv, UnsafeBuyRefused
    <2> QED  BY <1>1, <2>1 DEF EP!Caller, EP!Start, EP!TipAccountFails, EP!Spawn,
                EP!CheckSuccess, EP!CheckLanded, EP!CheckCount, EP!TimeIsUp, EP!Sleep,
                EP!Pop, EP!EndDrain, EP!Return, EP!taskVars
<1> QED  BY <1>2, <1>5, <1>6, <1>7, <1>8, <1>9 DEF SwapInv

(* Steps of a task, also of one that outlives the call, keep the invariant:   *)
(* a task whose signature was returned has submitted and changes nothing any  *)
(* more.                                                                     *)
LEMMA TaskStepKeeps == SwapInv /\ TaskStep => SwapInv'
<1> SUFFICES ASSUME SwapInv, TaskStep PROVE SwapInv'
    OBVIOUS
<1>1. PICK t \in Tasks : EP!Task(t)
    BY DEF TaskStep
<1>2. UNCHANGED <<simulate, need_confirm, has_rpc, phase, out, chain, poll_count, landed_sig,
                  poller, answer>>
    BY DEF TaskStep, arguments, confirmVars
<1>3. EPP!IndInv'
    BY <1>1, SubmitKeeps DEF SwapInv
<1>4. UNCHANGED <<nonce, is_buy, caller, ret>>
    BY <1>1 DEF EP!Task, EP!Build, EP!Send, EP!SubmitPush, EP!SubmitFlag, EP!SubmitCount,
       EP!args, EP!callerVars
<1>5. /\ task[t] # "unspawned" /\ \E p \in {"send", "push", "panicked", "flag", "count", "done"} :
                                        task' = [task EXCEPT ![t] = p]
      /\ \/ UNCHANGED outcome
         \/ /\ task[t] \in {"build", "send"}
            /\ \E r : outcome' = [outcome EXCEPT ![t] = r]
    BY <1>1 DEF EP!Task, EP!Build, EP!Send, EP!SubmitPush, EP!SubmitFlag, EP!SubmitCount
<1>6. SigsOf(ret.sigs)' = SigsOf(ret.sigs)
    <2>1. \A i \in DOMAIN ret.sigs : outcome'[ret.sigs[i]] = outcome[ret.sigs[i]]
        <3>1. ASSUME NEW i \in DOMAIN ret.sigs
              PROVE  ret.sigs[i] \in Tasks /\ task[ret.sigs[i]] \in {"flag", "count", "done"}
            BY SubmitFacts DEF SwapInv, NothingUnlessResult
        <3> QED  BY <1>5, <3>1, SubmitFacts DEF SwapInv
    <2> QED  BY <1>4, <2>1 DEF SigsOf
<1>7. CFP!PollInv'
    <2>1. UNCHANGED CFP!vars
        BY <1>2, <1>4, <1>6 DEF CFP!vars, CFP!pollerVars
    <2> QED  BY <2>1, CFP!PollUntouched, NumTasksPositive, BoundsAreNatural, NoSigIsNone
                DEF SwapInv
<1>8. SwapTyped' /\ NothingUnlessResult' /\ PollAfterSubmit' /\ OutputSeen'
    BY <1>2, <1>4 DEF SwapInv, SwapTyped, NothingUnlessResult, PollAfterSubmit, OutputSeen,
       CF!NoAnswer
<1>9. SpawnedLands' /\ UnsafeBuyRefused'
    <2>1. \A u \in Tasks : task[u] # "unspawned" => task'[u] # "unspawned"
        BY <1>5, SubmitFacts DEF SwapInv
    <2>2. ~(\A u \in Tasks : task[u] = "unspawned")
        BY <1>5
    <2> QED  BY <1>2, <1>4, <2>1, <2>2 DEF SwapInv, SpawnedLands, UnsafeBuyRefused
<1> QED  BY <1>3, <1>7, <1>8, <1>9 DEF SwapInv

(* Steps of the poll keep the invariant.                                     *)
LEMMA ConfirmStepKeeps == SwapInv /\ ConfirmStep => SwapInv'
<1> SUFFICES ASSUME SwapInv, ConfirmStep PROVE SwapInv'
    OBVIOUS
<1>1. /\ phase = "confirm" /\ CF!Poller
      /\ UNCHANGED <<simulate, need_confirm, has_rpc, phase, out, chain>>
      /\ UNCHANGED submitVars
    BY DEF ConfirmStep, arguments
<1>2. UNCHANGED <<nonce, is_buy, task, outcome, caller, ret>>
    BY <1>1 DEF submitVars
<1>3. EPP!IndInv'
    <2>1. UNCHANGED EPP!vars
        BY <1>1 DEF submitVars, EPP!vars, EPP!args, EPP!taskVars, EPP!collectorVars,
           EPP!callerVars
    <2> QED  BY <2>1, EPP!InvStep, NumTasksPositive, BoundsAreNatural DEF SwapInv
<1>4. CFP!PollInv'
    BY <1>1, <1>2, PollKeeps DEF SwapInv
<1>5. SwapTyped' /\ NothingUnlessResult' /\ PollAfterSubmit' /\ OutputSeen'
    BY <1>1, <1>2 DEF SwapInv, SwapTyped, NothingUnlessResult, PollAfterSubmit, OutputSeen
<1>6. SpawnedLands' /\ UnsafeBuyRefused'
    BY <1>1, <1>2 DEF SwapInv, SpawnedLands, UnsafeBuyRefused
<1> QED  BY <1>3, <1>4, <1>5, <1>6 DEF SwapInv

(* Steps of the cluster keep the invariant, before, during and after the      *)
(* poll.                                                                     *)
LEMMA ClusterStepKeeps == SwapInv /\ ClusterStep => SwapInv'
<1> SUFFICES ASSUME SwapInv, ClusterStep PROVE SwapInv'
    OBVIOUS
<1>1. PICK t \in Tasks : Sending(t) /\ CF!ClusterStep(t)
    BY DEF ClusterStep
<1>2. /\ UNCHANGED <<simulate, need_confirm, has_rpc, phase, out, poll_count, landed_sig,
                     poller, answer>>
      /\ UNCHANGED submitVars
    BY DEF ClusterStep, arguments, confirmVars
<1>3. UNCHANGED <<nonce, is_buy, task, outcome, caller, ret>>
    BY <1>2 DEF submitVars
<1>4. EPP!IndInv'
    <2>1. UNCHANGED EPP!vars
        BY <1>2 DEF submitVars, EPP!vars, EPP!args, EPP!taskVars, EPP!collectorVars,
           EPP!callerVars
    <2> QED  BY <2>1, EPP!InvStep, NumTasksPositive, BoundsAreNatural DEF SwapInv
<1>5. /\ CFP!PollInv'
      /\ \A s \in Sigs : chain[s] \in {"ok", "failed"} => chain'[s] = chain[s]
      /\ \A s \in Sigs : s # t => chain'[s] = chain[s]
    BY <1>1, <1>2, <1>3, ClusterKeeps DEF SwapInv
<1>6. SwapTyped' /\ NothingUnlessResult' /\ PollAfterSubmit'
    BY <1>2, <1>3 DEF SwapInv, SwapTyped, NothingUnlessResult, PollAfterSubmit, CF!NoAnswer
<1>7. OutputSeen'
    BY <1>2, <1>5 DEF SwapInv, OutputSeen
<1>8. SpawnedLands'
    BY <1>1, <1>3, <1>5 DEF SwapInv, SpawnedLands, Sending, Sigs
<1>9. UnsafeBuyRefused'
    BY <1>3 DEF SwapInv, UnsafeBuyRefused
<1> QED  BY <1>4, <1>5, <1>6, <1>7, <1>8, <1>9 DEF SwapInv

-----------------------------------------------------------------------------
(* The swap, its tasks and the cluster keep the invariant for ever.          *)
THEOREM SwapInvariance == Spec => []SwapInv
<1>1. SwapInv /\ [Next]_vars => SwapInv'
    <2> SUFFICES ASSUME SwapInv, [Next]_vars PROVE SwapInv'
        OBVIOUS
    <2>1. CASE Next
        BY <2>1, BuildAndSimulate, SubmitStepKeeps, SubmitReturnedKeeps, ConfirmStepKeeps,
           ConfirmReturnedKeeps, TaskStepKeeps, ClusterStepKeeps DEF Next, SwapStep
    <2>2. CASE UNCHANGED vars
        <3>1. UNCHANGED <<arguments, submitVars, chain, confirmVars>> /\ UNCHANGED <<phase, out>>
            BY <2>2 DEF vars
        <3>2. /\ EPP!IndInv' /\ CFP!PollInv'
              /\ NothingUnlessResult' /\ SpawnedLands' /\ UnsafeBuyRefused'
              /\ UNCHANGED <<simulate, need_confirm, has_rpc, caller, ret, landed_sig, poller,
                             answer>>
            BY <3>1, SwapFrame
        <3> QED  BY <3>1, <3>2 DEF SwapInv, SwapTyped, PollAfterSubmit, OutputSeen, CF!NoAnswer
    <2> QED  BY <2>1, <2>2
<1> QED  BY SwapInvInit, <1>1, PTL DEF Spec

(* What a swap answers is true of the chain then and later, for every number  *)
(* of channels: a confirmed success is there, and under a durable nonce what  *)
(* was reported as failed never succeeds.                                    *)
THEOREM AnswerTrue == Spec => []AnswerIsTrue
<1>1. SwapInv => AnswerIsTrue
    <2> SUFFICES ASSUME SwapInv PROVE AnswerIsTrue
        OBVIOUS
    <2>1. EP!TypeOK
        BY DEF SwapInv, EPP!IndInv, EPP!TypeOK, EP!TypeOK, EPP!Tasks, EP!Tasks, EPP!Reports,
           EP!Reports, EPP!Errors, EP!Errors, EPP!TradeErrors, EP!TradeErrors
    <2>2. CF!TypeOK
        BY DEF SwapInv, CFP!PollInv, CFP!TypeOK, CF!TypeOK, CFP!ChainStatus, CF!ChainStatus
    <2>3. TypeOK
        BY <2>1, <2>2 DEF SwapInv, SwapTyped, TypeOK
    <2>4. ConfirmedSuccessIsOnChain
        BY DEF SwapInv, OutputSeen, ConfirmedSuccessIsOnChain
    <2>5. FailedSwapIsFinal
        BY DEF SwapInv, OutputSeen, CFP!PollInv, CFP!OneOnChain, FailedSwapIsFinal, Sigs
    <2> QED  BY <2>3, <2>4, <2>5 DEF AnswerIsTrue
<1> QED  BY SwapInvariance, <1>1, PTL

(* A buy is executed at most once, however many channels are given it and     *)
(* however late their tasks are: they share a nonce, or there is one channel, *)
(* or none was given anything.                                               *)
THEOREM OneBuy == Spec => []BuyLandsOnce
<1>1. SwapInv => BuyLandsOnce
    <2> SUFFICES ASSUME SwapInv, is_buy
                 PROVE  Cardinality({t \in Tasks : chain[t] = "ok"}) <= 1
        BY DEF BuyLandsOnce
    <2> DEFINE ok == {t \in Tasks : chain[t] = "ok"}
    <2>1. \A t, u \in ok : t = u
        <3>1. CASE nonce
            BY <3>1 DEF SwapInv, CFP!PollInv, CFP!OneOnChain, Sigs
        <3>2. CASE ~nonce /\ NumTasks > 1
            BY <3>2 DEF SwapInv, SpawnedLands, UnsafeBuyRefused
        <3>3. CASE NumTasks = 1
            BY <3>3 DEF Tasks
        <3> QED  BY <3>1, <3>2, <3>3, NumTasksPositive
    <2> HIDE DEF ok
    <2>2. ASSUME ok = {} PROVE Cardinality(ok) <= 1
        BY <2>2, FS_EmptySet
    <2>3. ASSUME ok # {} PROVE Cardinality(ok) <= 1
        <3>1. PICK t \in ok : TRUE
            BY <2>3
        <3>2. ok = {t}
            BY <2>1, <3>1
        <3>3. Cardinality({t}) = 1
            BY FS_Singleton
        <3> QED  BY <3>2, <3>3
    <2> QED  BY <2>2, <2>3 DEF ok
<1> QED  BY SwapInvariance, <1>1, PTL
=============================================================================
