------------------------ MODULE ExecuteParallelProofs ------------------------
(***************************************************************************)
(* Proofs about ExecuteParallel, for every number of tasks.                 *)
(***************************************************************************)
EXTENDS ExecuteParallel, FiniteSetTheorems, WellFoundedInduction, TLAPS

-----------------------------------------------------------------------------
(* Lemmas about the operators the model is built from.                      *)

(* A queue of distinct results that lacks one task has a free slot: the      *)
(* push of ResultCollector::submit, whose failure is ignored, cannot fail.   *)
LEMMA FreeSlot ==
    ASSUME NEW s \in Seq(Tasks), IsInjective(s),
           NEW t \in Tasks, t \notin Range(s)
    PROVE  Len(s) < NumTasks
<1>1. IsFiniteSet(Tasks) /\ Cardinality(Tasks) = NumTasks
    BY FS_Interval, NumTasksAssumption DEF Tasks
<1>2. IsFiniteSet(Tasks \ {t}) /\ Cardinality(Tasks \ {t}) = NumTasks - 1
    BY <1>1, FS_RemoveElement
<1>3. s \in [1..Len(s) -> Tasks \ {t}] /\ Len(s) \in Nat
    BY DEF Range
<1>4. s \in Injection(1..Len(s), Tasks \ {t})
    BY <1>3 DEF Injection, IsInjective
<1>5. Cardinality(1..Len(s)) <= Cardinality(Tasks \ {t})
    BY <1>2, <1>4, FS_Injection
<1>6. Cardinality(1..Len(s)) = Len(s)
    <2>1. Cardinality(1..Len(s)) = IF 1 > Len(s) THEN 0 ELSE Len(s) - 1 + 1
        BY <1>3, FS_Interval
    <2> QED  BY <2>1, <1>3
<1> QED  BY <1>2, <1>3, <1>5, <1>6, NumTasksAssumption

(* A non-empty set of positions of a sequence has a greatest member.         *)
LEMMA LastPosition ==
    ASSUME NEW n \in Nat, NEW I, I \subseteq 1..n, I # {}
    PROVE  \E m \in I : \A i \in I : i <= m
<1> DEFINE D == {n - i : i \in I}
<1>1. D \subseteq Nat /\ D # {}
    <2>1. \A i \in I : i \in Nat /\ i <= n
        OBVIOUS
    <2>2. \A i \in I : n - i \in Nat
        BY <2>1
    <2>3. PICK i \in I : TRUE
        OBVIOUS
    <2>4. n - i \in D
        OBVIOUS
    <2> QED  BY <2>2, <2>4
<1>2. PICK d \in D : \A e \in D : ~(<<e, d>> \in OpToRel(<, Nat))
    BY <1>1, WFMin, NatLessThanWellFounded
<1>3. \A e \in D : ~(e < d)
    BY <1>1, <1>2 DEF OpToRel
<1>4. PICK m \in I : d = n - m
    OBVIOUS
<1>5. ASSUME NEW i \in I PROVE i <= m
    <2>1. n - i \in D
        OBVIOUS
    <2>2. ~(n - i < n - m)
        BY <2>1, <1>3, <1>4
    <2>3. i \in Nat /\ m \in Nat
        OBVIOUS
    <2> QED  BY <2>2, <2>3
<1> QED  BY <1>5

(* What the drain loops keep of the errors they see is the error of one of    *)
(* the results they popped, or nothing when there was none.                   *)
LEMMA LastInIsMember ==
    ASSUME NEW s \in Seq(Tasks), NEW I, I \subseteq DOMAIN s
    PROVE  /\ I = {} => LastIn(s, I) = 0
           /\ I # {} => \E m \in I : LastIn(s, I) = s[m]
<1>1. CASE I = {}
    BY <1>1 DEF LastIn
<1>2. CASE I # {}
    <2>1. I \subseteq 1..Len(s) /\ Len(s) \in Nat
        OBVIOUS
    <2>2. \E m \in I : \A i \in I : i <= m
        BY <1>2, <2>1, LastPosition
    <2> QED  BY <1>2, <2>2 DEF LastIn
<1> QED  BY <1>1, <1>2

(* Pushing a result that is not in the queue.                                 *)
LEMMA AppendFacts ==
    ASSUME NEW s \in Seq(Tasks), NEW t \in Tasks
    PROVE  /\ Append(s, t) \in Seq(Tasks)
           /\ Append(s, t) # << >>
           /\ Range(Append(s, t)) = Range(s) \cup {t}
           /\ IsInjective(s) /\ t \notin Range(s) => IsInjective(Append(s, t))
<1> DEFINE a == Append(s, t)
<1>1. /\ a \in Seq(Tasks) /\ a # << >>
      /\ DOMAIN a = 1..(Len(s) + 1) /\ DOMAIN s = 1..Len(s) /\ Len(s) \in Nat
      /\ \A i \in 1..Len(s) : a[i] = s[i]
      /\ a[Len(s) + 1] = t
    OBVIOUS
<1> HIDE DEF a
<1>2. Range(a) = Range(s) \cup {t}
    <2>1. \A x \in Range(a) : x \in Range(s) \cup {t}
        BY <1>1 DEF Range
    <2>2. \A x \in Range(s) : x \in Range(a)
        BY <1>1 DEF Range
    <2>3. t \in Range(a)
        BY <1>1 DEF Range
    <2> QED  BY <2>1, <2>2, <2>3
<1>3. IsInjective(s) /\ t \notin Range(s) => IsInjective(a)
    BY <1>1 DEF Range, IsInjective
<1> QED  BY <1>1, <1>2, <1>3 DEF a

(* Popping the first result of a queue.                                       *)
LEMMA PopFacts ==
    ASSUME NEW s \in Seq(Tasks), s # << >>
    PROVE  /\ Head(s) \in Tasks
           /\ Tail(s) \in Seq(Tasks)
           /\ Range(s) = Range(Tail(s)) \cup {Head(s)}
           /\ IsInjective(s) => IsInjective(Tail(s)) /\ Head(s) \notin Range(Tail(s))
<1> DEFINE h == Head(s)
           r == Tail(s)
<1>1. /\ h \in Tasks /\ r \in Seq(Tasks)
      /\ DOMAIN r = 1..(Len(s) - 1) /\ DOMAIN s = 1..Len(s) /\ Len(s) \in Nat \ {0}
      /\ \A i \in 1..(Len(s) - 1) : r[i] = s[i + 1]
      /\ h = s[1]
    OBVIOUS
<1> HIDE DEF h, r
<1>2. Range(s) = Range(r) \cup {h}
    <2>1. ASSUME NEW i \in DOMAIN s PROVE s[i] \in Range(r) \cup {h}
        <3>1. CASE i = 1
            BY <1>1, <3>1
        <3>2. CASE i # 1
            <4>1. i - 1 \in DOMAIN r /\ r[i - 1] = s[i]
                BY <1>1, <3>2
            <4> QED  BY <4>1 DEF Range
        <3> QED  BY <3>1, <3>2
    <2>2. \A i \in DOMAIN r : r[i] \in Range(s)
        BY <1>1 DEF Range
    <2>3. h \in Range(s)
        BY <1>1 DEF Range
    <2> QED  BY <2>1, <2>2, <2>3 DEF Range
<1>3. ASSUME IsInjective(s) PROVE IsInjective(r) /\ h \notin Range(r)
    <2>1. \A i \in DOMAIN r : i + 1 \in DOMAIN s /\ i + 1 # 1 /\ r[i] = s[i + 1]
        BY <1>1
    <2>2. 1 \in DOMAIN s
        BY <1>1
    <2>3. ASSUME NEW i \in DOMAIN r, NEW j \in DOMAIN r, r[i] = r[j] PROVE i = j
        <3>1. i + 1 = j + 1
            BY <1>3, <2>1, <2>3 DEF IsInjective
        <3> QED  BY <1>1, <3>1
    <2>4. \A i \in DOMAIN r : r[i] # h
        BY <1>1, <1>3, <2>1, <2>2 DEF IsInjective
    <2> QED  BY <2>3, <2>4 DEF IsInjective, Range
<1> QED  BY <1>1, <1>2, <1>3 DEF h, r

(* A sequence is empty exactly when it has no members.                        *)
LEMMA EmptyRange ==
    ASSUME NEW s \in Seq(Tasks)
    PROVE  s = << >> <=> Range(s) = {}
<1>1. CASE s = << >>
    BY <1>1 DEF Range
<1>2. CASE s # << >>
    <2>1. 1 \in DOMAIN s
        BY <1>2
    <2> QED  BY <1>2, <2>1 DEF Range
<1> QED  BY <1>1, <1>2

-----------------------------------------------------------------------------
(* Type correctness.                                                        *)

(* The call starts well-typed.                                              *)
LEMMA InitType == Init => TypeOK
<1> SUFFICES ASSUME Init PROVE TypeOK
    OBVIOUS
<1>1. results \in Seq(Tasks) /\ got \in Seq(Tasks)
    BY DEF Init
<1>2. ret \in [kind : {"none", "error", "all_failed", "no_result", "result"},
              success : BOOLEAN, sigs : Seq(Tasks), err : Tasks \cup {0}]
    BY DEF Init, NotReturned
<1>3. polls \in 0..MaxPolls /\ completed_count \in Nat
    BY MaxPollsAssumption DEF Init
<1> QED  BY <1>1, <1>2, <1>3 DEF Init, TypeOK

(* The errors the drain loops return are 0 or tasks.                          *)
LEMMA ErrorType ==
    ASSUME TypeOK
    PROVE  LastError(got) \in Tasks \cup {0} /\ LandedError(got) \in Tasks \cup {0}
<1>1. got \in Seq(Tasks)
    BY DEF TypeOK
<1>2. \A i \in DOMAIN got : got[i] \in Tasks
    BY <1>1
<1>3. LastError(got) \in Tasks \cup {0}
    BY <1>1, <1>2, LastInIsMember DEF LastError
<1>4. LandedError(got) \in Tasks \cup {0}
    BY <1>1, <1>2, LastInIsMember DEF LandedError
<1> QED  BY <1>3, <1>4

(* What one call returns is well typed.                                       *)
LEMMA ReturnType ==
    ASSUME NEW kind \in {"error", "all_failed", "no_result", "result"},
           NEW success \in BOOLEAN, NEW sigs \in Seq(Tasks), NEW err \in Tasks \cup {0},
           Return(kind, success, sigs, err)
    PROVE  /\ caller' = "returned"
           /\ ret' \in [kind : {"none", "error", "all_failed", "no_result", "result"},
                        success : BOOLEAN, sigs : Seq(Tasks), err : Tasks \cup {0}]
BY DEF Return

(* Every step of the caller and of the tasks keeps the types.               *)
LEMMA TypeStep ==
    ASSUME TypeOK, [Next]_vars
    PROVE  TypeOK'
<1> USE DEF TypeOK
<1>0. << >> \in Seq(Tasks) /\ 0 \in Tasks \cup {0}
    OBVIOUS
<1>1. CASE Start
    BY <1>0, <1>1, ReturnType DEF Start, Return, args, taskVars, collectorVars
<1>2. CASE TipAccountFails
    BY <1>0, <1>2, ReturnType DEF TipAccountFails, args, taskVars, collectorVars
<1>3. ASSUME NEW t \in Tasks, Spawn(t) PROVE TypeOK'
    BY <1>3 DEF Spawn, FirstCheck, args, collectorVars
<1>4. CASE CheckSuccess
    BY <1>4 DEF CheckSuccess, StartDrain, args, taskVars, collectorVars
<1>5. CASE CheckLanded
    BY <1>5 DEF CheckLanded, StartDrain, args, taskVars, collectorVars
<1>6. CASE CheckCount
    BY <1>6 DEF CheckCount, StartDrain, args, taskVars, collectorVars
<1>7. CASE TimeIsUp
    BY <1>0, <1>7, ReturnType DEF TimeIsUp, StartDrain, args, taskVars, collectorVars
<1>8. CASE Sleep
    BY <1>8, MaxPollsAssumption DEF Sleep, FirstCheck, args, taskVars, collectorVars
<1>9. CASE Pop
    BY <1>9, PopFacts, AppendFacts DEF Pop, args, taskVars
<1>10. CASE EndDrain
    <2>1. UNCHANGED <<args, taskVars, collectorVars, drain, polls>>
        BY <1>10 DEF EndDrain
    <2>2. HasSuccess(got) \in BOOLEAN
        BY DEF HasSuccess
    <2>3. CASE EndSuccessDrain
        BY <1>0, <2>1, <2>3, ReturnType DEF EndSuccessDrain, args, taskVars, collectorVars
    <2>4. CASE EndLandedDrain
        BY <1>0, <2>1, <2>4, ReturnType, ErrorType
           DEF EndLandedDrain, args, taskVars, collectorVars
    <2>5. CASE EndFinalDrain
        BY <1>0, <2>1, <2>2, <2>5, ReturnType, ErrorType
           DEF EndFinalDrain, args, taskVars, collectorVars
    <2> QED  BY <1>10, <2>3, <2>4, <2>5 DEF EndDrain
<1>11. ASSUME NEW t \in Tasks, Build(t) PROVE TypeOK'
    <2>1. UNCHANGED <<args, collectorVars, callerVars>>
        BY <1>11 DEF Build
    <2>2. /\ task' \in [Tasks -> {"unspawned", "build", "send", "push", "flag",
                                 "count", "done", "panicked"}]
          /\ outcome' \in [Tasks -> Reports \cup {"none"}]
        BY <1>11 DEF Build, Reports, Errors
    <2> QED  BY <2>1, <2>2 DEF args, collectorVars, callerVars
<1>12. ASSUME NEW t \in Tasks, Send(t) PROVE TypeOK'
    BY <1>12 DEF Send, SendReports, Reports, Errors, args, collectorVars, callerVars
<1>13. ASSUME NEW t \in Tasks, SubmitPush(t) PROVE TypeOK'
    BY <1>13, AppendFacts DEF SubmitPush, args, callerVars
<1>14. ASSUME NEW t \in Tasks, SubmitFlag(t) PROVE TypeOK'
    BY <1>14 DEF SubmitFlag, args, callerVars
<1>15. ASSUME NEW t \in Tasks, SubmitCount(t) PROVE TypeOK'
    BY <1>15 DEF SubmitCount, args, callerVars
<1>16. CASE UNCHANGED vars
    BY <1>16 DEF vars, args, taskVars, collectorVars, callerVars
<1> QED
    BY <1>1, <1>2, <1>3, <1>4, <1>5, <1>6, <1>7, <1>8, <1>9, <1>10, <1>11, <1>12,
       <1>13, <1>14, <1>15, <1>16 DEF Next, Caller, Task

(* Every reachable state is well typed; in particular the error a call        *)
(* returns is one of its tasks' and the polling loop stays within its bound.  *)
THEOREM TypeCorrect == Spec => []TypeOK
<1>1. Init => TypeOK
    BY InitType
<1>2. TypeOK /\ [Next]_vars => TypeOK'
    BY TypeStep
<1> QED  BY <1>1, <1>2, PTL DEF Spec

-----------------------------------------------------------------------------
(* The inductive invariant: how the tasks' program counters, the queue, the  *)
(* flags, the counter and the caller's drain loops hang together.            *)

(* A task has an outcome from the moment it has something to submit.         *)
ReportsKnown ==
    \A t \in Tasks : task[t] \in {"push", "flag", "count", "done"} <=> outcome[t] # "none"

(* What was pushed is in the queue or popped, once.                          *)
Exchanged ==
    /\ \A t \in Tasks : Submitted(t) <=> t \in Range(results) \/ t \in Range(got)
    /\ IsInjective(results)
    /\ IsInjective(got)
    /\ \A t \in Tasks : ~(t \in Range(results) /\ t \in Range(got))

(* A flag is raised only after the result behind it was pushed.              *)
FlagsJustified ==
    /\ success_flag => \E t \in Tasks : Submitted(t) /\ Success(t)
    /\ landed_failed_flag => \E t \in Tasks : Submitted(t) /\ LandedFailed(t)

DoneTasks == {t \in Tasks : task[t] = "done"}

CountExact == completed_count = Cardinality(DoneTasks)

(* Each drain loop is entered for its reason, the reason stays true, and it  *)
(* ends in a return.                                                         *)
DrainJustified ==
    /\ drain = "success" => success_flag
    /\ drain = "landed" => landed_failed_flag
    /\ drain = "all" => DoneTasks = Tasks
    /\ drain # "none" => caller \in {"drain", "returned"}
    /\ caller = "drain" => drain # "none"
    /\ got # << >> => drain # "none"

(* Without confirmation nothing is known to have failed on chain; with it,   *)
(* transactions that share a nonce exclude each other.                       *)
OneLands ==
    /\ ~wait => \A t \in Tasks : outcome[t] \notin TradeErrors
    /\ nonce => \A t, u \in Tasks : Landed(t) /\ Landed(u) => t = u

AnswerJustified ==
    /\ caller # "returned" => ret = NotReturned
    /\ ret.kind = "result" =>
        /\ ret.sigs = got
        /\ got # << >>
        /\ ret.success => HasSuccess(got)
        /\ ~ret.success => ret.err # 0
        /\ ret.err # 0 => ret.err \in Range(got) /\ outcome[ret.err] \in Errors
        /\ drain # "landed" => (ret.success <=> HasSuccess(got))
        /\ drain = "landed" => ~ret.success /\ LandedFailed(ret.err)
    /\ caller = "returned" /\ drain = "all" => ret.kind = "result" /\ results = << >>

IndInv ==
    /\ TypeOK
    /\ ReportsKnown
    /\ Exchanged
    /\ FlagsJustified
    /\ CountExact
    /\ DrainJustified
    /\ OneLands
    /\ AnswerJustified

-----------------------------------------------------------------------------
(* The invariant holds initially and every step preserves it.               *)

(* The inductive invariant holds before anything is spawned.                *)
LEMMA InitInv == Init => IndInv
<1> SUFFICES ASSUME Init PROVE IndInv
    OBVIOUS
<1>1. TypeOK
    BY InitType
<1>2. ReportsKnown
    BY DEF Init, ReportsKnown
<1>3. Range(results) = {} /\ Range(got) = {}
    BY DEF Init, Range
<1>4. Exchanged
    BY <1>3 DEF Init, Exchanged, Submitted, IsInjective
<1>5. FlagsJustified
    BY DEF Init, FlagsJustified
<1>6. CountExact
    <2>1. DoneTasks = {}
        BY DEF Init, DoneTasks
    <2> QED  BY <2>1, FS_EmptySet DEF Init, CountExact
<1>7. DrainJustified
    BY DEF Init, DrainJustified
<1>8. OneLands
    BY DEF Init, OneLands, Landed, TradeErrors
<1>9. AnswerJustified
    BY DEF Init, AnswerJustified, NotReturned
<1> QED  BY <1>1, <1>2, <1>4, <1>5, <1>6, <1>7, <1>8, <1>9 DEF IndInv

(* A step of the caller that leaves tasks, collector and popped results alone *)
(* can disturb only what is said of the drain loop and the answer.            *)
LEMMA Frame ==
    ASSUME IndInv, UNCHANGED <<args, taskVars, collectorVars, got>>
    PROVE  ReportsKnown' /\ Exchanged' /\ FlagsJustified' /\ CountExact' /\ OneLands'
<1> USE DEF IndInv, args, taskVars, collectorVars
<1>1. ReportsKnown'
    BY DEF ReportsKnown
<1>2. Exchanged'
    BY DEF Exchanged, Submitted
<1>3. FlagsJustified'
    BY DEF FlagsJustified, Submitted, Success, LandedFailed
<1>4. CountExact'
    BY DEF CountExact, DoneTasks
<1>5. OneLands'
    BY DEF OneLands, Landed
<1> QED  BY <1>1, <1>2, <1>3, <1>4, <1>5

(* Steps of the caller before it drains: it returns an error, goes on, or     *)
(* enters a drain loop whose reason holds.                                    *)
LEMMA PollingStep ==
    ASSUME IndInv, TypeOK',
           \/ Start \/ TipAccountFails
           \/ CheckSuccess \/ CheckLanded \/ CheckCount \/ TimeIsUp \/ Sleep
    PROVE  IndInv'
<1>1. UNCHANGED <<args, taskVars, collectorVars, got>>
    BY DEF Start, TipAccountFails, CheckSuccess, CheckLanded, CheckCount, TimeIsUp, Sleep
<1>2. ReportsKnown' /\ Exchanged' /\ FlagsJustified' /\ CountExact' /\ OneLands'
    BY <1>1, Frame
<1>3. drain = "none" /\ got = << >> /\ ret = NotReturned
    BY DEF IndInv, DrainJustified, AnswerJustified, Start, TipAccountFails,
           CheckSuccess, CheckLanded, CheckCount, TimeIsUp, Sleep
<1>4. CASE CheckCount
    <2>1. completed_count >= NumTasks => DoneTasks = Tasks
        <3>1. IsFiniteSet(Tasks) /\ Cardinality(Tasks) = NumTasks
            BY FS_Interval, NumTasksAssumption DEF Tasks
        <3>2. DoneTasks \in SUBSET Tasks
            BY DEF DoneTasks
        <3>3. /\ Cardinality(DoneTasks) <= NumTasks
              /\ Cardinality(DoneTasks) = NumTasks => DoneTasks = Tasks
            BY <3>1, <3>2, FS_Subset
        <3>4. completed_count = Cardinality(DoneTasks) /\ completed_count \in Nat
            BY DEF IndInv, CountExact, TypeOK
        <3> QED  BY <3>3, <3>4, NumTasksAssumption
    <2>2. DoneTasks' = DoneTasks
        BY <1>1 DEF DoneTasks, taskVars
    <2>3. DrainJustified'
        BY <1>1, <1>3, <1>4, <2>1, <2>2 DEF DrainJustified, CheckCount, StartDrain
    <2>4. AnswerJustified'
        BY <1>1, <1>3, <1>4 DEF AnswerJustified, CheckCount, StartDrain, NotReturned
    <2> QED  BY <1>2, <2>3, <2>4 DEF IndInv
<1>5. CASE Start \/ TipAccountFails \/ CheckSuccess \/ CheckLanded \/ TimeIsUp \/ Sleep
    <2>1. DrainJustified'
        BY <1>1, <1>3, <1>5
           DEF DrainJustified, Start, TipAccountFails, CheckSuccess, CheckLanded,
               TimeIsUp, Sleep, StartDrain, Return, FirstCheck, collectorVars
    <2>2. AnswerJustified'
        BY <1>1, <1>3, <1>5
           DEF AnswerJustified, Start, TipAccountFails, CheckSuccess, CheckLanded,
               TimeIsUp, Sleep, StartDrain, Return, FirstCheck, NotReturned
    <2> QED  BY <1>2, <2>1, <2>2 DEF IndInv
<1> QED  BY <1>4, <1>5

(* tokio::spawn of the next task keeps the invariant: nothing it says       *)
(* is about a task that has not built its transaction.                      *)
LEMMA SpawnStep ==
    ASSUME IndInv, TypeOK', NEW t \in Tasks, Spawn(t)
    PROVE  IndInv'
<1> USE DEF IndInv
<1>1. /\ task[t] = "unspawned" /\ task' = [task EXCEPT ![t] = "build"]
      /\ caller = "spawn" /\ caller' \in {"spawn", "check_success", "check_count"}
      /\ UNCHANGED <<args, outcome, collectorVars, drain, got, polls, ret>>
    BY DEF Spawn, IsNext, FirstCheck
<1>2. task \in [Tasks -> {"unspawned", "build", "send", "push", "flag", "count",
                        "done", "panicked"}]
    BY DEF TypeOK
<1>3. \A u \in Tasks : /\ Submitted(u)' <=> Submitted(u)
                       /\ task'[u] = "done" <=> task[u] = "done"
                       /\ Success(u)' <=> Success(u)
                       /\ LandedFailed(u)' <=> LandedFailed(u)
                       /\ Landed(u)' <=> Landed(u)
    BY <1>1, <1>2 DEF Submitted, Success, LandedFailed, Landed, args
<1>4. DoneTasks' = DoneTasks
    BY <1>3 DEF DoneTasks
<1>5. ReportsKnown'
    BY <1>1, <1>2 DEF ReportsKnown
<1>6. Exchanged'
    BY <1>1, <1>3 DEF Exchanged, collectorVars
<1>7. FlagsJustified'
    BY <1>1, <1>3 DEF FlagsJustified, collectorVars
<1>8. CountExact'
    BY <1>1, <1>4 DEF CountExact, collectorVars
<1>9. OneLands'
    BY <1>1, <1>3 DEF OneLands, args
<1>10. drain = "none" /\ got = << >> /\ ret = NotReturned
    BY <1>1 DEF DrainJustified, AnswerJustified
<1>11. DrainJustified'
    BY <1>1, <1>10 DEF DrainJustified
<1>12. AnswerJustified'
    BY <1>1, <1>10 DEF AnswerJustified, NotReturned
<1> QED  BY <1>5, <1>6, <1>7, <1>8, <1>9, <1>11, <1>12

(* results.pop() moves one result to the caller without losing it.          *)
LEMMA PopStep ==
    ASSUME IndInv, TypeOK', Pop
    PROVE  IndInv'
<1> USE DEF IndInv
<1>1. /\ caller = "drain" /\ results # << >>
      /\ got' = Append(got, Head(results)) /\ results' = Tail(results)
      /\ UNCHANGED <<args, taskVars, success_flag, landed_failed_flag,
                     completed_count, caller, drain, polls, ret>>
    BY DEF Pop
<1>2. results \in Seq(Tasks) /\ got \in Seq(Tasks)
    BY DEF TypeOK
<1>3. /\ Head(results) \in Tasks
      /\ Range(results) = Range(results') \cup {Head(results)}
      /\ IsInjective(results') /\ Head(results) \notin Range(results')
    BY <1>1, <1>2, PopFacts DEF Exchanged
<1>4. Head(results) \notin Range(got)
    BY <1>3 DEF Exchanged
<1>5. /\ Range(got') = Range(got) \cup {Head(results)}
      /\ IsInjective(got')
    BY <1>1, <1>2, <1>3, <1>4, AppendFacts DEF Exchanged
<1>6. \A u \in Tasks : /\ Submitted(u)' <=> Submitted(u)
                       /\ Success(u)' <=> Success(u)
                       /\ LandedFailed(u)' <=> LandedFailed(u)
                       /\ Landed(u)' <=> Landed(u)
    BY <1>1 DEF Submitted, Success, LandedFailed, Landed, args, taskVars
<1>7. Exchanged'
    BY <1>3, <1>4, <1>5, <1>6 DEF Exchanged
<1>8. ReportsKnown' /\ CountExact' /\ DoneTasks' = DoneTasks
    BY <1>1 DEF ReportsKnown, CountExact, DoneTasks, taskVars
<1>9. FlagsJustified'
    BY <1>1, <1>6 DEF FlagsJustified
<1>10. OneLands'
    BY <1>1, <1>6 DEF OneLands, args, taskVars
<1>11. DrainJustified'
    BY <1>1, <1>8 DEF DrainJustified
<1>12. AnswerJustified'
    BY <1>1 DEF AnswerJustified, NotReturned
<1> QED  BY <1>7, <1>8, <1>9, <1>10, <1>11, <1>12

(* When a drain loop finds the queue empty, it has popped every result that   *)
(* was submitted; a flag it was entered for thus has its result among them.   *)
LEMMA Drained ==
    ASSUME IndInv, results = << >>
    PROVE  /\ \A t \in Tasks : Submitted(t) <=> t \in Range(got)
           /\ success_flag => HasSuccess(got)
           /\ landed_failed_flag => \E i \in DOMAIN got : LandedFailed(got[i])
           /\ DoneTasks = Tasks => Range(got) = Tasks /\ got # << >>
<1> USE DEF IndInv
<1>1. \A t \in Tasks : Submitted(t) <=> t \in Range(got)
    BY DEF Exchanged, Range
<1>2. success_flag => HasSuccess(got)
    BY <1>1 DEF FlagsJustified, HasSuccess, Range
<1>3. landed_failed_flag => \E i \in DOMAIN got : LandedFailed(got[i])
    BY <1>1 DEF FlagsJustified, Range
<1>4. ASSUME DoneTasks = Tasks PROVE Range(got) = Tasks /\ got # << >>
    <2>1. \A t \in Tasks : t \in Range(got)
        BY <1>1, <1>4 DEF DoneTasks, Submitted
    <2>2. got \in Seq(Tasks)
        BY DEF TypeOK
    <2>3. Range(got) \subseteq Tasks
        BY <2>2 DEF Range
    <2>4. 1 \in Tasks
        BY NumTasksAssumption DEF Tasks
    <2> QED  BY <2>1, <2>2, <2>3, <2>4, EmptyRange
<1> QED  BY <1>1, <1>2, <1>3, <1>4

(* The error a drain loop returns is a popped failure; there is one whenever  *)
(* it popped something and nothing of it succeeded.                           *)
LEMMA ErrorFacts ==
    ASSUME IndInv
    PROVE  /\ LastError(got) # 0 =>
                /\ LastError(got) \in Range(got)
                /\ outcome[LastError(got)] \in Errors
           /\ got # << >> /\ ~HasSuccess(got) => LastError(got) # 0
           /\ (\E i \in DOMAIN got : LandedFailed(got[i])) =>
                /\ LandedError(got) # 0
                /\ LandedError(got) \in Range(got)
                /\ LandedFailed(LandedError(got))
<1>1. got \in Seq(Tasks) /\ \A i \in DOMAIN got : got[i] \in Tasks /\ got[i] # 0
    <2>1. got \in Seq(Tasks)
        BY DEF IndInv, TypeOK
    <2>2. \A t \in Tasks : t # 0
        BY NumTasksAssumption DEF Tasks
    <2> QED  BY <2>1, <2>2
<1> DEFINE I == {i \in DOMAIN got : outcome[got[i]] \in Errors}
           J == {i \in DOMAIN got : LandedFailed(got[i])}
<1>2. /\ I = {} => LastError(got) = 0
      /\ I # {} => \E m \in I : LastError(got) = got[m]
    BY <1>1, LastInIsMember DEF LastError
<1>3. J # {} => \E m \in J : LandedError(got) = got[m]
    BY <1>1, LastInIsMember DEF LandedError
<1>4. ASSUME got # << >>, ~HasSuccess(got) PROVE I # {}
    <2>1. 1 \in DOMAIN got /\ got[1] \in Range(got) /\ got[1] \in Tasks
        BY <1>1, <1>4 DEF Range
    <2>2. Submitted(got[1])
        BY <2>1 DEF IndInv, Exchanged
    <2>3. outcome[got[1]] # "none" /\ outcome[got[1]] # "ok"
        BY <1>4, <2>1, <2>2 DEF IndInv, ReportsKnown, Submitted, HasSuccess, Success
    <2>4. outcome[got[1]] \in Errors
        BY <2>1, <2>3 DEF IndInv, TypeOK, Reports
    <2> QED  BY <2>1, <2>4
<1> QED  BY <1>1, <1>2, <1>3, <1>4 DEF Range

(* The end of a drain loop, with or without an answer, keeps the            *)
(* invariant; an answer is justified by the results that were popped.       *)
LEMMA EndDrainStep ==
    ASSUME IndInv, TypeOK', EndDrain
    PROVE  IndInv'
<1>1. /\ caller = "drain" /\ results = << >>
      /\ UNCHANGED <<args, taskVars, collectorVars, drain, polls>>
      /\ EndSuccessDrain \/ EndLandedDrain \/ EndFinalDrain
    BY DEF EndDrain
<1>2. /\ success_flag => HasSuccess(got)
      /\ landed_failed_flag => \E i \in DOMAIN got : LandedFailed(got[i])
      /\ DoneTasks = Tasks => got # << >>
    BY <1>1, Drained
<1>3. HasSuccess(got) \in BOOLEAN /\ (HasSuccess(got) => got # << >>)
    BY DEF HasSuccess
<1>4. /\ got' = got
      /\ \/ /\ drain = "success"
            /\ HasSuccess(got)
            /\ Return("result", TRUE, got, 0)
         \/ /\ drain = "landed"
            /\ \E i \in DOMAIN got : LandedFailed(got[i])
            /\ Return("result", FALSE, got, LandedError(got))
         \/ /\ drain \in {"all", "late"} /\ got # << >>
            /\ Return("result", HasSuccess(got), got, LastError(got))
         \/ /\ drain = "late"
            /\ ret'.kind # "result" /\ caller' = "returned"
    <2>1. CASE EndSuccessDrain
        BY <1>2, <2>1 DEF EndSuccessDrain, IndInv, DrainJustified
    <2>2. CASE EndLandedDrain
        <3>1. drain = "landed" /\ got' = got
            BY <2>2 DEF EndLandedDrain
        <3>2. \E i \in DOMAIN got : LandedFailed(got[i])
            BY <1>2, <3>1 DEF IndInv, DrainJustified
        <3>3. got # << >>
            BY <3>2
        <3> QED  BY <2>2, <3>1, <3>2, <3>3 DEF EndLandedDrain
    <2>3. CASE EndFinalDrain
        <3>1. drain = "all" => got # << >>
            BY <1>2 DEF IndInv, DrainJustified
        <3> QED  BY <2>3, <3>1 DEF EndFinalDrain, Return
    <2> QED  BY <1>1, <2>1, <2>2, <2>3
<1>5. ReportsKnown' /\ Exchanged' /\ FlagsJustified' /\ CountExact' /\ OneLands'
    BY <1>1, <1>4, Frame
<1>6. DoneTasks' = DoneTasks
    BY <1>1 DEF DoneTasks, taskVars
<1>7. caller' = "returned"
    BY <1>4 DEF Return
<1>8. DrainJustified'
    BY <1>1, <1>4, <1>6, <1>7 DEF IndInv, DrainJustified, collectorVars
<1>9. AnswerJustified'
    <2>1. /\ HasSuccess(got)' <=> HasSuccess(got)
          /\ outcome' = outcome /\ results' = results
        BY <1>1, <1>4 DEF HasSuccess, Success, taskVars, collectorVars
    <2>2. \A t : LandedFailed(t)' <=> LandedFailed(t)
        BY <2>1 DEF LandedFailed
    <2>3. \A t : LandedFailed(t) => outcome[t] \in Errors
        BY DEF LandedFailed, is_landed_error, Errors
    <2>4. CASE drain = "success"
        BY <1>1, <1>3, <1>4, <1>7, <2>1, <2>4 DEF AnswerJustified, Return
    <2>5. CASE drain = "landed"
        BY <1>1, <1>3, <1>4, <1>7, <2>1, <2>2, <2>3, <2>5, ErrorFacts
           DEF AnswerJustified, Return
    <2>6. CASE drain \in {"all", "late"}
        <3>1. \/ Return("result", HasSuccess(got), got, LastError(got)) /\ got # << >>
              \/ drain = "late" /\ ret'.kind # "result"
            BY <1>4, <2>6
        <3>2. CASE Return("result", HasSuccess(got), got, LastError(got)) /\ got # << >>
            BY <1>1, <1>3, <1>4, <1>7, <2>1, <2>6, <3>2, ErrorFacts
               DEF AnswerJustified, Return
        <3>3. CASE drain = "late" /\ ret'.kind # "result"
            BY <1>1, <1>7, <3>3 DEF AnswerJustified
        <3> QED  BY <3>1, <3>2, <3>3
    <2> QED  BY <1>1, <1>4, <2>4, <2>5, <2>6
<1> QED  BY <1>5, <1>8, <1>9 DEF IndInv

(* Facts every step of a task rests on: the results the caller has popped     *)
(* are of tasks that submitted, and their outcomes no longer change.          *)
LEMMA StableAnswer ==
    ASSUME IndInv, UNCHANGED <<args, callerVars>>,
           \A u \in Tasks : Submitted(u) => outcome'[u] = outcome[u],
           drain = "all" => results' = results
    PROVE  AnswerJustified'
<1> USE DEF IndInv
<1>1. UNCHANGED <<caller, drain, got, ret>>
    BY DEF callerVars
<1>2. got \in Seq(Tasks)
    BY DEF TypeOK
<1>3. \A u \in Range(got) : u \in Tasks /\ outcome'[u] = outcome[u]
    BY <1>2 DEF Exchanged, Range
<1>4. HasSuccess(got)' <=> HasSuccess(got)
    BY <1>1, <1>3 DEF HasSuccess, Success, Range
<1>5. \A u \in Range(got) : LandedFailed(u)' <=> LandedFailed(u)
    BY <1>3 DEF LandedFailed
<1> QED  BY <1>1, <1>3, <1>4, <1>5 DEF AnswerJustified, NotReturned

(* Building the transaction keeps the invariant.                            *)
LEMMA BuildStep ==
    ASSUME IndInv, TypeOK', NEW t \in Tasks, Build(t)
    PROVE  IndInv'
<1> USE DEF IndInv
<1>1. /\ task[t] = "build"
      /\ UNCHANGED <<args, collectorVars, callerVars>>
      /\ \/ \E p \in {"send", "panicked"} :
               task' = [task EXCEPT ![t] = p] /\ outcome' = outcome
         \/ /\ task' = [task EXCEPT ![t] = "push"]
            /\ outcome' = [outcome EXCEPT ![t] = "build"]
    BY DEF Build
<1>2. /\ task \in [Tasks -> {"unspawned", "build", "send", "push", "flag", "count",
                            "done", "panicked"}]
      /\ outcome \in [Tasks -> Reports \cup {"none"}]
    BY DEF TypeOK
<1>3. ReportsKnown'
    BY <1>1, <1>2 DEF ReportsKnown
<1>4. \A u \in Tasks : /\ Submitted(u)' <=> Submitted(u)
                       /\ Submitted(u) => outcome'[u] = outcome[u]
                       /\ task'[u] = "done" <=> task[u] = "done"
    BY <1>1, <1>2 DEF Submitted
<1>5. \A u \in Tasks : outcome'[u] = outcome[u] \/ outcome'[u] = "build"
    BY <1>1, <1>2
<1>6. \A u \in Tasks : Landed(u)' => Landed(u)
    BY <1>1, <1>5 DEF Landed, TradeErrors, args
<1>7. DoneTasks' = DoneTasks
    BY <1>4 DEF DoneTasks
<1>8. Exchanged'
    BY <1>1, <1>4 DEF Exchanged, collectorVars, callerVars
<1>9. FlagsJustified'
    BY <1>1, <1>4 DEF FlagsJustified, Success, LandedFailed, collectorVars
<1>10. CountExact'
    BY <1>1, <1>7 DEF CountExact, collectorVars
<1>11. DrainJustified'
    BY <1>1, <1>7 DEF DrainJustified, collectorVars, callerVars
<1>12. OneLands'
    BY <1>1, <1>5, <1>6 DEF OneLands, TradeErrors, args
<1>13. AnswerJustified'
    BY <1>1, <1>4, StableAnswer DEF collectorVars
<1> QED  BY <1>3, <1>8, <1>9, <1>10, <1>11, <1>12, <1>13

(* send_transaction's outcome keeps the invariant; under a nonce only one   *)
(* transaction is reported as landed.                                       *)
LEMMA SendStep ==
    ASSUME IndInv, TypeOK', NEW t \in Tasks, Send(t)
    PROVE  IndInv'
<1> USE DEF IndInv
<1>1. PICK r \in SendReports : outcome' = [outcome EXCEPT ![t] = r]
    BY DEF Send
<1>2. /\ task[t] = "send" /\ task' = [task EXCEPT ![t] = "push"]
      /\ UNCHANGED <<args, collectorVars, callerVars>>
    BY DEF Send
<1>3. /\ task \in [Tasks -> {"unspawned", "build", "send", "push", "flag", "count",
                            "done", "panicked"}]
      /\ outcome \in [Tasks -> Reports \cup {"none"}]
    BY DEF TypeOK
<1>4. /\ r # "none"
      /\ ~wait => r \notin TradeErrors
      /\ wait /\ nonce /\ r \in {"ok"} \cup TradeErrors => \A u \in Tasks : ~Landed(u)
    BY DEF SendReports, TradeErrors
<1>5. ReportsKnown'
    BY <1>1, <1>2, <1>3, <1>4 DEF ReportsKnown
<1>6. \A u \in Tasks : /\ Submitted(u)' <=> Submitted(u)
                       /\ Submitted(u) => outcome'[u] = outcome[u]
                       /\ task'[u] = "done" <=> task[u] = "done"
    BY <1>1, <1>2, <1>3 DEF Submitted
<1>7. DoneTasks' = DoneTasks
    BY <1>6 DEF DoneTasks
<1>8. Exchanged'
    BY <1>2, <1>6 DEF Exchanged, collectorVars, callerVars
<1>9. FlagsJustified'
    BY <1>2, <1>6 DEF FlagsJustified, Success, LandedFailed, collectorVars
<1>10. CountExact'
    BY <1>2, <1>7 DEF CountExact, collectorVars
<1>11. DrainJustified'
    BY <1>2, <1>7 DEF DrainJustified, collectorVars, callerVars
<1>12. OneLands'
    <2>1. \A u \in Tasks : outcome'[u] = IF u = t THEN r ELSE outcome[u]
        BY <1>1, <1>3
    <2>2. \A u \in Tasks : u # t => (Landed(u)' <=> Landed(u))
        BY <1>2, <2>1 DEF Landed, args
    <2>3. Landed(t)' => wait /\ r \in {"ok"} \cup TradeErrors
        BY <1>2, <2>1 DEF Landed, args
    <2>4. ~wait' => \A u \in Tasks : outcome'[u] \notin TradeErrors
        BY <1>2, <1>4, <2>1 DEF OneLands, args
    <2>5. nonce' => \A u, v \in Tasks : Landed(u)' /\ Landed(v)' => u = v
        BY <1>2, <1>4, <2>2, <2>3 DEF OneLands, args
    <2> QED  BY <2>4, <2>5 DEF OneLands
<1>13. AnswerJustified'
    BY <1>2, <1>6, StableAnswer DEF collectorVars
<1> QED  BY <1>5, <1>8, <1>9, <1>10, <1>11, <1>12, <1>13

(* The push of `submit` finds a free slot and keeps the invariant.          *)
LEMMA PushStep ==
    ASSUME IndInv, TypeOK', NEW t \in Tasks, SubmitPush(t)
    PROVE  IndInv'
<1> USE DEF IndInv
<1>1. /\ task[t] = "push" /\ task' = [task EXCEPT ![t] = "flag"]
      /\ results' = IF Len(results) < Capacity THEN Append(results, t) ELSE results
      /\ UNCHANGED <<args, outcome, success_flag, landed_failed_flag,
                     completed_count, callerVars>>
    BY DEF SubmitPush
<1>2. /\ task \in [Tasks -> {"unspawned", "build", "send", "push", "flag", "count",
                            "done", "panicked"}]
      /\ results \in Seq(Tasks) /\ got \in Seq(Tasks)
    BY DEF TypeOK
<1>3. t \notin Range(results) /\ t \notin Range(got)
    BY <1>1 DEF Exchanged, Submitted
<1>4. results' = Append(results, t)
    BY <1>1, <1>2, <1>3, FreeSlot DEF Exchanged, Capacity
<1>5. Range(results') = Range(results) \cup {t} /\ IsInjective(results')
    BY <1>2, <1>3, <1>4, AppendFacts DEF Exchanged
<1>6. \A u \in Tasks : /\ Submitted(u)' <=> (Submitted(u) \/ u = t)
                       /\ task'[u] = "done" <=> task[u] = "done"
    BY <1>1, <1>2 DEF Submitted
<1>7. DoneTasks' = DoneTasks
    BY <1>6 DEF DoneTasks
<1>8. ReportsKnown'
    BY <1>1, <1>2 DEF ReportsKnown
<1>9. Exchanged'
    BY <1>1, <1>3, <1>5, <1>6 DEF Exchanged, callerVars
<1>10. FlagsJustified'
    BY <1>1, <1>6 DEF FlagsJustified, Success, LandedFailed
<1>11. CountExact'
    BY <1>1, <1>7 DEF CountExact
<1>12. DrainJustified'
    BY <1>1, <1>7 DEF DrainJustified, callerVars
<1>13. OneLands'
    BY <1>1 DEF OneLands, Landed, args
<1>14. drain # "all"
    BY <1>1 DEF DrainJustified, DoneTasks
<1>15. AnswerJustified'
    BY <1>1, <1>14, StableAnswer
<1> QED  BY <1>8, <1>9, <1>10, <1>11, <1>12, <1>13, <1>15

(* A flag is raised only after its result was pushed.                       *)
LEMMA FlagStep ==
    ASSUME IndInv, TypeOK', NEW t \in Tasks, SubmitFlag(t)
    PROVE  IndInv'
<1> USE DEF IndInv
<1>1. /\ task[t] = "flag" /\ task' = [task EXCEPT ![t] = "count"]
      /\ success_flag' = (success_flag \/ Success(t))
      /\ landed_failed_flag' = (landed_failed_flag \/ LandedFailed(t))
      /\ UNCHANGED <<args, outcome, results, completed_count, callerVars>>
    BY DEF SubmitFlag
<1>2. task \in [Tasks -> {"unspawned", "build", "send", "push", "flag", "count",
                        "done", "panicked"}]
    BY DEF TypeOK
<1>3. \A u \in Tasks : /\ Submitted(u)' <=> Submitted(u)
                       /\ task'[u] = "done" <=> task[u] = "done"
                       /\ Success(u)' <=> Success(u)
                       /\ LandedFailed(u)' <=> LandedFailed(u)
    BY <1>1, <1>2 DEF Submitted, Success, LandedFailed
<1>4. Submitted(t)
    BY <1>1 DEF Submitted
<1>5. DoneTasks' = DoneTasks
    BY <1>3 DEF DoneTasks
<1>6. ReportsKnown'
    BY <1>1, <1>2 DEF ReportsKnown
<1>7. Exchanged'
    BY <1>1, <1>3 DEF Exchanged, callerVars
<1>8. FlagsJustified'
    BY <1>1, <1>3, <1>4 DEF FlagsJustified
<1>9. CountExact'
    BY <1>1, <1>5 DEF CountExact
<1>10. DrainJustified'
    BY <1>1, <1>5 DEF DrainJustified, callerVars
<1>11. OneLands'
    BY <1>1 DEF OneLands, Landed, args
<1>12. AnswerJustified'
    BY <1>1, StableAnswer
<1> QED  BY <1>6, <1>7, <1>8, <1>9, <1>10, <1>11, <1>12

(* fetch_add on completed_count keeps it equal to the finished tasks.       *)
LEMMA CountStep ==
    ASSUME IndInv, TypeOK', NEW t \in Tasks, SubmitCount(t)
    PROVE  IndInv'
<1> USE DEF IndInv
<1>1. /\ task[t] = "count" /\ task' = [task EXCEPT ![t] = "done"]
      /\ completed_count' = completed_count + 1
      /\ UNCHANGED <<args, outcome, results, success_flag, landed_failed_flag, callerVars>>
    BY DEF SubmitCount
<1>2. task \in [Tasks -> {"unspawned", "build", "send", "push", "flag", "count",
                        "done", "panicked"}]
    BY DEF TypeOK
<1>3. \A u \in Tasks : Submitted(u)' <=> Submitted(u)
    BY <1>1, <1>2 DEF Submitted
<1>4. DoneTasks' = DoneTasks \cup {t} /\ t \notin DoneTasks
    BY <1>1, <1>2 DEF DoneTasks
<1>5. CountExact'
    <2>1. IsFiniteSet(DoneTasks)
        <3>1. IsFiniteSet(Tasks)
            BY FS_Interval, NumTasksAssumption DEF Tasks
        <3>2. DoneTasks \in SUBSET Tasks
            BY DEF DoneTasks
        <3> QED  BY <3>1, <3>2, FS_Subset
    <2>2. Cardinality(DoneTasks') = Cardinality(DoneTasks) + 1
        BY <1>4, <2>1, FS_AddElement
    <2> QED  BY <1>1, <2>2 DEF CountExact
<1>6. ReportsKnown'
    BY <1>1, <1>2 DEF ReportsKnown
<1>7. Exchanged'
    BY <1>1, <1>3 DEF Exchanged, callerVars
<1>8. FlagsJustified'
    BY <1>1, <1>3 DEF FlagsJustified, Success, LandedFailed
<1>9. DrainJustified'
    BY <1>1, <1>4 DEF DrainJustified, callerVars
<1>10. OneLands'
    BY <1>1 DEF OneLands, Landed, args
<1>11. AnswerJustified'
    BY <1>1, StableAnswer
<1> QED  BY <1>5, <1>6, <1>7, <1>8, <1>9, <1>10, <1>11

(* Every step keeps the inductive invariant.                                *)
LEMMA InvStep ==
    ASSUME IndInv, [Next]_vars
    PROVE  IndInv'
<1>1. TypeOK'
    BY TypeStep DEF IndInv
<1>2. CASE UNCHANGED vars
    <2>1. UNCHANGED <<args, taskVars, collectorVars, got>> /\ UNCHANGED callerVars
        BY <1>2 DEF vars, callerVars
    <2>2. ReportsKnown' /\ Exchanged' /\ FlagsJustified' /\ CountExact' /\ OneLands'
        BY <2>1, Frame
    <2>3. DrainJustified'
        BY <2>1 DEF IndInv, DrainJustified, DoneTasks, taskVars, collectorVars, callerVars
    <2>4. AnswerJustified'
        BY <2>1, StableAnswer DEF taskVars, collectorVars
    <2> QED  BY <1>1, <2>2, <2>3, <2>4 DEF IndInv
<1> QED
    BY <1>1, <1>2, PollingStep, SpawnStep, PopStep, EndDrainStep, BuildStep, SendStep,
       PushStep, FlagStep, CountStep DEF Next, Caller, Task

(* Every reachable state of the submitter satisfies the inductive invariant.   *)
THEOREM Invariance == Spec => []IndInv
<1>1. Init => IndInv
    BY InitInv
<1>2. IndInv /\ [Next]_vars => IndInv'
    BY InvStep
<1> QED  BY <1>1, <1>2, PTL DEF Spec

-----------------------------------------------------------------------------
(* The safety properties follow from the invariant.                         *)

(* Distinct results are as many as the sequence is long.                      *)
LEMMA DistinctCount ==
    ASSUME NEW s \in Seq(Tasks), IsInjective(s)
    PROVE  IsFiniteSet(Range(s)) /\ Cardinality(Range(s)) = Len(s)
<1>1. Len(s) \in Nat /\ s \in [1..Len(s) -> Range(s)] /\ DOMAIN s = 1..Len(s)
    BY DEF Range
<1>2. IsFiniteSet(1..Len(s)) /\ Cardinality(1..Len(s)) = Len(s)
    <2>1. /\ IsFiniteSet(1..Len(s))
          /\ Cardinality(1..Len(s)) = IF 1 > Len(s) THEN 0 ELSE Len(s) - 1 + 1
        BY <1>1, FS_Interval
    <2> QED  BY <1>1, <2>1
<1>3. s \in Surjection(1..Len(s), Range(s)) /\ s \in Injection(1..Len(s), Range(s))
    BY <1>1 DEF Surjection, Injection, IsInjective, Range
<1> QED  BY <1>2, <1>3, FS_Surjection

(* The inductive invariant implies that no result is lost or doubled.       *)
LEMMA ConservedByInv ==
    ASSUME IndInv
    PROVE  ResultsConserved
<1>1. results \in Seq(Tasks) /\ got \in Seq(Tasks)
    BY DEF IndInv, TypeOK
<1>2. /\ IsFiniteSet(Range(results)) /\ Cardinality(Range(results)) = Len(results)
      /\ IsFiniteSet(Range(got)) /\ Cardinality(Range(got)) = Len(got)
    BY <1>1, DistinctCount DEF IndInv, Exchanged
<1>3. Range(results) \cap Range(got) = {}
    BY <1>1 DEF IndInv, Exchanged, Range
<1>4. Cardinality(Taken) = Len(results) + Len(got) - Cardinality({})
    <2> DEFINE R == Range(results)
               G == Range(got)
    <2>1. IsFiniteSet(R) /\ IsFiniteSet(G)
        BY <1>2
    <2> HIDE DEF R, G
    <2>2. Cardinality(R \cup G) = Cardinality(R) + Cardinality(G) - Cardinality(R \cap G)
        BY <2>1, FS_Union
    <2> QED  BY <1>2, <1>3, <2>2 DEF Taken, R, G
<1>5. Cardinality(Taken) = Len(results) + Len(got)
    BY <1>1, <1>4, FS_EmptySet
<1> QED  BY <1>5 DEF ResultsConserved, IndInv, Exchanged, Taken

(* However many tasks there are, the bounded queue loses no result, the       *)
(* ignored push never fails and no drain loop drops what it popped.           *)
THEOREM Conservation == Spec => []ResultsConserved
<1>1. IndInv => ResultsConserved
    BY ConservedByInv
<1> QED  BY <1>1, Invariance, PTL

(* The drain loop entered on success_flag always finds the success.           *)
THEOREM SuccessFound == Spec => []SuccessDrainFindsSuccess
<1>1. IndInv => SuccessDrainFindsSuccess
    BY Drained DEF SuccessDrainFindsSuccess, IndInv, DrainJustified
<1> QED  BY <1>1, Invariance, PTL

(* A call that leaves its loop on completed_count returns every task's        *)
(* result.                                                                    *)
THEOREM Completeness == Spec => []CompleteWhenAllCounted
<1>1. ASSUME IndInv PROVE CompleteWhenAllCounted
    <2>1. SUFFICES ASSUME caller = "returned", drain = "all"
                   PROVE  ret.kind = "result" /\ Range(ret.sigs) = Tasks
        BY DEF CompleteWhenAllCounted
    <2>2. ret.kind = "result" /\ results = << >> /\ ret.sigs = got
        BY <1>1, <2>1 DEF IndInv, AnswerJustified
    <2>3. DoneTasks = Tasks
        BY <1>1, <2>1 DEF IndInv, DrainJustified
    <2> QED  BY <1>1, <2>2, <2>3, Drained
<1> QED  BY <1>1, Invariance, PTL

(* Once something is known to have failed on chain and the transactions share *)
(* a nonce, none of them succeeds.                                            *)
LEMMA NoOtherSuccess ==
    ASSUME IndInv, NEW e \in Tasks, LandedFailed(e)
    PROVE  /\ wait
           /\ outcome[e] \in TradeErrors
           /\ nonce => \A t \in Tasks : ~Success(t)
<1>1. outcome[e] \in TradeErrors
    BY DEF LandedFailed, is_landed_error
<1>2. wait
    BY <1>1 DEF IndInv, OneLands, TypeOK
<1>3. ASSUME nonce, NEW t \in Tasks, Success(t) PROVE FALSE
    <2>1. Landed(e) /\ Landed(t)
        BY <1>1, <1>2, <1>3 DEF Landed, Success
    <2>2. e = t
        BY <1>3, <2>1 DEF IndInv, OneLands
    <2> QED  BY <1>1, <1>3, <2>2 DEF Success, TradeErrors
<1> QED  BY <1>1, <1>2, <1>3

(* The answer of the early exit names a result that landed and failed.      *)
LEMMA LandedAnswer ==
    ASSUME IndInv, ret.kind = "result", drain = "landed"
    PROVE  ret.err # 0 /\ ret.err \in Tasks /\ LandedFailed(ret.err) /\ ~ret.success
BY DEF IndInv, AnswerJustified, TypeOK

(* Under a durable nonce, or without confirmation, the flag a call returns    *)
(* agrees with the outcomes of the signatures it returns.                     *)
THEOREM FlagAgreement == Spec => []FlagAgreesWithSignatures
<1>1. ASSUME IndInv PROVE FlagAgreesWithSignatures
    <2> SUFFICES ASSUME ret.kind = "result", nonce \/ ~wait
                 PROVE  ret.success <=> HasSuccess(ret.sigs)
        BY DEF FlagAgreesWithSignatures
    <2>1. ret.sigs = got
        BY <1>1 DEF IndInv, AnswerJustified
    <2>2. CASE drain # "landed"
        BY <1>1, <2>1, <2>2 DEF IndInv, AnswerJustified
    <2>3. CASE drain = "landed"
        <3>1. ret.err \in Tasks /\ LandedFailed(ret.err) /\ ~ret.success
            BY <1>1, <2>3, LandedAnswer
        <3>2. \A t \in Tasks : ~Success(t)
            BY <1>1, <3>1, NoOtherSuccess
        <3>3. got \in Seq(Tasks)
            BY <1>1 DEF IndInv, TypeOK
        <3> QED  BY <2>1, <3>1, <3>2, <3>3 DEF HasSuccess
    <2> QED  BY <2>2, <2>3
<1> QED  BY <1>1, Invariance, PTL

(* The early exit reports a transaction that failed on chain; with a durable  *)
(* nonce nothing else succeeds, before or after it.                           *)
THEOREM EarlyExit == Spec => []EarlyExitJustified
<1>1. ASSUME IndInv PROVE EarlyExitJustified
    BY <1>1, LandedAnswer, NoOtherSuccess DEF EarlyExitJustified
<1> QED  BY <1>1, Invariance, PTL

-----------------------------------------------------------------------------
(* The submitter implements ResultExchange.  The push of a result is the      *)
(* abstract Report, the caller's return the abstract Answer, every other      *)
(* step a stutter.                                                            *)

(* Initial states map to initial states of ResultExchange.                  *)
LEMMA RefinementInit == Init => RX!Init
<1> SUFFICES ASSUME Init PROVE RX!Init
    OBVIOUS
<1>1. \A t \in Tasks : ~Submitted(t)
    BY DEF Init, Submitted
<1>2. Reported = [t \in Tasks |-> "none"]
    BY <1>1 DEF Reported
<1>3. ret.kind = "none"
    BY DEF Init, NotReturned
<1> QED  BY <1>2, <1>3 DEF RX!Init, RX!Tasks, Tasks

(* Steps that neither push nor return.                                        *)
LEMMA Unreported ==
    ASSUME \A t \in Tasks : Submitted(t)' <=> Submitted(t),
           \A t \in Tasks : Submitted(t) => outcome'[t] = outcome[t]
    PROVE  Reported' = Reported
BY DEF Reported

(* A task's step other than the push is a stutter of ResultExchange.        *)
LEMMA QuietTaskStep ==
    ASSUME IndInv, NEW t \in Tasks,
           Build(t) \/ Send(t) \/ SubmitFlag(t) \/ SubmitCount(t)
    PROVE  Reported' = Reported /\ ret' = ret
<1>1. /\ task \in [Tasks -> {"unspawned", "build", "send", "push", "flag", "count",
                            "done", "panicked"}]
      /\ outcome \in [Tasks -> Reports \cup {"none"}]
    BY DEF IndInv, TypeOK
<1>2. ret' = ret
    BY DEF Build, Send, SubmitFlag, SubmitCount, callerVars
<1>3. CASE Build(t)
    BY <1>1, <1>2, <1>3, Unreported DEF Build, Submitted
<1>4. CASE Send(t)
    BY <1>1, <1>2, <1>4, Unreported DEF Send, Submitted
<1>5. CASE SubmitFlag(t)
    BY <1>1, <1>2, <1>5, Unreported DEF SubmitFlag, Submitted
<1>6. CASE SubmitCount(t)
    BY <1>1, <1>2, <1>6, Unreported DEF SubmitCount, Submitted
<1> QED  BY <1>3, <1>4, <1>5, <1>6

(* The push is the Report step of ResultExchange.                           *)
LEMMA PushIsReport ==
    ASSUME IndInv, NEW t \in Tasks, SubmitPush(t)
    PROVE  RX!Report(t)
<1>1. /\ task[t] = "push" /\ task' = [task EXCEPT ![t] = "flag"]
      /\ UNCHANGED <<outcome, ret>>
    BY DEF SubmitPush, callerVars
<1>2. /\ task \in [Tasks -> {"unspawned", "build", "send", "push", "flag", "count",
                            "done", "panicked"}]
      /\ outcome[t] \in Reports
    BY <1>1 DEF IndInv, TypeOK, ReportsKnown
<1>3. /\ ~Submitted(t) /\ Submitted(t)'
      /\ \A u \in Tasks : u # t => (Submitted(u)' <=> Submitted(u))
    BY <1>1, <1>2 DEF Submitted
<1>4. Reported[t] = "none"
    BY <1>3 DEF Reported
<1>5. Reported' = [Reported EXCEPT ![t] = outcome[t]]
    BY <1>1, <1>3 DEF Reported
<1>6. outcome[t] \in {"ok", "build", "send", "landed", "landed0"}
    BY <1>2 DEF Reports, Errors, TradeErrors
<1> QED  BY <1>1, <1>4, <1>5, <1>6 DEF RX!Report

(* The caller's steps map to Answer or to a stutter.                        *)
LEMMA CallerStepRefines ==
    ASSUME IndInv, IndInv', Caller
    PROVE  RX!Answer \/ UNCHANGED <<Reported, ret>>
<1>1. \A t \in Tasks : (Submitted(t)' <=> Submitted(t)) /\ outcome'[t] = outcome[t]
    <2>1. ASSUME NEW t \in Tasks, Spawn(t)
          PROVE  \A u \in Tasks : (Submitted(u)' <=> Submitted(u)) /\ outcome'[u] = outcome[u]
        BY <2>1 DEF Spawn, IsNext, Submitted, IndInv, TypeOK
    <2>2. ASSUME UNCHANGED taskVars
          PROVE  \A u \in Tasks : (Submitted(u)' <=> Submitted(u)) /\ outcome'[u] = outcome[u]
        BY <2>2 DEF taskVars, Submitted
    <2> QED
        BY <2>1, <2>2 DEF Caller, Start, TipAccountFails, CheckSuccess, CheckLanded,
                          CheckCount, TimeIsUp, Sleep, Pop, EndDrain
<1>2. Reported' = Reported
    BY <1>1, Unreported
<1>3. caller # "returned"
    BY DEF Caller, Start, Spawn, TipAccountFails, CheckSuccess, CheckLanded,
           CheckCount, TimeIsUp, Sleep, Pop, EndDrain
<1>4. ret = NotReturned
    BY <1>3 DEF IndInv, AnswerJustified
<1>5. CASE caller' # "returned"
    <2>1. ret' = NotReturned
        BY <1>5 DEF IndInv, AnswerJustified
    <2> QED  BY <1>2, <1>4, <2>1
<1>6. CASE ret'.kind = "none"
    <2>1. ret' = ret
        BY <1>6 DEF Caller, Start, Spawn, TipAccountFails, CheckSuccess, CheckLanded,
               CheckCount, TimeIsUp, Sleep, Pop, EndDrain, EndSuccessDrain,
               EndLandedDrain, EndFinalDrain, Return
    <2> QED  BY <1>2, <2>1
<1>7. CASE ret'.kind = "result"
    <2>1. /\ ret'.sigs = got' /\ got' # << >> /\ got' \in Seq(Tasks) /\ IsInjective(got')
          /\ ret'.success => HasSuccess(got)'
          /\ ~ret'.success => ret'.err # 0
          /\ ret'.err # 0 => ret'.err \in Range(got') /\ outcome'[ret'.err] \in Errors
        BY <1>7 DEF IndInv, AnswerJustified, Exchanged, TypeOK
    <2>2. \A t \in Range(got') : /\ t \in Tasks
                                 /\ Reported'[t] = outcome'[t]
                                 /\ Reported'[t] # "none"
        <3>1. ASSUME NEW t \in Range(got') PROVE t \in Tasks /\ Submitted(t)'
            BY <2>1 DEF IndInv, Exchanged, Range
        <3>2. ASSUME NEW t \in Tasks, Submitted(t)'
              PROVE  Reported'[t] = outcome'[t] /\ outcome'[t] # "none"
            BY <3>2 DEF IndInv, ReportsKnown, Reported, Submitted
        <3> QED  BY <3>1, <3>2
    <2>3. \A i \in DOMAIN got' : got'[i] \in Range(got')
        BY DEF Range
    <2>4. HasSuccess(got)' => \E i \in DOMAIN got' : Reported'[got'[i]] = "ok"
        BY <2>2, <2>3 DEF HasSuccess, Success
    <2>5. ret'.err # 0 => \E i \in DOMAIN got' :
                              got'[i] = ret'.err /\ Reported'[ret'.err] # "ok"
        BY <2>1, <2>2 DEF Range, Errors, TradeErrors
    <2>6. RX!Justified(ret')
        BY <1>2, <2>1, <2>2, <2>3, <2>4, <2>5 DEF RX!Justified, RX!IsInjective, IsInjective
    <2> QED  BY <1>2, <1>4, <1>7, <2>6 DEF RX!Answer, NotReturned
<1>8. CASE ret'.kind \notin {"none", "result"}
    BY <1>2, <1>4, <1>8 DEF RX!Answer, NotReturned
<1> QED  BY <1>5, <1>6, <1>7, <1>8

(* execute_parallel keeps the promise of ResultExchange for any number of     *)
(* tasks and any interleaving: one answer, made of distinct reported results, *)
(* successful only with a success in it, never without an explanation, and    *)
(* untouched by tasks that report late.                                       *)
THEOREM Refinement == Spec => KeepsPromise
<1>1. Init => RX!Init
    BY RefinementInit
<1>2. ASSUME IndInv, IndInv', [Next]_vars PROVE [RX!Next]_(RX!vars)
    <2>1. CASE Caller
        BY <1>2, <2>1, CallerStepRefines DEF RX!Next, RX!vars
    <2>2. ASSUME NEW t \in Tasks, Task(t) PROVE [RX!Next]_(RX!vars)
        BY <1>2, <2>2, QuietTaskStep, PushIsReport
           DEF Task, RX!Next, RX!vars, RX!Tasks, Tasks
    <2>3. CASE UNCHANGED vars
        <3>1. UNCHANGED <<task, outcome, ret>>
            BY <2>3 DEF vars, taskVars, callerVars
        <3>2. Reported' = Reported
            BY <3>1, Unreported DEF Submitted
        <3> QED  BY <3>1, <3>2 DEF RX!vars
    <2> QED  BY <1>2, <2>1, <2>2, <2>3 DEF Next
<1> QED  BY <1>1, <1>2, Invariance, PTL DEF Spec, KeepsPromise, RX!Spec
=============================================================================
