--------------------------- MODULE ResultExchange ---------------------------
(***************************************************************************)
(* What `execute_parallel` promises its caller, without queue, flags,       *)
(* counter or polling: tasks report, once each, at any time; the caller     *)
(* gets one answer, which stands however many reports come in after it.     *)
(***************************************************************************)
EXTENDS Naturals, Sequences, Functions

CONSTANT NumTasks

Tasks == 1..NumTasks

VARIABLES
    report,   \* report[t]: what t has reported, or "none"
    answer    \* what the call returned; answer.kind = "none" until then

vars == <<report, answer>>

Init ==
    /\ report = [t \in Tasks |-> "none"]
    /\ answer.kind = "none"

Report(t) ==
    /\ report[t] = "none"
    /\ \E r \in {"ok", "build", "send", "landed", "landed0"} :
           report' = [report EXCEPT ![t] = r]
    /\ UNCHANGED answer

(* A result holds the signatures of tasks that have reported, none twice.   *)
(* It claims success only with a successful one among them, and otherwise   *)
(* gives the error of one of them.                                          *)
Justified(a) ==
    /\ a.sigs # << >>
    /\ IsInjective(a.sigs)
    /\ \A i \in DOMAIN a.sigs : report[a.sigs[i]] # "none"
    /\ a.success => \E i \in DOMAIN a.sigs : report[a.sigs[i]] = "ok"
    /\ ~a.success => a.err # 0
    /\ a.err # 0 => \E i \in DOMAIN a.sigs :
                        a.sigs[i] = a.err /\ report[a.err] # "ok"

Answer ==
    /\ answer.kind = "none"
    /\ answer'.kind # "none"
    /\ answer'.kind = "result" => Justified(answer')
    /\ UNCHANGED report

Next == Answer \/ \E t \in Tasks : Report(t)

Spec == Init /\ [][Next]_vars
=============================================================================
