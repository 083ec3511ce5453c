---------------------------- MODULE Confirmation ----------------------------
(***************************************************************************)
(* `poll_any_transaction_confirmation` (swqos/common.rs): the caller polls  *)
(* an RPC node for the statuses of several signatures until one of them is  *)
(* confirmed, one is known to have failed, or 15 s have passed.  The chain   *)
(* is the environment: it moves between any two RPC calls.                  *)
(***************************************************************************)
EXTENDS Naturals, Sequences, FiniteSetsExt

CONSTANTS
    Sigs,         \* signatures of transactions that may land
    NoSig,        \* landed_sig = None
    MaxSigs,      \* length of the longest list of signatures
    GetTxAfter,   \* polls before get_transaction is asked (10)
    MaxIterations \* polls that fit in the time limit (15)

ASSUME NoSigAssumption == NoSig \notin Sigs
ASSUME MaxSigsAssumption == MaxSigs \in Nat
ASSUME GetTxAfterAssumption == GetTxAfter \in Nat
ASSUME MaxIterationsAssumption == MaxIterations \in Nat

VARIABLES
    signatures,        \* argument
    wait_confirmation, \* argument
    nonce,             \* the transactions share one durable nonce
    chain,             \* chain[s]: what the cluster knows of s
    poll_count,
    landed_sig,        \* first signature seen with a status, kept for ever
    poller,            \* where the function is
    answer             \* what it returned

pollerVars == <<poll_count, landed_sig, poller, answer>>
vars == <<signatures, wait_confirmation, nonce, chain, pollerVars>>

-----------------------------------------------------------------------------
(* The cluster.  A transaction is absent, in a processed block that may     *)
(* still be abandoned ("processed", "processed_err"), or confirmed with     *)
(* success or failure ("ok", "failed").  Transactions that advance the same *)
(* nonce exclude each other on any fork, failed ones included.              *)
ChainStatus == {"absent", "processed", "processed_err", "ok", "failed"}

Land(s) ==
    /\ chain[s] = "absent"
    /\ nonce => \A u \in Sigs : chain[u] = "absent"
    /\ \E c \in {"processed", "processed_err"} : chain' = [chain EXCEPT ![s] = c]

Confirm(s) ==
    \/ chain[s] = "processed" /\ chain' = [chain EXCEPT ![s] = "ok"]
    \/ chain[s] = "processed_err" /\ chain' = [chain EXCEPT ![s] = "failed"]

Abandon(s) ==
    /\ chain[s] \in {"processed", "processed_err"}
    /\ chain' = [chain EXCEPT ![s] = "absent"]

ClusterStep(s) == Land(s) \/ Confirm(s) \/ Abandon(s)

-----------------------------------------------------------------------------
NoAnswer == [kind |-> "none", sig |-> NoSig]

Answer(kind, sig) ==
    /\ answer' = [kind |-> kind, sig |-> sig]
    /\ poller' = "returned"

PollerInit ==
    /\ poll_count = 0
    /\ landed_sig = NoSig
    /\ poller = "start"
    /\ answer = NoAnswer

Init ==
    /\ signatures \in UNION {[1..n -> Sigs] : n \in 0..MaxSigs}
    /\ wait_confirmation \in BOOLEAN
    /\ nonce \in BOOLEAN
    /\ chain = [s \in Sigs |-> "absent"]
    /\ PollerInit

(* No signature is an error; without wait_confirmation the first one is     *)
(* returned unseen.                                                         *)
Enter ==
    /\ poller = "start"
    /\ IF signatures = << >>
       THEN Answer("no_signatures", NoSig)
       ELSE IF ~wait_confirmation
            THEN Answer("ok", signatures[1])
            ELSE poller' = "check_time" /\ UNCHANGED answer
    /\ UNCHANGED <<poll_count, landed_sig>>

(* start.elapsed() >= timeout can hold at any iteration.                    *)
TimeOut ==
    /\ poller = "check_time"
    /\ Answer("timed_out", NoSig)
    /\ UNCHANGED <<poll_count, landed_sig>>

(* Fault: the loop goes on after its time limit.                            *)
IterateForEver ==
    /\ poller = "check_time"
    /\ poll_count' = poll_count + 1
    /\ poller' = "status"
    /\ UNCHANGED <<landed_sig, answer>>

Iterate ==
    /\ poller = "check_time"
    /\ poll_count < MaxIterations
    /\ poll_count' = poll_count + 1
    /\ poller' = "status"
    /\ UNCHANGED <<landed_sig, answer>>

(* get_signature_statuses fails: `?` gives up at once.                      *)
StatusesFail ==
    /\ poller = "status"
    /\ Answer("rpc_error", NoSig)
    /\ UNCHANGED <<poll_count, landed_sig>>

(* Fault: status.err is not looked at.                                      *)
ConfirmedOrFailed ==
    {i \in DOMAIN signatures : chain[signatures[i]] \in {"ok", "failed"}}

(* Indices whose status ends the wait, and indices that have a status.      *)
Confirmed == {i \in DOMAIN signatures : chain[signatures[i]] = "ok"}
Seen == {i \in DOMAIN signatures : chain[signatures[i]] # "absent"}

(* One answer of get_signature_statuses and the loop over it.               *)
Statuses ==
    /\ poller = "status"
    /\ IF Confirmed # {}
       THEN Answer("ok", signatures[Min(Confirmed)]) /\ UNCHANGED landed_sig
       ELSE /\ landed_sig' = IF landed_sig = NoSig /\ Seen # {}
                             THEN signatures[Min(Seen)]
                             ELSE landed_sig
            /\ poller' = IF landed_sig' = NoSig \/ poll_count < GetTxAfter
                         THEN "check_time"
                         ELSE "get_transaction"
            /\ UNCHANGED answer
    /\ UNCHANGED poll_count

(* get_transaction fails or has no meta yet: sleep and poll again.          *)
TransactionUnknown ==
    /\ poller = "get_transaction"
    /\ poller' = "check_time"
    /\ UNCHANGED <<poll_count, landed_sig, answer>>

(* Fault: the transaction is asked for at commitment "processed".           *)
TransactionKnownProcessed ==
    /\ poller = "get_transaction"
    /\ \/ chain[landed_sig] = "ok" /\ Answer("ok", landed_sig)
       \/ chain[landed_sig] \in {"processed_err", "failed"} /\ Answer("trade_error", landed_sig)
    /\ UNCHANGED <<poll_count, landed_sig>>

(* get_transaction answers, at commitment "confirmed": success, or a        *)
(* TradeError (or an error of its conversion from JSON).                    *)
TransactionKnown ==
    /\ poller = "get_transaction"
    /\ \/ chain[landed_sig] = "ok" /\ Answer("ok", landed_sig)
       \/ chain[landed_sig] = "failed" /\ Answer("trade_error", landed_sig)
       \/ chain[landed_sig] = "failed" /\ Answer("rpc_error", NoSig)
    /\ UNCHANGED <<poll_count, landed_sig>>

Poller ==
    \/ Enter \/ TimeOut \/ Iterate \/ StatusesFail \/ Statuses
    \/ TransactionUnknown \/ TransactionKnown

PollStep == Poller /\ UNCHANGED <<signatures, wait_confirmation, nonce, chain>>

ChainStep ==
    /\ \E s \in Sigs : ClusterStep(s)
    /\ UNCHANGED <<signatures, wait_confirmation, nonce, pollerVars>>

Next == PollStep \/ ChainStep

(* Each RPC call has a request timeout, so the function keeps moving.       *)
Spec == Init /\ [][Next]_vars /\ WF_vars(PollStep)

-----------------------------------------------------------------------------
TypeOK ==
    /\ signatures \in Seq(Sigs)
    /\ wait_confirmation \in BOOLEAN
    /\ nonce \in BOOLEAN
    /\ chain \in [Sigs -> ChainStatus]
    /\ poll_count \in 0..MaxIterations
    /\ landed_sig \in Sigs \cup {NoSig}
    /\ poller \in {"start", "check_time", "status", "get_transaction", "returned"}
    /\ answer \in [kind : {"none", "no_signatures", "ok", "timed_out",
                           "rpc_error", "trade_error"},
                   sig : Sigs \cup {NoSig}]

(* Ok(sig) after waiting: that very transaction is confirmed without error,  *)
(* whichever of the two RPC paths decided, and forks included.               *)
OkMeansConfirmed ==
    answer.kind = "ok" /\ wait_confirmation =>
        \E i \in DOMAIN signatures :
            signatures[i] = answer.sig /\ chain[answer.sig] = "ok"

(* A TradeError is final under a durable nonce: none of the transactions    *)
(* that share the nonce is, or will ever be, confirmed.                     *)
TradeErrorIsFinal ==
    answer.kind = "trade_error" /\ nonce => \A s \in Sigs : chain[s] # "ok"
=============================================================================
