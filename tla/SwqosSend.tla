------------------------------ MODULE SwqosSend ------------------------------
(***************************************************************************)
(* `send_transaction` and `send_transactions` of the clients that talk to   *)
(* their service by request and answer (swqos, all but the QUIC clients):   *)
(* serialize, post, decide whether the answer lets the call go on, confirm  *)
(* with poll_transaction_confirmation.  Extends Confirmation: the poll is   *)
(* the one of that module, for one signature at a time.                     *)
(***************************************************************************)
EXTENDS Confirmation, Functions

CONSTANT MaxBatch \* length of the longest list of transactions

ASSUME MaxBatchAssumption == MaxBatch \in Nat

VARIABLES
    client,  \* which implementation is called
    op,      \* which of its two functions
    batch,   \* argument, by signature
    sender,  \* where the function is
    at,      \* transaction of the batch that is being sent
    handed,  \* transactions that may have reached the service
    result   \* what the function returned

callArgs == <<client, op, batch, wait_confirmation, nonce>>
sendVars == <<callArgs, sender, at, handed, result>>

-----------------------------------------------------------------------------
(* An answer has an HTTP status and a body, which may be cut off.  "other"   *)
(* is a body that is not JSON, or JSON without result and error.            *)
Answers == [status : {"success", "failure"}, body : {"result", "error", "other", "lost"}]
BodyRead == {a \in Answers : a.body # "lost"}
StatusOk == {a \in Answers : a.status = "success"}

(* The answers after which each client goes on to confirm.  Most of them     *)
(* read the body, print what it says and go on in any case.                  *)
jito == BodyRead
zeroslot == BodyRead
temporal == BodyRead
node1 == BodyRead
bloxroute == BodyRead
flashblock == BodyRead
nextblock == BodyRead
stellium == BodyRead
lightspeed == BodyRead
(* The status alone decides; the body is drained and ignored.                *)
astralane == StatusOk
blockrazor == StatusOk
(* Status and body: a body that is no JSON passes.                           *)
helius == {a \in StatusOk \cap BodyRead : a.body # "error"}
(* The RPC library turns everything but a result into an error.              *)
solana_rpc == {a \in StatusOk : a.body = "result"}

Proceeds ==
    [jito |-> jito, zeroslot |-> zeroslot, temporal |-> temporal, node1 |-> node1,
     bloxroute |-> bloxroute, flashblock |-> flashblock, nextblock |-> nextblock,
     stellium |-> stellium, lightspeed |-> lightspeed, astralane |-> astralane,
     blockrazor |-> blockrazor, helius |-> helius, solana_rpc |-> solana_rpc]

(* Two clients post a list as one request, and do not confirm it.            *)
Bundled == op = "send_transactions" /\ client \in {"jito", "bloxroute"}

-----------------------------------------------------------------------------
Lists(n) == {b \in [1..n -> Sigs] : IsInjective(b)}

SendInit ==
    /\ client \in DOMAIN Proceeds
    /\ op \in {"send_transaction", "send_transactions"}
    /\ batch \in IF op = "send_transaction" THEN Lists(1)
                 ELSE UNION {Lists(n) : n \in 0..MaxBatch}
    /\ wait_confirmation \in BOOLEAN
    /\ nonce \in BOOLEAN
    /\ chain = [s \in Sigs |-> "absent"]
    /\ signatures = << >>
    /\ PollerInit
    /\ sender = "next"
    /\ at = 1
    /\ handed = {}
    /\ result = "none"

Return(kind) ==
    /\ result' = kind
    /\ sender' = "returned"

(* for transaction in transactions; send_transaction is its only round.      *)
NextTransaction ==
    /\ sender = "next"
    /\ IF at > Len(batch) /\ ~Bundled
       THEN Return("ok")
       ELSE sender' = "serialize" /\ UNCHANGED result
    /\ UNCHANGED <<callArgs, at, handed, signatures, chain, pollerVars>>

(* Jito's bundle unwraps where the others use `?`.                           *)
SerializeFails ==
    /\ sender = "serialize"
    /\ Return(IF Bundled /\ client = "jito" THEN "panic" ELSE "error")
    /\ UNCHANGED <<callArgs, at, handed, signatures, chain, pollerVars>>

(* The request is written; from here on the service may act on it.           *)
Post ==
    /\ sender = "serialize"
    /\ handed' = handed \cup IF Bundled THEN Range(batch) ELSE {batch[at]}
    /\ sender' = "answer"
    /\ UNCHANGED <<callArgs, at, result, signatures, chain, pollerVars>>

(* send().await? fails: refused, broken, or late (HTTP_TIMEOUT_MS).          *)
PostFails ==
    /\ sender = "answer"
    /\ Return("error")
    /\ UNCHANGED <<callArgs, at, handed, signatures, chain, pollerVars>>

(* Fault: the poll starts from what the last one remembered.                 *)
StartPollKeepsLanded ==
    /\ signatures' = <<batch[at]>>
    /\ poll_count' = 0
    /\ poller' = "start"
    /\ answer' = NoAnswer
    /\ UNCHANGED landed_sig

StartPoll ==
    /\ signatures' = <<batch[at]>>
    /\ poll_count' = 0
    /\ landed_sig' = NoSig
    /\ poller' = "start"
    /\ answer' = NoAnswer

Answered(a) ==
    /\ sender = "answer"
    /\ IF ~Bundled /\ a \in Proceeds[client]
       THEN sender' = "poll" /\ StartPoll /\ UNCHANGED result
       ELSE /\ Return(IF Bundled /\ a \in BodyRead THEN "ok" ELSE "error")
            /\ UNCHANGED <<signatures, pollerVars>>
    /\ UNCHANGED <<callArgs, at, handed, chain>>

PollTransaction ==
    /\ sender = "poll"
    /\ Poller
    /\ UNCHANGED <<sendVars, signatures, chain>>

(* Fault: the error of a confirmation does not end the loop.                 *)
PollReturnedGoesOn ==
    /\ sender = "poll"
    /\ poller = "returned"
    /\ sender' = "next" /\ at' = at + 1 /\ UNCHANGED result
    /\ UNCHANGED <<callArgs, handed, signatures, chain, pollerVars>>

(* Fault: a transaction that is not confirmed is sent again.                 *)
PollReturnedRetries ==
    /\ sender = "poll"
    /\ poller = "returned"
    /\ IF answer.kind = "ok"
       THEN sender' = "next" /\ at' = at + 1
       ELSE sender' = "serialize" /\ UNCHANGED at
    /\ UNCHANGED <<callArgs, handed, result, signatures, chain, pollerVars>>

PollReturned ==
    /\ sender = "poll"
    /\ poller = "returned"
    /\ IF answer.kind = "ok"
       THEN sender' = "next" /\ at' = at + 1 /\ UNCHANGED result
       ELSE /\ Return(IF answer.kind = "trade_error" THEN "trade_error" ELSE "error")
            /\ UNCHANGED at
    /\ UNCHANGED <<callArgs, handed, signatures, chain, pollerVars>>

(* The service forwards what it was handed whenever it likes, whatever it    *)
(* answered and also after the call has returned.                            *)
Forwarded ==
    /\ \E s \in handed : ClusterStep(s)
    /\ UNCHANGED <<sendVars, signatures, pollerVars>>

SendStep ==
    \/ NextTransaction \/ SerializeFails \/ Post \/ PostFails
    \/ \E a \in Answers : Answered(a)
    \/ PollTransaction \/ PollReturned

SendNext == SendStep \/ Forwarded

(* HTTP requests and RPC calls have time limits, so the call keeps moving;   *)
(* the service and the cluster need not.                                     *)
SendSpec ==
    SendInit /\ [][SendNext]_<<vars, sendVars>> /\ WF_<<vars, sendVars>>(SendStep)

-----------------------------------------------------------------------------
SendTypeOK ==
    /\ TypeOK
    /\ client \in DOMAIN Proceeds
    /\ op \in {"send_transaction", "send_transactions"}
    /\ batch \in Seq(Sigs)
    /\ sender \in {"next", "serialize", "answer", "poll", "returned"}
    /\ at \in 1..(Len(batch) + 1)
    /\ handed \subseteq Sigs
    /\ result \in {"none", "ok", "error", "trade_error", "panic"}

(* What the submitter takes for granted of a call that confirms: Ok means    *)
(* that every transaction is confirmed without error, a TradeError that the  *)
(* transaction at which the call stopped has failed on chain.  It holds      *)
(* whichever client is called and although most ignore what the service      *)
(* answers.                                                                  *)
ReportsAreTrue ==
    /\ result = "ok" /\ wait_confirmation /\ ~Bundled =>
           \A i \in DOMAIN batch : chain[batch[i]] = "ok"
    /\ result = "trade_error" => chain[batch[at]] = "failed"

(* send_transactions is sequential: a transaction is handed to the service   *)
(* only when those before it are confirmed for good, so a list of dependent  *)
(* transactions cannot be executed with a gap.                               *)
NoGapInBatch ==
    wait_confirmation /\ ~Bundled =>
        \A i, j \in DOMAIN batch :
            i < j /\ batch[j] \in handed => chain[batch[i]] = "ok"

(* The call ends, whatever service and cluster do.                           *)
SendEnds == <>(sender = "returned")
=============================================================================
