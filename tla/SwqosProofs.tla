--------------------------- MODULE SwqosProofs ---------------------------
(***************************************************************************)
(* Proofs about SwqosSend, for every client, every list of transactions and *)
(* every number of polls.  The poll itself is proved in ConfirmationProofs.  *)
(***************************************************************************)
EXTENDS SwqosSend, QuicReconnect, ConfirmationProofs, FiniteSetTheorems

-----------------------------------------------------------------------------
(* A list of transactions holds each of them once.                           *)
Distinct == \A i, j \in DOMAIN batch : batch[i] = batch[j] => i = j

(* The loop is at a transaction of the list while it handles one, and it      *)
(* polls for that one.                                                       *)
AtTransaction ==
    /\ sender \in {"serialize", "answer", "poll"} /\ ~Bundled => at \in DOMAIN batch
    /\ sender = "poll" => ~Bundled /\ signatures = <<batch[at]>>

(* The loop goes on only from a transaction that is confirmed.               *)
ConfirmedBehind ==
    wait_confirmation /\ ~Bundled =>
        \A i \in DOMAIN batch : i < at => chain[batch[i]] = "ok"

(* What was handed over is what the loop has reached.                        *)
HandedInOrder ==
    ~Bundled => \A i \in DOMAIN batch : batch[i] \in handed => i <= at

(* The call returns Ok at the end of the list, and a TradeError where a       *)
(* transaction failed.                                                       *)
ReturnedWhere ==
    /\ sender # "returned" => result = "none"
    /\ result = "ok" /\ ~Bundled => at > Len(batch)
    /\ result = "trade_error" => at \in DOMAIN batch /\ chain[batch[at]] = "failed"

(* The inductive invariant.                                                  *)
SendInv ==
    /\ SendTypeOK
    /\ PollInv
    /\ Distinct
    /\ AtTransaction
    /\ ConfirmedBehind
    /\ HandedInOrder
    /\ ReturnedWhere

-----------------------------------------------------------------------------
(* The invariant holds when the function is called.                          *)
LEMMA SendInvInit == SendInit => SendInv
<1> SUFFICES ASSUME SendInit PROVE SendInv
    OBVIOUS
<1>1. PICK n \in Nat : batch \in Lists(n)
    BY MaxBatchAssumption DEF SendInit
<1>2. batch \in [1..n -> Sigs] /\ IsInjective(batch)
    BY <1>1 DEF Lists
<1>3. batch \in Seq(Sigs) /\ Len(batch) = n /\ DOMAIN batch = 1..n
    BY <1>2
<1>4. Distinct
    BY <1>2 DEF IsInjective, Distinct
<1>5. signatures \in Seq(Sigs)
    BY DEF SendInit
<1>6. TypeOK
    BY <1>5, MaxIterationsAssumption DEF SendInit, PollerInit, NoAnswer, TypeOK, ChainStatus
<1>7. SendTypeOK
    BY <1>3, <1>6 DEF SendInit, SendTypeOK
<1>8. PollInv
    BY <1>6, NoSigAssumption DEF SendInit, PollInv, PollerInit, NoAnswer, OneOnChain,
       LandedIsListed, OkMeansConfirmed, ErrorIsFailed
<1>9. AtTransaction /\ ConfirmedBehind /\ HandedInOrder /\ ReturnedWhere
    BY <1>3 DEF SendInit, AtTransaction, ConfirmedBehind, HandedInOrder, ReturnedWhere
<1> QED  BY <1>4, <1>7, <1>8, <1>9 DEF SendInv

(* A step of the cluster leaves what is confirmed as it is.                  *)
LEMMA ClusterKeeps ==
    ASSUME chain \in [Sigs -> ChainStatus], NEW s \in Sigs, ClusterStep(s)
    PROVE  \A u \in Sigs : chain[u] \in {"ok", "failed"} => chain'[u] = chain[u]
BY DEF ClusterStep, Land, Confirm, Abandon, ChainStatus

(* Every step of send_transaction or send_transactions keeps the invariant.   *)
LEMMA SendStepInv == SendInv /\ SendStep => SendInv'
<1> SUFFICES ASSUME SendInv, SendStep PROVE SendInv'
    OBVIOUS
<1> USE DEF SendInv
<1>0. UNCHANGED <<client, op, batch, wait_confirmation, nonce, chain>>
    BY DEF SendStep, NextTransaction, SerializeFails, Post, PostFails, Answered,
       PollTransaction, PollReturned, callArgs, sendVars
<1>1. /\ Bundled' = Bundled
      /\ Distinct'
      /\ batch \in Seq(Sigs) /\ Len(batch) \in Nat /\ DOMAIN batch = 1..Len(batch)
      /\ at \in 1..(Len(batch) + 1)
    BY <1>0 DEF Bundled, Distinct, SendTypeOK
<1>2. CASE NextTransaction
    <2>1. UNCHANGED <<at, handed, signatures, pollerVars>>
        BY <1>2 DEF NextTransaction
    <2>2. PollInv'
        BY <1>0, <2>1, PollUntouched DEF vars
    <2>3. SendTypeOK'
        BY <1>0, <1>1, <1>2, <2>1, <2>2 DEF NextTransaction, Return, SendTypeOK, PollInv
    <2>4. AtTransaction'
        BY <1>0, <1>1, <1>2, <2>1 DEF NextTransaction, Return, AtTransaction
    <2>5. ConfirmedBehind' /\ HandedInOrder'
        BY <1>0, <1>1, <2>1 DEF ConfirmedBehind, HandedInOrder
    <2>6. ReturnedWhere'
        BY <1>0, <1>1, <1>2, <2>1 DEF NextTransaction, Return, ReturnedWhere
    <2> QED  BY <1>1, <2>2, <2>3, <2>4, <2>5, <2>6
<1>3. CASE SerializeFails \/ PostFails
    <2>1. /\ UNCHANGED <<at, handed, signatures, pollerVars>>
          /\ sender' = "returned" /\ result' \in {"panic", "error"}
        BY <1>3 DEF SerializeFails, PostFails, Return
    <2>2. PollInv'
        BY <1>0, <2>1, PollUntouched DEF vars
    <2>3. SendTypeOK'
        BY <1>0, <1>1, <2>1, <2>2 DEF SendTypeOK, PollInv
    <2>4. AtTransaction' /\ ConfirmedBehind' /\ HandedInOrder' /\ ReturnedWhere'
        BY <1>0, <1>1, <2>1 DEF AtTransaction, ConfirmedBehind, HandedInOrder, ReturnedWhere
    <2> QED  BY <1>1, <2>2, <2>3, <2>4
<1>4. CASE Post
    <2>1. /\ sender = "serialize" /\ sender' = "answer"
          /\ handed' = handed \cup IF Bundled THEN Range(batch) ELSE {batch[at]}
          /\ UNCHANGED <<at, result, signatures, pollerVars>>
        BY <1>4 DEF Post
    <2>2. PollInv'
        BY <1>0, <2>1, PollUntouched DEF vars
    <2>3. handed' \subseteq Sigs
        <3>1. Range(batch) \subseteq Sigs
            BY <1>1 DEF Range
        <3>2. ~Bundled => batch[at] \in Sigs
            BY <1>1, <2>1 DEF AtTransaction
        <3> QED  BY <2>1, <3>1, <3>2 DEF SendTypeOK
    <2>4. SendTypeOK'
        BY <1>0, <1>1, <2>1, <2>2, <2>3 DEF SendTypeOK, PollInv
    <2>5. HandedInOrder'
        BY <1>0, <1>1, <2>1 DEF HandedInOrder, Distinct, AtTransaction
    <2>6. AtTransaction' /\ ConfirmedBehind' /\ ReturnedWhere'
        BY <1>0, <1>1, <2>1 DEF AtTransaction, ConfirmedBehind, ReturnedWhere
    <2> QED  BY <1>1, <2>2, <2>4, <2>5, <2>6
<1>5. ASSUME NEW a \in Answers, Answered(a) PROVE SendInv'
    <2>1. CASE ~Bundled /\ a \in Proceeds[client]
        <3>1. /\ sender = "answer" /\ sender' = "poll"
              /\ signatures' = <<batch[at]>>
              /\ poll_count' = 0 /\ landed_sig' = NoSig /\ poller' = "start"
              /\ answer' = [kind |-> "none", sig |-> NoSig]
              /\ UNCHANGED <<at, handed, result>>
            BY <1>5, <2>1 DEF Answered, StartPoll, NoAnswer
        <3>2. at \in DOMAIN batch /\ batch[at] \in Sigs
            BY <1>1, <2>1, <3>1 DEF AtTransaction
        <3>3. signatures' \in Seq(Sigs)
            BY <3>1, <3>2
        <3>4. TypeOK'
            BY <1>0, <3>1, <3>3, MaxIterationsAssumption DEF TypeOK, PollInv
        <3>5. PollInv'
            BY <1>0, <3>1, <3>4 DEF PollInv, OneOnChain, LandedIsListed, OkMeansConfirmed,
               ErrorIsFailed
        <3>6. SendTypeOK'
            BY <1>0, <1>1, <3>1, <3>4 DEF SendTypeOK
        <3>7. AtTransaction' /\ ConfirmedBehind' /\ HandedInOrder' /\ ReturnedWhere'
            BY <1>0, <1>1, <2>1, <3>1, <3>2 DEF AtTransaction, ConfirmedBehind,
               HandedInOrder, ReturnedWhere
        <3> QED  BY <1>1, <3>5, <3>6, <3>7
    <2>2. CASE ~(~Bundled /\ a \in Proceeds[client])
        <3>1. /\ UNCHANGED <<at, handed, signatures, pollerVars>>
              /\ sender' = "returned"
              /\ result' \in {"ok", "error"}
              /\ result' = "ok" => Bundled
            BY <1>5, <2>2 DEF Answered, Return
        <3>2. PollInv'
            BY <1>0, <3>1, PollUntouched DEF vars
        <3>3. SendTypeOK'
            BY <1>0, <1>1, <3>1, <3>2 DEF SendTypeOK, PollInv
        <3>4. AtTransaction' /\ ConfirmedBehind' /\ HandedInOrder' /\ ReturnedWhere'
            BY <1>0, <1>1, <3>1 DEF AtTransaction, ConfirmedBehind, HandedInOrder,
               ReturnedWhere
        <3> QED  BY <1>1, <3>2, <3>3, <3>4
    <2> QED  BY <2>1, <2>2
<1>6. CASE PollTransaction
    <2>1. /\ sender = "poll" /\ Poller
          /\ UNCHANGED <<sender, at, handed, result, signatures>>
        BY <1>6 DEF PollTransaction, sendVars
    <2>2. PollInv'
        BY <1>0, <2>1, PollStepInv DEF PollStep
    <2>3. SendTypeOK'
        BY <1>0, <1>1, <2>1, <2>2 DEF SendTypeOK, PollInv
    <2>4. AtTransaction' /\ ConfirmedBehind' /\ HandedInOrder' /\ ReturnedWhere'
        BY <1>0, <1>1, <2>1 DEF AtTransaction, ConfirmedBehind, HandedInOrder, ReturnedWhere
    <2> QED  BY <1>1, <2>2, <2>3, <2>4
<1>7. CASE PollReturned
    <2>1. /\ sender = "poll"
          /\ UNCHANGED <<handed, signatures, pollerVars>>
        BY <1>7 DEF PollReturned
    <2>2. PollInv'
        <3>1. UNCHANGED vars
            BY <1>0, <2>1 DEF vars
        <3> QED  BY <3>1, PollUntouched
    <2>3. /\ ~Bundled /\ at \in DOMAIN batch /\ batch[at] \in Sigs
          /\ DOMAIN signatures = {1} /\ signatures[1] = batch[at]
        BY <1>1, <2>1 DEF AtTransaction
    <2>4. CASE answer.kind = "ok"
        <3>1. sender' = "next" /\ at' = at + 1 /\ UNCHANGED result
            BY <1>7, <2>4 DEF PollReturned
        <3>2. wait_confirmation => chain[batch[at]] = "ok"
            BY <2>3, <2>4 DEF PollInv, OkMeansConfirmed
        <3>3. SendTypeOK'
            BY <1>0, <1>1, <2>1, <2>2, <2>3, <3>1 DEF SendTypeOK, PollInv
        <3>4. ConfirmedBehind'
            BY <1>0, <1>1, <2>3, <3>1, <3>2 DEF ConfirmedBehind
        <3>5. AtTransaction' /\ HandedInOrder' /\ ReturnedWhere'
            BY <1>0, <1>1, <2>1, <2>3, <3>1 DEF AtTransaction, HandedInOrder, ReturnedWhere
        <3> QED  BY <1>1, <2>2, <3>3, <3>4, <3>5
    <2>5. CASE answer.kind # "ok"
        <3>1. /\ sender' = "returned" /\ UNCHANGED at
              /\ result' = IF answer.kind = "trade_error" THEN "trade_error" ELSE "error"
            BY <1>7, <2>5 DEF PollReturned, Return
        <3>2. answer.kind = "trade_error" => chain[batch[at]] = "failed"
            BY <2>3 DEF PollInv, ErrorIsFailed
        <3>3. SendTypeOK'
            BY <1>0, <1>1, <2>1, <2>2, <3>1 DEF SendTypeOK, PollInv
        <3>4. AtTransaction' /\ ConfirmedBehind' /\ HandedInOrder' /\ ReturnedWhere'
            BY <1>0, <1>1, <2>1, <2>3, <3>1, <3>2 DEF AtTransaction, ConfirmedBehind,
               HandedInOrder, ReturnedWhere
        <3> QED  BY <1>1, <2>2, <3>3, <3>4
    <2> QED  BY <2>4, <2>5
<1> QED  BY <1>2, <1>3, <1>4, <1>5, <1>6, <1>7 DEF SendStep

(* So does every step of the service and the cluster.                        *)
LEMMA ForwardedInv == SendInv /\ Forwarded => SendInv'
<1> SUFFICES ASSUME SendInv, Forwarded PROVE SendInv'
    OBVIOUS
<1> USE DEF SendInv
<1>1. /\ UNCHANGED <<client, op, batch, wait_confirmation, nonce, sender, at, handed, result>>
      /\ UNCHANGED <<signatures, pollerVars>>
    BY DEF Forwarded, sendVars, callArgs
<1>2. PICK s \in Sigs : ClusterStep(s)
    BY DEF Forwarded, SendTypeOK
<1>3. PollInv'
    BY <1>1, <1>2, ChainStepInv DEF ChainStep
<1>4. \A u \in Sigs : chain[u] \in {"ok", "failed"} => chain'[u] = chain[u]
    BY <1>2, ClusterKeeps DEF SendTypeOK, TypeOK
<1>5. SendTypeOK' /\ Distinct' /\ Bundled' = Bundled
    BY <1>1, <1>3 DEF SendTypeOK, PollInv, Distinct, Bundled
<1>6. \A i \in DOMAIN batch : batch[i] \in Sigs
    BY DEF SendTypeOK
<1>7. AtTransaction' /\ HandedInOrder'
    BY <1>1, <1>5 DEF AtTransaction, HandedInOrder
<1>8. ConfirmedBehind' /\ ReturnedWhere'
    BY <1>1, <1>4, <1>5, <1>6 DEF ConfirmedBehind, ReturnedWhere
<1> QED  BY <1>3, <1>5, <1>7, <1>8

-----------------------------------------------------------------------------
(* The call, the service and the cluster keep the invariant for ever.         *)
THEOREM SendInvariance == SendSpec => []SendInv
<1>1. SendInv /\ [SendNext]_<<vars, sendVars>> => SendInv'
    <2> SUFFICES ASSUME SendInv, [SendNext]_<<vars, sendVars>> PROVE SendInv'
        OBVIOUS
    <2>1. CASE SendNext
        BY <2>1, SendStepInv, ForwardedInv DEF SendNext
    <2>2. CASE UNCHANGED <<vars, sendVars>>
        <3>1. PollInv'
            BY <2>2, PollUntouched DEF SendInv
        <3>2. UNCHANGED <<client, op, batch, wait_confirmation, nonce, sender, at, handed,
                          result, signatures, chain>>
            BY <2>2 DEF vars, sendVars, callArgs
        <3> QED  BY <3>1, <3>2 DEF SendInv, SendTypeOK, PollInv, Distinct, AtTransaction,
                    ConfirmedBehind, HandedInOrder, ReturnedWhere, Bundled
    <2> QED  BY <2>1, <2>2
<1> QED  BY SendInvInit, <1>1, PTL DEF SendSpec

(* Type correctness of the call for every list of transactions.              *)
THEOREM SendTypeCorrect == SendSpec => []SendTypeOK
<1>1. SendInv => SendTypeOK
    BY DEF SendInv
<1> QED  BY SendInvariance, <1>1, PTL

(* Ok from a call that confirms means that every transaction of the list is   *)
(* confirmed without error; a TradeError, that the one at which the call      *)
(* stopped has failed.                                                       *)
THEOREM Reports == SendSpec => []ReportsAreTrue
<1>1. SendInv => ReportsAreTrue
    <2> SUFFICES ASSUME SendInv PROVE ReportsAreTrue
        OBVIOUS
    <2>1. Len(batch) \in Nat /\ DOMAIN batch = 1..Len(batch) /\ at \in Nat
        BY DEF SendInv, SendTypeOK
    <2> QED  BY <2>1 DEF SendInv, ConfirmedBehind, ReturnedWhere, ReportsAreTrue
<1> QED  BY SendInvariance, <1>1, PTL

(* send_transactions hands a transaction over only when those before it are   *)
(* confirmed for good.                                                       *)
THEOREM NoGap == SendSpec => []NoGapInBatch
<1>1. SendInv => NoGapInBatch
    <2> SUFFICES ASSUME SendInv PROVE NoGapInBatch
        OBVIOUS
    <2>1. Len(batch) \in Nat /\ DOMAIN batch = 1..Len(batch) /\ at \in Nat
        BY DEF SendInv, SendTypeOK
    <2> QED  BY <2>1 DEF SendInv, ConfirmedBehind, HandedInOrder, NoGapInBatch
<1> QED  BY SendInvariance, <1>1, PTL

(* What is proved of the poll holds of every poll a call makes, one after the *)
(* other on the same client.                                                 *)
THEOREM SendConfirms == SendSpec => [](OkMeansConfirmed /\ TradeErrorIsFinal)
<1>1. SendInv => OkMeansConfirmed /\ TradeErrorIsFinal
    BY PollInvIsFinal DEF SendInv, PollInv
<1> QED  BY SendInvariance, <1>1, PTL

-----------------------------------------------------------------------------
(* The type invariant without the bound on the connections.                  *)
Typed ==
    /\ connection \in Nat
    /\ alive \subseteq Nat
    /\ opened \in Nat
    /\ reconnect \in Senders \cup {Nobody}
    /\ caller \in [Senders -> {"idle", "send", "try_lock", "handshake", "stored",
                               "reload", "resend", "confirm"}]
    /\ using \in [Senders -> Nat]
    /\ failed \in [Senders -> Nat]
    /\ sends \in [Senders -> 0..MaxSends]
    /\ outcome \in [Senders -> {"none", "ok", "error"}]

(* The mutex is held from try_lock to the end of reconnect, by one sender.   *)
LockHeld ==
    \A s \in Senders : reconnect = s <=> caller[s] \in {"handshake", "stored"}

(* Nobody has a connection that was not opened; the one that is being opened *)
(* is the latest and is not shared yet.                                      *)
Numbered ==
    /\ connection \in 1..opened
    /\ alive \subseteq 1..opened
    /\ \A s \in Senders :
          /\ using[s] \in 1..opened
          /\ caller[s] = "handshake" => using[s] = opened /\ connection < opened

(* What a first attempt failed on had been shared, and what its sender stored *)
(* or reloads is newer.                                                      *)
FailedIsOld ==
    \A s \in Senders :
        /\ failed[s] <= connection
        /\ caller[s] = "send" => using[s] <= connection
        /\ caller[s] = "stored" => failed[s] < connection
        /\ caller[s] = "reload" => failed[s] < connection
        /\ caller[s] = "resend" => failed[s] < using[s]

(* Calls that can start no handshake any more.                               *)
Spent ==
    {c \in Senders \X (1..MaxSends) :
        \/ c[2] < sends[c[1]]
        \/ c[2] = sends[c[1]] /\ caller[c[1]] \notin {"send", "try_lock"}}

(* Every handshake is one of a call that has its handshake behind it.         *)
HandshakesCounted == opened <= 1 + Cardinality(Spent)

(* A sender that is not idle is in a call.                                   *)
InCall == \A s \in Senders : caller[s] # "idle" => sends[s] >= 1

QuicInv ==
    /\ Typed
    /\ LockHeld
    /\ Numbered
    /\ FailedIsOld
    /\ InCall

-----------------------------------------------------------------------------
(* The invariant holds of a new client.                                      *)
LEMMA QuicInvInit == QuicInit => QuicInv
<1> SUFFICES ASSUME QuicInit PROVE QuicInv
    OBVIOUS
<1>2. Typed
    BY MaxSendsAssumption DEF QuicInit, Typed
<1>3. LockHeld /\ Numbered /\ FailedIsOld /\ InCall
    BY NobodyAssumption DEF QuicInit, LockHeld, Numbered, FailedIsOld, InCall
<1> QED  BY <1>2, <1>3 DEF QuicInv

(* Every step keeps it.  The interesting ones are Lock, which is alone in     *)
(* opening a connection, and Store, which shares it.                         *)
LEMMA QuicInvStep == QuicInv /\ [QuicNext]_quicVars => QuicInv' /\ connection' >= connection
<1> SUFFICES ASSUME QuicInv, [QuicNext]_quicVars
             PROVE  QuicInv' /\ connection' >= connection
    OBVIOUS
<1> USE DEF QuicInv
<1> USE MaxSendsAssumption, NobodyAssumption
<1>1. ASSUME NEW s \in Senders, Load(s) PROVE QuicInv' /\ connection' >= connection
    BY <1>1 DEF Load, Goto, Typed, LockHeld, Numbered, FailedIsOld, InCall
<1>2. ASSUME NEW s \in Senders, SendSucceeds(s) PROVE QuicInv' /\ connection' >= connection
    BY <1>2 DEF SendSucceeds, Goto, Typed, LockHeld, Numbered, FailedIsOld, InCall
<1>3. ASSUME NEW s \in Senders, FirstSendFails(s) PROVE QuicInv' /\ connection' >= connection
    BY <1>3 DEF FirstSendFails, Goto, Typed, LockHeld, Numbered, FailedIsOld, InCall
<1>4. ASSUME NEW s \in Senders, SecondSendFails(s) PROVE QuicInv' /\ connection' >= connection
    BY <1>4 DEF SecondSendFails, EndCall, Goto, Typed, LockHeld, Numbered, FailedIsOld, InCall
<1>5. ASSUME NEW s \in Senders, LockTaken(s) PROVE QuicInv' /\ connection' >= connection
    BY <1>5 DEF LockTaken, EndCall, Goto, Typed, LockHeld, Numbered, FailedIsOld, InCall
<1>6. ASSUME NEW s \in Senders, Lock(s) PROVE QuicInv' /\ connection' >= connection
    BY <1>6 DEF Lock, Goto, Typed, LockHeld, Numbered, FailedIsOld, InCall
<1>7. ASSUME NEW s \in Senders, HandshakeFails(s) PROVE QuicInv' /\ connection' >= connection
    BY <1>7 DEF HandshakeFails, EndCall, Goto, Typed, LockHeld, Numbered, FailedIsOld, InCall
<1>8. ASSUME NEW s \in Senders, Store(s) PROVE QuicInv' /\ connection' >= connection
    <2>1. /\ caller[s] = "handshake" /\ reconnect = s /\ connection' = using[s]
          /\ using[s] = opened /\ connection < opened
          /\ using[s] \in Nat /\ connection \in Nat /\ opened \in Nat
        BY <1>8 DEF Store, Typed, LockHeld, Numbered
    <2>2. \A u \in Senders : u # s => caller[u] # "handshake"
        BY <2>1 DEF LockHeld
    <2>3. /\ caller' \in [Senders -> {"idle", "send", "try_lock", "handshake", "stored",
                                     "reload", "resend", "confirm"}]
          /\ caller'[s] = "stored"
          /\ \A u \in Senders : u # s => caller'[u] = caller[u]
        BY <1>8 DEF Store, Goto, Typed
    <2>4. Typed'
        BY <1>8, <2>1, <2>3 DEF Store, Typed
    <2>5. LockHeld'
        BY <1>8, <2>1, <2>3 DEF Store, LockHeld
    <2>6. Numbered'
        BY <1>8, <2>1, <2>2, <2>3 DEF Store, Numbered
    <2>7. FailedIsOld'
        BY <1>8, <2>1, <2>3 DEF Store, FailedIsOld, Typed
    <2>8. InCall'
        BY <1>8, <2>1, <2>3 DEF Store, InCall
    <2> QED  BY <2>1, <2>4, <2>5, <2>6, <2>7, <2>8
<1>9. ASSUME NEW s \in Senders, Unlock(s) PROVE QuicInv' /\ connection' >= connection
    BY <1>9 DEF Unlock, Goto, Typed, LockHeld, Numbered, FailedIsOld, InCall
<1>10. ASSUME NEW s \in Senders, Reload(s) PROVE QuicInv' /\ connection' >= connection
    BY <1>10 DEF Reload, Goto, Typed, LockHeld, Numbered, FailedIsOld, InCall
<1>11. ASSUME NEW c \in Connections, Break(c) PROVE QuicInv' /\ connection' >= connection
    BY <1>11 DEF Break, callVars, Typed, LockHeld, Numbered, FailedIsOld, InCall
<1>12. ASSUME NEW s \in Senders, ConfirmationEnds(s) PROVE QuicInv' /\ connection' >= connection
    BY <1>12 DEF ConfirmationEnds, EndCall, Goto, Typed, LockHeld, Numbered, FailedIsOld, InCall
<1>13. CASE UNCHANGED quicVars
    BY <1>13 DEF quicVars, callVars, Typed, LockHeld, Numbered, FailedIsOld, InCall
<1> QED  BY <1>1, <1>2, <1>3, <1>4, <1>5, <1>6, <1>7, <1>8, <1>9, <1>10, <1>11, <1>12, <1>13
            DEF QuicNext, Stream, Bounded

-----------------------------------------------------------------------------
(* Calls are finitely many, and those of a set of calls at most all.         *)
LEMMA CallsAreFinite ==
    ASSUME NEW S \in SUBSET (Senders \X (1..MaxSends))
    PROVE  /\ IsFiniteSet(S)
           /\ Cardinality(S) \in Nat
           /\ Cardinality(S) <= MaxSends * Cardinality(Senders)
           /\ MaxSends * Cardinality(Senders) \in Nat
<1> DEFINE All == Senders \X (1..MaxSends)
<1>1. IsFiniteSet(1..MaxSends) /\ Cardinality(1..MaxSends) = MaxSends
    <2>1. IsFiniteSet(1..MaxSends)
          /\ Cardinality(1..MaxSends) = IF 1 > MaxSends THEN 0 ELSE MaxSends - 1 + 1
        BY FS_Interval, MaxSendsAssumption
    <2> QED  BY <2>1, MaxSendsAssumption
<1>2. IsFiniteSet(All) /\ Cardinality(All) = Cardinality(Senders) * MaxSends
    BY <1>1, SendersAssumption, FS_Product
<1>4. IsFiniteSet(S) /\ Cardinality(S) <= Cardinality(All)
    BY <1>2, FS_Subset
<1>5. Cardinality(S) \in Nat /\ Cardinality(Senders) \in Nat
    BY <1>4, SendersAssumption, FS_CardinalityType
<1>6. MaxSends * Cardinality(Senders) = Cardinality(Senders) * MaxSends
      /\ MaxSends * Cardinality(Senders) \in Nat
    BY <1>5, MaxSendsAssumption
<1> HIDE DEF All
<1> QED  BY <1>2, <1>4, <1>5, <1>6

(* A call whose handshake was counted stays counted.                          *)
LEMMA SpentGrows ==
    ASSUME QuicInv, [QuicNext]_quicVars
    PROVE  Spent \subseteq Spent'
<1> USE DEF QuicInv
<1>1. ASSUME NEW s \in Senders, Load(s) \/ Stream(s) \/ Bounded(s)
      PROVE  /\ \A u \in Senders : u # s => caller'[u] = caller[u] /\ sends'[u] = sends[u]
             /\ \/ caller[s] = "idle" /\ sends'[s] = sends[s] + 1
                \/ sends'[s] = sends[s] /\ caller'[s] \notin {"send", "try_lock"}
                \/ sends'[s] = sends[s] /\ caller[s] \in {"send", "try_lock"}
    BY <1>1 DEF Load, Stream, Bounded, ConfirmationEnds, SendSucceeds, FirstSendFails, SecondSendFails, LockTaken, Lock,
       HandshakeFails, Store, Unlock, Reload, EndCall, Goto, Typed
<1>2. ASSUME NEW s \in Senders, Load(s) \/ Stream(s) \/ Bounded(s) PROVE Spent \subseteq Spent'
    <2> SUFFICES ASSUME NEW c \in Spent PROVE c \in Spent'
        OBVIOUS
    <2>1. c \in Senders \X (1..MaxSends) /\ c[1] \in Senders /\ c[2] \in Nat
          /\ sends[c[1]] \in Nat
        BY DEF Spent, Typed
    <2>2. CASE c[1] # s
        BY <1>1, <1>2, <2>1, <2>2 DEF Spent
    <2>3. CASE c[1] = s
        BY <1>1, <1>2, <2>1, <2>3 DEF Spent
    <2> QED  BY <2>2, <2>3
<1>3. ASSUME NEW c \in Connections, Break(c) PROVE Spent \subseteq Spent'
    BY <1>3 DEF Break, callVars, Spent
<1>4. CASE UNCHANGED quicVars
    BY <1>4 DEF quicVars, callVars, Spent
<1> QED  BY <1>2, <1>3, <1>4 DEF QuicNext

(* Only Lock opens a connection, and it makes its call a spent one.           *)
LEMMA LockSpends ==
    ASSUME QuicInv, NEW s \in Senders, Lock(s)
    PROVE  Cardinality(Spent') >= Cardinality(Spent) + 1
<1> USE DEF QuicInv
<1> DEFINE c == <<s, sends[s]>>
<1>1. caller[s] = "try_lock" /\ sends[s] \in 1..MaxSends
    BY MaxSendsAssumption DEF Lock, InCall, Typed
<1>2. c \notin Spent
    BY <1>1 DEF Spent
<1>3. c \in Spent'
    BY <1>1 DEF Spent, Lock, Goto, Typed
<1>4. Spent \subseteq Spent'
    BY SpentGrows DEF QuicNext, Bounded
<1>5. Spent \cup {c} \in SUBSET Spent'
    BY <1>3, <1>4
<1>6. IsFiniteSet(Spent) /\ Cardinality(Spent) \in Nat
    BY CallsAreFinite DEF Spent
<1>7. IsFiniteSet(Spent') /\ Cardinality(Spent') \in Nat
    BY CallsAreFinite DEF Spent
<1>8. Cardinality(Spent \cup {c}) = Cardinality(Spent) + 1
    BY <1>2, <1>6, FS_AddElement
<1>9. Cardinality(Spent \cup {c}) <= Cardinality(Spent')
    BY <1>5, <1>7, FS_Subset
<1> QED  BY <1>6, <1>7, <1>8, <1>9

(* No step opens more connections than it spends calls.                       *)
LEMMA HandshakesStep ==
    ASSUME QuicInv, HandshakesCounted, [QuicNext]_quicVars
    PROVE  HandshakesCounted'
<1> USE DEF QuicInv
<1>1. /\ IsFiniteSet(Spent) /\ Cardinality(Spent) \in Nat
      /\ IsFiniteSet(Spent') /\ Cardinality(Spent') \in Nat
    BY CallsAreFinite DEF Spent
<1>2. Cardinality(Spent) <= Cardinality(Spent')
    BY <1>1, SpentGrows, FS_Subset
<1>3. ASSUME NEW s \in Senders, Lock(s) PROVE HandshakesCounted'
    <2>1. opened' = opened + 1 /\ opened \in Nat
        BY <1>3 DEF Lock, Typed
    <2>2. Cardinality(Spent') >= Cardinality(Spent) + 1
        BY <1>3, LockSpends
    <2>3. opened <= 1 + Cardinality(Spent)
        BY DEF HandshakesCounted
    <2>4. opened' <= 1 + Cardinality(Spent')
        BY <1>1, <2>1, <2>2, <2>3
    <2> QED  BY <2>4 DEF HandshakesCounted
<1>4. CASE opened' = opened
    <2>1. opened \in Nat /\ opened <= 1 + Cardinality(Spent)
        BY DEF Typed, HandshakesCounted
    <2>2. opened' <= 1 + Cardinality(Spent')
        BY <1>1, <1>2, <1>4, <2>1
    <2> QED  BY <2>2 DEF HandshakesCounted
<1>5. (\E s \in Senders : Lock(s)) \/ opened' = opened
    BY DEF QuicNext, Stream, Bounded, ConfirmationEnds, Load, SendSucceeds, FirstSendFails, SecondSendFails, LockTaken,
       HandshakeFails, Store, Unlock, Reload, EndCall, Goto, Break, quicVars, callVars
<1> QED  BY <1>3, <1>4, <1>5

-----------------------------------------------------------------------------
(* The two parts of the inductive invariant hold of every state of the        *)
(* clients.                                                                  *)
THEOREM QuicInvariance == QuicSpec => [](QuicInv /\ HandshakesCounted)
<1>1. QuicInit => QuicInv /\ HandshakesCounted
    <2> SUFFICES ASSUME QuicInit PROVE QuicInv /\ HandshakesCounted
        OBVIOUS
    <2>1. QuicInv
        BY QuicInvInit
    <2>2. opened = 1 /\ Cardinality(Spent) \in Nat
        BY CallsAreFinite DEF QuicInit, Spent
    <2> QED  BY <2>1, <2>2 DEF HandshakesCounted
<1>2. QuicInv /\ HandshakesCounted /\ [QuicNext]_quicVars => (QuicInv /\ HandshakesCounted)'
    BY QuicInvStep, HandshakesStep
<1> QED  BY <1>1, <1>2, PTL DEF QuicSpec

(* However senders run into each other's reconnections, the second attempt of *)
(* send_transaction goes out on a newer connection than the first, and no     *)
(* client ever makes more handshakes than calls.                             *)
THEOREM Resend == QuicSpec => []ResendIsSafe
<1>1. QuicInv /\ HandshakesCounted => ResendIsSafe
    <2> SUFFICES ASSUME QuicInv, HandshakesCounted PROVE ResendIsSafe
        OBVIOUS
    <2> USE DEF QuicInv
    <2>1. /\ Cardinality(Spent) \in Nat
          /\ Cardinality(Spent) <= MaxSends * Cardinality(Senders)
          /\ MaxSends * Cardinality(Senders) \in Nat
        BY CallsAreFinite DEF Spent
    <2> DEFINE last == 1 + MaxSends * Cardinality(Senders)
    <2>2. last \in Nat /\ opened \in Nat /\ opened <= last
        BY <2>1 DEF Typed, HandshakesCounted
    <2>3. Connections = 1..last
        BY DEF Connections
    <2> HIDE DEF last
    <2>4. \A i \in 1..opened : i \in Connections
        BY <2>2, <2>3
    <2>5. opened \in Connections /\ connection \in Connections /\ alive \subseteq Connections
        BY <2>2, <2>4 DEF Numbered
    <2>6. using \in [Senders -> Connections]
        BY <2>4 DEF Numbered, Typed
    <2>7. failed \in [Senders -> Connections \cup {0}]
        <3>1. \A s \in Senders : failed[s] \in Connections \cup {0}
            BY <2>2, <2>4 DEF FailedIsOld, Numbered, Typed
        <3> QED  BY <3>1 DEF Typed
    <2>8. QuicTypeOK
        BY <2>5, <2>6, <2>7 DEF Typed, QuicTypeOK
    <2>9. ResendOnNewConnection
        BY DEF FailedIsOld, ResendOnNewConnection, Typed
    <2> QED  BY <2>8, <2>9 DEF ResendIsSafe
<1> QED  BY <1>1, QuicInvariance, PTL

(* No late handshake overwrites the connection of one that started after it:  *)
(* Store happens under the mutex and its connection is the latest opened.     *)
THEOREM NoRegress == QuicSpec => ConnectionNeverRegresses
<1>1. QuicInv /\ [QuicNext]_quicVars => [connection' >= connection]_connection
    BY QuicInvStep
<1>2. QuicInv /\ HandshakesCounted => QuicInv
    OBVIOUS
<1> QED  BY <1>1, <1>2, QuicInvariance, PTL DEF QuicSpec, ConnectionNeverRegresses
==============================================================================
