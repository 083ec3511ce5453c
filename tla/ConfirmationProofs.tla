------------------------- MODULE ConfirmationProofs -------------------------
(***************************************************************************)
(* Proofs about Confirmation, for every set and list of signatures and      *)
(* every number of polls.                                                   *)
(***************************************************************************)
EXTENDS Confirmation, WellFoundedInduction, TLAPS

-----------------------------------------------------------------------------
(* The first index of a status loop exists and is an index of the list.     *)
LEMMA FirstIndex ==
    ASSUME NEW I, I \subseteq Nat, I # {}
    PROVE  Min(I) \in I
<1>1. PICK m \in I : \A i \in I : ~(<<i, m>> \in OpToRel(<, Nat))
    BY WFMin, NatLessThanWellFounded
<1>2. \A i \in I : ~(i < m)
    BY <1>1 DEF OpToRel
<1>3. \A i \in I : i \in Nat /\ m \in Nat
    BY <1>1
<1>4. \A i \in I : m <= i
    BY <1>2, <1>3
<1> QED  BY <1>4 DEF Min

-----------------------------------------------------------------------------
(* Transactions that advance one nonce exclude each other on the chain.     *)
OneOnChain ==
    nonce => \A s, u \in Sigs : chain[s] # "absent" /\ chain[u] # "absent" => s = u

(* The signature that is asked for was seen, and is one of the list.         *)
LandedIsListed ==
    /\ poller = "get_transaction" => landed_sig # NoSig
    /\ landed_sig # NoSig => \E i \in DOMAIN signatures : signatures[i] = landed_sig

(* A TradeError is about a transaction of the list confirmed to have failed.  *)
ErrorIsFailed ==
    answer.kind = "trade_error" =>
        \E i \in DOMAIN signatures :
            signatures[i] = answer.sig /\ chain[answer.sig] = "failed"

(* The inductive invariant.                                                  *)
PollInv ==
    /\ TypeOK
    /\ OneOnChain
    /\ LandedIsListed
    /\ OkMeansConfirmed
    /\ ErrorIsFailed

-----------------------------------------------------------------------------
(* The invariant holds when the function is called.                          *)
LEMMA PollInvInit == Init => PollInv
<1> SUFFICES ASSUME Init PROVE PollInv
    OBVIOUS
<1>1. signatures \in Seq(Sigs)
    BY DEF Init
<1>2. TypeOK
    BY <1>1, MaxIterationsAssumption DEF Init, PollerInit, NoAnswer, TypeOK, ChainStatus
<1>3. OneOnChain /\ LandedIsListed /\ OkMeansConfirmed /\ ErrorIsFailed
    BY NoSigAssumption DEF Init, PollerInit, NoAnswer, OneOnChain, LandedIsListed,
       OkMeansConfirmed, ErrorIsFailed
<1> QED  BY <1>2, <1>3 DEF PollInv

(* Every step of the cluster keeps the invariant: what is confirmed stays    *)
(* confirmed, and a nonce is used once on a fork.                            *)
LEMMA ChainStepInv == PollInv /\ ChainStep => PollInv'
<1> SUFFICES ASSUME PollInv, ChainStep PROVE PollInv'
    OBVIOUS
<1> USE DEF PollInv
<1>1. PICK s \in Sigs : ClusterStep(s)
    BY DEF ChainStep
<1>2. UNCHANGED <<signatures, wait_confirmation, nonce, poll_count, landed_sig, poller, answer>>
    BY DEF ChainStep, pollerVars
<1>3. /\ chain' \in [Sigs -> ChainStatus]
      /\ \A u \in Sigs : u # s => chain'[u] = chain[u]
      /\ \A u \in Sigs : chain[u] \in {"ok", "failed"} => chain'[u] = chain[u]
    BY <1>1 DEF ClusterStep, Land, Confirm, Abandon, TypeOK, ChainStatus
<1>4. TypeOK'
    BY <1>2, <1>3 DEF TypeOK
<1>5. OneOnChain'
    <2>1. chain[s] = "absent" /\ chain'[s] # "absent" /\ nonce =>
              \A u \in Sigs : chain[u] = "absent"
        BY <1>1 DEF ClusterStep, Land, Confirm, Abandon
    <2> QED  BY <1>2, <1>3, <2>1 DEF OneOnChain
<1>6. LandedIsListed'
    BY <1>2 DEF LandedIsListed
<1>7. OkMeansConfirmed'
    BY <1>2, <1>3 DEF OkMeansConfirmed, TypeOK
<1>8. ErrorIsFailed'
    BY <1>2, <1>3 DEF ErrorIsFailed, TypeOK
<1> QED  BY <1>4, <1>5, <1>6, <1>7, <1>8

(* Every step of the function keeps the invariant.                           *)
LEMMA PollStepInv == PollInv /\ PollStep => PollInv'
<1> SUFFICES ASSUME PollInv, PollStep PROVE PollInv'
    OBVIOUS
<1> USE DEF PollInv
<1>1. UNCHANGED <<signatures, wait_confirmation, nonce, chain>>
    BY DEF PollStep
<1>2. OneOnChain'
    BY <1>1 DEF OneOnChain
<1>3. CASE Enter
    <2>1. signatures # << >> => 1 \in DOMAIN signatures /\ signatures[1] \in Sigs
        BY DEF TypeOK
    <2> QED  BY <1>1, <1>2, <1>3, <2>1 DEF Enter, Answer, TypeOK, LandedIsListed,
                OkMeansConfirmed, ErrorIsFailed
<1>4. CASE TimeOut
    BY <1>1, <1>2, <1>4 DEF TimeOut, Answer, TypeOK, LandedIsListed,
       OkMeansConfirmed, ErrorIsFailed
<1>5. CASE Iterate
    BY <1>1, <1>2, <1>5, MaxIterationsAssumption DEF Iterate, TypeOK, LandedIsListed,
       OkMeansConfirmed, ErrorIsFailed
<1>6. CASE StatusesFail
    BY <1>1, <1>2, <1>6 DEF StatusesFail, Answer, TypeOK, LandedIsListed,
       OkMeansConfirmed, ErrorIsFailed
<1>7. CASE Statuses
    <2>1. DOMAIN signatures \subseteq Nat
        BY DEF TypeOK
    <2>2. \A i \in DOMAIN signatures : signatures[i] \in Sigs
        BY DEF TypeOK
    <2>3. CASE Confirmed # {}
        <3>1. Min(Confirmed) \in Confirmed
            BY <2>1, <2>3, FirstIndex DEF Confirmed
        <3> DEFINE i == Min(Confirmed)
        <3>2. i \in DOMAIN signatures /\ chain[signatures[i]] = "ok" /\ signatures[i] \in Sigs
            BY <3>1, <2>2 DEF Confirmed
        <3> HIDE DEF i
        <3>3. /\ answer' = [kind |-> "ok", sig |-> signatures[i]]
              /\ poller' = "returned"
              /\ UNCHANGED <<landed_sig, poll_count>>
            BY <1>7, <2>3 DEF Statuses, Answer, i
        <3> QED  BY <1>1, <1>2, <3>2, <3>3 DEF TypeOK, LandedIsListed,
                    OkMeansConfirmed, ErrorIsFailed
    <2>4. CASE Confirmed = {}
        <3>1. /\ landed_sig' = IF landed_sig = NoSig /\ Seen # {}
                               THEN signatures[Min(Seen)] ELSE landed_sig
              /\ poller' = IF landed_sig' = NoSig \/ poll_count < GetTxAfter
                           THEN "check_time" ELSE "get_transaction"
              /\ UNCHANGED <<answer, poll_count>>
            BY <1>7, <2>4 DEF Statuses
        <3>2. Seen # {} => Min(Seen) \in DOMAIN signatures
            <4>1. Seen \subseteq Nat /\ Seen \subseteq DOMAIN signatures
                BY <2>1 DEF Seen
            <4> QED  BY <4>1, FirstIndex
        <3>3. /\ landed_sig' \in Sigs \cup {NoSig}
              /\ landed_sig' # NoSig => \E i \in DOMAIN signatures : signatures[i] = landed_sig'
            BY <3>1, <3>2, <2>2 DEF TypeOK, LandedIsListed
        <3>4. poller' \in {"check_time", "get_transaction"}
              /\ (poller' = "get_transaction" => landed_sig' # NoSig)
            BY <3>1
        <3> QED  BY <1>1, <1>2, <3>1, <3>3, <3>4 DEF TypeOK, LandedIsListed,
                    OkMeansConfirmed, ErrorIsFailed
    <2> QED  BY <2>3, <2>4
<1>8. CASE TransactionUnknown
    BY <1>1, <1>2, <1>8 DEF TransactionUnknown, TypeOK, LandedIsListed,
       OkMeansConfirmed, ErrorIsFailed
<1>9. CASE TransactionKnown
    <2>1. landed_sig \in Sigs /\ \E i \in DOMAIN signatures : signatures[i] = landed_sig
        BY <1>9 DEF TransactionKnown, TypeOK, LandedIsListed
    <2> QED  BY <1>1, <1>2, <1>9, <2>1 DEF TransactionKnown, Answer, TypeOK,
                LandedIsListed, OkMeansConfirmed, ErrorIsFailed
<1> QED  BY <1>3, <1>4, <1>5, <1>6, <1>7, <1>8, <1>9 DEF PollStep, Poller

(* Steps that leave the chain and the poll alone keep it, too.               *)
LEMMA PollUntouched ==
    ASSUME PollInv, UNCHANGED vars
    PROVE  PollInv'
BY DEF vars, pollerVars, PollInv, TypeOK, OneOnChain, LandedIsListed, OkMeansConfirmed,
   ErrorIsFailed

-----------------------------------------------------------------------------
(* The function and the cluster keep the invariant for ever.                 *)
THEOREM PollInvariance == Spec => []PollInv
<1>1. PollInv /\ [Next]_vars => PollInv'
    <2> SUFFICES ASSUME PollInv, [Next]_vars PROVE PollInv'
        OBVIOUS
    <2>1. CASE Next
        BY <2>1, PollStepInv, ChainStepInv DEF Next
    <2>2. CASE UNCHANGED vars
        BY <2>2, PollUntouched
    <2> QED  BY <2>1, <2>2
<1> QED  BY PollInvInit, <1>1, PTL DEF Spec

(* Ok from poll_any_transaction_confirmation means that the transaction it   *)
(* names is one of the list and is confirmed without error, for ever after.  *)
THEOREM OkIsConfirmed == Spec => []OkMeansConfirmed
<1>1. PollInv => OkMeansConfirmed
    BY DEF PollInv
<1> QED  BY PollInvariance, <1>1, PTL

(* The invariant makes a TradeError final under a nonce.                      *)
LEMMA PollInvIsFinal == PollInv => TradeErrorIsFinal
<1> SUFFICES ASSUME PollInv, answer.kind = "trade_error", nonce
             PROVE  \A s \in Sigs : chain[s] # "ok"
    BY DEF TradeErrorIsFinal
<1>1. answer.sig \in Sigs /\ chain[answer.sig] = "failed"
    BY DEF PollInv, TypeOK, ErrorIsFailed
<1> QED  BY <1>1 DEF PollInv, OneOnChain

(* A TradeError of poll_any_transaction_confirmation is final under a        *)
(* durable nonce: no transaction that shares it is confirmed, now or later.  *)
THEOREM ErrorIsFinal == Spec => []TradeErrorIsFinal
BY PollInvariance, PollInvIsFinal, PTL
=============================================================================
