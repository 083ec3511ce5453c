------------------------------ MODULE WsolSetup ------------------------------
(***************************************************************************)
(* `ensure_wsol_ata` (lib.rs): on startup every client makes sure that the  *)
(* wallet's wrapped-SOL account exists, with up to MaxRetries transactions  *)
(* (idempotent creations) that are each given a limited time.  Several      *)
(* clients of one wallet may start at once, and a transaction the client    *)
(* has given up may still land.  Startup runs it.                           *)
(***************************************************************************)
EXTENDS Naturals

CONSTANTS
    Clients,     \* clients of the wallet that start up
    MaxRetries   \* attempts each of them makes (3)

ASSUME MaxRetriesAssumption == MaxRetries \in Nat \ {0}

VARIABLES
    account,   \* the account exists
    inflight,  \* transactions that were sent and may yet land
    landed,    \* those of them that landed while their client waits
    client,    \* where each client is
    attempt    \* attempt[c]: number of its current transaction

clusterVars == <<account, inflight, landed>>
setupVars == <<clusterVars, client, attempt>>

Transactions == Clients \X (1..MaxRetries)
Tx(c) == <<c, attempt[c]>>

SetupInit ==
    /\ account \in BOOLEAN
    /\ inflight = {}
    /\ landed = {}
    /\ client = [c \in Clients |-> "start"]
    /\ attempt = [c \in Clients |-> 1]

Goto(c, place) == client' = [client EXCEPT ![c] = place]

(* get_account answers Ok only if the account exists; the RPC may fail.     *)
AccountExists(c) ==
    /\ client[c] = "start"
    /\ account
    /\ Goto(c, "returned")
    /\ UNCHANGED <<clusterVars, attempt>>

AccountNotFound(c) ==
    /\ client[c] = "start"
    /\ Goto(c, "blockhash")
    /\ UNCHANGED <<clusterVars, attempt>>

(* Fault: one attempt too many.                                             *)
NextAttemptOneMore(c) ==
    IF attempt[c] <= MaxRetries
    THEN Goto(c, "blockhash") /\ attempt' = [attempt EXCEPT ![c] = @ + 1]
    ELSE Goto(c, "panicked") /\ UNCHANGED attempt

(* The end of an attempt: the next one, or panic! after the last.           *)
NextAttempt(c) ==
    IF attempt[c] < MaxRetries
    THEN Goto(c, "blockhash") /\ attempt' = [attempt EXCEPT ![c] = @ + 1]
    ELSE Goto(c, "panicked") /\ UNCHANGED attempt

BlockhashFails(c) ==
    /\ client[c] = "blockhash"
    /\ NextAttempt(c)
    /\ UNCHANGED clusterVars

SendCreation(c) ==
    /\ client[c] = "blockhash"
    /\ inflight' = inflight \cup {Tx(c)}
    /\ Goto(c, "confirm")
    /\ UNCHANGED <<account, landed, attempt>>

(* send_and_confirm_transaction returns Ok ... *)
Confirmed(c) ==
    /\ client[c] = "confirm"
    /\ Tx(c) \in landed
    /\ Goto(c, "returned")
    /\ landed' = landed \ {Tx(c)}
    /\ UNCHANGED <<account, inflight, attempt>>

(* Fault: an error is taken for "already exists".                           *)
SendFailsReturns(c) ==
    /\ client[c] = "confirm"
    /\ Goto(c, "returned")
    /\ landed' = landed \ {Tx(c)}
    /\ UNCHANGED <<account, inflight, attempt>>

(* ... or an error, whether or not the transaction lands ... *)
SendFails(c) ==
    /\ client[c] = "confirm"
    /\ Goto(c, "verify")
    /\ landed' = landed \ {Tx(c)}
    /\ UNCHANGED <<account, inflight, attempt>>

(* ... or nothing within TIMEOUT_SECS: the account is not looked at.        *)
TimesOut(c) ==
    /\ client[c] = "confirm"
    /\ NextAttempt(c)
    /\ landed' = landed \ {Tx(c)}
    /\ UNCHANGED <<account, inflight>>

(* After an error: does the account exist all the same?                     *)
VerifyFinds(c) ==
    /\ client[c] = "verify"
    /\ account
    /\ Goto(c, "returned")
    /\ UNCHANGED <<clusterVars, attempt>>

(* Fault: the attempt is not counted.                                       *)
VerifyFailsUncounted(c) ==
    /\ client[c] = "verify"
    /\ Goto(c, "blockhash")
    /\ UNCHANGED <<clusterVars, attempt>>

VerifyFails(c) ==
    /\ client[c] = "verify"
    /\ NextAttempt(c)
    /\ UNCHANGED clusterVars

(* The cluster executes a transaction, or its blockhash expires.            *)
LandCreation(x) ==
    /\ x \in inflight
    /\ inflight' = inflight \ {x}
    /\ landed' = IF client[x[1]] = "confirm" /\ x = Tx(x[1]) THEN landed \cup {x} ELSE landed
    /\ account' = TRUE
    /\ UNCHANGED <<client, attempt>>

ExpireCreation(x) ==
    /\ x \in inflight
    /\ inflight' = inflight \ {x}
    /\ UNCHANGED <<account, landed, client, attempt>>

-----------------------------------------------------------------------------
Client(c) ==
    \/ AccountExists(c) \/ AccountNotFound(c)
    \/ BlockhashFails(c) \/ SendCreation(c)
    \/ Confirmed(c) \/ SendFails(c) \/ TimesOut(c)
    \/ VerifyFinds(c) \/ VerifyFails(c)

Cluster == \E x \in Transactions : LandCreation(x) \/ ExpireCreation(x)

-----------------------------------------------------------------------------
SetupTypeOK ==
    /\ account \in BOOLEAN
    /\ inflight \subseteq Transactions
    /\ landed \subseteq Transactions
    /\ client \in [Clients -> {"start", "blockhash", "confirm", "verify",
                               "returned", "panicked"}]
    /\ attempt \in [Clients -> 1..MaxRetries]

(* A client that goes on to trade has its account, whichever of the three   *)
(* ways out it took and whoever's transaction created it.                   *)
ReadyMeansAccountExists == \A c \in Clients : client[c] = "returned" => account
=============================================================================
