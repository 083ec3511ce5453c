---------------------------- MODULE QuicReconnect ----------------------------
(***************************************************************************)
(* The QUIC clients (swqos/soyas.rs and swqos/speedlanding.rs, line for     *)
(* line the same): many trades send through one shared connection; a sender *)
(* whose stream fails reconnects under a try_lock and sends once more.       *)
(*                                                                         *)
(* Connections are numbered in the order their handshakes start; the one    *)
(* made by `new` is number 1.                                               *)
(***************************************************************************)
EXTENDS Naturals, FiniteSets

CONSTANTS
    Senders,    \* concurrent calls of send_transaction
    Nobody,     \* the mutex is free
    MaxSends    \* calls each sender makes in a row (send_transactions)

ASSUME SendersAssumption == IsFiniteSet(Senders)
ASSUME NobodyAssumption == Nobody \notin Senders
ASSUME MaxSendsAssumption == MaxSends \in Nat

VARIABLES
    connection, \* the ArcSwap
    alive,      \* connections the peer still serves
    opened,     \* handshakes started, the first included
    reconnect,  \* holder of the mutex
    caller,     \* where each sender is
    using,      \* connection a sender has loaded or is opening
    failed,     \* connection its first attempt failed on
    sends,      \* calls it has started
    outcome      \* how its last call ended

callVars == <<caller, using, failed, sends, outcome>>
quicVars == <<connection, alive, opened, reconnect, callVars>>

Connections == 1..(1 + MaxSends * Cardinality(Senders))

QuicInit ==
    /\ connection = 1
    /\ alive = {1}
    /\ opened = 1
    /\ reconnect = Nobody
    /\ caller = [s \in Senders |-> "idle"]
    /\ using = [s \in Senders |-> 1]
    /\ failed = [s \in Senders |-> 0]
    /\ sends = [s \in Senders |-> 0]
    /\ outcome = [s \in Senders |-> "none"]

Goto(s, place) == caller' = [caller EXCEPT ![s] = place]

EndCall(s, r) ==
    /\ Goto(s, "idle")
    /\ outcome' = [outcome EXCEPT ![s] = r]

-----------------------------------------------------------------------------
(* send_transaction loads the shared connection.                            *)
Load(s) ==
    /\ caller[s] = "idle"
    /\ sends[s] < MaxSends
    /\ sends' = [sends EXCEPT ![s] = @ + 1]
    /\ using' = [using EXCEPT ![s] = connection]
    /\ failed' = [failed EXCEPT ![s] = 0]
    /\ Goto(s, "send")
    /\ UNCHANGED <<connection, alive, opened, reconnect, outcome>>

(* try_send_bytes, first or second attempt.  A stream may fail although the *)
(* connection is open, and may also wait for the peer without end: open_uni *)
(* waits for a stream to be granted and write_all for flow control.         *)
SendSucceeds(s) ==
    /\ caller[s] \in {"send", "resend"}
    /\ using[s] \in alive
    /\ Goto(s, "confirm")
    /\ UNCHANGED <<connection, alive, opened, reconnect, using, failed, sends, outcome>>

FirstSendFails(s) ==
    /\ caller[s] = "send"
    /\ failed' = [failed EXCEPT ![s] = using[s]]
    /\ Goto(s, "try_lock")
    /\ UNCHANGED <<connection, alive, opened, reconnect, using, sends, outcome>>

(* Fault: the second failure starts over with another reconnection.         *)
SecondSendReconnects(s) ==
    /\ caller[s] = "resend"
    /\ Goto(s, "try_lock")
    /\ UNCHANGED <<connection, alive, opened, reconnect, using, failed, sends, outcome>>

(* Fault: the second failure is retried without end.                        *)
SecondSendRetries(s) ==
    /\ caller[s] = "resend"
    /\ Goto(s, "reload")
    /\ UNCHANGED <<connection, alive, opened, reconnect, using, failed, sends, outcome>>

SecondSendFails(s) ==
    /\ caller[s] = "resend"
    /\ EndCall(s, "error")
    /\ UNCHANGED <<connection, alive, opened, reconnect, using, failed, sends>>

(* Fault: a sender that does not get the lock sends again right away.       *)
LockTakenSendsAgain(s) ==
    /\ caller[s] = "try_lock"
    /\ reconnect # Nobody
    /\ Goto(s, "reload")
    /\ UNCHANGED <<connection, alive, opened, reconnect, using, failed, sends, outcome>>

(* reconnect: try_lock()? does not wait.                                    *)
LockTaken(s) ==
    /\ caller[s] = "try_lock"
    /\ reconnect # Nobody
    /\ EndCall(s, "error")
    /\ UNCHANGED <<connection, alive, opened, reconnect, using, failed, sends>>

(* Fault: reconnections are not exclusive.                                  *)
LockFree(s) ==
    /\ caller[s] = "try_lock"
    /\ reconnect' = s
    /\ opened' = opened + 1
    /\ using' = [using EXCEPT ![s] = opened + 1]
    /\ Goto(s, "handshake")
    /\ UNCHANGED <<connection, alive, failed, sends, outcome>>

Lock(s) ==
    /\ caller[s] = "try_lock"
    /\ reconnect = Nobody
    /\ reconnect' = s
    /\ opened' = opened + 1
    /\ using' = [using EXCEPT ![s] = opened + 1]
    /\ Goto(s, "handshake")
    /\ UNCHANGED <<connection, alive, failed, sends, outcome>>

(* Fault: a failed handshake keeps the lock.                                *)
HandshakeFailsLocked(s) ==
    /\ caller[s] = "handshake"
    /\ EndCall(s, "error")
    /\ UNCHANGED <<connection, alive, opened, reconnect, using, failed, sends>>

(* connect_with()? or its handshake fails: the guard is dropped.            *)
HandshakeFails(s) ==
    /\ caller[s] = "handshake"
    /\ reconnect' = Nobody
    /\ EndCall(s, "error")
    /\ UNCHANGED <<connection, alive, opened, using, failed, sends>>

Store(s) ==
    /\ caller[s] = "handshake"
    /\ alive' = alive \cup {using[s]}
    /\ connection' = using[s]
    /\ Goto(s, "stored")
    /\ UNCHANGED <<opened, reconnect, using, failed, sends, outcome>>

(* reconnect returns and drops its guard. *)
Unlock(s) ==
    /\ caller[s] = "stored"
    /\ reconnect' = Nobody
    /\ Goto(s, "reload")
    /\ UNCHANGED <<connection, alive, opened, using, failed, sends, outcome>>

Reload(s) ==
    /\ caller[s] = "reload"
    /\ using' = [using EXCEPT ![s] = connection]
    /\ Goto(s, "resend")
    /\ UNCHANGED <<connection, alive, opened, reconnect, failed, sends, outcome>>

(* poll_transaction_confirmation, whose answer is the answer of the call; it *)
(* reconnects nothing and takes no lock.                                    *)
ConfirmationEnds(s) ==
    /\ caller[s] = "confirm"
    /\ \E r \in {"ok", "error"} : EndCall(s, r)
    /\ UNCHANGED <<connection, alive, opened, reconnect, using, failed, sends>>

(* A connection is lost: the peer closes it, or does not answer the         *)
(* keep-alive until the idle timeout strikes.                               *)
Break(c) ==
    /\ c \in alive
    /\ alive' = alive \ {c}
    /\ UNCHANGED <<connection, opened, reconnect, callVars>>

-----------------------------------------------------------------------------
(* What does not wait for the peer's goodwill.  A stream of a connection that *)
(* is lost fails.  No keep-alive is sent before a connection is established,  *)
(* so a handshake that gets no answer ends by the idle timeout.  The          *)
(* confirmation ends by its clock.  The rest is local.                       *)
Bounded(s) ==
    \/ using[s] \notin alive /\ (FirstSendFails(s) \/ SecondSendFails(s))
    \/ LockTaken(s) \/ Lock(s) \/ HandshakeFails(s) \/ Store(s)
    \/ Unlock(s) \/ Reload(s) \/ ConfirmationEnds(s)

(* What the peer of an open connection may delay for ever.                   *)
Stream(s) == SendSucceeds(s) \/ FirstSendFails(s) \/ SecondSendFails(s)

QuicNext ==
    \/ \E s \in Senders : Load(s) \/ Stream(s) \/ Bounded(s)
    \/ \E c \in Connections : Break(c)

QuicSpec == QuicInit /\ [][QuicNext]_quicVars /\ \A s \in Senders : WF_quicVars(Bounded(s))

-----------------------------------------------------------------------------
QuicTypeOK ==
    /\ connection \in Connections
    /\ alive \subseteq Connections
    /\ opened \in Connections
    /\ reconnect \in Senders \cup {Nobody}
    /\ caller \in [Senders -> {"idle", "send", "try_lock", "handshake", "stored",
                               "reload", "resend", "confirm"}]
    /\ using \in [Senders -> Connections]
    /\ failed \in [Senders -> Connections \cup {0}]
    /\ sends \in [Senders -> 0..MaxSends]
    /\ outcome \in [Senders -> {"none", "ok", "error"}]

(* The shared connection only moves forward: no late handshake overwrites   *)
(* the connection of one that started after it.                             *)
ConnectionNeverRegresses == [][connection' >= connection]_connection

(* The second attempt never goes out on the connection the first one failed *)
(* on, nor on an older one, whoever reconnected in between.                 *)
ResendOnNewConnection ==
    \A s \in Senders : caller[s] = "resend" => using[s] > failed[s]

(* A reconnection that fails does not lock the others out for good: the     *)
(* guard is released on every path.                                         *)
LockIsReleased == reconnect # Nobody ~> reconnect = Nobody

(* The sender is in open_uni or write_all of a connection that is open.      *)
Streaming(s) == caller[s] \in {"send", "resend"} /\ using[s] \in alive

(* Every call of send_transaction ends, although senders run into each      *)
(* other's reconnections and connections keep breaking; only a call whose    *)
(* one stream is delayed for ever by a peer that keeps the connection open    *)
(* does not.                                                                *)
SendReturns ==
    \A s \in Senders : []<>(caller[s] = "idle") \/ <>[]Streaming(s)

(* A second attempt of send_transaction never uses the connection the first  *)
(* one failed on.                                                            *)
ResendIsSafe == QuicTypeOK /\ ResendOnNewConnection

(* No peer can hang a send but in a stream of its open connection, and no     *)
(* reconnection keeps the lock, which would turn every later failure of every *)
(* sender into an error of try_lock.                                         *)
EverySendEnds == LockIsReleased /\ SendReturns
=============================================================================
