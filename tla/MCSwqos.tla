------------------------------- MODULE MCSwqos -------------------------------
(***************************************************************************)
(* Model for TLC of what src/swqos does: a confirmation poll, a call of a    *)
(* request-answer client, calls of a QUIC client, the ping task of a client. *)
(* The four are told apart by `kind`: one of them moves, the others rest.    *)
(***************************************************************************)
EXTENDS SwqosSend, QuicReconnect, KeepAlive

VARIABLE kind

(* A call that sent the empty list has returned, and nothing is polled.      *)
NoCall ==
    /\ client = "helius" /\ op = "send_transactions" /\ batch = << >>
    /\ sender = "returned" /\ at = 1 /\ handed = {} /\ result = "ok"

NoPoll == Init /\ signatures = << >> /\ ~wait_confirmation /\ ~nonce

SwqosInit ==
    /\ QuicInit /\ PingInit
    /\ \/ kind = "poll" /\ Init /\ NoCall
       \/ kind = "request" /\ SendInit
       \/ kind \in {"quic", "ping"} /\ NoPoll /\ NoCall

SwqosNext ==
    /\ \/ kind = "poll" /\ Next /\ UNCHANGED <<sendVars, quicVars, pingVars>>
       \/ kind = "request" /\ SendNext /\ UNCHANGED <<quicVars, pingVars>>
       \/ kind = "quic" /\ QuicNext /\ UNCHANGED <<vars, sendVars, pingVars>>
       \/ kind = "ping" /\ PingNext /\ UNCHANGED <<vars, sendVars, quicVars>>
    /\ UNCHANGED kind

(* The fairness of each of the four, while it is the one that moves.         *)
SwqosSpec ==
    /\ SwqosInit /\ [][SwqosNext]_<<vars, sendVars, quicVars, pingVars, kind>>
    /\ WF_<<vars, sendVars>>(kind = "request" /\ SendStep)
    /\ \A s \in Senders : WF_quicVars(kind = "quic" /\ Bounded(s))
    /\ WF_pingVars(kind = "ping" /\ Starter)
    /\ WF_pingVars(kind = "ping" /\ Loop)
    /\ WF_pingVars(kind = "ping" /\ Abort)
=============================================================================
