------------------------------- MODULE Wallet -------------------------------
(***************************************************************************)
(* What the payer owns, and what the instructions of a transaction do to it. *)
(* The programs on the chain are external: an instruction maps a wallet to   *)
(* the set of wallets it can leave, none if it fails, and a transaction is   *)
(* all or nothing.  Fees and tips of transactions are left out.              *)
(***************************************************************************)
EXTENDS Integers, Sequences

CONSTANTS
    Rent,        \* lamports an open token account holds for itself
    Surplus      \* bound on what a swap pays above its limit

ASSUME RentAssumption == Rent \in Nat \ {0}
ASSUME SurplusAssumption == Surplus \in Nat

(* The payer's token accounts, by mint and by the way their address is made: *)
(* the associated address or create_with_seed.                               *)
Mints == {"WSOL", "USDC", "TOK"}
Addresses == Mints \X {"ata", "seed"}
Sol == <<"SOL", "wallet">>
Shut == [open |-> FALSE, amt |-> 0, lam |-> 0]

IsNative(a) == a[1] = "WSOL"
Put(w, a, account) == [w EXCEPT !.acc[a] = account]

(* n units out of, or into, SOL or an account; the lamports of a WSOL        *)
(* account go with them.                                                     *)
CanTake(w, a, n) == IF a = Sol THEN w.sol >= n ELSE w.acc[a].open /\ w.acc[a].amt >= n
CanGive(w, a) == a = Sol \/ w.acc[a].open
Give(w, a, n) ==
    IF a = Sol
    THEN [w EXCEPT !.sol = @ + n]
    ELSE [w EXCEPT !.acc[a].amt = @ + n, !.acc[a].lam = IF IsNative(a) THEN @ + n ELSE @]
Take(w, a, n) == Give(w, a, -n)

-----------------------------------------------------------------------------
(* Instructions.                                                             *)
CreateAta(mint) == [op |-> "create_ata", a |-> <<mint, "ata">>]          \* idempotent
CreateWithSeed(mint) == [op |-> "create_seed", a |-> <<mint, "seed">>]   \* not
SystemTransfer(a, n) == [op |-> "system_transfer", a |-> a, n |-> n]
SyncNative(a) == [op |-> "sync", a |-> a]
TokenTransfer(a, b, n) == [op |-> "transfer", a |-> a, b |-> b, n |-> n]
CloseAccount(a) == [op |-> "close", a |-> a]
PayOut(n) == [op |-> "pay_out", n |-> n]
Cashback(a) == [op |-> "cashback", a |-> a]
SwapExact(in, spend, out, least) ==        \* spend units in, at least `least` out
    [op |-> "swap", a |-> in, spend |-> {spend}, b |-> out, got |-> least..(least + Surplus)]
SwapUpTo(in, most, out, exactly) ==        \* `exactly` units out, at most `most` in
    [op |-> "swap", a |-> in, spend |-> 0..most, b |-> out, got |-> {exactly}]

Open(w, a) ==
    IF w.sol >= Rent
    THEN {Put([w EXCEPT !.sol = @ - Rent], a, [open |-> TRUE, amt |-> 0, lam |-> Rent])}
    ELSE {}

Swapped(w, i) ==
    IF CanGive(w, i.b)
    THEN UNION {{Give(Take(w, i.a, s), i.b, g) : g \in i.got} : s \in {n \in i.spend : CanTake(w, i.a, n)}}
    ELSE {}

(* What can be left of w by instruction i.                                   *)
Effects(w, i) ==
    CASE i.op = "create_ata" -> IF w.acc[i.a].open THEN {w} ELSE Open(w, i.a)
      [] i.op = "create_seed" -> IF w.acc[i.a].open THEN {} ELSE Open(w, i.a)
      [] i.op = "system_transfer" ->
            IF w.sol >= i.n
            THEN {Put([w EXCEPT !.sol = @ - i.n], i.a, [w.acc[i.a] EXCEPT !.lam = @ + i.n])}
            ELSE {}
      [] i.op = "sync" ->
            IF w.acc[i.a].open
            THEN {Put(w, i.a, [w.acc[i.a] EXCEPT !.amt = w.acc[i.a].lam - Rent])}
            ELSE {}
      [] i.op = "transfer" ->
            IF CanTake(w, i.a, i.n) /\ CanGive(w, i.b) THEN {Give(Take(w, i.a, i.n), i.b, i.n)} ELSE {}
      [] i.op = "close" ->
            IF w.acc[i.a].open /\ (IsNative(i.a) \/ w.acc[i.a].amt = 0)
            THEN {Put([w EXCEPT !.sol = @ + w.acc[i.a].lam], i.a, Shut)}
            ELSE {}
      [] i.op = "pay_out" -> IF w.sol >= i.n THEN {[w EXCEPT !.sol = @ - i.n]} ELSE {}
      [] i.op = "cashback" -> IF CanGive(w, i.a) THEN {Give(w, i.a, n) : n \in 0..Surplus} ELSE {}
      [] i.op = "swap" -> Swapped(w, i)

(* What a whole transaction can leave; none if one of its instructions fails. *)
After(W, i) == UNION {Effects(x, i) : x \in W}
Outcomes(w, instructions) ==
    LET left[k \in 0..Len(instructions)] == IF k = 0 THEN {w} ELSE After(left[k - 1], instructions[k])
    IN  left[Len(instructions)]

-----------------------------------------------------------------------------
Wallets == [sol : Nat, acc : [Addresses -> [open : BOOLEAN, amt : Nat, lam : Nat]]]

(* A closed account is empty, and the wrapped balance of an open WSOL        *)
(* account is what it holds above its rent.                                  *)
ClosedAreEmpty(w) == \A a \in Addresses : ~w.acc[a].open => w.acc[a] = Shut
Backed(w) == \A a \in Addresses : IsNative(a) /\ w.acc[a].open => w.acc[a].amt = w.acc[a].lam - Rent

(* Lamports of the payer, rents and wrapped ones included; units of a mint.  *)
Lamports(w) ==
    LET lam(mint) == w.acc[<<mint, "ata">>].lam + w.acc[<<mint, "seed">>].lam
    IN  w.sol + lam("WSOL") + lam("USDC") + lam("TOK")
Units(w, mint) == w.acc[<<mint, "ata">>].amt + w.acc[<<mint, "seed">>].amt
=============================================================================
