----------------------------- MODULE TradeProofs -----------------------------
(***************************************************************************)
(* Proofs about TradingClient and Market, for every u64 width, every fee,    *)
(* rent, request, market and wallet the assumptions admit, and any number    *)
(* of operations and trades.  First what each list of instructions can do to *)
(* a wallet, then the client, then the reserves its quotes are taken from.   *)
(***************************************************************************)
EXTENDS TradingClient, Market, Loops, FiniteSetTheorems, SequenceTheorems

-----------------------------------------------------------------------------
(* The loop of Outcomes over the instructions of a transaction.               *)
Rounds(L, w, list, n) == L = [k \in 0..n |-> IF k = 0 THEN {w} ELSE After(L[k - 1], list[k])]

(* It has a state after every instruction.                                   *)
LEMMA RoundsExist ==
    ASSUME NEW w, NEW list, NEW n \in Nat
    PROVE  \E L : Rounds(L, w, list, n)
<1> DEFINE Stuck == {m \in 0..n : ~\E L : Rounds(L, w, list, m)}
<1>1. SUFFICES ASSUME Stuck # {} PROVE FALSE
    BY n \in 0..n
<1>2. PICK m \in Stuck : \A k \in Stuck : m <= k
    <2>1. Stuck \in SUBSET Nat
        OBVIOUS
    <2> HIDE DEF Stuck
    <2> QED  BY <1>1, <2>1, Least
<1>3. CASE m = 0
    <2> DEFINE L == [k \in 0..0 |-> {w}]
    <2>1. Rounds(L, w, list, 0)
        BY DEF Rounds
    <2> QED  BY <1>2, <1>3, <2>1
<1>4. CASE m # 0
    <2>1. m \in Nat /\ m - 1 \in Nat /\ m - 1 \in 0..n /\ m - 1 \notin Stuck
        BY <1>2, <1>4
    <2>2. PICK E : Rounds(E, w, list, m - 1)
        BY <2>1
    <2>3. /\ E[0] = {w}
          /\ \A k \in 1..(m - 1) : E[k] = After(E[k - 1], list[k])
        <3>1. \A k \in 0..(m - 1) : E[k] = IF k = 0 THEN {w} ELSE After(E[k - 1], list[k])
            BY <2>2 DEF Rounds
        <3>2. 0 \in 0..(m - 1) /\ \A k \in 1..(m - 1) : k \in 0..(m - 1) /\ k # 0
            BY <2>1
        <3> QED  BY <3>1, <3>2
    <2> DEFINE F == [k \in 0..m |-> IF k = m THEN After(E[m - 1], list[m]) ELSE E[k]]
    <2>4. ASSUME NEW k \in 0..m PROVE F[k] = IF k = 0 THEN {w} ELSE After(F[k - 1], list[k])
        <3>1. CASE k = 0
            BY <1>4, <2>3, <3>1
        <3>2. CASE k = m
            <4>1. m - 1 \in 0..m /\ m - 1 # m /\ m \in 0..m
                BY <2>1
            <4>2. F[m] = After(E[m - 1], list[m]) /\ F[m - 1] = E[m - 1]
                BY <4>1
            <4> QED  BY <1>4, <3>2, <4>2
        <3>3. CASE k # 0 /\ k # m
            <4>1. k \in 1..(m - 1) /\ k - 1 \in 0..m /\ k - 1 # m
                BY <2>1, <3>3
            <4>2. F[k] = E[k] /\ F[k - 1] = E[k - 1]
                BY <3>3, <4>1
            <4> QED  BY <2>3, <3>3, <4>1, <4>2
        <3> QED  BY <3>1, <3>2, <3>3
    <2>5. F = [k \in 0..m |-> F[k]]
        OBVIOUS
    <2> HIDE DEF F
    <2>6. Rounds(F, w, list, m)
        BY <2>4, <2>5 DEF Rounds
    <2> QED  BY <1>2, <2>6
<1> QED  BY <1>3, <1>4

(* The states of the loop; Outcomes is the last of them.                     *)
Leaves(L, w, list, n) ==
    L[0] = {w} /\ (\A k \in 1..n : L[k] = After(L[k - 1], list[k])) /\ Outcomes(w, list) = L[n]

LEMMA OutcomesAreRounds ==
    ASSUME NEW w, NEW list, NEW n \in Nat, n = Len(list)
    PROVE  \E L : Leaves(L, w, list, n)
<1> DEFINE L == CHOOSE f : Rounds(f, w, list, n)
<1>1. Rounds(L, w, list, n)
    BY RoundsExist
<1>2. Outcomes(w, list) = L[n]
    BY DEF Outcomes, Rounds
<1> HIDE DEF L
<1>3. \A k \in 0..n : L[k] = IF k = 0 THEN {w} ELSE After(L[k - 1], list[k])
    BY <1>1 DEF Rounds
<1>4. 0 \in 0..n /\ \A k \in 1..n : k \in 0..n /\ k # 0
    OBVIOUS
<1>5. L[0] = {w} /\ \A k \in 1..n : L[k] = After(L[k - 1], list[k])
    BY <1>3, <1>4
<1> QED  BY <1>2, <1>5 DEF Leaves

(* Nothing happens without instructions, and an instruction at the end works  *)
(* on what the others can leave: the two facts that the proofs use.          *)
LEMMA OutcomesEmpty == ASSUME NEW w PROVE Outcomes(w, << >>) = {w}
<1>1. Len(<< >>) = 0
    OBVIOUS
<1>2. PICK L : Leaves(L, w, << >>, 0)
    BY <1>1, OutcomesAreRounds
<1> QED  BY <1>2 DEF Leaves

Adds(long, list, i) == long = Append(list, i)

LEMMA OutcomesAppend ==
    ASSUME NEW w, NEW S, NEW list \in Seq(S), NEW i \in S, NEW long, Adds(long, list, i)
    PROVE  Outcomes(w, long) = After(Outcomes(w, list), i)
<1> DEFINE n == Len(list)
<1>1. n \in Nat /\ Len(long) = n + 1 /\ (\A k \in 1..n : long[k] = list[k]) /\ long[n + 1] = i
    BY AppendProperties, LenProperties DEF Adds
<1> HIDE DEF n
<1>2. PICK L : Leaves(L, w, list, n)
    BY <1>1, OutcomesAreRounds DEF n
<1>3. PICK M : Leaves(M, w, long, n + 1)
    <2>1. n + 1 \in Nat /\ n + 1 = Len(long)
        BY <1>1
    <2> QED  BY <2>1, OutcomesAreRounds
<1> USE DEF Leaves
<1> DEFINE Differ == {k \in 0..n : L[k] # M[k]}
<1>4. Differ = {}
    <2>1. SUFFICES ASSUME Differ # {} PROVE FALSE
        OBVIOUS
    <2>2. PICK m \in Differ : \A k \in Differ : m <= k
        <3>1. Differ \in SUBSET Nat
            OBVIOUS
        <3> HIDE DEF Differ
        <3> QED  BY <2>1, <3>1, Least
    <2>3. m # 0
        BY <1>2, <1>3, <2>2
    <2>4. m \in 1..n /\ m \in 1..(n + 1) /\ m - 1 \in 0..n /\ m - 1 \notin Differ
        BY <1>1, <2>2, <2>3
    <2>5. L[m] = After(L[m - 1], list[m]) /\ M[m] = After(M[m - 1], list[m])
        BY <1>1, <1>2, <1>3, <2>4
    <2> QED  BY <2>2, <2>4, <2>5
<1>5. M[n] = L[n]
    BY <1>1, <1>4
<1>6. M[n + 1] = After(M[n], i)
    <2>1. n + 1 \in 1..(n + 1) /\ (n + 1) - 1 = n
        BY <1>1
    <2> QED  BY <1>1, <1>3, <2>1
<1> QED  BY <1>2, <1>3, <1>5, <1>6

-----------------------------------------------------------------------------
(* A wallet as transactions find it and leave it.                            *)
Accounts == [open : BOOLEAN, amt : Nat, lam : Nat]
Good(w) == w \in Wallets /\ ClosedAreEmpty(w) /\ Backed(w)

(* v differs from w at most in its SOL and in account a.                     *)
DiffersAt(w, v, a) == v \in Wallets /\ \A b \in Addresses \ {a} : v.acc[b] = w.acc[b]

LEMMA AddressList ==
    Addresses = {<<"WSOL", "ata">>, <<"WSOL", "seed">>, <<"USDC", "ata">>, <<"USDC", "seed">>,
                 <<"TOK", "ata">>, <<"TOK", "seed">>}
BY DEF Addresses, Mints

(* What a change of one account does to the totals.                          *)
LEMMA TotalsOfOneChange ==
    ASSUME NEW w \in Wallets, NEW v, NEW a \in Addresses, DiffersAt(w, v, a)
    PROVE  /\ Lamports(v) = Lamports(w) + (v.sol - w.sol) + (v.acc[a].lam - w.acc[a].lam)
           /\ \A m \in Mints :
                 Units(v, m) = Units(w, m) + (IF a[1] = m THEN v.acc[a].amt - w.acc[a].amt ELSE 0)
           /\ Lamports(w) \in Nat /\ Lamports(v) \in Nat
           /\ \A m \in Mints : Units(w, m) \in Nat /\ Units(v, m) \in Nat
<1> DEFINE L(x, b) == x.acc[b].lam
           U(x, b) == x.acc[b].amt
<1>1. v \in Wallets
    BY DEF DiffersAt
<1>2. \A b \in Addresses : /\ L(w, b) \in Nat /\ L(v, b) \in Nat /\ U(w, b) \in Nat /\ U(v, b) \in Nat
                           /\ b # a => L(v, b) = L(w, b) /\ U(v, b) = U(w, b)
    BY <1>1 DEF DiffersAt, Wallets
<1>3. w.sol \in Nat /\ v.sol \in Nat
    BY <1>1 DEF Wallets
<1>4. \A x : /\ Lamports(x) = x.sol + (L(x, <<"WSOL", "ata">>) + L(x, <<"WSOL", "seed">>))
                                    + (L(x, <<"USDC", "ata">>) + L(x, <<"USDC", "seed">>))
                                    + (L(x, <<"TOK", "ata">>) + L(x, <<"TOK", "seed">>))
             /\ \A m : Units(x, m) = U(x, <<m, "ata">>) + U(x, <<m, "seed">>)
    BY DEF Lamports, Units
<1> HIDE DEF L, U
<1>5. Mints = {"WSOL", "USDC", "TOK"}
    BY DEF Mints
<1>6. /\ <<"WSOL", "ata">> \in Addresses /\ <<"WSOL", "seed">> \in Addresses
      /\ <<"USDC", "ata">> \in Addresses /\ <<"USDC", "seed">> \in Addresses
      /\ <<"TOK", "ata">> \in Addresses /\ <<"TOK", "seed">> \in Addresses
    BY AddressList
<1>7. Lamports(v) = Lamports(w) + (v.sol - w.sol) + (L(v, a) - L(w, a))
    <2>1. CASE a = <<"WSOL", "ata">>
        BY <1>2, <1>3, <1>4, <1>6, <2>1
    <2>2. CASE a = <<"WSOL", "seed">>
        BY <1>2, <1>3, <1>4, <1>6, <2>2
    <2>3. CASE a = <<"USDC", "ata">>
        BY <1>2, <1>3, <1>4, <1>6, <2>3
    <2>4. CASE a = <<"USDC", "seed">>
        BY <1>2, <1>3, <1>4, <1>6, <2>4
    <2>5. CASE a = <<"TOK", "ata">>
        BY <1>2, <1>3, <1>4, <1>6, <2>5
    <2>6. CASE a = <<"TOK", "seed">>
        BY <1>2, <1>3, <1>4, <1>6, <2>6
    <2> QED  BY <2>1, <2>2, <2>3, <2>4, <2>5, <2>6, AddressList
<1>8. ASSUME NEW m \in Mints
      PROVE  Units(v, m) = Units(w, m) + (IF a[1] = m THEN U(v, a) - U(w, a) ELSE 0)
    <2>1. <<m, "ata">> \in Addresses /\ <<m, "seed">> \in Addresses
        BY DEF Addresses
    <2>2. CASE a[1] # m
        <3>1. <<m, "ata">> # a /\ <<m, "seed">> # a
            BY <2>2
        <3> QED  BY <1>2, <1>4, <2>1, <2>2, <3>1
    <2>3. CASE a = <<m, "ata">>
        <3>1. <<m, "seed">> # a /\ a[1] = m
            BY <2>3
        <3> QED  BY <1>2, <1>4, <2>1, <2>3, <3>1
    <2>4. CASE a = <<m, "seed">>
        <3>1. <<m, "ata">> # a /\ a[1] = m
            BY <2>4
        <3> QED  BY <1>2, <1>4, <2>1, <2>4, <3>1
    <2>5. a = <<a[1], "ata">> \/ a = <<a[1], "seed">>
        BY AddressList
    <2> QED  BY <2>2, <2>3, <2>4, <2>5
<1>9. Lamports(w) \in Nat /\ Lamports(v) \in Nat
    BY <1>2, <1>3, <1>4, <1>6
<1>10. \A m \in Mints : Units(w, m) \in Nat /\ Units(v, m) \in Nat
    <2> TAKE m \in Mints
    <2>1. <<m, "ata">> \in Addresses /\ <<m, "seed">> \in Addresses
        BY DEF Addresses
    <2> QED  BY <1>2, <1>4, <2>1
<1> QED  BY <1>7, <1>8, <1>9, <1>10 DEF L, U

(* A wallet is good if the only account that changed still is.               *)
SoundAccount(x, native) == x \in Accounts /\ (~x.open => x = Shut) /\ (native /\ x.open => x.amt = x.lam - Rent)

LEMMA OneChangeIsGood ==
    ASSUME NEW w, NEW v, NEW a \in Addresses, Good(w), DiffersAt(w, v, a), SoundAccount(v.acc[a], IsNative(a))
    PROVE  Good(v)
BY DEF Good, DiffersAt, SoundAccount, ClosedAreEmpty, Backed

PutIn(w, n, a, x) == Put([w EXCEPT !.sol = n], a, x)

LEMMA PutDiffers ==
    ASSUME NEW w \in Wallets, NEW n \in Nat, NEW a \in Addresses, NEW x \in Accounts,
           NEW v, v = PutIn(w, n, a, x)
    PROVE  DiffersAt(w, v, a) /\ v.sol = n /\ v.acc[a] = x
BY DEF PutIn, Put, DiffersAt, Wallets, Accounts

(* What leads from w to v: the change of the payer's lamports, of its USDC   *)
(* and of its tokens.  Nothing but wrap_wsol_to_sol opens the seed account.   *)
Moves(w, v, lamports, usdc, tokens) ==
    /\ Good(v)
    /\ v.acc[seed_ata_address].open => w.acc[seed_ata_address].open
    /\ Lamports(v) = Lamports(w) + lamports
    /\ Units(v, "USDC") = Units(w, "USDC") + usdc
    /\ Units(v, "TOK") = Units(w, "TOK") + tokens
    /\ Lamports(w) \in Nat /\ Units(w, "USDC") \in Nat /\ Units(w, "TOK") \in Nat

LEMMA MovesAdd ==
    ASSUME NEW w, NEW x, NEW v,
           NEW l1 \in Int, NEW u1 \in Int, NEW t1 \in Int, NEW l2 \in Int, NEW u2 \in Int, NEW t2 \in Int,
           Moves(w, x, l1, u1, t1), Moves(x, v, l2, u2, t2)
    PROVE  Moves(w, v, l1 + l2, u1 + u2, t1 + t2)
BY DEF Moves

LEMMA MovesNothing == ASSUME NEW w, Good(w) PROVE Moves(w, w, 0, 0, 0)
<1>1. w \in Wallets /\ DiffersAt(w, w, <<"TOK", "ata">>) /\ <<"TOK", "ata">> \in Addresses
    BY AddressList DEF Good, DiffersAt
<1>2. Lamports(w) \in Nat /\ Units(w, "USDC") \in Nat /\ Units(w, "TOK") \in Nat
    BY <1>1, TotalsOfOneChange DEF Mints
<1> QED  BY <1>2 DEF Moves

(* One account changes and nothing is gained or lost.                        *)
LEMMA MovesOfOneChange ==
    ASSUME NEW w, NEW v, NEW a \in Addresses, Good(w), DiffersAt(w, v, a),
           SoundAccount(v.acc[a], IsNative(a)),
           a = seed_ata_address => (v.acc[a].open => w.acc[a].open)
    PROVE  LET units(m) == IF a[1] = m THEN v.acc[a].amt - w.acc[a].amt ELSE 0
           IN  Moves(w, v, (v.sol - w.sol) + (v.acc[a].lam - w.acc[a].lam), units("USDC"), units("TOK"))
<1>1. w \in Wallets /\ v \in Wallets /\ Good(v)
    BY OneChangeIsGood DEF Good
<1>2. v.acc[seed_ata_address].open => w.acc[seed_ata_address].open
    BY AddressList DEF DiffersAt, seed_ata_address
<1>3. /\ v.sol \in Nat /\ w.sol \in Nat /\ v.acc[a].lam \in Nat /\ w.acc[a].lam \in Nat
      /\ v.acc[a].amt \in Nat /\ w.acc[a].amt \in Nat
    BY <1>1 DEF Wallets
<1>4. /\ Lamports(v) = Lamports(w) + (v.sol - w.sol) + (v.acc[a].lam - w.acc[a].lam)
      /\ \A m \in Mints :
            Units(v, m) = Units(w, m) + (IF a[1] = m THEN v.acc[a].amt - w.acc[a].amt ELSE 0)
      /\ Lamports(w) \in Nat /\ \A m \in Mints : Units(w, m) \in Nat
    BY <1>1, TotalsOfOneChange
<1>5. "USDC" \in Mints /\ "TOK" \in Mints
    BY DEF Mints
<1> QED  BY <1>1, <1>2, <1>3, <1>4, <1>5 DEF Moves

-----------------------------------------------------------------------------
(* The instructions.                                                         *)
LEMMA OpenMoves ==
    ASSUME NEW w, Good(w), NEW a \in Addresses, a # seed_ata_address, ~w.acc[a].open, NEW v \in Open(w, a)
    PROVE  Moves(w, v, 0, 0, 0) /\ v.acc[a].open /\ v.acc[a].amt = 0
<1> DEFINE x == [open |-> TRUE, amt |-> 0, lam |-> Rent]
<1>1. w.sol >= Rent /\ v = PutIn(w, w.sol - Rent, a, x)
    BY DEF Open, PutIn
<1>2. w \in Wallets /\ w.sol \in Nat /\ Rent \in Nat /\ x \in Accounts /\ w.acc[a] = Shut
    BY RentAssumption DEF Good, Wallets, Accounts, ClosedAreEmpty
<1>3. w.sol - Rent \in Nat
    BY <1>1, <1>2
<1> HIDE DEF x
<1>4. DiffersAt(w, v, a) /\ v.sol = w.sol - Rent /\ v.acc[a] = x
    BY <1>1, <1>2, <1>3, PutDiffers
<1> USE DEF x
<1>5. SoundAccount(x, IsNative(a))
    BY <1>2 DEF SoundAccount
<1>6. (v.sol - w.sol) + (v.acc[a].lam - w.acc[a].lam) = 0 /\ v.acc[a].amt - w.acc[a].amt = 0
    BY <1>2, <1>4 DEF Shut
<1> QED  BY <1>4, <1>5, <1>6, MovesOfOneChange

LEMMA CreateAtaMoves ==
    ASSUME NEW w, Good(w), NEW mint \in Mints, NEW v \in Effects(w, CreateAta(mint))
    PROVE  /\ Moves(w, v, 0, 0, 0) /\ v.acc[<<mint, "ata">>].open
           /\ v.acc[<<mint, "ata">>].amt = w.acc[<<mint, "ata">>].amt
<1> DEFINE a == <<mint, "ata">>
<1>1. a \in Addresses /\ a # seed_ata_address
    BY DEF Addresses, seed_ata_address
<1>2. v \in IF w.acc[a].open THEN {w} ELSE Open(w, a)
    BY DEF Effects, CreateAta
<1>3. CASE w.acc[a].open
    BY <1>2, <1>3, MovesNothing
<1>4. CASE ~w.acc[a].open
    <2>1. w.acc[a].amt = 0
        BY <1>1, <1>4 DEF Good, ClosedAreEmpty, Shut
    <2> HIDE DEF a
    <2>2. Moves(w, v, 0, 0, 0) /\ v.acc[a].open /\ v.acc[a].amt = w.acc[a].amt
        BY <1>1, <1>2, <1>4, <2>1, OpenMoves
    <2> QED  BY <2>2 DEF a
<1> QED  BY <1>3, <1>4

LEMMA CreateWithSeedMoves ==
    ASSUME NEW w, Good(w), NEW mint \in Mints \ {"WSOL"}, NEW v \in Effects(w, CreateWithSeed(mint))
    PROVE  Moves(w, v, 0, 0, 0) /\ v.acc[<<mint, "seed">>].open
<1> DEFINE a == <<mint, "seed">>
<1>1. a \in Addresses /\ a # seed_ata_address
    BY DEF Addresses, seed_ata_address
<1>2. v \in Open(w, a) /\ ~w.acc[a].open
    BY DEF Effects, CreateWithSeed
<1> HIDE DEF a
<1>3. Moves(w, v, 0, 0, 0) /\ v.acc[a].open
    BY <1>1, <1>2, OpenMoves
<1> QED  BY <1>3 DEF a

(* create_token_account creates the account at the address that the builders  *)
(* use, never the seed account of WSOL.                                      *)
LEMMA CreateTokenMoves ==
    ASSUME NEW w, Good(w), NEW mint \in Mints, NEW seed \in BOOLEAN, NEW i,
           create_token_account(mint, seed) = <<i>>, NEW v \in Effects(w, i)
    PROVE  Moves(w, v, 0, 0, 0) /\ v.acc[token_address(mint, seed)].open
<1>1. CASE seed /\ mint # "WSOL"
    <2>1. i = CreateWithSeed(mint) /\ token_address(mint, seed) = <<mint, "seed">>
        BY <1>1 DEF create_token_account, token_address
    <2> QED  BY <1>1, <2>1, CreateWithSeedMoves
<1>2. CASE ~(seed /\ mint # "WSOL")
    <2>1. i = CreateAta(mint) /\ token_address(mint, seed) = <<mint, "ata">>
        BY <1>2 DEF create_token_account, token_address
    <2> QED  BY <2>1, CreateAtaMoves
<1> QED  BY <1>1, <1>2

(* handle_wsol: the account is created, gets the lamports and is             *)
(* synchronised; in between it is not backed.                                *)
LEMMA WrapMoves ==
    ASSUME NEW w, Good(w), NEW n \in Nat,
           NEW x \in Effects(w, CreateAta("WSOL")),
           NEW y \in Effects(x, SystemTransfer(wsol_token_account, n)),
           NEW v \in Effects(y, SyncNative(wsol_token_account))
    PROVE  /\ Moves(w, v, 0, 0, 0)
           /\ v.acc[wsol_token_account].open
           /\ v.acc[wsol_token_account].amt = w.acc[wsol_token_account].amt + n
<1> DEFINE a == wsol_token_account
<1>1. a \in Addresses /\ IsNative(a) /\ a[1] = "WSOL" /\ a # seed_ata_address
    BY AddressList DEF wsol_token_account, IsNative, seed_ata_address
<1>2. Moves(w, x, 0, 0, 0) /\ x.acc[a].open /\ x.acc[a].amt = w.acc[a].amt
    BY CreateAtaMoves DEF Mints, wsol_token_account
<1>3. Good(x) /\ x \in Wallets /\ x.sol \in Nat /\ x.acc[a] \in Accounts
    BY <1>1, <1>2 DEF Moves, Good, Wallets, Accounts
<1>4. x.acc[a].amt = x.acc[a].lam - Rent /\ Rent \in Nat
    BY <1>1, <1>2, <1>3, RentAssumption DEF Good, Backed
<1> DEFINE p == [x.acc[a] EXCEPT !.lam = @ + n]
           q == [p EXCEPT !.amt = p.lam - Rent]
<1> HIDE DEF a
<1>5. x.sol >= n /\ y = PutIn(x, x.sol - n, a, p)
    BY DEF Effects, SystemTransfer, PutIn, a
<1>6. p \in Accounts /\ p.open /\ p.lam = x.acc[a].lam + n
    BY <1>2, <1>3 DEF Accounts
<1>7. DiffersAt(x, y, a) /\ y.sol = x.sol - n /\ y.acc[a] = p
    <2> HIDE DEF p
    <2>1. x.sol - n \in Nat
        BY <1>3, <1>5
    <2> QED  BY <1>1, <1>3, <1>5, <1>6, <2>1, PutDiffers
<1>8. v = Put(y, a, q)
    BY <1>6, <1>7 DEF Effects, SyncNative, a
<1>9. q \in Accounts /\ q.open /\ q.lam = x.acc[a].lam + n /\ q.amt = x.acc[a].amt + n
    <2> HIDE DEF p
    <2>1. x.acc[a].lam \in Nat /\ x.acc[a].amt \in Nat
        BY <1>3 DEF Accounts
    <2>2. p.lam - Rent = x.acc[a].amt + n /\ p.lam - Rent \in Nat
        BY <1>4, <1>6, <2>1
    <2> QED  BY <1>6, <2>2 DEF Accounts
<1>10. DiffersAt(x, v, a) /\ v.sol = x.sol - n /\ v.acc[a] = q
    <2> HIDE DEF p, q
    <2>1. y \in Wallets /\ y.sol \in Nat
        BY <1>7 DEF DiffersAt, Wallets
    <2>2. v = PutIn(y, y.sol, a, q)
        <3>1. [y EXCEPT !.sol = y.sol] = y
            BY <2>1 DEF Wallets
        <3> QED  BY <1>8, <3>1 DEF PutIn
    <2>3. DiffersAt(y, v, a) /\ v.sol = y.sol /\ v.acc[a] = q
        BY <1>1, <1>9, <2>1, <2>2, PutDiffers
    <2> QED  BY <1>7, <2>3 DEF DiffersAt
<1> HIDE DEF p, q
<1>11. SoundAccount(v.acc[a], IsNative(a))
    BY <1>3, <1>4, <1>9, <1>10 DEF SoundAccount, Accounts
<1>12. (v.sol - x.sol) + (v.acc[a].lam - x.acc[a].lam) = 0 /\ a[1] # "USDC" /\ a[1] # "TOK"
    BY <1>1, <1>3, <1>9, <1>10 DEF Accounts
<1>13. Moves(x, v, 0, 0, 0)
    BY <1>1, <1>3, <1>10, <1>11, <1>12, MovesOfOneChange
<1>14. Moves(w, v, 0, 0, 0)
    BY <1>2, <1>13 DEF Moves
<1> QED  BY <1>2, <1>9, <1>10, <1>14 DEF a

LEMMA CloseMoves ==
    ASSUME NEW w, Good(w), NEW a \in Addresses, NEW v \in Effects(w, CloseAccount(a))
    PROVE  /\ Moves(w, v, 0, 0, 0) /\ ~v.acc[a].open /\ w.acc[a].open
           /\ v.sol = w.sol + w.acc[a].lam /\ \A b \in Addresses \ {a} : v.acc[b] = w.acc[b]
<1>1. /\ w.acc[a].open /\ (IsNative(a) \/ w.acc[a].amt = 0)
      /\ v = PutIn(w, w.sol + w.acc[a].lam, a, Shut)
    BY DEF Effects, CloseAccount, PutIn
<1>2. /\ w \in Wallets /\ w.sol \in Nat /\ w.acc[a].lam \in Nat /\ w.acc[a].amt \in Nat
      /\ Shut \in Accounts
    BY DEF Good, Wallets, Accounts, Shut
<1>3. w.sol + w.acc[a].lam \in Nat
    BY <1>2
<1>4. DiffersAt(w, v, a) /\ v.sol = w.sol + w.acc[a].lam /\ v.acc[a] = Shut
    BY <1>1, <1>2, <1>3, PutDiffers
<1>5. SoundAccount(v.acc[a], IsNative(a)) /\ ~v.acc[a].open
    BY <1>2, <1>4 DEF SoundAccount, Shut
<1>6. /\ (v.sol - w.sol) + (v.acc[a].lam - w.acc[a].lam) = 0
      /\ \A m \in {"USDC", "TOK"} : a[1] = m => v.acc[a].amt - w.acc[a].amt = 0
    BY <1>1, <1>2, <1>4 DEF Shut, IsNative
<1>7. Moves(w, v, 0, 0, 0)
    BY <1>4, <1>5, <1>6, MovesOfOneChange
<1> QED  BY <1>1, <1>4, <1>5, <1>7 DEF DiffersAt

(* What n units at a add to the lamports and to the units of a mint.         *)
LamportsAt(a, n) == IF a = Sol \/ a[1] = "WSOL" THEN n ELSE 0
UnitsAt(a, m, n) == IF a[1] = m THEN n ELSE 0

(* n units more, or less, at a; the accounts open stay open.                 *)
Gains(w, v, a, n) ==
    /\ Moves(w, v, LamportsAt(a, n), UnitsAt(a, "USDC", n), UnitsAt(a, "TOK", n))
    /\ \A b \in Addresses : v.acc[b].open = w.acc[b].open /\ (b # a => v.acc[b] = w.acc[b])
    /\ IF a = Sol THEN v.sol = w.sol + n ELSE v.sol = w.sol /\ v.acc[a].amt = w.acc[a].amt + n

LEMMA GiveMoves ==
    ASSUME NEW w, Good(w), NEW a \in Addresses \cup {Sol}, NEW n \in Int, CanGive(w, a),
           IF a = Sol THEN w.sol + n \in Nat ELSE w.acc[a].amt + n \in Nat
    PROVE  Gains(w, Give(w, a, n), a, n)
<1> DEFINE v == Give(w, a, n)
<1>1. w \in Wallets /\ w.sol \in Nat
    BY DEF Good, Wallets
<1>2. Sol[1] = "SOL" /\ Sol \notin Addresses
    BY DEF Sol, Addresses, Mints
<1>3. CASE a = Sol
    <2> DEFINE b == <<"TOK", "ata">>
    <2>1. v = [w EXCEPT !.sol = w.sol + n] /\ w.sol + n \in Nat
        BY <1>3 DEF Give
    <2>2. v \in Wallets /\ v.sol = w.sol + n /\ v.acc = w.acc
        BY <1>1, <2>1 DEF Wallets
    <2>3. b \in Addresses /\ b # seed_ata_address /\ b[1] = "TOK" /\ ~IsNative(b)
        BY AddressList DEF seed_ata_address, IsNative
    <2> HIDE DEF v, b
    <2>4. DiffersAt(w, v, b) /\ SoundAccount(v.acc[b], IsNative(b))
        BY <2>2, <2>3 DEF DiffersAt, SoundAccount, Good, Wallets, ClosedAreEmpty, Accounts
    <2>5. (v.sol - w.sol) + (v.acc[b].lam - w.acc[b].lam) = n /\ v.acc[b].amt - w.acc[b].amt = 0
        BY <1>1, <2>2, <2>3 DEF Wallets
    <2>6. Moves(w, v, n, 0, 0)
        BY <2>3, <2>4, <2>5, MovesOfOneChange
    <2> QED  BY <1>2, <1>3, <2>2, <2>6 DEF Gains, LamportsAt, UnitsAt, v
<1>4. CASE a \in Addresses
    <2> DEFINE x == [w.acc[a] EXCEPT !.amt = @ + n, !.lam = IF IsNative(a) THEN @ + n ELSE @]
    <2>1. a # Sol /\ w.acc[a].amt + n \in Nat /\ w.acc[a].open /\ w.acc[a] \in Accounts
        BY <1>1, <1>2, <1>4 DEF CanGive, Wallets, Accounts
    <2>2. w.acc[a].amt \in Nat /\ w.acc[a].lam \in Nat /\ Rent \in Nat
        BY <2>1, RentAssumption DEF Accounts
    <2>3. IsNative(a) => w.acc[a].amt = w.acc[a].lam - Rent
        BY <1>4, <2>1 DEF Good, Backed
    <2>4. IsNative(a) => w.acc[a].lam + n \in Nat
        BY <2>1, <2>2, <2>3
    <2>5. /\ x \in Accounts /\ x.open /\ x.amt = w.acc[a].amt + n
          /\ x.lam = IF IsNative(a) THEN w.acc[a].lam + n ELSE w.acc[a].lam
        BY <2>1, <2>2, <2>4 DEF Accounts
    <2>6. v = PutIn(w, w.sol, a, x)
        BY <1>1, <1>4, <2>1 DEF Give, PutIn, Put, Wallets, Accounts
    <2> HIDE DEF v, x
    <2>7. DiffersAt(w, v, a) /\ v.sol = w.sol /\ v.acc[a] = x
        BY <1>1, <1>4, <2>5, <2>6, PutDiffers
    <2>8. SoundAccount(x, IsNative(a))
        BY <2>2, <2>3, <2>5 DEF SoundAccount
    <2>9. /\ (v.sol - w.sol) + (v.acc[a].lam - w.acc[a].lam) = IF IsNative(a) THEN n ELSE 0
          /\ v.acc[a].amt - w.acc[a].amt = n
        BY <1>1, <2>2, <2>5, <2>7
    <2>10. Moves(w, v, IF IsNative(a) THEN n ELSE 0, IF a[1] = "USDC" THEN n ELSE 0,
                 IF a[1] = "TOK" THEN n ELSE 0)
        BY <1>4, <2>1, <2>7, <2>8, <2>9, MovesOfOneChange
    <2>11. /\ \A b \in Addresses : v.acc[b].open = w.acc[b].open /\ (b # a => v.acc[b] = w.acc[b])
           /\ v.acc[a].amt = w.acc[a].amt + n
        <3>1. x.open = w.acc[a].open
            BY <2>1, <2>5 DEF Accounts
        <3> QED  BY <2>5, <2>7, <3>1 DEF DiffersAt
    <2> QED  BY <2>1, <2>7, <2>10, <2>11 DEF Gains, LamportsAt, UnitsAt, IsNative, v
<1> QED  BY <1>3, <1>4

LEMMA TakeMoves ==
    ASSUME NEW w, Good(w), NEW a \in Addresses \cup {Sol}, NEW n \in Nat, CanTake(w, a, n)
    PROVE  Gains(w, Take(w, a, n), a, -n)
<1>1. w.sol \in Nat /\ (a \in Addresses => w.acc[a].amt \in Nat)
    BY DEF Good, Wallets
<1>2. CanGive(w, a) /\ IF a = Sol THEN w.sol + (-n) \in Nat ELSE w.acc[a].amt + (-n) \in Nat
    BY <1>1 DEF CanTake, CanGive
<1>3. -n \in Int
    OBVIOUS
<1> QED  BY <1>2, <1>3, GiveMoves DEF Take

(* What goes out of a and into another place b.                              *)
Trades(w, v, a, spent, b, got) ==
    /\ spent \in Nat /\ got \in Nat
    /\ Moves(w, v, LamportsAt(b, got) - LamportsAt(a, spent),
             UnitsAt(b, "USDC", got) - UnitsAt(a, "USDC", spent),
             UnitsAt(b, "TOK", got) - UnitsAt(a, "TOK", spent))
    /\ \A c \in Addresses : v.acc[c].open = w.acc[c].open
    /\ a # Sol => v.acc[a].amt = w.acc[a].amt - spent
    /\ b # Sol => v.acc[b].amt = w.acc[b].amt + got
    /\ (a # Sol /\ b # Sol) => v.sol = w.sol

LEMMA ExchangeMoves ==
    ASSUME NEW w, Good(w), NEW a \in Addresses \cup {Sol}, NEW b \in Addresses \cup {Sol}, a # b,
           NEW spent \in Nat, NEW got \in Nat, CanTake(w, a, spent), CanGive(w, b)
    PROVE  Trades(w, Give(Take(w, a, spent), b, got), a, spent, b, got)
<1> DEFINE x == Take(w, a, spent)
           v == Give(x, b, got)
<1>1. Gains(w, x, a, -spent)
    BY TakeMoves
<1>2. Good(x) /\ CanGive(x, b)
    BY <1>1 DEF Gains, Moves, CanGive
<1>3. x.sol \in Nat /\ (b \in Addresses => x.acc[b].amt \in Nat)
    BY <1>2 DEF Good, Wallets
<1> HIDE DEF x
<1>4. IF b = Sol THEN x.sol + got \in Nat ELSE x.acc[b].amt + got \in Nat
    BY <1>3
<1>5. Gains(x, v, b, got)
    BY <1>2, <1>4, GiveMoves
<1> HIDE DEF v
<1> DEFINE l1 == LamportsAt(a, -spent)
           l2 == LamportsAt(b, got)
           u1 == UnitsAt(a, "USDC", -spent)
           u2 == UnitsAt(b, "USDC", got)
           t1 == UnitsAt(a, "TOK", -spent)
           t2 == UnitsAt(b, "TOK", got)
<1>6. l1 \in Int /\ l2 \in Int /\ u1 \in Int /\ u2 \in Int /\ t1 \in Int /\ t2 \in Int
    BY DEF LamportsAt, UnitsAt
<1>7. /\ l1 + l2 = LamportsAt(b, got) - LamportsAt(a, spent)
      /\ u1 + u2 = UnitsAt(b, "USDC", got) - UnitsAt(a, "USDC", spent)
      /\ t1 + t2 = UnitsAt(b, "TOK", got) - UnitsAt(a, "TOK", spent)
    BY DEF LamportsAt, UnitsAt
<1>8. Moves(w, x, l1, u1, t1) /\ Moves(x, v, l2, u2, t2)
    BY <1>1, <1>5 DEF Gains
<1> HIDE DEF l1, l2, u1, u2, t1, t2
<1>9. Moves(w, v, LamportsAt(b, got) - LamportsAt(a, spent),
            UnitsAt(b, "USDC", got) - UnitsAt(a, "USDC", spent),
            UnitsAt(b, "TOK", got) - UnitsAt(a, "TOK", spent))
    <2>1. Moves(w, v, l1 + l2, u1 + u2, t1 + t2)
        BY <1>6, <1>8, MovesAdd
    <2> QED  BY <1>7, <2>1
<1>10. /\ \A c \in Addresses : x.acc[c].open = w.acc[c].open /\ (c # a => x.acc[c] = w.acc[c])
       /\ IF a = Sol THEN x.sol = w.sol - spent ELSE x.sol = w.sol /\ x.acc[a].amt = w.acc[a].amt - spent
    <2>1. w.sol \in Nat /\ (a \in Addresses => w.acc[a].amt \in Nat)
        BY DEF Good, Wallets
    <2> QED  BY <1>1, <2>1 DEF Gains
<1>11. /\ \A c \in Addresses : v.acc[c].open = x.acc[c].open /\ (c # b => v.acc[c] = x.acc[c])
       /\ IF b = Sol THEN v.sol = x.sol + got ELSE v.sol = x.sol /\ v.acc[b].amt = x.acc[b].amt + got
    BY <1>5 DEF Gains
<1>12. /\ a # Sol => v.acc[a].amt = w.acc[a].amt - spent
       /\ b # Sol => v.acc[b].amt = w.acc[b].amt + got
    BY <1>10, <1>11
<1>13. a # Sol /\ b # Sol => v.sol = w.sol
    BY <1>10, <1>11
<1> QED  BY <1>9, <1>10, <1>11, <1>12, <1>13 DEF Trades, v, x

(* A swap spends what its instruction allows and brings what it asks for.    *)
IsSwap(i, a, b) ==
    i.op = "swap" /\ i.a = a /\ i.b = b /\ i.spend \subseteq Nat /\ i.got \subseteq Nat

LEMMA SwapMoves ==
    ASSUME NEW w, Good(w), NEW a \in Addresses \cup {Sol}, NEW b \in Addresses \cup {Sol}, a # b,
           NEW i, IsSwap(i, a, b), NEW v \in Effects(w, i)
    PROVE  \E spent \in i.spend, got \in i.got : Trades(w, v, a, spent, b, got)
<1>1. v \in Swapped(w, i)
    BY DEF Effects, IsSwap
<1>2. PICK spent \in i.spend, got \in i.got :
          /\ CanGive(w, b) /\ CanTake(w, a, spent)
          /\ v = Give(Take(w, a, spent), b, got)
    BY <1>1 DEF Swapped, IsSwap
<1>3. spent \in Nat /\ got \in Nat
    BY DEF IsSwap
<1>4. Trades(w, v, a, spent, b, got)
    BY <1>2, <1>3, ExchangeMoves
<1> QED  BY <1>4

-----------------------------------------------------------------------------
(* Instruction lists.                                                        *)
Places == Addresses \cup {Sol}
Instrs ==
    [op : {"create_ata", "create_seed", "sync", "close", "cashback"}, a : Places]
        \cup [op : {"system_transfer"}, a : Places, n : Nat]
        \cup [op : {"transfer"}, a : Places, b : Places, n : Nat]
        \cup [op : {"pay_out"}, n : Nat]
        \cup [op : {"swap"}, a : Places, spend : SUBSET Nat, b : Places, got : SUBSET Nat]

LEMMA OutcomesOne == ASSUME NEW w, NEW i PROVE Outcomes(w, <<i>>) = Effects(w, i)
<1> DEFINE none == << >>
           one == <<i>>
           S == {i}
<1>1. none \in Seq(S) /\ i \in S /\ Adds(one, none, i)
    BY DEF Adds
<1>2. Outcomes(w, none) = {w}
    BY OutcomesEmpty
<1> HIDE DEF none, one, S
<1>3. Outcomes(w, one) = After(Outcomes(w, none), i)
    BY <1>1, OutcomesAppend
<1> QED  BY <1>2, <1>3 DEF After, one

(* An instruction more, or perhaps one more, at the end of a list.           *)
LEMMA OutcomesMore ==
    ASSUME NEW w, NEW list \in Seq(Instrs), NEW i \in Instrs, NEW long, Adds(long, list, i)
    PROVE  /\ long \in Seq(Instrs)
           /\ \A v : v \in Outcomes(w, long) <=> \E x \in Outcomes(w, list) : v \in Effects(x, i)
<1>1. long \in Seq(Instrs)
    BY AppendProperties DEF Adds
<1>2. Outcomes(w, long) = After(Outcomes(w, list), i)
    BY OutcomesAppend
<1> QED  BY <1>1, <1>2 DEF After

LEMMA ConcatAdds ==
    ASSUME NEW list \in Seq(Instrs), NEW i \in Instrs
    PROVE  Adds(list \o <<i>>, list, i)
BY DEF Adds

LEMMA OutcomesOpt ==
    ASSUME NEW w, NEW list \in Seq(Instrs), NEW i \in Instrs, NEW b \in BOOLEAN
    PROVE  /\ list \o Opt(b, <<i>>) \in Seq(Instrs)
           /\ \A v : v \in Outcomes(w, list \o Opt(b, <<i>>)) <=>
                        IF b THEN \E x \in Outcomes(w, list) : v \in Effects(x, i) ELSE v \in Outcomes(w, list)
<1>1. CASE b
    <2> DEFINE long == list \o Opt(b, <<i>>)
    <2>1. Adds(long, list, i)
        BY <1>1, ConcatAdds DEF Opt
    <2> HIDE DEF long
    <2>2. /\ long \in Seq(Instrs)
          /\ \A v : v \in Outcomes(w, long) <=> \E x \in Outcomes(w, list) : v \in Effects(x, i)
        BY <2>1, OutcomesMore
    <2> QED  BY <1>1, <2>2 DEF long
<1>2. CASE ~b
    <2>1. list \o Opt(b, <<i>>) = list
        BY <1>2, ConcatEmptySeq DEF Opt
    <2> QED  BY <1>2, <2>1
<1> QED  BY <1>1, <1>2

LEMMA CreateIsInstr ==
    ASSUME NEW mint \in Mints, NEW seed \in BOOLEAN
    PROVE  \E i \in Instrs : create_token_account(mint, seed) = <<i>>
<1> DEFINE i == IF token_address(mint, seed)[2] = "seed" THEN CreateWithSeed(mint) ELSE CreateAta(mint)
<1>1. <<mint, "ata">> \in Places /\ <<mint, "seed">> \in Places
    BY DEF Places, Addresses
<1>2. i \in Instrs
    BY <1>1 DEF Instrs, CreateWithSeed, CreateAta
<1> QED  BY <1>2 DEF create_token_account

LEMMA WsolInstrs ==
    /\ CreateAta("WSOL") \in Instrs /\ CloseAccount(wsol_token_account) \in Instrs
    /\ CloseAccount(seed_ata_address) \in Instrs /\ SyncNative(wsol_token_account) \in Instrs
    /\ CreateWithSeed("WSOL") \in Instrs
    /\ \A n \in Nat : /\ SystemTransfer(wsol_token_account, n) \in Instrs
                      /\ TokenTransfer(wsol_token_account, seed_ata_address, n) \in Instrs
    /\ wsol_token_account \in Addresses /\ seed_ata_address \in Addresses
<1>1. /\ <<"WSOL", "ata">> \in Places /\ <<"WSOL", "seed">> \in Places
      /\ <<"WSOL", "ata">> \in Addresses /\ <<"WSOL", "seed">> \in Addresses
    BY DEF Places, Addresses, Mints
<1> QED  BY <1>1 DEF Instrs, CreateAta, CloseAccount, SyncNative, CreateWithSeed, SystemTransfer, TokenTransfer,
                     wsol_token_account, seed_ata_address

(* handle_wsol alone, and perhaps at the beginning of a list.                *)
LEMMA HandleWsolLeaves ==
    ASSUME NEW w, NEW n \in Nat
    PROVE  /\ handle_wsol(n) \in Seq(Instrs)
           /\ \A v : v \in Outcomes(w, handle_wsol(n)) <=>
                 \E x \in Effects(w, CreateAta("WSOL")) :
                 \E y \in Effects(x, SystemTransfer(wsol_token_account, n)) :
                     v \in Effects(y, SyncNative(wsol_token_account))
<1> DEFINE i == CreateAta("WSOL")
           j == SystemTransfer(wsol_token_account, n)
           k == SyncNative(wsol_token_account)
<1>1. i \in Instrs /\ j \in Instrs /\ k \in Instrs
    BY WsolInstrs
<1> DEFINE one == <<i>>
           two == <<i, j>>
<1>2. one \in Seq(Instrs) /\ two \in Seq(Instrs)
    <2> HIDE DEF i, j
    <2> QED  BY <1>1
<1>3. Adds(two, one, j) /\ Adds(handle_wsol(n), two, k)
    <2>1. handle_wsol(n) = <<i, j, k>>
        BY DEF handle_wsol
    <2> HIDE DEF i, j, k
    <2> QED  BY <2>1 DEF Adds
<1>4. \A v : v \in Outcomes(w, one) <=> v \in Effects(w, i)
    BY OutcomesOne
<1> HIDE DEF i, j, k, one, two
<1>5. \A v : v \in Outcomes(w, two) <=> \E x \in Outcomes(w, one) : v \in Effects(x, j)
    BY <1>1, <1>2, <1>3, OutcomesMore
<1>6. /\ handle_wsol(n) \in Seq(Instrs)
      /\ \A v : v \in Outcomes(w, handle_wsol(n)) <=> \E y \in Outcomes(w, two) : v \in Effects(y, k)
    BY <1>1, <1>2, <1>3, OutcomesMore
<1>7. \A v : v \in Outcomes(w, handle_wsol(n)) <=>
                 \E x \in Effects(w, i) : \E y \in Effects(x, j) : v \in Effects(y, k)
    BY <1>4, <1>5, <1>6
<1> QED  BY <1>6, <1>7 DEF i, j, k

-----------------------------------------------------------------------------
(* The arithmetic of amounts.                                                *)
LEMMA QuantitiesAreNat == Quantities \subseteq Nat
BY U64Assumption DEF Quantities

LEMMA DivBounds ==
    ASSUME NEW a \in Nat, NEW b \in Nat \ {0}
    PROVE  a \div b \in Nat /\ (a \div b) * b <= a /\ a < (a \div b) * b + b
OBVIOUS

LEMMA ModBounds ==
    ASSUME NEW a \in Int, NEW m \in Nat \ {0}
    PROVE  /\ a % m \in 0..(m - 1)
           /\ a \in Nat => a % m <= a
           /\ a \in 0..(m - 1) => a % m = a
OBVIOUS

(* A share of at most a whole: x * p / q with p <= q.                        *)
LEMMA ShareIsLess ==
    ASSUME NEW x \in Nat, NEW p \in Nat, NEW q \in Nat \ {0}, p <= q
    PROVE  (x * p) \div q \in 0..x
<1>1. x * p \in Nat /\ x * p <= x * q /\ x * q \in Nat
    OBVIOUS
<1>2. (x * p) \div q \in Nat /\ ((x * p) \div q) * q <= x * p
    BY <1>1, DivBounds
<1>3. ((x * p) \div q) * q <= x * q
    BY <1>1, <1>2
<1> DEFINE r == (x * p) \div q
<1> HIDE DEF r
<1>4. r \in Nat /\ r * q <= x * q
    BY <1>2, <1>3 DEF r
<1>5. r <= x
    BY <1>4
<1> QED  BY <1>4, <1>5 DEF r

(* What slippage adds is at most its share, what it takes off too.           *)
AtMostWith(n, q, bp) == n * 10000 <= q * (10000 + bp)
AtLeastLess(n, q, bp) == n * 10000 >= q * (10000 - bp)

LEMMA SlippageBuy ==
    ASSUME NEW q \in Quantities, NEW bp \in Nat
    PROVE  /\ calculate_with_slippage_buy(q, bp) \in Quantities
           /\ AtMostWith(calculate_with_slippage_buy(q, bp), q, bp)
<1> DEFINE p == q * bp
           r == p % U64
           h == r \div 10000
           sum == q + h
<1>1. q \in Nat /\ p \in Nat /\ U64 \in Nat \ {0} /\ q * (10000 + bp) = q * 10000 + p
    BY U64Assumption DEF Quantities
<1>2. calculate_with_slippage_buy(q, bp) = sum % U64
    BY DEF calculate_with_slippage_buy, MAX_FEE_BASIS_POINTS
<1> HIDE DEF p
<1>3. r \in Nat /\ r <= p
    BY <1>1
<1> HIDE DEF r
<1>4. h \in Nat /\ h * 10000 <= r
    BY <1>3
<1> HIDE DEF h
<1>5. sum \in Nat
    BY <1>1, <1>4
<1>6. sum <= q + h
    BY <1>1, <1>4
<1> HIDE DEF sum
<1>7. sum % U64 \in 0..(U64 - 1) /\ sum % U64 <= sum
    BY <1>1, <1>5
<1>8. (sum % U64) * 10000 <= q * 10000 + p
    BY <1>1, <1>3, <1>4, <1>5, <1>6, <1>7
<1> QED  BY <1>1, <1>2, <1>7, <1>8 DEF Quantities, AtMostWith

LEMMA SlippageSell ==
    ASSUME NEW q \in Quantities, NEW bp \in Nat
    PROVE  /\ calculate_with_slippage_sell(q, bp) \in Nat
           /\ AtLeastLess(calculate_with_slippage_sell(q, bp), q, bp)
<1> USE DEF AtLeastLess
<1>1. q \in Nat /\ U64 \in Nat \ {0} /\ q < U64
    BY U64Assumption DEF Quantities
<1>2. CASE q <= bp \div 10000
    <2>1. q = 0 \/ bp >= 10000
        BY <1>1, <1>2
    <2>2. q * (10000 - bp) <= 0
        BY <1>1, <2>1
    <2>3. calculate_with_slippage_sell(q, bp) = 1
        BY <1>2 DEF calculate_with_slippage_sell, MAX_FEE_BASIS_POINTS
    <2> QED  BY <1>1, <2>2, <2>3
<1>3. CASE ~(q <= bp \div 10000)
    <2> DEFINE p == q * bp
               r == p % U64
               h == r \div 10000
               rest == q - h
    <2>1. p \in Nat /\ q * (10000 - bp) = q * 10000 - p
        BY <1>1
    <2>2. calculate_with_slippage_sell(q, bp) = rest % U64
        BY <1>3 DEF calculate_with_slippage_sell, MAX_FEE_BASIS_POINTS
    <2> HIDE DEF p
    <2>3. r \in Nat /\ r <= p
        BY <1>1, <2>1
    <2> HIDE DEF r
    <2>4. h \in Nat /\ h * 10000 <= r
        BY <2>3
    <2> HIDE DEF h
    <2>5. rest \in Int /\ rest = q - h /\ rest <= q
        BY <1>1, <2>4
    <2> HIDE DEF rest
    <2>6. rest % U64 \in Nat /\ (rest >= 0 => rest % U64 = rest)
        BY <1>1, <2>5
    <2>7. (rest % U64) * 10000 >= q * 10000 - p
        BY <1>1, <2>1, <2>3, <2>4, <2>5, <2>6
    <2> QED  BY <2>1, <2>2, <2>6, <2>7
<1> QED  BY <1>2, <1>3

LEMMA SlippageTyped ==
    ASSUME NEW q \in Quantities, NEW bp \in Nat
    PROVE  calculate_with_slippage_buy(q, bp) \in Nat /\ calculate_with_slippage_sell(q, bp) \in Nat
BY SlippageSell, SlippageBuy, QuantitiesAreNat

(* Every quote is a u64: the reserves bound it.                              *)
QuotedCurves == {c \in [vt : Quantities, vs : Quantities, rt : Quantities, rs : Quantities] : c.vt > 0 => c.vs > 0}
QuotedPools == [base : Quantities, quote : Quantities]

LEMMA FeesAreNat ==
    /\ FEE_BASIS_POINTS \in Nat /\ CREATOR_FEE \in Nat /\ LP_FEE_BASIS_POINTS \in Nat
    /\ PROTOCOL_FEE_BASIS_POINTS \in Nat /\ COIN_CREATOR_FEE_BASIS_POINTS \in Nat
    /\ \A creator : pumpfun_fee(creator) \in Nat /\ total_fee_bps(creator) \in Nat
BY FeesAssumption DEF pumpfun_fee, total_fee_bps

LEMMA FeeIsNat == ASSUME NEW n \in Nat, NEW bp \in Nat PROVE compute_fee(n, bp) \in Nat
<1>1. n * bp \in Nat
    OBVIOUS
<1> DEFINE p == n * bp
<1>2. compute_fee(n, bp) = (p + 9999) \div 10000
    <2>1. p + 10000 - 1 = p + 9999
        BY <1>1
    <2> QED  BY <2>1 DEF compute_fee, ceil_div, MAX_FEE_BASIS_POINTS
<1> HIDE DEF p
<1>3. (p + 9999) \div 10000 \in Nat
    BY <1>1 DEF p
<1> QED  BY <1>2, <1>3

LEMMA MinOfTwo ==
    ASSUME NEW a \in Nat, NEW b \in Nat PROVE Min({a, b}) \in Nat /\ Min({a, b}) <= b
BY DEF Min

LEMMA MaxWithZero ==
    ASSUME NEW a \in Int, NEW b \in Nat, a <= b PROVE Max({a, 0}) \in 0..b
BY DEF Max

LEMMA BuyQuoteTyped ==
    ASSUME NEW c \in QuotedCurves, NEW creator \in BOOLEAN, NEW n \in Quantities
    PROVE  get_buy_token_amount_from_sol_amount(c, creator, n) \in Quantities
<1>1. {0, FallbackSmall, FallbackLarge} \subseteq Quantities
    BY U64Assumption, FallbackAssumption DEF Quantities
<1>2. CASE c.vt > 0
    <2> DEFINE i == input_amount(creator, n)
               f == pumpfun_fee(creator) + 10000
               num == n * 10000
               tokens == (i * c.vt) \div (c.vs + i)
    <2>1. f \in Nat \ {0} /\ num \in Nat /\ i = num \div f
        BY FeesAreNat DEF Quantities, input_amount, MAX_FEE_BASIS_POINTS
    <2>2. i \in Nat
        <3> HIDE DEF f, num
        <3>1. num \div f \in Nat
            BY <2>1, DivBounds
        <3> QED  BY <2>1, <3>1
    <2> HIDE DEF i
    <2>3. c.vt \in Nat /\ c.vs \in Nat \ {0} /\ c.rt \in Quantities /\ c.rt \in Nat
        BY <1>2 DEF QuotedCurves, Quantities
    <2>4. i * c.vt \in Nat /\ c.vs + i \in Nat \ {0}
        BY <2>2, <2>3
    <2>5. tokens \in Nat
        <3> DEFINE a == i * c.vt
                   b == c.vs + i
        <3>1. a \in Nat /\ b \in Nat \ {0}
            BY <2>4
        <3> HIDE DEF a, b
        <3>2. a \div b \in Nat
            BY <3>1, DivBounds
        <3> QED  BY <3>2 DEF a, b
    <2>6. curve_tokens(c, creator, n) = Min({tokens, c.rt})
        BY DEF curve_tokens, i
    <2> HIDE DEF tokens
    <2>7. curve_tokens(c, creator, n) \in Quantities
        <3>1. Min({tokens, c.rt}) \in Nat /\ Min({tokens, c.rt}) <= c.rt
            BY <2>3, <2>5, MinOfTwo
        <3> QED  BY <2>3, <2>6, <3>1, U64Assumption DEF Quantities
    <2> QED  BY <1>1, <2>7 DEF get_buy_token_amount_from_sol_amount
<1>3. CASE ~(c.vt > 0)
    <2>1. c.vt = 0
        BY <1>3 DEF QuotedCurves, Quantities
    <2> QED  BY <1>1, <2>1 DEF get_buy_token_amount_from_sol_amount
<1> QED  BY <1>2, <1>3

LEMMA SellQuoteTyped ==
    ASSUME NEW c \in QuotedCurves, NEW creator \in BOOLEAN, NEW n \in Quantities
    PROVE  get_sell_sol_amount_from_token_amount(c, creator, n) \in Quantities
<1>1. 0 \in Quantities /\ n \in Nat /\ c.vs \in Quantities /\ c.vs \in Nat /\ c.vt \in Nat
    BY U64Assumption DEF Quantities, QuotedCurves
<1>2. CASE n = 0 \/ c.vt = 0
    BY <1>1, <1>2 DEF get_sell_sol_amount_from_token_amount
<1>3. CASE ~(n = 0 \/ c.vt = 0)
    <2> DEFINE paid == sol_cost(c, n)
               fee == compute_fee(paid, pumpfun_fee(creator))
    <2>1. paid \in 0..c.vs
        <3> DEFINE q == c.vt + n
                   vs == c.vs
        <3>1. q \in Nat \ {0} /\ n <= q /\ vs \in Nat
            BY <1>1, <1>3
        <3>2. sol_cost(c, n) = (vs * n) \div q
            <4>1. n * c.vs = c.vs * n
                BY <1>1
            <4> QED  BY <4>1 DEF sol_cost
        <3> HIDE DEF q, vs
        <3>3. (vs * n) \div q \in 0..vs
            BY <1>1, <3>1, ShareIsLess
        <3> QED  BY <3>2, <3>3 DEF vs
    <2> HIDE DEF paid
    <2>2. paid \in Nat /\ pumpfun_fee(creator) \in Nat
        BY <1>1, <2>1, FeesAreNat
    <2>3. fee \in Nat
        BY <2>2, FeeIsNat
    <2> HIDE DEF fee
    <2>4. get_sell_sol_amount_from_token_amount(c, creator, n) = Max({paid - fee, 0})
        BY <1>3 DEF get_sell_sol_amount_from_token_amount, paid, fee
    <2> DEFINE rest == paid - fee
    <2>5. rest \in Int /\ rest <= paid
        BY <2>2, <2>3
    <2> HIDE DEF rest
    <2>6. Max({rest, 0}) \in 0..paid
        BY <2>2, <2>5, MaxWithZero
    <2>7. Max({rest, 0}) \in Quantities
        BY <1>1, <2>1, <2>6, U64Assumption DEF Quantities
    <2> QED  BY <2>4, <2>7 DEF rest
<1> QED  BY <1>2, <1>3

(* reserve * n / (other + n), rounded down, is less than the reserve.        *)
LEMMA PoolShare ==
    ASSUME NEW x \in Quantities, NEW n \in Nat, NEW y \in Nat \ {0}
    PROVE  (x * n) \div (y + n) \in Quantities
<1> DEFINE q == y + n
<1>1. x \in Nat /\ q \in Nat \ {0} /\ n <= q
    BY DEF Quantities
<1> HIDE DEF q
<1>2. (x * n) \div q \in 0..x
    BY <1>1, ShareIsLess
<1> DEFINE r == (x * n) \div q
<1> HIDE DEF r
<1>3. r \in Quantities
    BY <1>1, <1>2, U64Assumption DEF Quantities, r
<1> QED  BY <1>3 DEF q, r

LEMMA PoolBuyTyped ==
    ASSUME NEW p \in QuotedPools, NEW creator \in BOOLEAN, NEW n \in Quantities, NEW bp \in Nat
    PROVE  LET result == buy_quote_input_internal(n, bp, p, creator)
           IN  /\ result.ok \in BOOLEAN
               /\ result.ok => /\ result.base \in Quantities
                               /\ result.max_quote = calculate_with_slippage_buy(n, bp)
<1>1. CASE Drained(p)
    BY <1>1 DEF buy_quote_input_internal, Err
<1>2. CASE ~Drained(p)
    <2> DEFINE effective == effective_quote(n, creator)
               num == n * 10000
               den == 10000 + total_fee_bps(creator)
    <2>1. num \in Nat /\ den \in Nat \ {0} /\ effective = num \div den
        BY FeesAreNat DEF effective_quote, Quantities, MAX_FEE_BASIS_POINTS
    <2> HIDE DEF effective, num, den
    <2>2. effective \in Nat
        <3>1. num \div den \in Nat
            BY <2>1, DivBounds
        <3> QED  BY <2>1, <3>1
    <2>3. p.base \in Quantities /\ p.quote \in Nat \ {0}
        BY <1>2 DEF Drained, QuotedPools, Quantities
    <2>4. (p.base * effective) \div (p.quote + effective) \in Quantities
        BY <2>2, <2>3, PoolShare
    <2> QED  BY <1>2, <2>4 DEF buy_quote_input_internal, effective
<1> QED  BY <1>1, <1>2

LEMMA PoolSellTyped ==
    ASSUME NEW p \in QuotedPools, NEW creator \in BOOLEAN, NEW n \in Quantities, NEW bp \in Nat
    PROVE  LET result == sell_base_input_internal(n, bp, p, creator)
           IN  /\ result.ok \in BOOLEAN
               /\ result.ok => /\ result.ui_quote \in Quantities
                               /\ result.min_quote = calculate_with_slippage_sell(result.ui_quote, bp)
<1> DEFINE out == (p.quote * n) \div (p.base + n)
           fees == pumpswap_fees(out, creator)
<1>1. CASE Drained(p) \/ fees > out
    BY <1>1 DEF sell_base_input_internal, Err
<1>2. CASE ~(Drained(p) \/ fees > out)
    <2>1. p.quote \in Quantities /\ p.base \in Nat \ {0} /\ n \in Nat
        BY <1>2 DEF Drained, QuotedPools, Quantities
    <2>2. out \in Quantities
        BY <2>1, PoolShare
    <2>3. sell_base_input_internal(n, bp, p, creator) =
              [ok |-> TRUE, internal |-> out, ui_quote |-> out - fees,
               min_quote |-> calculate_with_slippage_sell(out - fees, bp)]
        BY <1>2 DEF sell_base_input_internal
    <2> HIDE DEF out
    <2>4. out \in Nat
        BY <2>2 DEF Quantities
    <2>5. fees \in Nat
        <3>1. /\ compute_fee(out, LP_FEE_BASIS_POINTS) \in Nat
              /\ compute_fee(out, PROTOCOL_FEE_BASIS_POINTS) \in Nat
              /\ compute_fee(out, COIN_CREATOR_FEE_BASIS_POINTS) \in Nat
            BY <2>4, FeesAreNat, FeeIsNat
        <3> QED  BY <3>1 DEF pumpswap_fees
    <2> HIDE DEF fees
    <2>6. out - fees \in Quantities
        BY <1>2, <2>2, <2>4, <2>5, U64Assumption DEF Quantities
    <2> QED  BY <2>3, <2>6
<1> QED  BY <1>1, <1>2

-----------------------------------------------------------------------------
(* What a trade asks for.                                                    *)
FixedAmounts == Quantities \cup {NoFixed}
Params ==
    [amount : Quantities, slippage : Nat, market : Markets, use_seed : BOOLEAN,
     create_in : BOOLEAN, close_in : BOOLEAN, create_out : BOOLEAN, close_out : BOOLEAN,
     fixed : FixedAmounts, exact : BOOLEAN]

LEMMA MarketTyped ==
    ASSUME NEW m \in Markets
    PROVE  \/ m.kind = "PumpFun" /\ m.curve \in QuotedCurves /\ m.creator \in BOOLEAN /\ m.close_when_sell \in BOOLEAN
           \/ /\ m.kind = "PumpSwap" /\ m.base \in Mints /\ m.quote \in Mints
              /\ m.creator \in BOOLEAN /\ m.pool \in QuotedPools
BY MarketsAssumption DEF QuotedCurves, QuotedPools

LEMMA FixedTyped ==
    ASSUME NEW s \in Params PROVE s.fixed # NoFixed => s.fixed \in Quantities
BY DEF Params, FixedAmounts

(* An accepted pool has the token on one side and a currency on the other.   *)
LEMMA AcceptedPool ==
    ASSUME NEW m, m.kind = "PumpSwap", m.base \in Mints, m.quote \in Mints, pool_accepted(m)
    PROVE  /\ Currency(m) \in {"WSOL", "USDC"}
           /\ IF quote_is_wsol_or_usdc(m)
              THEN m.base = "TOK" /\ m.quote = Currency(m) /\ ~Reversed(m)
              ELSE m.quote = "TOK" /\ m.base = Currency(m) /\ Reversed(m)
<1>1. CASE quote_is_wsol_or_usdc(m)
    <2>1. m.base = "TOK" /\ m.quote \in {"WSOL", "USDC"}
        BY <1>1 DEF pool_accepted, quote_is_wsol_or_usdc, Currencies, Mints
    <2>2. (CHOOSE c \in {m.base, m.quote} : c # "TOK") = m.quote
        BY <2>1
    <2> QED  BY <1>1, <2>1, <2>2 DEF Currency, Reversed
<1>2. CASE ~quote_is_wsol_or_usdc(m)
    <2>1. m.quote = "TOK" /\ m.base \in {"WSOL", "USDC"}
        BY <1>2 DEF pool_accepted, quote_is_wsol_or_usdc, Currencies, Mints
    <2>2. (CHOOSE c \in {m.base, m.quote} : c # "TOK") = m.base
        BY <2>1
    <2> QED  BY <1>2, <2>1, <2>2 DEF Currency, Reversed
<1> QED  BY <1>1, <1>2

-----------------------------------------------------------------------------
(* The totals a swap of spent units at a for got units at b changes.         *)
Exchange(w, v, a, spent, b, got) ==
    /\ spent \in Nat /\ got \in Nat
    /\ Moves(w, v, LamportsAt(b, got) - LamportsAt(a, spent),
             UnitsAt(b, "USDC", got) - UnitsAt(a, "USDC", spent),
             UnitsAt(b, "TOK", got) - UnitsAt(a, "TOK", spent))

LEMMA QuietExchange ==
    ASSUME NEW w, NEW x, NEW y, NEW v, NEW a, NEW b, NEW spent, NEW got,
           Moves(w, x, 0, 0, 0), Exchange(x, y, a, spent, b, got), Moves(y, v, 0, 0, 0)
    PROVE  Exchange(w, v, a, spent, b, got)
<1> DEFINE l == LamportsAt(b, got) - LamportsAt(a, spent)
           u == UnitsAt(b, "USDC", got) - UnitsAt(a, "USDC", spent)
           t == UnitsAt(b, "TOK", got) - UnitsAt(a, "TOK", spent)
<1>1. l \in Int /\ u \in Int /\ t \in Int
    BY DEF Exchange, LamportsAt, UnitsAt
<1>2. Moves(x, y, l, u, t)
    BY DEF Exchange
<1> HIDE DEF l, u, t
<1>3. Moves(w, v, l, u, t)
    BY <1>1, <1>2 DEF Moves
<1> QED  BY <1>3 DEF Exchange, l, u, t

(* Lists and instructions that move nothing.                                 *)
Quiet(w, list) == list \in Seq(Instrs) /\ \A x \in Outcomes(w, list) : Moves(w, x, 0, 0, 0)
Harmless(i) == i \in Instrs /\ \A x, v : Good(x) /\ v \in Effects(x, i) => Moves(x, v, 0, 0, 0)

LEMMA QuietNone == ASSUME NEW w, Good(w) PROVE Quiet(w, << >>)
<1> DEFINE none == << >>
<1>1. none \in Seq(Instrs) /\ Outcomes(w, none) = {w}
    BY OutcomesEmpty
<1> HIDE DEF none
<1>2. Quiet(w, none)
    BY <1>1, MovesNothing DEF Quiet
<1> QED  BY <1>2 DEF none

LEMMA QuietMore ==
    ASSUME NEW w, NEW list, Quiet(w, list), NEW i, Harmless(i), NEW b \in BOOLEAN
    PROVE  Quiet(w, list \o Opt(b, <<i>>))
<1> DEFINE long == list \o Opt(b, <<i>>)
<1>1. /\ long \in Seq(Instrs)
      /\ \A v : v \in Outcomes(w, long) <=>
                   IF b THEN \E x \in Outcomes(w, list) : v \in Effects(x, i) ELSE v \in Outcomes(w, list)
    BY OutcomesOpt DEF Quiet, Harmless
<1> HIDE DEF long
<1>2. ASSUME NEW v \in Outcomes(w, long) PROVE Moves(w, v, 0, 0, 0)
    <2>1. CASE b
        <3>1. PICK x \in Outcomes(w, list) : v \in Effects(x, i)
            BY <1>1, <2>1
        <3>2. Moves(w, x, 0, 0, 0) /\ Moves(x, v, 0, 0, 0)
            BY <3>1 DEF Quiet, Harmless, Moves
        <3> QED  BY <3>2 DEF Moves
    <2>2. CASE ~b
        BY <1>1, <2>2 DEF Quiet
    <2> QED  BY <2>1, <2>2
<1>3. Quiet(w, long)
    BY <1>1, <1>2 DEF Quiet
<1> QED  BY <1>3 DEF long

LEMMA EmptyConcat == ASSUME NEW q \in Seq(Instrs) PROVE << >> \o q = q
BY ConcatEmptySeq

LEMMA QuietOpt ==
    ASSUME NEW w, Good(w), NEW i, Harmless(i), NEW b \in BOOLEAN PROVE Quiet(w, Opt(b, <<i>>))
<1>1. Quiet(w, << >> \o Opt(b, <<i>>))
    BY QuietNone, QuietMore
<1>2. Opt(b, <<i>>) \in Seq(Instrs)
    BY DEF Harmless, Opt
<1> QED  BY <1>1, <1>2, EmptyConcat

(* A list around one swap: nothing but the swap moves anything.              *)
LEMMA ListTrades ==
    ASSUME NEW w, NEW pre, Quiet(w, pre),
           NEW a \in Places, NEW b \in Places, a # b, NEW i \in Instrs, IsSwap(i, a, b),
           NEW j, Harmless(j), NEW p \in BOOLEAN, NEW k, Harmless(k), NEW q \in BOOLEAN,
           NEW v \in Outcomes(w, ((pre \o <<i>>) \o Opt(p, <<j>>)) \o Opt(q, <<k>>))
    PROVE  \E spent \in i.spend, got \in i.got : Exchange(w, v, a, spent, b, got)
<1> DEFINE one == pre \o <<i>>
           two == one \o Opt(p, <<j>>)
           three == two \o Opt(q, <<k>>)
<1>1. Adds(one, pre, i)
    BY ConcatAdds DEF Quiet
<1> HIDE DEF one
<1>2. /\ one \in Seq(Instrs)
      /\ \A y : y \in Outcomes(w, one) <=> \E x \in Outcomes(w, pre) : y \in Effects(x, i)
    BY <1>1, OutcomesMore DEF Quiet
<1>3. /\ two \in Seq(Instrs)
      /\ \A y : y \in Outcomes(w, two) <=>
                   IF p THEN \E x \in Outcomes(w, one) : y \in Effects(x, j) ELSE y \in Outcomes(w, one)
    BY <1>2, OutcomesOpt DEF Harmless
<1> HIDE DEF two
<1>4. \A y : y \in Outcomes(w, three) <=>
                   IF q THEN \E x \in Outcomes(w, two) : y \in Effects(x, k) ELSE y \in Outcomes(w, two)
    BY <1>3, OutcomesOpt DEF Harmless
<1>5. v \in Outcomes(w, three)
    BY DEF one, two
<1> HIDE DEF three
<1>6. PICK z \in Outcomes(w, two) : v = z \/ v \in Effects(z, k)
    BY <1>4, <1>5
<1>7. PICK y \in Outcomes(w, one) : z = y \/ z \in Effects(y, j)
    BY <1>3
<1>8. PICK x \in Outcomes(w, pre) : y \in Effects(x, i)
    BY <1>2
<1>9. Moves(w, x, 0, 0, 0) /\ Good(x)
    BY DEF Quiet, Moves
<1>10. PICK spent \in i.spend, got \in i.got : Trades(x, y, a, spent, b, got)
    BY <1>8, <1>9, SwapMoves DEF Places
<1>11. Exchange(x, y, a, spent, b, got) /\ Good(y)
    BY <1>10 DEF Trades, Exchange, Moves
<1>12. Moves(y, z, 0, 0, 0) /\ Good(z)
    BY <1>7, <1>11, MovesNothing DEF Harmless, Moves
<1>13. Moves(z, v, 0, 0, 0)
    BY <1>6, <1>12, MovesNothing DEF Harmless
<1>14. Moves(y, v, 0, 0, 0)
    BY <1>12, <1>13 DEF Moves
<1>15. Exchange(w, v, a, spent, b, got)
    BY <1>9, <1>11, <1>14, QuietExchange
<1> QED  BY <1>15

LEMMA CreateIsHarmless ==
    ASSUME NEW mint \in Mints, NEW seed \in BOOLEAN
    PROVE  \E i : Harmless(i) /\ create_token_account(mint, seed) = <<i>>
<1>1. PICK i \in Instrs : create_token_account(mint, seed) = <<i>>
    BY CreateIsInstr
<1>2. \A x, v : Good(x) /\ v \in Effects(x, i) => Moves(x, v, 0, 0, 0)
    BY <1>1, CreateTokenMoves
<1> QED  BY <1>1, <1>2 DEF Harmless

LEMMA CloseIsHarmless == ASSUME NEW a \in Addresses PROVE Harmless(CloseAccount(a))
<1>1. CloseAccount(a) \in Instrs
    BY DEF CloseAccount, Instrs, Places
<1>2. \A x, v : Good(x) /\ v \in Effects(x, CloseAccount(a)) => Moves(x, v, 0, 0, 0)
    BY CloseMoves
<1> QED  BY <1>1, <1>2 DEF Harmless

LEMMA CreateAtaIsHarmless == Harmless(CreateAta("WSOL"))
<1>1. \A x, v : Good(x) /\ v \in Effects(x, CreateAta("WSOL")) => Moves(x, v, 0, 0, 0)
    BY CreateAtaMoves DEF Mints
<1> QED  BY <1>1, WsolInstrs DEF Harmless

LEMMA QuietWrap ==
    ASSUME NEW w, Good(w), NEW n \in Nat, NEW b \in BOOLEAN PROVE Quiet(w, Opt(b, handle_wsol(n)))
<1>1. CASE b
    <2>1. /\ handle_wsol(n) \in Seq(Instrs)
          /\ \A v : v \in Outcomes(w, handle_wsol(n)) <=>
                 \E x \in Effects(w, CreateAta("WSOL")) :
                 \E y \in Effects(x, SystemTransfer(wsol_token_account, n)) :
                     v \in Effects(y, SyncNative(wsol_token_account))
        BY HandleWsolLeaves
    <2>2. ASSUME NEW v \in Outcomes(w, handle_wsol(n)) PROVE Moves(w, v, 0, 0, 0)
        <3>1. PICK x \in Effects(w, CreateAta("WSOL")) :
                 \E y \in Effects(x, SystemTransfer(wsol_token_account, n)) :
                     v \in Effects(y, SyncNative(wsol_token_account))
            BY <2>1
        <3>2. PICK y \in Effects(x, SystemTransfer(wsol_token_account, n)) :
                     v \in Effects(y, SyncNative(wsol_token_account))
            BY <3>1
        <3> QED  BY <3>2, WrapMoves
    <2> QED  BY <1>1, <2>1, <2>2 DEF Quiet, Opt
<1>2. CASE ~b
    BY <1>2, QuietNone DEF Opt
<1> QED  BY <1>1, <1>2

-----------------------------------------------------------------------------
(* Where the two sides of a trade are.                                       *)
LEMMA TokenAddressIs ==
    ASSUME NEW mint \in Mints, NEW seed \in BOOLEAN
    PROVE  LET a == token_address(mint, seed)
           IN  a \in Addresses /\ a \in Places /\ a # Sol /\ a[1] = mint
BY DEF token_address, Addresses, Places, Sol, Mints

MoneyPlace(a, c, seed) == c \in {"WSOL", "USDC"} /\ (a = token_address(c, seed) \/ (a = Sol /\ c = "WSOL"))

(* money units of currency c and tokens units of the token more.             *)
Exchanged(w, v, c, money, tokens) ==
    /\ c \in {"WSOL", "USDC"} /\ money \in Int /\ tokens \in Int
    /\ Moves(w, v, IF c = "WSOL" THEN money ELSE 0, IF c = "USDC" THEN money ELSE 0, tokens)

Sides(a, b, c) ==
    \A n \in Nat : /\ LamportsAt(a, n) = (IF c = "WSOL" THEN n ELSE 0) /\ LamportsAt(b, n) = 0
                   /\ UnitsAt(a, "USDC", n) = (IF c = "USDC" THEN n ELSE 0) /\ UnitsAt(b, "USDC", n) = 0
                   /\ UnitsAt(a, "TOK", n) = 0 /\ UnitsAt(b, "TOK", n) = n

LEMMA PlacesOfTrade ==
    ASSUME NEW c, NEW seed \in BOOLEAN, NEW a, MoneyPlace(a, c, seed)
    PROVE  LET b == token_address("TOK", seed)
           IN  /\ a \in Places /\ b \in Places /\ a # b
               /\ Sides(a, b, c)
<1> DEFINE b == token_address("TOK", seed)
<1>1. b \in Places /\ b # Sol /\ b[1] = "TOK"
    BY TokenAddressIs DEF Mints
<1>2. a \in Places /\ ((a = Sol /\ c = "WSOL") \/ (a # Sol /\ a[1] = c)) /\ c \in {"WSOL", "USDC"}
    BY TokenAddressIs DEF MoneyPlace, Mints, Places
<1>3. Sol[1] = "SOL"
    BY DEF Sol
<1> HIDE DEF b
<1>4. a # b
    BY <1>1, <1>2, <1>3
<1>5. Sides(a, b, c)
    BY <1>1, <1>2, <1>3 DEF Sides, LamportsAt, UnitsAt
<1> QED  BY <1>1, <1>2, <1>4, <1>5 DEF b

LEMMA BuyExchange ==
    ASSUME NEW w, NEW v, NEW c, NEW seed \in BOOLEAN, NEW a, MoneyPlace(a, c, seed), NEW spent, NEW got,
           Exchange(w, v, a, spent, token_address("TOK", seed), got)
    PROVE  Exchanged(w, v, c, -spent, got)
<1> DEFINE b == token_address("TOK", seed)
<1>1. /\ spent \in Nat /\ got \in Nat
      /\ Moves(w, v, LamportsAt(b, got) - LamportsAt(a, spent),
               UnitsAt(b, "USDC", got) - UnitsAt(a, "USDC", spent),
               UnitsAt(b, "TOK", got) - UnitsAt(a, "TOK", spent))
    BY DEF Exchange
<1>2. /\ LamportsAt(b, got) - LamportsAt(a, spent) = (IF c = "WSOL" THEN -spent ELSE 0)
      /\ UnitsAt(b, "USDC", got) - UnitsAt(a, "USDC", spent) = (IF c = "USDC" THEN -spent ELSE 0)
      /\ UnitsAt(b, "TOK", got) - UnitsAt(a, "TOK", spent) = got
    <2>1. Sides(a, b, c)
        BY PlacesOfTrade
    <2> HIDE DEF b
    <2> QED  BY <1>1, <2>1 DEF Sides
<1> QED  BY <1>1, <1>2 DEF Exchanged, MoneyPlace

LEMMA SellExchange ==
    ASSUME NEW w, NEW v, NEW c, NEW seed \in BOOLEAN, NEW b, MoneyPlace(b, c, seed), NEW sold, NEW got,
           Exchange(w, v, token_address("TOK", seed), sold, b, got)
    PROVE  Exchanged(w, v, c, got, -sold)
<1> DEFINE a == token_address("TOK", seed)
<1>1. /\ sold \in Nat /\ got \in Nat
      /\ Moves(w, v, LamportsAt(b, got) - LamportsAt(a, sold),
               UnitsAt(b, "USDC", got) - UnitsAt(a, "USDC", sold),
               UnitsAt(b, "TOK", got) - UnitsAt(a, "TOK", sold))
    BY DEF Exchange
<1>2. /\ LamportsAt(b, got) - LamportsAt(a, sold) = (IF c = "WSOL" THEN got ELSE 0)
      /\ UnitsAt(b, "USDC", got) - UnitsAt(a, "USDC", sold) = (IF c = "USDC" THEN got ELSE 0)
      /\ UnitsAt(b, "TOK", got) - UnitsAt(a, "TOK", sold) = -sold
    <2>1. Sides(b, a, c)
        BY PlacesOfTrade
    <2> HIDE DEF a
    <2> QED  BY <1>1, <2>1 DEF Sides
<1> QED  BY <1>1, <1>2 DEF Exchanged, MoneyPlace

LEMMA SwapExactIs ==
    ASSUME NEW a \in Places, NEW b \in Places, NEW n \in Nat, NEW least \in Nat
    PROVE  LET i == SwapExact(a, n, b, least)
           IN  /\ i \in Instrs /\ IsSwap(i, a, b) /\ i.spend = {n}
               /\ \A got \in i.got : got \in Nat /\ got >= least
BY SurplusAssumption DEF SwapExact, Instrs, IsSwap

LEMMA SwapUpToIs ==
    ASSUME NEW a \in Places, NEW b \in Places, NEW most \in Nat, NEW n \in Nat
    PROVE  LET i == SwapUpTo(a, most, b, n)
           IN  /\ i \in Instrs /\ IsSwap(i, a, b) /\ i.got = {n}
               /\ \A spent \in i.spend : spent \in Nat /\ spent <= most
BY DEF SwapUpTo, Instrs, IsSwap

LEMMA NoOpt == ASSUME NEW list \in Seq(Instrs), NEW j PROVE list \o Opt(FALSE, <<j>>) = list
BY ConcatEmptySeq DEF Opt

LEMMA ShortListTrades ==
    ASSUME NEW w, NEW pre, Quiet(w, pre),
           NEW a \in Places, NEW b \in Places, a # b, NEW i \in Instrs, IsSwap(i, a, b),
           NEW j, Harmless(j), NEW p \in BOOLEAN,
           NEW v \in Outcomes(w, (pre \o <<i>>) \o Opt(p, <<j>>))
    PROVE  \E spent \in i.spend, got \in i.got : Exchange(w, v, a, spent, b, got)
<1> DEFINE one == pre \o <<i>>
           two == one \o Opt(p, <<j>>)
<1>1. one \in Seq(Instrs)
    <2>1. Adds(one, pre, i)
        BY ConcatAdds DEF Quiet
    <2> HIDE DEF one
    <2> QED  BY <2>1, OutcomesMore DEF Quiet
<1>2. two \in Seq(Instrs)
    <2> HIDE DEF one
    <2> QED  BY <1>1, OutcomesOpt DEF Harmless
<1>3. two \o Opt(FALSE, <<j>>) = two
    <2> HIDE DEF two
    <2> QED  BY <1>2, NoOpt
<1>4. v \in Outcomes(w, ((pre \o <<i>>) \o Opt(p, <<j>>)) \o Opt(FALSE, <<j>>))
    BY <1>3
<1> QED  BY <1>4, ListTrades

LEMMA ListOfSwap ==
    ASSUME NEW w, NEW pre, Quiet(w, pre),
           NEW a \in Places, NEW b \in Places, a # b, NEW i \in Instrs, IsSwap(i, a, b),
           NEW v \in Outcomes(w, pre \o <<i>>)
    PROVE  \E spent \in i.spend, got \in i.got : Exchange(w, v, a, spent, b, got)
<1> DEFINE one == pre \o <<i>>
           j == CreateAta("WSOL")
<1>1. one \in Seq(Instrs)
    <2>1. Adds(one, pre, i)
        BY ConcatAdds DEF Quiet
    <2> HIDE DEF one
    <2> QED  BY <2>1, OutcomesMore DEF Quiet
<1>2. one \o Opt(FALSE, <<j>>) = one
    <2> HIDE DEF one, j
    <2> QED  BY <1>1, NoOpt
<1>3. v \in Outcomes(w, (pre \o <<i>>) \o Opt(FALSE, <<j>>))
    BY <1>2
<1>4. Harmless(j)
    BY CreateAtaIsHarmless
<1> HIDE DEF j
<1> QED  BY <1>3, <1>4, ShortListTrades

(* What the limits of an instruction mean for the quote.                     *)
LEMMA LeastKept ==
    ASSUME NEW q \in Quantities, NEW bp \in Nat, NEW got \in Nat,
           got >= calculate_with_slippage_sell(q, bp) \/ got >= q
    PROVE  AtLeastLess(got, q, bp)
<1> USE DEF AtLeastLess
<1>1. q \in Nat
    BY DEF Quantities
<1>2. CASE got >= q
    <2>1. q * (10000 - bp) = q * 10000 - q * bp /\ q * bp \in Nat
        BY <1>1
    <2> QED  BY <1>1, <1>2, <2>1
<1>3. CASE got >= calculate_with_slippage_sell(q, bp)
    <2> DEFINE least == calculate_with_slippage_sell(q, bp)
               share == q * (10000 - bp)
    <2>1. least \in Nat /\ least * 10000 >= share /\ share \in Int
        BY <1>1, SlippageSell DEF AtLeastLess
    <2>2. got >= least
        BY <1>3
    <2> HIDE DEF least, share
    <2>3. got * 10000 >= share
        BY <2>1, <2>2
    <2> QED  BY <2>3 DEF share
<1> QED  BY <1>2, <1>3

LEMMA MostKept ==
    ASSUME NEW q \in Quantities, NEW bp \in Nat, NEW spent \in Nat, spent <= calculate_with_slippage_buy(q, bp)
    PROVE  AtMostWith(spent, q, bp)
<1> USE DEF AtMostWith
<1> DEFINE most == calculate_with_slippage_buy(q, bp)
           share == q * (10000 + bp)
<1>1. most \in Nat /\ most * 10000 <= share /\ share \in Int
    BY SlippageBuy DEF Quantities, AtMostWith
<1>2. spent <= most
    OBVIOUS
<1> HIDE DEF most, share
<1>3. spent * 10000 <= share
    BY <1>1, <1>2
<1> QED  BY <1>3 DEF share

-----------------------------------------------------------------------------
(* What a buy does, whatever the wallet was.                                 *)
CostBounded(s, spent) ==
    IF s.exact \/ Reversed(s.market) THEN spent <= s.amount ELSE AtMostWith(spent, s.amount, s.slippage)
Bought(s, w, v) ==
    \E spent \in Nat, got \in Nat :
        /\ Exchanged(w, v, Currency(s.market), -spent, got)
        /\ CostBounded(s, spent)
        /\ AtLeastLess(got, QuotedTokens(s), s.slippage)

LEMMA PumpfunBuyDoes ==
    ASSUME NEW s \in Params, s.market.kind = "PumpFun", pumpfun_buy(s) # Rejected,
           NEW w, Good(w), NEW v \in Outcomes(w, pumpfun_buy(s))
    PROVE  Bought(s, w, v)
<1> DEFINE b == token_address("TOK", s.use_seed)
           quote == IF s.fixed # NoFixed THEN s.fixed
                    ELSE get_buy_token_amount_from_sol_amount(s.market.curve, s.market.creator, s.amount)
           least == calculate_with_slippage_sell(quote, s.slippage)
           most == calculate_with_slippage_buy(s.amount, s.slippage)
           i == IF s.exact THEN SwapExact(Sol, s.amount, b, least) ELSE SwapUpTo(Sol, most, b, quote)
<1>1. /\ s.amount \in Quantities /\ s.amount \in Nat /\ s.slippage \in Nat /\ s.market \in Markets
      /\ s.use_seed \in BOOLEAN /\ s.create_out \in BOOLEAN /\ s.exact \in BOOLEAN
    BY DEF Params, Quantities
<1>2. s.market.curve \in QuotedCurves /\ s.market.creator \in BOOLEAN /\ ~Reversed(s.market) /\ Currency(s.market) = "WSOL"
    BY <1>1, MarketTyped DEF Reversed, Currency
<1>3. quote = QuotedTokens(s)
    BY <1>2 DEF QuotedTokens
<1>4. quote \in Quantities
    BY <1>1, <1>2, FixedTyped, BuyQuoteTyped
<1>5. PICK k : Harmless(k) /\ create_token_account("TOK", s.use_seed) = <<k>>
    BY <1>1, CreateIsHarmless DEF Mints
<1> DEFINE pre == Opt(s.create_out, <<k>>)
<1>6. pumpfun_buy(s) = pre \o <<i>>
    BY <1>5 DEF pumpfun_buy, Rejected
<1>7. Quiet(w, pre)
    BY <1>1, <1>5, QuietOpt
<1>8. MoneyPlace(Sol, "WSOL", s.use_seed) /\ Sol \in Places /\ b \in Places /\ Sol # b
    BY <1>1, PlacesOfTrade DEF MoneyPlace
<1> HIDE DEF quote, b, pre
<1>9. quote \in Nat /\ least \in Nat /\ most \in Nat
    BY <1>1, <1>4, SlippageTyped, QuantitiesAreNat
<1> HIDE DEF least, most
<1>10. /\ i \in Instrs /\ IsSwap(i, Sol, b)
       /\ \A spent \in i.spend : spent \in Nat /\ (IF s.exact THEN spent = s.amount ELSE spent <= most)
       /\ \A got \in i.got : got \in Nat /\ (IF s.exact THEN got >= least ELSE got = quote)
    <2>1. CASE s.exact
        BY <1>1, <1>8, <1>9, <2>1, SwapExactIs
    <2>2. CASE ~s.exact
        BY <1>1, <1>8, <1>9, <2>2, SwapUpToIs
    <2> QED  BY <2>1, <2>2
<1> HIDE DEF i
<1>11. PICK spent \in i.spend, got \in i.got : Exchange(w, v, Sol, spent, b, got)
    BY <1>6, <1>7, <1>8, <1>10, ListOfSwap
<1>12. spent \in Nat /\ got \in Nat /\ Exchanged(w, v, "WSOL", -spent, got)
    BY <1>1, <1>8, <1>10, <1>11, BuyExchange DEF b
<1>13. CostBounded(s, spent)
    <2>1. CASE s.exact
        BY <1>1, <1>10, <2>1 DEF CostBounded
    <2>2. CASE ~s.exact
        <3>1. AtMostWith(spent, s.amount, s.slippage)
            BY <1>1, <1>10, <1>12, <2>2, MostKept DEF most
        <3> QED  BY <1>2, <2>2, <3>1 DEF CostBounded
    <2> QED  BY <2>1, <2>2
<1>14. AtLeastLess(got, quote, s.slippage)
    <2>1. got >= calculate_with_slippage_sell(quote, s.slippage) \/ got >= quote
        BY <1>9, <1>10, <1>12 DEF least
    <2> QED  BY <1>1, <1>4, <1>12, <2>1, LeastKept
<1> QED  BY <1>2, <1>3, <1>12, <1>13, <1>14 DEF Bought

(* The amounts of pumpswap_buy: what it wraps and may spend, what it brings.  *)
LEMMA PumpswapBuyAmounts ==
    ASSUME NEW s \in Params, s.market.kind = "PumpSwap", pumpswap_buy_amounts(s).ok
    PROVE  LET amounts == pumpswap_buy_amounts(s)
               forward == quote_is_wsol_or_usdc(s.market)
           IN  /\ amounts.token_amount \in Nat /\ amounts.sol_amount \in Nat
               /\ amounts.sol_amount = IF forward THEN calculate_with_slippage_buy(s.amount, s.slippage) ELSE s.amount
               /\ s.fixed # NoFixed => amounts.token_amount = s.fixed
               /\ s.fixed = NoFixed => amounts.token_amount =
                     IF forward THEN buy_quote_input_internal(s.amount, s.slippage, s.market.pool, s.market.creator).base
                     ELSE calculate_with_slippage_sell(
                            sell_base_input_internal(s.amount, s.slippage, s.market.pool, s.market.creator).ui_quote,
                            s.slippage)
               /\ forward => buy_quote_input_internal(s.amount, s.slippage, s.market.pool, s.market.creator).base
                                \in Quantities
               /\ ~forward => sell_base_input_internal(s.amount, s.slippage, s.market.pool, s.market.creator).ui_quote
                                \in Quantities
<1> DEFINE there == buy_quote_input_internal(s.amount, s.slippage, s.market.pool, s.market.creator)
           back == sell_base_input_internal(s.amount, s.slippage, s.market.pool, s.market.creator)
           forward == quote_is_wsol_or_usdc(s.market)
           amounts == pumpswap_buy_amounts(s)
<1>1. /\ s.amount \in Quantities /\ s.slippage \in Nat
      /\ s.market.pool \in QuotedPools /\ s.market.creator \in BOOLEAN
    BY MarketTyped DEF Params
<1>2. /\ there.ok => there.base \in Quantities /\ there.max_quote = calculate_with_slippage_buy(s.amount, s.slippage)
      /\ back.ok => back.ui_quote \in Quantities
                    /\ back.min_quote = calculate_with_slippage_sell(back.ui_quote, s.slippage)
    BY <1>1, PoolBuyTyped, PoolSellTyped
<1>3. amounts =
        IF forward
        THEN IF there.ok
             THEN [ok |-> TRUE, token_amount |-> IF s.fixed # NoFixed THEN s.fixed ELSE there.base,
                   sol_amount |-> there.max_quote]
             ELSE [ok |-> FALSE]
        ELSE IF back.ok
             THEN [ok |-> TRUE, token_amount |-> IF s.fixed # NoFixed THEN s.fixed ELSE back.min_quote,
                   sol_amount |-> s.amount]
             ELSE [ok |-> FALSE]
    BY DEF pumpswap_buy_amounts, Err
<1>4. amounts.ok
    OBVIOUS
<1>5. s.fixed # NoFixed => s.fixed \in Nat
    BY FixedTyped, QuantitiesAreNat
<1> HIDE DEF there, back, forward, amounts
<1>6. CASE forward
    <2>1. there.ok
        BY <1>3, <1>4, <1>6
    <2>2. there.base \in Nat /\ there.max_quote \in Nat
        BY <1>1, <1>2, <2>1, SlippageTyped, QuantitiesAreNat
    <2> QED  BY <1>2, <1>3, <1>5, <1>6, <2>1, <2>2 DEF there, back, forward, amounts
<1>7. CASE ~forward
    <2>1. back.ok
        BY <1>3, <1>4, <1>7
    <2>2. back.min_quote \in Nat /\ s.amount \in Nat
        BY <1>1, <1>2, <2>1, SlippageTyped, QuantitiesAreNat
    <2> QED  BY <1>2, <1>3, <1>5, <1>7, <2>1, <2>2 DEF there, back, forward, amounts
<1> QED  BY <1>6, <1>7

LEMMA PumpswapBuyInstruction ==
    ASSUME NEW s \in Params, s.market.kind = "PumpSwap", pool_accepted(s.market), pumpswap_buy_amounts(s).ok
    PROVE  LET amounts == pumpswap_buy_amounts(s)
               i == pumpswap_buy_instruction(s, amounts.token_amount, amounts.sol_amount)
               c == Currency(s.market)
           IN  /\ i \in Instrs
               /\ IsSwap(i, token_address(c, s.use_seed), token_address("TOK", s.use_seed))
               /\ \A spent \in i.spend : spent \in Nat /\ CostBounded(s, spent)
               /\ \A got \in i.got : got \in Nat /\ AtLeastLess(got, QuotedTokens(s), s.slippage)
<1> DEFINE amounts == pumpswap_buy_amounts(s)
           i == pumpswap_buy_instruction(s, amounts.token_amount, amounts.sol_amount)
           c == Currency(s.market)
           a == token_address(c, s.use_seed)
           b == token_address("TOK", s.use_seed)
           forward == quote_is_wsol_or_usdc(s.market)
           q == QuotedTokens(s)
           n == amounts.token_amount
           least == calculate_with_slippage_sell(n, s.slippage)
           most == calculate_with_slippage_buy(s.amount, s.slippage)
<1>1. /\ s.amount \in Quantities /\ s.amount \in Nat /\ s.slippage \in Nat /\ s.market \in Markets
      /\ s.use_seed \in BOOLEAN /\ s.exact \in BOOLEAN
    BY DEF Params, Quantities
<1>2. /\ c \in {"WSOL", "USDC"}
      /\ IF forward THEN s.market.base = "TOK" /\ s.market.quote = c /\ ~Reversed(s.market)
                    ELSE s.market.quote = "TOK" /\ s.market.base = c /\ Reversed(s.market)
    BY <1>1, MarketTyped, AcceptedPool
<1>3. /\ n \in Nat /\ q \in Quantities
      /\ amounts.sol_amount = IF forward THEN most ELSE s.amount
      /\ IF forward THEN n = q ELSE n = q \/ n = calculate_with_slippage_sell(q, s.slippage)
    <2> DEFINE there == buy_quote_input_internal(s.amount, s.slippage, s.market.pool, s.market.creator)
               back == sell_base_input_internal(s.amount, s.slippage, s.market.pool, s.market.creator)
    <2>1. /\ n \in Nat
          /\ amounts.sol_amount = IF forward THEN most ELSE s.amount
          /\ s.fixed # NoFixed => n = s.fixed
          /\ s.fixed = NoFixed => n = IF forward THEN there.base
                                      ELSE calculate_with_slippage_sell(back.ui_quote, s.slippage)
          /\ forward => there.base \in Quantities
          /\ ~forward => back.ui_quote \in Quantities
        BY PumpswapBuyAmounts
    <2>2. s.fixed # NoFixed => s.fixed \in Quantities
        BY FixedTyped
    <2>3. q = IF s.fixed # NoFixed THEN s.fixed ELSE IF forward THEN there.base ELSE back.ui_quote
        BY <1>2 DEF QuotedTokens
    <2> HIDE DEF q, there, back, amounts, forward, most
    <2> QED  BY <2>1, <2>2, <2>3
<1>4. a \in Places /\ b \in Places
    BY <1>1, <1>2, TokenAddressIs DEF Mints
<1>5. most \in Nat /\ (forward => least \in Nat)
    BY <1>1, <1>3, SlippageTyped
<1>6. CASE ~forward
    <2>1. i = SwapExact(a, s.amount, b, n)
        BY <1>2, <1>3, <1>6 DEF pumpswap_buy_instruction
    <2>2. i \in Instrs /\ IsSwap(i, a, b) /\ i.spend = {s.amount} /\ \A got \in i.got : got \in Nat /\ got >= n
        <3> HIDE DEF i, a, b, n
        <3> QED  BY <1>1, <1>3, <1>4, <2>1, SwapExactIs
    <2>3. CostBounded(s, s.amount)
        BY <1>1, <1>2, <1>6 DEF CostBounded
    <2>4. \A got \in Nat : got >= n => AtLeastLess(got, q, s.slippage)
        <3> HIDE DEF q, n, forward
        <3> QED  BY <1>1, <1>3, <1>6, LeastKept
    <2> HIDE DEF i, a, b, n, q
    <2>5. /\ \A spent \in i.spend : spent \in Nat /\ CostBounded(s, spent)
          /\ \A got \in i.got : got \in Nat /\ AtLeastLess(got, q, s.slippage)
        BY <1>1, <2>2, <2>3, <2>4
    <2> QED  BY <2>2, <2>5 DEF i, a, b, n, q
<1>7. CASE forward /\ s.exact
    <2>1. i = SwapExact(a, s.amount, b, least)
        BY <1>2, <1>7 DEF pumpswap_buy_instruction
    <2>2. i \in Instrs /\ IsSwap(i, a, b) /\ i.spend = {s.amount} /\ \A got \in i.got : got \in Nat /\ got >= least
        <3> HIDE DEF i, a, b, n, least, forward
        <3> QED  BY <1>1, <1>4, <1>5, <1>7, <2>1, SwapExactIs
    <2>3. CostBounded(s, s.amount)
        BY <1>1, <1>7 DEF CostBounded
    <2>4. \A got \in Nat : got >= least => AtLeastLess(got, q, s.slippage)
        <3> HIDE DEF q, n, forward
        <3> QED  BY <1>1, <1>3, <1>7, LeastKept
    <2> HIDE DEF i, a, b, n, q, least
    <2>5. /\ \A spent \in i.spend : spent \in Nat /\ CostBounded(s, spent)
          /\ \A got \in i.got : got \in Nat /\ AtLeastLess(got, q, s.slippage)
        BY <1>1, <2>2, <2>3, <2>4
    <2> QED  BY <2>2, <2>5 DEF i, a, b, n, q
<1>8. CASE forward /\ ~s.exact
    <2>1. i = SwapUpTo(a, most, b, n)
        BY <1>2, <1>3, <1>8 DEF pumpswap_buy_instruction
    <2>2. i \in Instrs /\ IsSwap(i, a, b) /\ i.got = {n} /\ \A spent \in i.spend : spent \in Nat /\ spent <= most
        <3> HIDE DEF i, a, b, n, most
        <3> QED  BY <1>3, <1>4, <1>5, <2>1, SwapUpToIs
    <2>3. \A spent \in Nat : spent <= most => CostBounded(s, spent)
        <3>1. \A spent \in Nat : spent <= most => AtMostWith(spent, s.amount, s.slippage)
            BY <1>1, MostKept
        <3> QED  BY <1>2, <1>8, <3>1 DEF CostBounded
    <2>4. AtLeastLess(n, q, s.slippage)
        <3> HIDE DEF q, n, forward
        <3>1. n >= q
            BY <1>3, <1>8
        <3> QED  BY <1>1, <1>3, <3>1, LeastKept
    <2> HIDE DEF i, a, b, n, q, most
    <2>5. /\ \A spent \in i.spend : spent \in Nat /\ CostBounded(s, spent)
          /\ \A got \in i.got : got \in Nat /\ AtLeastLess(got, q, s.slippage)
        BY <1>3, <2>2, <2>3, <2>4
    <2> QED  BY <2>2, <2>5 DEF i, a, b, n, q
<1> QED  BY <1>6, <1>7, <1>8

LEMMA PumpswapBuyDoes ==
    ASSUME NEW s \in Params, s.market.kind = "PumpSwap", pumpswap_buy(s) # Rejected,
           NEW w, Good(w), NEW v \in Outcomes(w, pumpswap_buy(s))
    PROVE  Bought(s, w, v)
<1> DEFINE amounts == pumpswap_buy_amounts(s)
           i == pumpswap_buy_instruction(s, amounts.token_amount, amounts.sol_amount)
           c == Currency(s.market)
           a == token_address(c, s.use_seed)
           b == token_address("TOK", s.use_seed)
<1>1. /\ s.use_seed \in BOOLEAN /\ s.create_in \in BOOLEAN /\ s.create_out \in BOOLEAN /\ s.close_in \in BOOLEAN
      /\ s.market \in Markets
    BY DEF Params
<1>2. pool_accepted(s.market) /\ amounts.ok
    BY DEF pumpswap_buy
<1>3. /\ i \in Instrs /\ IsSwap(i, a, b)
      /\ \A spent \in i.spend : spent \in Nat /\ CostBounded(s, spent)
      /\ \A got \in i.got : got \in Nat /\ AtLeastLess(got, QuotedTokens(s), s.slippage)
    BY <1>2, PumpswapBuyInstruction
<1>4. amounts.sol_amount \in Nat
    BY <1>2, PumpswapBuyAmounts
<1>5. MoneyPlace(a, c, s.use_seed)
    BY <1>1, <1>2, MarketTyped, AcceptedPool DEF MoneyPlace
<1>6. PICK k : Harmless(k) /\ create_token_account("TOK", s.use_seed) = <<k>>
    BY <1>1, CreateIsHarmless DEF Mints
<1> DEFINE wrap == Opt(s.create_in, handle_wsol(amounts.sol_amount))
           pre == wrap \o Opt(s.create_out, <<k>>)
           j == CloseAccount(wsol_token_account)
<1>7. pumpswap_buy(s) = (pre \o <<i>>) \o Opt(s.close_in, <<j>>)
    BY <1>6 DEF pumpswap_buy, close_wsol
<1>8. Harmless(j)
    BY CloseIsHarmless, WsolInstrs
<1>9. Quiet(w, wrap)
    BY <1>1, <1>4, QuietWrap
<1> HIDE DEF i, wrap, amounts, j
<1>10. Quiet(w, pre)
    BY <1>1, <1>6, <1>9, QuietMore
<1>11. a \in Places /\ b \in Places /\ a # b
    BY <1>1, <1>5, PlacesOfTrade
<1> HIDE DEF pre, a, b, c
<1>12. PICK spent \in i.spend, got \in i.got : Exchange(w, v, a, spent, b, got)
    BY <1>1, <1>3, <1>7, <1>8, <1>10, <1>11, ShortListTrades
<1>13. Exchanged(w, v, c, -spent, got)
    BY <1>1, <1>5, <1>12, BuyExchange DEF b
<1> QED  BY <1>3, <1>13 DEF Bought, c

-----------------------------------------------------------------------------
(* What a sale does, whatever the wallet was.                                *)
SoldBounded(s, sold) == ~Reversed(s.market) => sold = s.amount
Sold(s, w, v) ==
    \E sold \in Nat, got \in Nat :
        /\ Exchanged(w, v, Currency(s.market), got, -sold)
        /\ SoldBounded(s, sold)
        /\ AtLeastLess(got, QuotedProceeds(s), s.slippage)

LEMMA PumpfunSellDoes ==
    ASSUME NEW s \in Params, s.market.kind = "PumpFun", pumpfun_sell(s) # Rejected,
           NEW w, Good(w), NEW v \in Outcomes(w, pumpfun_sell(s))
    PROVE  Sold(s, w, v)
<1> DEFINE a == token_address("TOK", s.use_seed)
           quote == get_sell_sol_amount_from_token_amount(s.market.curve, s.market.creator, s.amount)
           q == QuotedProceeds(s)
           least == IF s.fixed # NoFixed THEN s.fixed ELSE calculate_with_slippage_sell(quote, s.slippage)
           i == SwapExact(a, s.amount, Sol, least)
           p == s.market.close_when_sell \/ s.close_in
           j == CloseAccount(a)
<1>1. /\ s.amount \in Quantities /\ s.amount \in Nat /\ s.slippage \in Nat /\ s.market \in Markets
      /\ s.use_seed \in BOOLEAN /\ s.close_in \in BOOLEAN
    BY DEF Params, Quantities
<1>2. /\ s.market.curve \in QuotedCurves /\ s.market.creator \in BOOLEAN /\ p \in BOOLEAN
      /\ ~Reversed(s.market) /\ Currency(s.market) = "WSOL"
    BY <1>1, MarketTyped DEF Reversed, Currency
<1>3. q = IF s.fixed # NoFixed THEN s.fixed ELSE quote
    BY <1>2 DEF QuotedProceeds
<1>4. pumpfun_sell(s) = <<i>> \o Opt(p, <<j>>)
    BY DEF pumpfun_sell, Rejected
<1>5. quote \in Quantities /\ (s.fixed # NoFixed => s.fixed \in Quantities)
    BY <1>1, <1>2, FixedTyped, SellQuoteTyped
<1> HIDE DEF quote, q
<1>6. least \in Nat
    BY <1>1, <1>5, SlippageTyped, QuantitiesAreNat
<1>7. \A got \in Nat : got >= least => AtLeastLess(got, q, s.slippage)
    <2>1. q \in Quantities /\ (least = q \/ least = calculate_with_slippage_sell(q, s.slippage))
        BY <1>3, <1>5
    <2> HIDE DEF least
    <2> QED  BY <1>1, <2>1, LeastKept
<1>8. /\ MoneyPlace(Sol, "WSOL", s.use_seed) /\ Sol \in Places /\ a \in Places /\ Sol # a /\ a \in Addresses
    BY <1>1, PlacesOfTrade, TokenAddressIs DEF MoneyPlace, Mints
<1> HIDE DEF a, least
<1>9. i \in Instrs /\ IsSwap(i, a, Sol) /\ i.spend = {s.amount} /\ \A got \in i.got : got \in Nat /\ got >= least
    BY <1>1, <1>6, <1>8, SwapExactIs
<1>10. Harmless(j)
    BY <1>8, CloseIsHarmless
<1> HIDE DEF i, j, p
<1>11. Quiet(w, << >>)
    BY QuietNone
<1>12. << >> \o <<i>> = <<i>>
    <2>1. <<i>> \in Seq(Instrs)
        BY <1>9
    <2> QED  BY <2>1, EmptyConcat
<1>13. v \in Outcomes(w, (<< >> \o <<i>>) \o Opt(p, <<j>>))
    BY <1>4, <1>12
<1> DEFINE none == << >>
<1> HIDE DEF none
<1>14. PICK sold \in i.spend, got \in i.got : Exchange(w, v, a, sold, Sol, got)
    <2>1. Quiet(w, none) /\ v \in Outcomes(w, (none \o <<i>>) \o Opt(p, <<j>>))
        BY <1>11, <1>13 DEF none
    <2> QED  BY <1>2, <1>8, <1>9, <1>10, <2>1, ShortListTrades
<1>15. Exchanged(w, v, "WSOL", got, -sold)
    BY <1>1, <1>8, <1>14, SellExchange DEF a
<1>16. sold = s.amount /\ SoldBounded(s, sold) /\ got \in Nat /\ AtLeastLess(got, q, s.slippage)
    BY <1>1, <1>2, <1>7, <1>9 DEF SoldBounded
<1> QED  BY <1>1, <1>2, <1>15, <1>16 DEF Sold, q

LEMMA PumpswapSellInstruction ==
    ASSUME NEW s \in Params, s.market.kind = "PumpSwap", pool_accepted(s.market), pumpswap_sell_amounts(s).ok
    PROVE  LET amounts == pumpswap_sell_amounts(s)
               i == pumpswap_sell_instruction(s, amounts.token_amount, amounts.sol_amount)
               c == Currency(s.market)
           IN  /\ i \in Instrs
               /\ IsSwap(i, token_address("TOK", s.use_seed), token_address(c, s.use_seed))
               /\ \A sold \in i.spend : sold \in Nat /\ SoldBounded(s, sold)
               /\ \A got \in i.got : got \in Nat /\ AtLeastLess(got, QuotedProceeds(s), s.slippage)
<1> DEFINE amounts == pumpswap_sell_amounts(s)
           i == pumpswap_sell_instruction(s, amounts.token_amount, amounts.sol_amount)
           c == Currency(s.market)
           a == token_address("TOK", s.use_seed)
           b == token_address(c, s.use_seed)
           forward == quote_is_wsol_or_usdc(s.market)
           q == QuotedProceeds(s)
           n == amounts.sol_amount
           most == calculate_with_slippage_buy(s.amount, s.slippage)
<1>1. /\ s.amount \in Quantities /\ s.amount \in Nat /\ s.slippage \in Nat /\ s.market \in Markets
      /\ s.use_seed \in BOOLEAN
    BY DEF Params, Quantities
<1>2. /\ c \in {"WSOL", "USDC"}
      /\ IF forward THEN s.market.base = "TOK" /\ s.market.quote = c /\ ~Reversed(s.market)
                    ELSE s.market.quote = "TOK" /\ s.market.base = c /\ Reversed(s.market)
    BY <1>1, MarketTyped, AcceptedPool
<1>3. /\ n \in Nat /\ q \in Quantities
      /\ amounts.token_amount = IF forward THEN s.amount ELSE most
      /\ n = q \/ (forward /\ n = calculate_with_slippage_sell(q, s.slippage))
    <2> DEFINE there == buy_quote_input_internal(s.amount, s.slippage, s.market.pool, s.market.creator)
               back == sell_base_input_internal(s.amount, s.slippage, s.market.pool, s.market.creator)
    <2>1. s.market.pool \in QuotedPools /\ s.market.creator \in BOOLEAN
        BY <1>1, MarketTyped
    <2>2. /\ there.ok => there.base \in Quantities /\ there.max_quote = most
          /\ back.ok => back.ui_quote \in Quantities
                        /\ back.min_quote = calculate_with_slippage_sell(back.ui_quote, s.slippage)
        BY <1>1, <2>1, PoolBuyTyped, PoolSellTyped
    <2>3. amounts =
            IF forward
            THEN IF back.ok
                 THEN [ok |-> TRUE, sol_amount |-> IF s.fixed # NoFixed THEN s.fixed ELSE back.min_quote,
                       token_amount |-> s.amount]
                 ELSE [ok |-> FALSE]
            ELSE IF there.ok
                 THEN [ok |-> TRUE, sol_amount |-> IF s.fixed # NoFixed THEN s.fixed ELSE there.base,
                       token_amount |-> there.max_quote]
                 ELSE [ok |-> FALSE]
        BY DEF pumpswap_sell_amounts, Err
    <2>4. amounts.ok
        OBVIOUS
    <2>5. s.fixed # NoFixed => s.fixed \in Quantities /\ s.fixed \in Nat
        BY FixedTyped, QuantitiesAreNat
    <2>6. q = IF s.fixed # NoFixed THEN s.fixed ELSE IF forward THEN back.ui_quote ELSE there.base
        BY <1>2 DEF QuotedProceeds
    <2> HIDE DEF there, back, forward, amounts, q, most
    <2>7. CASE forward
        <3>1. back.ok
            BY <2>3, <2>4, <2>7
        <3>2. back.min_quote \in Nat
            BY <1>1, <2>2, <3>1, SlippageTyped
        <3> QED  BY <2>2, <2>3, <2>5, <2>6, <2>7, <3>1, <3>2
    <2>8. CASE ~forward
        <3>1. there.ok
            BY <2>3, <2>4, <2>8
        <3>2. there.base \in Nat
            BY <2>2, <3>1, QuantitiesAreNat
        <3> QED  BY <2>2, <2>3, <2>5, <2>6, <2>8, <3>1, <3>2
    <2> QED  BY <2>7, <2>8
<1>4. a \in Places /\ b \in Places
    BY <1>1, <1>2, TokenAddressIs DEF Mints
<1>5. most \in Nat
    BY <1>1, SlippageTyped
<1>6. CASE forward
    <2>1. i = SwapExact(a, s.amount, b, n)
        BY <1>2, <1>3, <1>6 DEF pumpswap_sell_instruction
    <2>2. i \in Instrs /\ IsSwap(i, a, b) /\ i.spend = {s.amount} /\ \A got \in i.got : got \in Nat /\ got >= n
        <3> HIDE DEF i, a, b, n
        <3> QED  BY <1>1, <1>3, <1>4, <2>1, SwapExactIs
    <2>3. SoldBounded(s, s.amount)
        BY <1>2, <1>6 DEF SoldBounded
    <2>4. \A got \in Nat : got >= n => AtLeastLess(got, q, s.slippage)
        <3> HIDE DEF q, n, forward
        <3> QED  BY <1>1, <1>3, LeastKept
    <2> HIDE DEF i, a, b, n, q
    <2>5. /\ \A sold \in i.spend : sold \in Nat /\ SoldBounded(s, sold)
          /\ \A got \in i.got : got \in Nat /\ AtLeastLess(got, q, s.slippage)
        BY <1>1, <2>2, <2>3, <2>4
    <2> QED  BY <2>2, <2>5 DEF i, a, b, n, q
<1>7. CASE ~forward
    <2>1. i = SwapUpTo(a, most, b, n)
        BY <1>2, <1>3, <1>7 DEF pumpswap_sell_instruction
    <2>2. i \in Instrs /\ IsSwap(i, a, b) /\ i.got = {n} /\ \A sold \in i.spend : sold \in Nat /\ sold <= most
        <3> HIDE DEF i, a, b, n, most
        <3> QED  BY <1>3, <1>4, <1>5, <2>1, SwapUpToIs
    <2>3. \A sold \in Nat : SoldBounded(s, sold)
        BY <1>2, <1>7 DEF SoldBounded
    <2>4. AtLeastLess(n, q, s.slippage)
        <3> HIDE DEF q, n, forward
        <3>1. n >= q
            BY <1>3, <1>7
        <3> QED  BY <1>1, <1>3, <3>1, LeastKept
    <2> HIDE DEF i, a, b, n, q, most
    <2>5. /\ \A sold \in i.spend : sold \in Nat /\ SoldBounded(s, sold)
          /\ \A got \in i.got : got \in Nat /\ AtLeastLess(got, q, s.slippage)
        BY <1>3, <2>2, <2>3, <2>4
    <2> QED  BY <2>2, <2>5 DEF i, a, b, n, q
<1> QED  BY <1>6, <1>7

LEMMA PumpswapSellDoes ==
    ASSUME NEW s \in Params, s.market.kind = "PumpSwap", pumpswap_sell(s) # Rejected,
           NEW w, Good(w), NEW v \in Outcomes(w, pumpswap_sell(s))
    PROVE  Sold(s, w, v)
<1> DEFINE amounts == pumpswap_sell_amounts(s)
           i == pumpswap_sell_instruction(s, amounts.token_amount, amounts.sol_amount)
           c == Currency(s.market)
           a == token_address("TOK", s.use_seed)
           b == token_address(c, s.use_seed)
           h == CreateAta("WSOL")
           j == CloseAccount(wsol_token_account)
           k == CloseAccount(a)
           pre == Opt(s.create_out, <<h>>)
<1>1. /\ s.use_seed \in BOOLEAN /\ s.create_out \in BOOLEAN /\ s.close_in \in BOOLEAN /\ s.close_out \in BOOLEAN
      /\ s.market \in Markets
    BY DEF Params
<1>2. pool_accepted(s.market) /\ amounts.ok
    BY DEF pumpswap_sell
<1>3. /\ i \in Instrs /\ IsSwap(i, a, b)
      /\ \A sold \in i.spend : sold \in Nat /\ SoldBounded(s, sold)
      /\ \A got \in i.got : got \in Nat /\ AtLeastLess(got, QuotedProceeds(s), s.slippage)
    BY <1>2, PumpswapSellInstruction
<1>4. MoneyPlace(b, c, s.use_seed)
    BY <1>1, <1>2, MarketTyped, AcceptedPool DEF MoneyPlace
<1>5. pumpswap_sell(s) = ((pre \o <<i>>) \o Opt(s.close_out, <<j>>)) \o Opt(s.close_in, <<k>>)
    BY DEF pumpswap_sell, close_wsol, create_wsol_ata
<1>6. a \in Places /\ b \in Places /\ a # b /\ a \in Addresses
    BY <1>1, <1>4, PlacesOfTrade, TokenAddressIs DEF Mints
<1>7. Harmless(h) /\ Harmless(j)
    BY CreateAtaIsHarmless, CloseIsHarmless, WsolInstrs
<1> HIDE DEF i, amounts, h, j, a, b, c
<1>8. Harmless(k)
    BY <1>6, CloseIsHarmless
<1>9. Quiet(w, pre)
    BY <1>1, <1>7, QuietOpt
<1> HIDE DEF pre, k
<1>10. PICK sold \in i.spend, got \in i.got : Exchange(w, v, a, sold, b, got)
    BY <1>1, <1>3, <1>5, <1>6, <1>7, <1>8, <1>9, ListTrades
<1>11. Exchanged(w, v, c, got, -sold)
    BY <1>1, <1>4, <1>10, SellExchange DEF a
<1> QED  BY <1>3, <1>11 DEF Sold, c

-----------------------------------------------------------------------------
(* Wrapping, unwrapping and the other operations on the wallet.              *)
LEMMA UnwrapDoes ==
    ASSUME NEW w, Good(w), NEW n \in Nat,
           NEW x \in Effects(w, TokenTransfer(wsol_token_account, seed_ata_address, n)),
           NEW v \in Effects(x, CloseAccount(seed_ata_address))
    PROVE  /\ Moves(w, v, 0, 0, 0) /\ ~v.acc[seed_ata_address].open
           /\ v.acc[wsol_token_account].amt = w.acc[wsol_token_account].amt - n
           /\ v.sol = w.sol + w.acc[seed_ata_address].lam + n
<1> DEFINE a == wsol_token_account
           b == seed_ata_address
<1>1. /\ a \in Addresses /\ b \in Addresses /\ a # b /\ a # Sol /\ b # Sol
      /\ a[1] = "WSOL" /\ b[1] = "WSOL" /\ IsNative(a) /\ IsNative(b)
    BY AddressList DEF wsol_token_account, seed_ata_address, IsNative, Sol
<1>2. CanTake(w, a, n) /\ CanGive(w, b) /\ x = Give(Take(w, a, n), b, n)
    BY DEF Effects, TokenTransfer
<1> HIDE DEF a, b
<1>3. Trades(w, x, a, n, b, n)
    BY <1>1, <1>2, ExchangeMoves
<1>4. /\ LamportsAt(b, n) - LamportsAt(a, n) = 0
      /\ UnitsAt(b, "USDC", n) - UnitsAt(a, "USDC", n) = 0
      /\ UnitsAt(b, "TOK", n) - UnitsAt(a, "TOK", n) = 0
    BY <1>1 DEF LamportsAt, UnitsAt
<1>5. /\ Moves(w, x, 0, 0, 0) /\ x.acc[b].open = w.acc[b].open
      /\ x.acc[a].amt = w.acc[a].amt - n /\ x.acc[b].amt = w.acc[b].amt + n /\ x.sol = w.sol
    BY <1>1, <1>3, <1>4 DEF Trades
<1>6. Good(x)
    BY <1>5 DEF Moves
<1>7. /\ Moves(x, v, 0, 0, 0) /\ ~v.acc[b].open /\ x.acc[b].open
      /\ v.sol = x.sol + x.acc[b].lam /\ v.acc[a] = x.acc[a]
    BY <1>1, <1>6, CloseMoves DEF b
<1>8. x.acc[b].lam = w.acc[b].lam + n
    <2>1. x.acc[b].amt = x.acc[b].lam - Rent /\ w.acc[b].amt = w.acc[b].lam - Rent
        BY <1>1, <1>5, <1>6, <1>7 DEF Good, Backed
    <2>2. /\ x.acc[b].lam \in Nat /\ w.acc[b].lam \in Nat /\ Rent \in Nat
          /\ x.acc[b].amt \in Nat /\ w.acc[b].amt \in Nat
        BY <1>1, <1>6, RentAssumption DEF Good, Wallets
    <2> QED  BY <1>5, <2>1, <2>2
<1>9. w.sol \in Nat /\ w.acc[b].lam \in Nat
    BY <1>1 DEF Good, Wallets
<1>10. Moves(w, v, 0, 0, 0)
    BY <1>5, <1>7 DEF Moves
<1> QED  BY <1>5, <1>7, <1>8, <1>9, <1>10 DEF a, b

(* create_with_seed opens the seed account for a while.                      *)
LEMMA SeedOpens ==
    ASSUME NEW w, Good(w), NEW v \in Effects(w, CreateWithSeed("WSOL"))
    PROVE  /\ Good(v) /\ v.acc[wsol_token_account] = w.acc[wsol_token_account]
           /\ v.sol = w.sol - Rent /\ v.acc[seed_ata_address].lam = Rent
           /\ Lamports(v) = Lamports(w) /\ Lamports(w) \in Nat
<1> DEFINE a == seed_ata_address
           x == [open |-> TRUE, amt |-> 0, lam |-> Rent]
<1>1. a \in Addresses /\ wsol_token_account \in Addresses \ {a}
    BY WsolInstrs DEF wsol_token_account, seed_ata_address
<1>2. ~w.acc[a].open /\ w.sol >= Rent /\ v = PutIn(w, w.sol - Rent, a, x)
    BY DEF Effects, CreateWithSeed, Open, PutIn, seed_ata_address
<1>3. w \in Wallets /\ w.sol \in Nat /\ Rent \in Nat /\ x \in Accounts /\ w.acc[a] = Shut
    BY <1>1, <1>2, RentAssumption DEF Good, Wallets, Accounts, ClosedAreEmpty
<1>4. w.sol - Rent \in Nat
    BY <1>2, <1>3
<1>5. x.lam = Rent /\ SoundAccount(x, IsNative(a))
    BY <1>3 DEF SoundAccount
<1> HIDE DEF x, a
<1>6. DiffersAt(w, v, a) /\ v.sol = w.sol - Rent /\ v.acc[a] = x
    BY <1>1, <1>2, <1>3, <1>4, PutDiffers
<1>7. Good(v)
    BY <1>1, <1>5, <1>6, OneChangeIsGood
<1>8. /\ Lamports(v) = Lamports(w) + (v.sol - w.sol) + (v.acc[a].lam - w.acc[a].lam)
      /\ Lamports(w) \in Nat
    BY <1>1, <1>3, <1>6, TotalsOfOneChange
<1>9. Lamports(v) = Lamports(w)
    BY <1>3, <1>5, <1>6, <1>8 DEF Shut
<1> QED  BY <1>1, <1>5, <1>6, <1>7, <1>8, <1>9 DEF DiffersAt, a

LEMMA CashbackDoes ==
    ASSUME NEW w, Good(w), NEW a, a = Sol \/ a = wsol_token_account, NEW v \in Effects(w, Cashback(a))
    PROVE  \E n \in Nat : Moves(w, v, n, 0, 0)
<1>1. /\ a \in Addresses \cup {Sol} /\ CanGive(w, a)
      /\ \A n : LamportsAt(a, n) = n /\ UnitsAt(a, "USDC", n) = 0 /\ UnitsAt(a, "TOK", n) = 0
    <2>1. /\ wsol_token_account \in Addresses /\ wsol_token_account[1] = "WSOL" /\ Sol[1] = "SOL"
        BY WsolInstrs DEF wsol_token_account, Sol
    <2>2. CanGive(w, a)
        BY DEF Effects, Cashback
    <2> QED  BY <2>1, <2>2 DEF LamportsAt, UnitsAt
<1>2. PICK n \in 0..Surplus : v = Give(w, a, n)
    BY DEF Effects, Cashback
<1>3. n \in Nat /\ n \in Int
    BY SurplusAssumption
<1>4. IF a = Sol THEN w.sol + n \in Nat ELSE w.acc[a].amt + n \in Nat
    BY <1>1, <1>3 DEF Good, Wallets
<1>5. Gains(w, v, a, n)
    BY <1>1, <1>2, <1>3, <1>4, GiveMoves
<1>6. Moves(w, v, n, 0, 0)
    BY <1>1, <1>5 DEF Gains
<1> QED  BY <1>3, <1>6

LEMMA PayOutDoes ==
    ASSUME NEW w, Good(w), NEW n \in Nat, NEW v \in Effects(w, PayOut(n))
    PROVE  Moves(w, v, -n, 0, 0)
<1>1. w.sol >= n /\ v = [w EXCEPT !.sol = w.sol - n]
    BY DEF Effects, PayOut
<1>2. w.sol \in Nat
    BY DEF Good, Wallets
<1>3. CanTake(w, Sol, n) /\ v = Take(w, Sol, n)
    BY <1>1, <1>2 DEF CanTake, Take, Give
<1>4. Gains(w, v, Sol, -n)
    BY <1>3, TakeMoves
<1>5. LamportsAt(Sol, -n) = -n /\ UnitsAt(Sol, "USDC", -n) = 0 /\ UnitsAt(Sol, "TOK", -n) = 0
    BY DEF LamportsAt, UnitsAt, Sol
<1> QED  BY <1>4, <1>5 DEF Gains

(* The two lists of wrap_wsol_to_sol.                                        *)
Unwrapped(w, v, n) ==
    /\ Good(v) /\ ~v.acc[seed_ata_address].open
    /\ v.acc[wsol_token_account].amt = w.acc[wsol_token_account].amt - n
    /\ v.sol >= w.sol + n
    /\ Lamports(v) = Lamports(w) /\ Lamports(w) \in Nat

LEMMA OneAndTwo == ASSUME NEW h, NEW i, NEW j PROVE <<h>> \o <<i, j>> = <<h, i, j>>
<1> DEFINE s == <<h>>
           t == <<i, j>>
           r == <<h, i, j>>
           S == {h, i, j}
<1>1. /\ s \in Seq(S) /\ t \in Seq(S) /\ r \in Seq(S) /\ Len(s) = 1 /\ Len(t) = 2 /\ Len(r) = 3
      /\ s[1] = h /\ t[1] = i /\ t[2] = j /\ r[1] = h /\ r[2] = i /\ r[3] = j
    OBVIOUS
<1> HIDE DEF s, t, r, S
<1> DEFINE c == s \o t
<1>2. c \in Seq(S) /\ Len(c) = 3 /\ \A k \in 1..3 : c[k] = IF k <= 1 THEN s[k] ELSE t[k - 1]
    <2>1. /\ c \in Seq(S) /\ Len(c) = Len(s) + Len(t)
          /\ \A k \in 1..(Len(s) + Len(t)) : c[k] = IF k <= Len(s) THEN s[k] ELSE t[k - Len(s)]
        BY <1>1, ConcatProperties
    <2> HIDE DEF c
    <2>2. Len(s) + Len(t) = 3
        BY <1>1
    <2> QED  BY <1>1, <2>1, <2>2
<1> HIDE DEF c
<1>3. \A k \in 1..3 : c[k] = r[k]
    BY <1>1, <1>2
<1>4. c = r
    BY <1>1, <1>2, <1>3, SeqEqual
<1> QED  BY <1>4 DEF c, r, s, t

LEMMA UnwrapLists ==
    ASSUME NEW w, Good(w), NEW n \in Nat, NEW list,
           list = wrap_wsol_to_sol_without_create(n) \/ list = wrap_wsol_to_sol_internal(n),
           NEW v \in Outcomes(w, list)
    PROVE  Unwrapped(w, v, n)
<1> DEFINE h == CreateWithSeed("WSOL")
           i == TokenTransfer(wsol_token_account, seed_ata_address, n)
           j == CloseAccount(seed_ata_address)
<1>1. h \in Instrs /\ i \in Instrs /\ j \in Instrs
    BY WsolInstrs
<1>2. CASE list = wrap_wsol_to_sol_without_create(n)
    <2>1. list = <<i, j>>
        BY <1>2 DEF wrap_wsol_to_sol_without_create
    <2> HIDE DEF i, j
    <2> DEFINE one == <<i>>
    <2>2. one \in Seq(Instrs) /\ Adds(list, one, j)
        BY <1>1, <2>1 DEF Adds
    <2>3. Outcomes(w, one) = Effects(w, i)
        BY OutcomesOne
    <2> HIDE DEF one
    <2>4. PICK x \in Effects(w, i) : v \in Effects(x, j)
        BY <1>1, <2>2, <2>3, OutcomesMore
    <2>5. /\ Moves(w, v, 0, 0, 0) /\ ~v.acc[seed_ata_address].open
          /\ v.acc[wsol_token_account].amt = w.acc[wsol_token_account].amt - n
          /\ v.sol = w.sol + w.acc[seed_ata_address].lam + n
        BY <2>4, UnwrapDoes DEF i, j
    <2>6. w.sol \in Nat /\ w.acc[seed_ata_address].lam \in Nat
        BY WsolInstrs DEF Good, Wallets
    <2> QED  BY <2>5, <2>6 DEF Unwrapped, Moves
<1>3. CASE list = wrap_wsol_to_sol_internal(n)
    <2> HIDE DEF h, i, j
    <2> DEFINE one == <<h>>
               two == <<h, i>>
    <2>1. one \in Seq(Instrs) /\ two \in Seq(Instrs)
        BY <1>1
    <2>2. Adds(two, one, i) /\ Adds(list, two, j)
        <3>1. list = <<h>> \o <<i, j>>
            BY <1>3 DEF wrap_wsol_to_sol_internal, wrap_wsol_to_sol_without_create, h, i, j
        <3>2. list = <<h, i, j>>
            BY <3>1, OneAndTwo
        <3>3. Adds(<<h, i>>, <<h>>, i) /\ Adds(<<h, i, j>>, <<h, i>>, j)
            BY DEF Adds
        <3> QED  BY <3>2, <3>3
    <2>3. Outcomes(w, one) = Effects(w, h)
        BY OutcomesOne
    <2> HIDE DEF one, two
    <2>4. PICK y \in Outcomes(w, two) : v \in Effects(y, j)
        BY <1>1, <2>1, <2>2, OutcomesMore
    <2>5. PICK x \in Effects(w, h) : y \in Effects(x, i)
        BY <1>1, <2>1, <2>2, <2>3, OutcomesMore
    <2>6. /\ Good(x) /\ x.acc[wsol_token_account] = w.acc[wsol_token_account]
          /\ x.sol = w.sol - Rent /\ x.acc[seed_ata_address].lam = Rent
          /\ Lamports(x) = Lamports(w) /\ Lamports(w) \in Nat
        BY SeedOpens DEF h
    <2>7. /\ Moves(x, v, 0, 0, 0) /\ ~v.acc[seed_ata_address].open
          /\ v.acc[wsol_token_account].amt = x.acc[wsol_token_account].amt - n
          /\ v.sol = x.sol + x.acc[seed_ata_address].lam + n
        BY <2>4, <2>5, <2>6, UnwrapDoes DEF i, j
    <2>8. w.sol \in Nat /\ Rent \in Nat
        BY RentAssumption DEF Good, Wallets
    <2> QED  BY <2>6, <2>7, <2>8 DEF Unwrapped, Moves
<1> QED  BY <1>2, <1>3

-----------------------------------------------------------------------------
(* What a transaction on its way is made of.                                 *)
Sent(t) ==
    \/ t.op = "buy" /\ t.s \in Params /\ t.ins = build_buy_instructions(t.s) /\ t.ins # Rejected
    \/ t.op \in {"sell", "sell_by_percent"} /\ t.s \in Params
       /\ t.ins = build_sell_instructions(t.s) /\ t.ins # Rejected
    \/ t.op = "wrap" /\ t.s.amount \in Nat /\ t.ins = handle_wsol(t.s.amount)
    \/ t.op = "unwrap" /\ t.s.amount \in Nat
       /\ (t.ins = wrap_wsol_to_sol_without_create(t.s.amount) \/ t.ins = wrap_wsol_to_sol_internal(t.s.amount))
    \/ t.op = "close_wsol" /\ t.ins = close_wsol
    \/ t.op = "create_wsol" /\ t.ins = create_wsol_ata
    \/ t.op = "claim" /\ t.ins = <<Cashback(Sol)>>
    \/ t.op = "claim" /\ \E seed \in BOOLEAN :
          t.ins = create_token_account("WSOL", seed) \o <<Cashback(wsol_token_account)>>
    \/ t.op = "transfer_sol" /\ \E n \in Nat : t.ins = <<PayOut(n)>>
    \/ t.op = "close_token_account" /\ \E mint \in Mints : t.ins = <<CloseAccount(<<mint, "ata">>)>>

(* What it does when it lands.                                               *)
Ends(t, w, v) ==
    /\ Good(v)
    /\ t.op = "buy" => Bought(t.s, w, v)
    /\ t.op \in {"sell", "sell_by_percent"} => Sold(t.s, w, v)
    /\ v.acc[seed_ata_address].open => w.acc[seed_ata_address].open /\ t.op # "unwrap"
    /\ t.op = "wrap" => v.acc[wsol_token_account].amt = w.acc[wsol_token_account].amt + t.s.amount
    /\ t.op = "unwrap" =>
          /\ v.acc[wsol_token_account].amt = w.acc[wsol_token_account].amt - t.s.amount
          /\ v.sol >= w.sol + t.s.amount
    /\ t.op \in {"wrap", "unwrap", "close_wsol", "create_wsol", "close_token_account"} => Lamports(v) = Lamports(w)
    /\ t.op \notin {"buy", "transfer_sol"} => Lamports(v) >= Lamports(w)

LEMMA BuyEnds ==
    ASSUME NEW t, t.op = "buy", t.s \in Params, t.ins = build_buy_instructions(t.s), t.ins # Rejected,
           NEW w, Good(w), NEW v \in Outcomes(w, t.ins)
    PROVE  Ends(t, w, v)
<1>1. t.s.market \in Markets
    BY DEF Params
<1>2. t.s.market.kind = "PumpFun" \/ t.s.market.kind = "PumpSwap"
    BY <1>1, MarketTyped
<1>3. Bought(t.s, w, v)
    <2>1. CASE t.s.market.kind = "PumpFun"
        BY <2>1, PumpfunBuyDoes DEF build_buy_instructions
    <2>2. CASE t.s.market.kind = "PumpSwap"
        BY <2>2, PumpswapBuyDoes DEF build_buy_instructions
    <2> QED  BY <1>2, <2>1, <2>2
<1>4. Good(v) /\ (v.acc[seed_ata_address].open => w.acc[seed_ata_address].open)
    BY <1>3 DEF Bought, Exchanged, Moves
<1> QED  BY <1>3, <1>4 DEF Ends

LEMMA SellEnds ==
    ASSUME NEW t, t.op \in {"sell", "sell_by_percent"}, t.s \in Params,
           t.ins = build_sell_instructions(t.s), t.ins # Rejected,
           NEW w, Good(w), NEW v \in Outcomes(w, t.ins)
    PROVE  Ends(t, w, v)
<1>1. t.s.market \in Markets
    BY DEF Params
<1>2. t.s.market.kind = "PumpFun" \/ t.s.market.kind = "PumpSwap"
    BY <1>1, MarketTyped
<1>3. Sold(t.s, w, v)
    <2>1. CASE t.s.market.kind = "PumpFun"
        BY <2>1, PumpfunSellDoes DEF build_sell_instructions
    <2>2. CASE t.s.market.kind = "PumpSwap"
        BY <2>2, PumpswapSellDoes DEF build_sell_instructions
    <2> QED  BY <1>2, <2>1, <2>2
<1>4. PICK sold \in Nat, got \in Nat : Exchanged(w, v, Currency(t.s.market), got, -sold)
    BY <1>3 DEF Sold
<1>5. Good(v) /\ (v.acc[seed_ata_address].open => w.acc[seed_ata_address].open)
    BY <1>4 DEF Exchanged, Moves
<1>6. Lamports(v) >= Lamports(w)
    BY <1>4 DEF Exchanged, Moves
<1> QED  BY <1>3, <1>5, <1>6 DEF Ends

LEMMA QuietEnds ==
    ASSUME NEW t, t.op \in {"close_wsol", "create_wsol", "close_token_account"},
           NEW w, NEW v, Moves(w, v, 0, 0, 0)
    PROVE  Ends(t, w, v)
BY DEF Moves, Ends

LEMMA ClaimEnds ==
    ASSUME NEW t, t.op = "claim", NEW w, NEW v, NEW n \in Nat, Moves(w, v, n, 0, 0)
    PROVE  Ends(t, w, v)
BY DEF Moves, Ends

LEMMA LandEnds ==
    ASSUME NEW t, Sent(t), NEW w, Good(w), NEW v \in Outcomes(w, t.ins)
    PROVE  Ends(t, w, v)
<1>1. CASE t.op = "buy" /\ t.s \in Params /\ t.ins = build_buy_instructions(t.s) /\ t.ins # Rejected
    BY <1>1, BuyEnds
<1>2. CASE t.op \in {"sell", "sell_by_percent"} /\ t.s \in Params
           /\ t.ins = build_sell_instructions(t.s) /\ t.ins # Rejected
    BY <1>2, SellEnds
<1>3. CASE t.op = "wrap" /\ t.s.amount \in Nat /\ t.ins = handle_wsol(t.s.amount)
    <2> DEFINE n == t.s.amount
    <2>1. PICK x \in Effects(w, CreateAta("WSOL")) :
             \E y \in Effects(x, SystemTransfer(wsol_token_account, n)) :
                 v \in Effects(y, SyncNative(wsol_token_account))
        BY <1>3, HandleWsolLeaves
    <2>2. PICK y \in Effects(x, SystemTransfer(wsol_token_account, n)) :
                 v \in Effects(y, SyncNative(wsol_token_account))
        BY <2>1
    <2>3. Moves(w, v, 0, 0, 0) /\ v.acc[wsol_token_account].amt = w.acc[wsol_token_account].amt + n
        BY <1>3, <2>2, WrapMoves
    <2> QED  BY <1>3, <2>3 DEF Moves, Ends
<1>4. CASE t.op = "unwrap" /\ t.s.amount \in Nat
           /\ (t.ins = wrap_wsol_to_sol_without_create(t.s.amount) \/ t.ins = wrap_wsol_to_sol_internal(t.s.amount))
    <2>1. Unwrapped(w, v, t.s.amount)
        BY <1>4, UnwrapLists
    <2> QED  BY <1>4, <2>1 DEF Unwrapped, Ends
<1>5. CASE t.op = "close_wsol" /\ t.ins = close_wsol
    <2>1. v \in Effects(w, CloseAccount(wsol_token_account))
        BY <1>5, OutcomesOne DEF close_wsol
    <2>2. Moves(w, v, 0, 0, 0)
        BY <2>1, CloseMoves, WsolInstrs
    <2> QED  BY <1>5, <2>2, QuietEnds
<1>6. CASE t.op = "create_wsol" /\ t.ins = create_wsol_ata
    <2>1. v \in Effects(w, CreateAta("WSOL"))
        BY <1>6, OutcomesOne DEF create_wsol_ata
    <2>2. Moves(w, v, 0, 0, 0)
        BY <2>1, CreateAtaMoves DEF Mints
    <2> QED  BY <1>6, <2>2, QuietEnds
<1>7. CASE t.op = "claim" /\ t.ins = <<Cashback(Sol)>>
    <2>1. v \in Effects(w, Cashback(Sol))
        BY <1>7, OutcomesOne
    <2>2. PICK n \in Nat : Moves(w, v, n, 0, 0)
        BY <2>1, CashbackDoes
    <2> QED  BY <1>7, <2>2, ClaimEnds
<1>8. CASE t.op = "claim" /\ \E seed \in BOOLEAN :
              t.ins = create_token_account("WSOL", seed) \o <<Cashback(wsol_token_account)>>
    <2>1. PICK seed \in BOOLEAN : t.ins = create_token_account("WSOL", seed) \o <<Cashback(wsol_token_account)>>
        BY <1>8
    <2>2. PICK k : Harmless(k) /\ create_token_account("WSOL", seed) = <<k>>
        BY CreateIsHarmless DEF Mints
    <2> DEFINE i == Cashback(wsol_token_account)
               one == <<k>>
    <2>3. i \in Instrs
        BY WsolInstrs DEF Instrs, Cashback, Places
    <2>4. one \in Seq(Instrs) /\ Outcomes(w, one) = Effects(w, k)
        BY <2>2, OutcomesOne DEF Harmless
    <2>5. v \in Outcomes(w, one \o <<i>>)
        BY <2>1, <2>2
    <2> HIDE DEF i, one
    <2>6. Adds(one \o <<i>>, one, i)
        BY <2>3, <2>4, ConcatAdds
    <2> DEFINE long == one \o <<i>>
    <2> HIDE DEF long
    <2>7. PICK x \in Effects(w, k) : v \in Effects(x, i)
        <3>1. Adds(long, one, i) /\ v \in Outcomes(w, long)
            BY <2>5, <2>6 DEF long
        <3> QED  BY <2>3, <2>4, <3>1, OutcomesMore
    <2>8. Moves(w, x, 0, 0, 0) /\ Good(x)
        BY <2>2 DEF Harmless, Moves
    <2>9. PICK n \in Nat : Moves(x, v, n, 0, 0)
        BY <2>7, <2>8, CashbackDoes DEF i
    <2>10. Moves(w, v, n, 0, 0)
        BY <2>8, <2>9 DEF Moves
    <2> QED  BY <1>8, <2>10, ClaimEnds
<1>9. CASE t.op = "transfer_sol" /\ \E n \in Nat : t.ins = <<PayOut(n)>>
    <2>1. PICK n \in Nat : t.ins = <<PayOut(n)>>
        BY <1>9
    <2>2. v \in Effects(w, PayOut(n))
        BY <2>1, OutcomesOne
    <2>3. Moves(w, v, -n, 0, 0)
        BY <2>2, PayOutDoes
    <2> QED  BY <1>9, <2>3 DEF Moves, Ends
<1>10. CASE t.op = "close_token_account" /\ \E mint \in Mints : t.ins = <<CloseAccount(<<mint, "ata">>)>>
    <2>1. PICK mint \in Mints : t.ins = <<CloseAccount(<<mint, "ata">>)>>
        BY <1>10
    <2> DEFINE a == <<mint, "ata">>
    <2>2. v \in Effects(w, CloseAccount(a)) /\ a \in Addresses
        BY <2>1, OutcomesOne DEF Addresses
    <2> HIDE DEF a
    <2>3. Moves(w, v, 0, 0, 0)
        BY <2>2, CloseMoves
    <2> QED  BY <1>10, <2>3, QuietEnds
<1> QED  BY <1>1, <1>2, <1>3, <1>4, <1>5, <1>6, <1>7, <1>8, <1>9, <1>10 DEF Sent

-----------------------------------------------------------------------------
(* The inductive invariant: every transaction on its way is one that an      *)
(* operation builds, and the wallet is good.                                 *)
Asked(t) ==
    t.op = "sell_by_percent" =>
        /\ t.asked.percent \in 1..100 /\ t.asked.held \in Nat
        /\ t.s.amount = percent_amount(t.asked.held, t.asked.percent)
Proper(t, seed) ==
    /\ Sent(t) /\ Asked(t)
    /\ t.op \in {"buy", "sell", "sell_by_percent"} => t.s.use_seed = seed

ClientInv ==
    /\ use_seed_optimize \in BOOLEAN
    /\ Good(wallet)
    /\ ops \in 0..MaxOps
    /\ IsFiniteSet(pending) /\ Cardinality(pending) <= MaxPending
    /\ \A t \in pending : Proper(t, use_seed_optimize) /\ t.id \in Nat /\ t.id < ops
    /\ \A t, u \in pending : t.id = u.id => t = u

Transaction(op, s, asked, instructions) ==
    [id |-> ops, op |-> op, s |-> s, asked |-> asked, ins |-> instructions]

LEMMA SendKeepsInv ==
    ASSUME ClientInv, NEW op, NEW s, NEW asked, NEW list,
           SendAs(op, s, asked, list), Proper(Transaction(op, s, asked, list), use_seed_optimize)
    PROVE  ClientInv'
<1>1. PICK t : t = Transaction(op, s, asked, list)
    OBVIOUS
<1>2. /\ ops < MaxOps /\ Cardinality(pending) < MaxPending /\ pending' = pending \cup {t} /\ ops' = ops + 1
      /\ use_seed_optimize' = use_seed_optimize /\ wallet' = wallet /\ t.id = ops
    BY <1>1 DEF SendAs, Transaction
<1>3. ops \in Nat /\ MaxOps \in Nat /\ MaxPending \in Nat
    BY BoundsAssumption DEF ClientInv
<1>4. IsFiniteSet(pending') /\ Cardinality(pending') <= MaxPending
    <2>1. /\ IsFiniteSet(pending \cup {t})
          /\ Cardinality(pending \cup {t}) = IF t \in pending THEN Cardinality(pending) ELSE Cardinality(pending) + 1
        BY FS_AddElement DEF ClientInv
    <2>2. Cardinality(pending) \in Nat
        BY FS_CardinalityType DEF ClientInv
    <2> QED  BY <1>2, <1>3, <2>1, <2>2
<1>5. \A u \in pending' : Proper(u, use_seed_optimize') /\ u.id \in Nat /\ u.id < ops'
    BY <1>1, <1>2, <1>3 DEF ClientInv
<1>6. \A u, x \in pending' : u.id = x.id => u = x
    BY <1>2, <1>3 DEF ClientInv
<1>7. ops' \in 0..MaxOps /\ use_seed_optimize' \in BOOLEAN
    BY <1>2, <1>3 DEF ClientInv
<1>8. Good(wallet)'
    BY <1>2 DEF ClientInv
<1> QED  BY <1>4, <1>5, <1>6, <1>7, <1>8 DEF ClientInv

LEMMA TakenAwayKeepsInv ==
    ASSUME ClientInv, NEW t \in pending, pending' = pending \ {t},
           use_seed_optimize' = use_seed_optimize, ops' = ops, Good(wallet)'
    PROVE  ClientInv'
<1>1. /\ IsFiniteSet(pending) /\ Cardinality(pending) \in Nat /\ Cardinality(pending) <= MaxPending
      /\ MaxPending \in Nat
    BY FS_CardinalityType, BoundsAssumption DEF ClientInv
<1>2. IsFiniteSet(pending \ {t}) /\ Cardinality(pending \ {t}) = Cardinality(pending) - 1
    BY <1>1, FS_RemoveElement
<1>3. IsFiniteSet(pending') /\ Cardinality(pending') <= MaxPending
    BY <1>1, <1>2
<1>4. \A u \in pending' : Proper(u, use_seed_optimize') /\ u.id \in Nat /\ u.id < ops'
    BY DEF ClientInv
<1> QED  BY <1>3, <1>4 DEF ClientInv

(* Every operation sends a proper transaction.                               *)
SendsProperly ==
    \E op, s, asked, list : SendAs(op, s, asked, list) /\ Proper(Transaction(op, s, asked, list), use_seed_optimize)

LEMMA BuyParamsTyped ==
    ASSUME use_seed_optimize \in BOOLEAN, NEW r \in BuyRequests, NEW n \in Quantities,
           NEW slippage \in SlippagePoints, NEW market \in Markets
    PROVE  buy_params(r, n, slippage, market) \in Params
<1>1. r.create_in \in BOOLEAN /\ r.close_in \in BOOLEAN /\ r.create_mint \in BOOLEAN
      /\ r.fixed \in FixedAmounts /\ r.exact \in BOOLEAN
    BY RequestsAssumption DEF FixedAmounts
<1>2. slippage \in Nat
    BY AmountsAssumption
<1> QED  BY <1>1, <1>2 DEF buy_params, Params

LEMMA SellParamsTyped ==
    ASSUME use_seed_optimize \in BOOLEAN, NEW r \in SellRequests, NEW n \in Quantities,
           NEW slippage \in SlippagePoints, NEW market \in Markets
    PROVE  sell_params(r, n, slippage, market) \in Params
<1>1. r.create_out \in BOOLEAN /\ r.close_out \in BOOLEAN /\ r.close_mint \in BOOLEAN
      /\ r.fixed \in FixedAmounts
    BY RequestsAssumption DEF FixedAmounts
<1>2. slippage \in Nat
    BY AmountsAssumption
<1> QED  BY <1>1, <1>2 DEF sell_params, Params

LEMMA TradeSends == ASSUME ClientInv, Trade PROVE SendsProperly
<1>1. PICK slippage \in SlippagePoints, market \in Markets :
        \/ \E r \in BuyRequests, amount \in InputAmounts : buy(r, amount, slippage, market)
        \/ \E r \in SellRequests :
              \/ \E amount \in InputAmounts : sell(r, amount, slippage, market)
              \/ \E percent \in Percents : sell_by_percent(r, percent, slippage, market)
    BY DEF Trade
<1>2. use_seed_optimize \in BOOLEAN /\ InputAmounts \subseteq Quantities
    BY AmountsAssumption DEF ClientInv
<1> DEFINE nothing == [percent |-> 0, held |-> 0]
<1>3. ASSUME NEW r \in BuyRequests, NEW amount \in InputAmounts, buy(r, amount, slippage, market)
      PROVE  SendsProperly
    <2> DEFINE s == buy_params(r, amount, slippage, market)
               list == build_buy_instructions(s)
    <2>1. SendAs("buy", s, nothing, list) /\ list # Rejected
        BY <1>3 DEF buy, Send, SendAs
    <2>2. s \in Params /\ s.use_seed = use_seed_optimize
        BY <1>2, BuyParamsTyped DEF buy_params
    <2> HIDE DEF s, nothing
    <2>3. Proper(Transaction("buy", s, nothing, list), use_seed_optimize)
        BY <2>1, <2>2 DEF Proper, Transaction, Sent, Asked
    <2> HIDE DEF list
    <2> QED  BY <2>1, <2>3 DEF SendsProperly
<1>4. ASSUME NEW r \in SellRequests, NEW amount \in InputAmounts, sell(r, amount, slippage, market)
      PROVE  SendsProperly
    <2> DEFINE s == sell_params(r, amount, slippage, market)
               list == build_sell_instructions(s)
    <2>1. SendAs("sell", s, nothing, list) /\ list # Rejected
        BY <1>4 DEF sell, Send, SendAs
    <2>2. s \in Params /\ s.use_seed = use_seed_optimize
        BY <1>2, SellParamsTyped DEF sell_params
    <2> HIDE DEF s, nothing
    <2>3. Proper(Transaction("sell", s, nothing, list), use_seed_optimize)
        BY <2>1, <2>2 DEF Proper, Transaction, Sent, Asked
    <2> HIDE DEF list
    <2> QED  BY <2>1, <2>3 DEF SendsProperly
<1>5. ASSUME NEW r \in SellRequests, NEW percent \in Percents, sell_by_percent(r, percent, slippage, market)
      PROVE  SendsProperly
    <2> DEFINE held == pumpfun_token_balance
               n == percent_amount(held, percent)
               s == sell_params(r, n, slippage, market)
               list == build_sell_instructions(s)
               asked == [percent |-> percent, held |-> held]
    <2>1. SendAs("sell_by_percent", s, asked, list) /\ list # Rejected /\ percent \in 1..100
        BY <1>5 DEF sell_by_percent, SendAs
    <2>2. held \in Nat
        <3>1. pumpfun_token_account \in Addresses
            BY <1>2, TokenAddressIs DEF pumpfun_token_account, Mints
        <3> QED  BY <3>1 DEF ClientInv, Good, Wallets, pumpfun_token_balance
    <2>3. n \in Quantities
        <3> HIDE DEF held
        <3> DEFINE p == held * percent
                   r1 == p % U64
        <3>1. p \in Nat /\ U64 \in Nat \ {0}
            BY <2>1, <2>2, U64Assumption
        <3> HIDE DEF p
        <3>2. r1 \in 0..(U64 - 1)
            BY <3>1
        <3> HIDE DEF r1
        <3>3. r1 \div 100 \in Quantities
            BY <3>1, <3>2 DEF Quantities
        <3> QED  BY <3>3 DEF percent_amount, r1, p
    <2>4. s.amount = n /\ s.use_seed = use_seed_optimize
        BY DEF sell_params
    <2>5. s \in Params
        <3> HIDE DEF n
        <3> QED  BY <1>2, <2>3, SellParamsTyped
    <2>6. Proper(Transaction("sell_by_percent", s, asked, list), use_seed_optimize)
        <3>1. asked.percent = percent /\ asked.held = held
            OBVIOUS
        <3>2. s.amount = percent_amount(asked.held, asked.percent)
            BY <2>4
        <3> HIDE DEF s, asked, held, n
        <3>3. asked.percent \in 1..100 /\ asked.held \in Nat
            BY <2>1, <2>2, <3>1
        <3> QED  BY <2>1, <2>4, <2>5, <3>2, <3>3 DEF Proper, Transaction, Sent, Asked
    <2> HIDE DEF s, asked, list
    <2> QED  BY <2>1, <2>6 DEF SendsProperly
<1> QED  BY <1>1, <1>3, <1>4, <1>5

(* An operation that is no trade.                                            *)
LEMMA PlainSend ==
    ASSUME NEW op, NEW n, NEW list, Send(op, [amount |-> n], list),
           op \notin {"buy", "sell", "sell_by_percent"},
           \A t : t.op = op /\ t.s.amount = n /\ t.ins = list => Sent(t)
    PROVE  SendsProperly
<1> DEFINE s == [amount |-> n]
           asked == [percent |-> 0, held |-> 0]
           t == Transaction(op, s, asked, list)
<1>1. SendAs(op, s, asked, list)
    BY DEF Send
<1>2. t.op = op /\ t.s.amount = n /\ t.ins = list
    BY DEF Transaction
<1>3. Proper(Transaction(op, s, asked, list), use_seed_optimize)
    <2> HIDE DEF t
    <2>1. Sent(t)
        BY <1>2
    <2>2. Proper(t, use_seed_optimize)
        BY <1>2, <2>1 DEF Proper, Asked
    <2> QED  BY <2>2 DEF t
<1> HIDE DEF s, asked
<1> QED  BY <1>1, <1>3 DEF SendsProperly

LEMMA ManageSends == ASSUME ClientInv, Manage PROVE SendsProperly
<1>1. use_seed_optimize \in BOOLEAN /\ InputAmounts \subseteq Nat
    BY AmountsAssumption, QuantitiesAreNat DEF ClientInv
<1>2. ASSUME NEW amount \in InputAmounts, wrap_sol_to_wsol(amount) PROVE SendsProperly
    <2> DEFINE list == handle_wsol(amount)
    <2>1. Send("wrap", [amount |-> amount], list)
        BY <1>2 DEF wrap_sol_to_wsol
    <2>2. \A t : t.op = "wrap" /\ t.s.amount = amount /\ t.ins = list => Sent(t)
        BY <1>1 DEF Sent
    <2> HIDE DEF list
    <2> QED  BY <2>1, <2>2, PlainSend
<1>3. ASSUME NEW amount \in InputAmounts, wrap_wsol_to_sol(amount) PROVE SendsProperly
    <2>1. PICK list : /\ list = wrap_wsol_to_sol_without_create(amount) \/ list = wrap_wsol_to_sol_internal(amount)
                      /\ Send("unwrap", [amount |-> amount], list)
        BY <1>3 DEF wrap_wsol_to_sol
    <2>2. \A t : t.op = "unwrap" /\ t.s.amount = amount /\ t.ins = list => Sent(t)
        BY <1>1, <2>1 DEF Sent
    <2> QED  BY <2>1, <2>2, PlainSend
<1>4. ASSUME NEW amount \in InputAmounts, transfer_sol(amount) PROVE SendsProperly
    <2> DEFINE list == <<PayOut(amount)>>
    <2>1. Send("transfer_sol", [amount |-> amount], list)
        BY <1>4 DEF transfer_sol
    <2>2. \A t : t.op = "transfer_sol" /\ t.s.amount = amount /\ t.ins = list => Sent(t)
        BY <1>1 DEF Sent
    <2> HIDE DEF list
    <2> QED  BY <2>1, <2>2, PlainSend
<1>5. ASSUME CloseWsol PROVE SendsProperly
    <2>1. Send("close_wsol", [amount |-> 0], close_wsol)
        BY <1>5 DEF CloseWsol
    <2>2. \A t : t.op = "close_wsol" /\ t.s.amount = 0 /\ t.ins = close_wsol => Sent(t)
        BY DEF Sent
    <2> QED  BY <2>1, <2>2, PlainSend
<1>6. ASSUME CreateWsolAta PROVE SendsProperly
    <2>1. Send("create_wsol", [amount |-> 0], create_wsol_ata)
        BY <1>6 DEF CreateWsolAta
    <2>2. \A t : t.op = "create_wsol" /\ t.s.amount = 0 /\ t.ins = create_wsol_ata => Sent(t)
        BY DEF Sent
    <2> QED  BY <2>1, <2>2, PlainSend
<1>7. ASSUME claim_cashback_pumpfun PROVE SendsProperly
    <2> DEFINE list == <<Cashback(Sol)>>
    <2>1. Send("claim", [amount |-> 0], list)
        BY <1>7 DEF claim_cashback_pumpfun
    <2>2. \A t : t.op = "claim" /\ t.s.amount = 0 /\ t.ins = list => Sent(t)
        BY DEF Sent
    <2> HIDE DEF list
    <2> QED  BY <2>1, <2>2, PlainSend
<1>8. ASSUME claim_cashback_pumpswap PROVE SendsProperly
    <2> DEFINE list == create_token_account("WSOL", use_seed_optimize) \o <<Cashback(wsol_token_account)>>
    <2>1. Send("claim", [amount |-> 0], list)
        BY <1>8 DEF claim_cashback_pumpswap
    <2>2. \A t : t.op = "claim" /\ t.s.amount = 0 /\ t.ins = list => Sent(t)
        BY <1>1 DEF Sent
    <2> HIDE DEF list
    <2> QED  BY <2>1, <2>2, PlainSend
<1>9. ASSUME NEW mint \in Mints, close_token_account(mint) PROVE SendsProperly
    <2> DEFINE list == <<CloseAccount(<<mint, "ata">>)>>
    <2>1. Send("close_token_account", [amount |-> 0], list)
        BY <1>9 DEF close_token_account
    <2>2. \A t : t.op = "close_token_account" /\ t.s.amount = 0 /\ t.ins = list => Sent(t)
        BY DEF Sent
    <2> HIDE DEF list
    <2> QED  BY <2>1, <2>2, PlainSend
<1> QED  BY <1>2, <1>3, <1>4, <1>5, <1>6, <1>7, <1>8, <1>9 DEF Manage

LEMMA SendingKeepsInv == ASSUME ClientInv, SendsProperly PROVE ClientInv' /\ wallet' = wallet
<1>1. PICK op, s, asked, list : SendAs(op, s, asked, list) /\ Proper(Transaction(op, s, asked, list), use_seed_optimize)
    BY DEF SendsProperly
<1>2. ClientInv'
    BY <1>1, SendKeepsInv
<1> QED  BY <1>1, <1>2 DEF SendAs

LEMMA LandKeepsInv ==
    ASSUME ClientInv, NEW t \in pending, Land(t)
    PROVE  ClientInv' /\ Ends(t, wallet, wallet')
<1>1. /\ Sent(t) /\ Good(wallet) /\ wallet' \in Outcomes(wallet, t.ins)
      /\ pending' = pending \ {t} /\ use_seed_optimize' = use_seed_optimize /\ ops' = ops
    BY DEF ClientInv, Proper, Land
<1>2. Ends(t, wallet, wallet')
    BY <1>1, LandEnds
<1>3. Good(wallet)'
    BY <1>2 DEF Ends
<1> QED  BY <1>1, <1>2, <1>3, TakenAwayKeepsInv

LEMMA NextKeepsInv == ASSUME ClientInv, [Next]_vars PROVE ClientInv'
<1>1. CASE Trade \/ Manage
    BY <1>1, TradeSends, ManageSends, SendingKeepsInv
<1>2. ASSUME NEW t \in pending, Land(t) PROVE ClientInv'
    BY <1>2, LandKeepsInv
<1>3. ASSUME NEW t \in pending, Lose(t) PROVE ClientInv'
    <2>1. /\ pending' = pending \ {t} /\ use_seed_optimize' = use_seed_optimize /\ ops' = ops
          /\ Good(wallet)'
        BY <1>3 DEF Lose, ClientInv
    <2> QED  BY <2>1, TakenAwayKeepsInv
<1>4. CASE UNCHANGED vars
    BY <1>4 DEF vars, ClientInv
<1> QED  BY <1>1, <1>2, <1>3, <1>4 DEF Next

LEMMA InitInv == Init => ClientInv
<1> SUFFICES ASSUME Init PROVE ClientInv
    OBVIOUS
<1>1. Good(wallet)
    BY WalletsAssumption DEF Init, Good
<1>2. IsFiniteSet(pending) /\ Cardinality(pending) = 0 /\ MaxPending \in Nat /\ MaxOps \in Nat
    BY FS_EmptySet, BoundsAssumption DEF Init
<1> QED  BY <1>1, <1>2 DEF Init, ClientInv

LEMMA AlwaysClientInv == Spec => []ClientInv
<1>1. ClientInv /\ [Next]_vars => ClientInv'
    BY NextKeepsInv
<1> QED  BY <1>1, InitInv, PTL DEF Spec

LEMMA PercentOfInv == ClientInv => PercentIsKept
<1> SUFFICES ASSUME ClientInv, NEW t \in pending, t.op = "sell_by_percent",
                    t.asked.percent * t.asked.held < U64
             PROVE  LET product == t.asked.percent * t.asked.held
                    IN  100 * t.s.amount \in (product - 99)..product /\ t.s.amount <= t.asked.held
    BY DEF PercentIsKept
<1> DEFINE p == t.asked.percent
           h == t.asked.held
           product == p * h
           n == t.s.amount
<1>1. p \in 1..100 /\ h \in Nat /\ n = ((h * p) % U64) \div 100
    BY DEF ClientInv, Proper, Asked, percent_amount
<1>2. h * p = product /\ product \in Nat /\ product <= 100 * h /\ product < U64 /\ U64 \in Nat \ {0}
    BY <1>1, U64Assumption
<1> HIDE DEF product, p, h, n
<1>3. product % U64 = product
    BY <1>2
<1>4. n = product \div 100
    BY <1>1, <1>2, <1>3
<1>5. n \in Nat /\ 100 * n <= product /\ product <= 100 * n + 99
    BY <1>2, <1>4
<1>6. n <= h
    BY <1>1, <1>2, <1>5
<1>7. 100 * n \in (product - 99)..product
    BY <1>2, <1>5
<1> QED  BY <1>6, <1>7 DEF product, p, h, n

(* WalletIsSound: whatever operations are sent and land, in whatever order,  *)
(* balances stay natural numbers, closed accounts empty and WSOL accounts    *)
(* backed, and a percentage was taken of the balance that was read.          *)
THEOREM SoundWallet == Spec => []WalletIsSound
<1>1. ClientInv => WalletIsSound
    BY PercentOfInv DEF ClientInv, WalletIsSound, TypeOK, WsolBacked, Good
<1> QED  BY <1>1, AlwaysClientInv, PTL

-----------------------------------------------------------------------------
(* What landed is one transaction, and it did what Ends says.                *)
Step(t) == t \in pending /\ Ends(t, wallet, wallet')

LEMMA LandedStep ==
    ASSUME ClientInv, [Next]_vars, NEW t \in Landed
    PROVE  Step(t)
<1>1. wallet' # wallet /\ t \in pending \ pending'
    BY DEF Landed
<1>2. ~(Trade \/ Manage)
    BY <1>1, TradeSends, ManageSends, SendingKeepsInv
<1>3. PICK u \in pending : Land(u) \/ Lose(u)
    BY <1>1, <1>2 DEF Next, vars
<1>4. Land(u) /\ pending' = pending \ {u}
    BY <1>1, <1>3 DEF Land, Lose
<1>5. u = t
    BY <1>1, <1>4
<1> QED  BY <1>1, <1>4, <1>5, LandKeepsInv DEF Step

LEMMA BoughtWithin ==
    ASSUME NEW s, s.amount \in Nat, s.slippage \in Nat, NEW w, NEW v, Bought(s, w, v)
    PROVE  BuyWithinLimits(s, w, v)
<1> DEFINE c == Currency(s.market)
<1>1. PICK n \in Nat, got \in Nat :
          Exchanged(w, v, c, -n, got) /\ CostBounded(s, n) /\ AtLeastLess(got, QuotedTokens(s), s.slippage)
    BY DEF Bought
<1>2. /\ c \in {"WSOL", "USDC"}
      /\ Lamports(w) \in Nat /\ Units(w, "USDC") \in Nat /\ Units(w, "TOK") \in Nat
      /\ Lamports(v) = Lamports(w) + (IF c = "WSOL" THEN -n ELSE 0)
      /\ Units(v, "USDC") = Units(w, "USDC") + (IF c = "USDC" THEN -n ELSE 0)
      /\ Units(v, "TOK") = Units(w, "TOK") + got
    BY <1>1 DEF Exchanged, Moves
<1> HIDE DEF c
<1>3. Worth(w, c) - Worth(v, c) = n
    BY <1>2 DEF Worth
<1>4. Units(v, "TOK") - Units(w, "TOK") = got
    BY <1>2
<1>5. \A other \in Mints \ {c, "TOK"} : Worth(v, other) = Worth(w, other)
    BY <1>2 DEF Worth, Mints
<1>6. IF s.exact \/ Reversed(s.market) THEN n <= s.amount ELSE n * MAX_FEE_BASIS_POINTS <= WithSlippage(s.amount, s)
    BY <1>1 DEF CostBounded, AtMostWith, WithSlippage, MAX_FEE_BASIS_POINTS
<1>7. got * MAX_FEE_BASIS_POINTS >= LessSlippage(QuotedTokens(s), s)
    BY <1>1 DEF AtLeastLess, LessSlippage, MAX_FEE_BASIS_POINTS
<1> QED  BY <1>3, <1>4, <1>5, <1>6, <1>7 DEF c, BuyWithinLimits

LEMMA SoldWithin ==
    ASSUME NEW s, s.amount \in Nat, s.slippage \in Nat, NEW w, NEW v, Sold(s, w, v)
    PROVE  SellWithinLimits(s, w, v)
<1> DEFINE c == Currency(s.market)
<1>1. PICK n \in Nat, got \in Nat :
          Exchanged(w, v, c, got, -n) /\ SoldBounded(s, n) /\ AtLeastLess(got, QuotedProceeds(s), s.slippage)
    BY DEF Sold
<1>2. /\ c \in {"WSOL", "USDC"}
      /\ Lamports(w) \in Nat /\ Units(w, "USDC") \in Nat /\ Units(w, "TOK") \in Nat
      /\ Lamports(v) = Lamports(w) + (IF c = "WSOL" THEN got ELSE 0)
      /\ Units(v, "USDC") = Units(w, "USDC") + (IF c = "USDC" THEN got ELSE 0)
      /\ Units(v, "TOK") = Units(w, "TOK") + (-n)
    BY <1>1 DEF Exchanged, Moves
<1> HIDE DEF c
<1>3. Worth(v, c) - Worth(w, c) = got
    BY <1>2 DEF Worth
<1>4. Units(w, "TOK") - Units(v, "TOK") = n
    BY <1>2
<1>5. ~Reversed(s.market) => n = s.amount
    BY <1>1 DEF SoldBounded
<1>6. got * MAX_FEE_BASIS_POINTS >= LessSlippage(QuotedProceeds(s), s)
    BY <1>1 DEF AtLeastLess, LessSlippage, MAX_FEE_BASIS_POINTS
<1> QED  BY <1>3, <1>4, <1>5, <1>6 DEF c, SellWithinLimits

(* BuyCostIsBounded: whatever landed between a buy's sending and its landing, *)
(* it costs at most what its caller allowed, in one currency, and brings at  *)
(* least the quoted tokens less slippage.                                    *)
THEOREM BuysAreBounded == Spec => BuyCostIsBounded
<1>1. ASSUME ClientInv, [Next]_vars, NEW t \in Landed, t.op = "buy"
      PROVE  BuyWithinLimits(t.s, wallet, wallet')
    <2>1. t \in pending /\ Bought(t.s, wallet, wallet')
        BY <1>1, LandedStep DEF Step, Ends
    <2>2. t.s \in Params
        BY <1>1, <2>1 DEF ClientInv, Proper, Sent
    <2>3. t.s.amount \in Nat /\ t.s.slippage \in Nat
        BY <2>2, QuantitiesAreNat DEF Params
    <2> QED  BY <2>1, <2>3, BoughtWithin
<1>2. ClientInv /\ [Next]_vars
        => [\A t \in Landed : t.op = "buy" => BuyWithinLimits(t.s, wallet, wallet')]_vars
    BY <1>1
<1> QED  BY <1>2, AlwaysClientInv, PTL DEF Spec, BuyCostIsBounded

(* SellKeepsItsLimits: a sale brings at least the quoted proceeds less       *)
(* slippage and takes, but in a reversed pool, exactly its amount of tokens,  *)
(* whatever landed before it.                                                *)
THEOREM SalesKeepLimits == Spec => SellKeepsItsLimits
<1>1. ASSUME ClientInv, [Next]_vars, NEW t \in Landed, t.op \in {"sell", "sell_by_percent"}
      PROVE  SellWithinLimits(t.s, wallet, wallet')
    <2>1. t \in pending /\ Sold(t.s, wallet, wallet')
        BY <1>1, LandedStep DEF Step, Ends
    <2>2. t.s \in Params
        BY <1>1, <2>1 DEF ClientInv, Proper, Sent
    <2>3. t.s.amount \in Nat /\ t.s.slippage \in Nat
        BY <2>2, QuantitiesAreNat DEF Params
    <2> QED  BY <2>1, <2>3, SoldWithin
<1>2. ClientInv /\ [Next]_vars
        => [\A t \in Landed :
              t.op \in {"sell", "sell_by_percent"} => SellWithinLimits(t.s, wallet, wallet')]_vars
    BY <1>1
<1> QED  BY <1>2, AlwaysClientInv, PTL DEF Spec, SellKeepsItsLimits

(* WsolOpsAreExact: wrapping and unwrapping move exactly their amount and    *)
(* lose nothing, closing returns all, only a buy or a transfer lowers the    *)
(* payer's SOL, and wrap_wsol_to_sol never leaves its temporary account open *)
(* although it decides with an outdated answer whether to create it.         *)
THEOREM WsolOperationsExact == Spec => WsolOpsAreExact
<1> DEFINE SeedClosed ==
        wallet'.acc[seed_ata_address].open =>
            wallet.acc[seed_ata_address].open /\ \A t \in Landed : t.op # "unwrap"
<1>1. ASSUME ClientInv, [Next]_vars, NEW t \in Landed
      PROVE  WsolExact(t, wallet, wallet')
    BY <1>1, LandedStep DEF Step, Ends, WsolExact
<1>2. ASSUME ClientInv, [Next]_vars PROVE SeedClosed
    <2>1. CASE wallet' = wallet
        BY <2>1 DEF Landed
    <2>2. CASE wallet' # wallet
        <3>1. PICK u \in pending : Land(u)
            BY <1>2, <2>2, TradeSends, ManageSends, SendingKeepsInv DEF Next, vars, Lose
        <3>2. wallet'.acc[seed_ata_address].open => wallet.acc[seed_ata_address].open
            BY <1>2, <3>1, LandKeepsInv DEF Ends
        <3>3. ASSUME NEW t \in Landed, wallet'.acc[seed_ata_address].open PROVE t.op # "unwrap"
            BY <1>2, <3>3, LandedStep DEF Step, Ends
        <3> QED  BY <3>2, <3>3
    <2> QED  BY <2>1, <2>2
<1>3. ClientInv /\ [Next]_vars => [SeedClosed /\ \A t \in Landed : WsolExact(t, wallet, wallet')]_vars
    BY <1>1, <1>2
<1> QED  BY <1>3, AlwaysClientInv, PTL DEF Spec, WsolOpsAreExact

-----------------------------------------------------------------------------
(* That a trade can land: instructions that do not fail.                     *)
Opened(w, v, a) ==
    /\ Good(v) /\ v.acc[a].open /\ v.acc[a].amt = w.acc[a].amt /\ v.sol >= w.sol - Rent
    /\ \A b \in Addresses \ {a} : v.acc[b] = w.acc[b]

LEMMA OpenCan ==
    ASSUME NEW w, Good(w), NEW a \in Addresses, a # seed_ata_address, ~w.acc[a].open, w.sol >= Rent
    PROVE  \E v \in Open(w, a) : Opened(w, v, a)
<1> DEFINE x == [open |-> TRUE, amt |-> 0, lam |-> Rent]
           v == PutIn(w, w.sol - Rent, a, x)
<1>1. v \in Open(w, a)
    BY DEF Open, PutIn
<1>2. w \in Wallets /\ w.sol \in Nat /\ Rent \in Nat /\ x \in Accounts /\ w.acc[a] = Shut
    BY RentAssumption DEF Good, Wallets, Accounts, ClosedAreEmpty
<1>3. w.sol - Rent \in Nat
    BY <1>2
<1>4. DiffersAt(w, v, a) /\ v.sol = w.sol - Rent
    <2> HIDE DEF x
    <2> QED  BY <1>2, <1>3, PutDiffers
<1> HIDE DEF v
<1>5. Good(v) /\ v.acc[a].open /\ v.acc[a].amt = 0
    BY <1>1, OpenMoves DEF Moves
<1>6. Opened(w, v, a)
    BY <1>2, <1>3, <1>4, <1>5 DEF Opened, DiffersAt, Shut
<1> QED  BY <1>1, <1>6

LEMMA CreateAtaCan ==
    ASSUME NEW w, Good(w), NEW mint \in Mints, w.sol >= Rent
    PROVE  \E v \in Effects(w, CreateAta(mint)) : Opened(w, v, <<mint, "ata">>)
<1> DEFINE a == <<mint, "ata">>
<1>1. a \in Addresses /\ a # seed_ata_address
    BY DEF Addresses, seed_ata_address
<1>2. Effects(w, CreateAta(mint)) = IF w.acc[a].open THEN {w} ELSE Open(w, a)
    BY DEF Effects, CreateAta
<1> HIDE DEF a
<1>3. CASE w.acc[a].open
    <2>1. w.sol \in Nat /\ Rent \in Nat
        BY RentAssumption DEF Good, Wallets
    <2>2. Opened(w, w, a)
        BY <1>3, <2>1 DEF Opened
    <2> QED  BY <1>2, <1>3, <2>2 DEF a
<1>4. CASE ~w.acc[a].open
    BY <1>1, <1>2, <1>4, OpenCan DEF a
<1> QED  BY <1>3, <1>4

LEMMA CreateTokenCan ==
    ASSUME NEW w, Good(w), NEW seed \in BOOLEAN, NEW i, create_token_account("TOK", seed) = <<i>>,
           w.sol >= Rent, ~(seed /\ w.acc[token_address("TOK", seed)].open)
    PROVE  \E v \in Effects(w, i) : Opened(w, v, token_address("TOK", seed))
<1>1. CASE seed
    <2> DEFINE a == <<"TOK", "seed">>
    <2>1. i = CreateWithSeed("TOK") /\ token_address("TOK", seed) = a
        BY <1>1 DEF create_token_account, token_address
    <2>2. a \in Addresses /\ a # seed_ata_address
        BY DEF Addresses, Mints, seed_ata_address
    <2>3. Effects(w, i) = Open(w, a)
        BY <1>1, <2>1 DEF Effects, CreateWithSeed
    <2> QED  BY <1>1, <2>1, <2>2, <2>3, OpenCan
<1>2. CASE ~seed
    <2>1. i = CreateAta("TOK") /\ token_address("TOK", seed) = <<"TOK", "ata">>
        BY <1>2 DEF create_token_account, token_address
    <2> QED  BY <2>1, CreateAtaCan DEF Mints
<1> QED  BY <1>1, <1>2

Wrapped(w, v, n) ==
    /\ Good(v) /\ v.acc[wsol_token_account].open
    /\ v.acc[wsol_token_account].amt >= n
    /\ v.sol >= w.sol - Rent - n
    /\ \A b \in Addresses \ {wsol_token_account} : v.acc[b] = w.acc[b]

LEMMA WrapCan ==
    ASSUME NEW w, Good(w), NEW n \in Nat, w.sol >= n + Rent
    PROVE  \E v \in Outcomes(w, handle_wsol(n)) : Wrapped(w, v, n)
<1> DEFINE a == wsol_token_account
<1>1. w.sol \in Nat /\ Rent \in Nat /\ w.sol >= Rent /\ w.acc[a].amt \in Nat
    BY RentAssumption, WsolInstrs DEF Good, Wallets
<1>2. PICK x \in Effects(w, CreateAta("WSOL")) : Opened(w, x, a)
    BY <1>1, CreateAtaCan DEF Mints, wsol_token_account
<1>3. Good(x) /\ x.acc[a].open /\ x.sol >= n /\ x.sol >= w.sol - Rent
    BY <1>1, <1>2 DEF Opened, Good, Wallets
<1>4. x \in Wallets /\ x.sol \in Nat /\ x.acc[a] \in Accounts /\ a \in Addresses
    BY <1>3, WsolInstrs DEF Good, Wallets, Accounts
<1> HIDE DEF a
<1> DEFINE p == [x.acc[a] EXCEPT !.lam = @ + n]
           y == PutIn(x, x.sol - n, a, p)
<1>5. y \in Effects(x, SystemTransfer(a, n))
    BY <1>3 DEF Effects, SystemTransfer, PutIn
<1>6. p \in Accounts /\ p.open /\ x.sol - n \in Nat
    BY <1>3, <1>4 DEF Accounts
<1>7. DiffersAt(x, y, a) /\ y.sol = x.sol - n /\ y.acc[a] = p
    <2> HIDE DEF p
    <2> QED  BY <1>4, <1>6, PutDiffers
<1> HIDE DEF y, p
<1> DEFINE v == Put(y, a, [p EXCEPT !.amt = p.lam - Rent])
<1>8. v \in Effects(y, SyncNative(a))
    BY <1>6, <1>7 DEF Effects, SyncNative
<1>9. v.sol = y.sol /\ \A b \in Addresses \ {a} : v.acc[b] = y.acc[b]
    BY <1>4, <1>7 DEF Put, DiffersAt, Wallets
<1> HIDE DEF v
<1>10. Good(v) /\ v.acc[a].open /\ v.acc[a].amt = w.acc[a].amt + n
    BY <1>5, <1>8, WrapMoves DEF Moves, a
<1>11. v \in Outcomes(w, handle_wsol(n))
    BY <1>5, <1>8, HandleWsolLeaves DEF a
<1>12. v.acc[a].amt >= n /\ v.sol >= w.sol - Rent - n
    BY <1>1, <1>3, <1>4, <1>7, <1>9, <1>10
<1>13. \A b \in Addresses \ {a} : v.acc[b] = w.acc[b]
    BY <1>2, <1>7, <1>9 DEF Opened, DiffersAt
<1>14. Wrapped(w, v, n)
    BY <1>10, <1>12, <1>13 DEF Wrapped, a
<1> QED  BY <1>11, <1>14

LEMMA SwapCan ==
    ASSUME NEW w, Good(w), NEW a \in Places, NEW b \in Places, a # b, NEW i, IsSwap(i, a, b),
           NEW spent \in i.spend, NEW got \in i.got, CanTake(w, a, spent), CanGive(w, b)
    PROVE  \E v \in Effects(w, i) : Trades(w, v, a, spent, b, got)
<1>1. spent \in Nat /\ got \in Nat /\ i.a = a /\ i.b = b
    BY DEF IsSwap
<1> DEFINE v == Give(Take(w, a, spent), b, got)
<1>2. v \in Swapped(w, i)
    BY <1>1 DEF Swapped
<1>3. v \in Effects(w, i)
    BY <1>2 DEF Effects, IsSwap
<1>4. Trades(w, v, a, spent, b, got)
    BY <1>1, ExchangeMoves DEF Places
<1> QED  BY <1>3, <1>4

LEMMA CloseCan ==
    ASSUME NEW w, Good(w), NEW a \in Addresses, w.acc[a].open, IsNative(a) \/ w.acc[a].amt = 0
    PROVE  \E v \in Effects(w, CloseAccount(a)) : Good(v) /\ \A b \in Addresses \ {a} : v.acc[b] = w.acc[b]
<1> DEFINE v == Put([w EXCEPT !.sol = @ + w.acc[a].lam], a, Shut)
<1>1. v \in Effects(w, CloseAccount(a))
    BY DEF Effects, CloseAccount
<1> HIDE DEF v
<1>2. Good(v) /\ \A b \in Addresses \ {a} : v.acc[b] = w.acc[b]
    BY <1>1, CloseMoves DEF Moves
<1> QED  BY <1>1, <1>2

LEMMA MoreCan ==
    ASSUME NEW w, NEW list \in Seq(Instrs), NEW i \in Instrs, NEW x \in Outcomes(w, list), NEW v \in Effects(x, i)
    PROVE  list \o <<i>> \in Seq(Instrs) /\ v \in Outcomes(w, list \o <<i>>)
<1> DEFINE long == list \o <<i>>
<1>1. Adds(long, list, i)
    BY ConcatAdds
<1> HIDE DEF long
<1>2. long \in Seq(Instrs) /\ v \in Outcomes(w, long)
    BY <1>1, OutcomesMore
<1> QED  BY <1>2 DEF long

LEMMA OptCan ==
    ASSUME NEW w, NEW list \in Seq(Instrs), NEW i \in Instrs, NEW b \in BOOLEAN, NEW x \in Outcomes(w, list),
           NEW v, IF b THEN v \in Effects(x, i) ELSE v = x
    PROVE  list \o Opt(b, <<i>>) \in Seq(Instrs) /\ v \in Outcomes(w, list \o Opt(b, <<i>>))
BY OutcomesOpt

(* An instruction that asks for no more than n can be met.                   *)
Asks(i, n) == \E spent \in i.spend, got \in i.got : spent <= n

LEMMA ExactAsks ==
    ASSUME NEW a, NEW b, NEW n \in Nat, NEW least \in Nat, NEW m \in Nat, n <= m
    PROVE  Asks(SwapExact(a, n, b, least), m)
<1> DEFINE i == SwapExact(a, n, b, least)
<1>1. n \in i.spend /\ least \in i.got
    BY SurplusAssumption DEF SwapExact
<1> QED  BY <1>1 DEF Asks

LEMMA UpToAsks ==
    ASSUME NEW a, NEW b, NEW most \in Nat, NEW n, NEW m \in Nat
    PROVE  Asks(SwapUpTo(a, most, b, n), m)
<1> DEFINE i == SwapUpTo(a, most, b, n)
<1>1. 0 \in i.spend /\ n \in i.got /\ 0 <= m
    BY DEF SwapUpTo
<1> QED  BY <1>1 DEF Asks

(* What a buy needs.                                                         *)
CanBuy(s, w) ==
    LET limit == calculate_with_slippage_buy(s.amount, s.slippage)
    IN  /\ s.create_out /\ ~(s.use_seed /\ w.acc[token_address("TOK", s.use_seed)].open)
        /\ s.market.kind = "PumpFun" \/ s.create_in
        /\ limit >= s.amount /\ w.sol >= limit + 2 * Rent

LEMMA PumpfunBuyLands ==
    ASSUME NEW s \in Params, s.market.kind = "PumpFun", pumpfun_buy(s) # Rejected,
           NEW w, Good(w), CanBuy(s, w)
    PROVE  Outcomes(w, pumpfun_buy(s)) # {}
<1> DEFINE b == token_address("TOK", s.use_seed)
           quote == IF s.fixed # NoFixed THEN s.fixed
                    ELSE get_buy_token_amount_from_sol_amount(s.market.curve, s.market.creator, s.amount)
           least == calculate_with_slippage_sell(quote, s.slippage)
           most == calculate_with_slippage_buy(s.amount, s.slippage)
           i == IF s.exact THEN SwapExact(Sol, s.amount, b, least) ELSE SwapUpTo(Sol, most, b, quote)
<1>1. /\ s.amount \in Quantities /\ s.amount \in Nat /\ s.slippage \in Nat /\ s.market \in Markets
      /\ s.use_seed \in BOOLEAN /\ s.exact \in BOOLEAN /\ w.sol \in Nat /\ Rent \in Nat
    BY RentAssumption DEF Params, Quantities, Good, Wallets
<1>2. s.market.curve \in QuotedCurves /\ s.market.creator \in BOOLEAN
    BY <1>1, MarketTyped
<1>3. quote \in Quantities
    BY <1>1, <1>2, FixedTyped, BuyQuoteTyped
<1>4. PICK k \in Instrs : create_token_account("TOK", s.use_seed) = <<k>>
    BY <1>1, CreateIsInstr DEF Mints
<1>5. pumpfun_buy(s) = <<k>> \o <<i>>
    BY <1>4 DEF pumpfun_buy, Rejected, CanBuy, Opt
<1>6. Sol \in Places /\ b \in Places /\ Sol # b /\ b \in Addresses
    BY <1>1, TokenAddressIs DEF Places, Mints
<1>7. most >= s.amount /\ w.sol >= most + 2 * Rent /\ ~(s.use_seed /\ w.acc[b].open)
    BY DEF CanBuy
<1> HIDE DEF quote, b
<1>8. quote \in Nat /\ least \in Nat /\ most \in Nat
    BY <1>1, <1>3, SlippageTyped, QuantitiesAreNat
<1> HIDE DEF least, most
<1>9. i \in Instrs /\ IsSwap(i, Sol, b) /\ Asks(i, most)
    <2>1. CASE s.exact
        BY <1>1, <1>6, <1>7, <1>8, <2>1, SwapExactIs, ExactAsks
    <2>2. CASE ~s.exact
        BY <1>6, <1>8, <2>2, SwapUpToIs, UpToAsks
    <2> QED  BY <2>1, <2>2
<1> HIDE DEF i
<1>10. PICK x \in Effects(w, k) : Opened(w, x, b)
    <2>1. w.sol >= Rent
        BY <1>1, <1>7, <1>8
    <2> QED  BY <1>1, <1>4, <1>7, <2>1, CreateTokenCan DEF b
<1>11. Good(x) /\ CanGive(x, b) /\ x.sol >= most
    BY <1>1, <1>7, <1>8, <1>10 DEF Opened, CanGive, Good, Wallets
<1>12. PICK spent \in i.spend, got \in i.got : spent <= most
    BY <1>9 DEF Asks
<1>13. CanTake(x, Sol, spent)
    BY <1>8, <1>9, <1>11, <1>12 DEF CanTake, IsSwap, Good, Wallets
<1>14. PICK v \in Effects(x, i) : TRUE
    BY <1>6, <1>9, <1>11, <1>13, SwapCan
<1>15. x \in Outcomes(w, <<k>>) /\ <<k>> \in Seq(Instrs)
    BY OutcomesOne
<1>16. v \in Outcomes(w, <<k>> \o <<i>>)
    <2> DEFINE one == <<k>>
    <2> HIDE DEF one
    <2>1. one \in Seq(Instrs) /\ x \in Outcomes(w, one)
        BY <1>15 DEF one
    <2>2. v \in Outcomes(w, one \o <<i>>)
        BY <1>9, <1>14, <2>1, MoreCan
    <2> QED  BY <2>2 DEF one
<1> QED  BY <1>5, <1>16

(* The pools whose trades are considered: WSOL is the quote mint.            *)
LEMMA WsolPool ==
    ASSUME NEW m \in Markets, m.kind = "PumpSwap", pool_accepted(m), Currency(m) = "WSOL", ~Reversed(m)
    PROVE  quote_is_wsol_or_usdc(m) /\ m.base = "TOK" /\ m.quote = "WSOL"
BY MarketTyped, AcceptedPool

LEMMA PumpswapBuyLands ==
    ASSUME NEW s \in Params, s.market.kind = "PumpSwap", pumpswap_buy(s) # Rejected,
           Currency(s.market) = "WSOL", ~Reversed(s.market), NEW w, Good(w), CanBuy(s, w)
    PROVE  Outcomes(w, pumpswap_buy(s)) # {}
<1> DEFINE amounts == pumpswap_buy_amounts(s)
           i == pumpswap_buy_instruction(s, amounts.token_amount, amounts.sol_amount)
           a == wsol_token_account
           b == token_address("TOK", s.use_seed)
           n == amounts.token_amount
           least == calculate_with_slippage_sell(n, s.slippage)
           most == calculate_with_slippage_buy(s.amount, s.slippage)
<1>1. /\ s.amount \in Quantities /\ s.amount \in Nat /\ s.slippage \in Nat /\ s.market \in Markets
      /\ s.use_seed \in BOOLEAN /\ s.exact \in BOOLEAN /\ s.close_in \in BOOLEAN /\ w.sol \in Nat /\ Rent \in Nat
    BY RentAssumption DEF Params, Quantities, Good, Wallets
<1>2. pool_accepted(s.market) /\ amounts.ok
    BY DEF pumpswap_buy
<1>3. quote_is_wsol_or_usdc(s.market) /\ s.market.base = "TOK" /\ s.market.quote = "WSOL"
    BY <1>1, <1>2, WsolPool
<1>4. amounts.sol_amount = most /\ n \in Quantities
    <2> DEFINE there == buy_quote_input_internal(s.amount, s.slippage, s.market.pool, s.market.creator)
    <2>1. /\ amounts.sol_amount = most /\ (s.fixed # NoFixed => n = s.fixed)
          /\ (s.fixed = NoFixed => n = there.base) /\ there.base \in Quantities
        BY <1>2, <1>3, PumpswapBuyAmounts
    <2>2. s.fixed # NoFixed => s.fixed \in Quantities
        BY FixedTyped
    <2> HIDE DEF there, amounts, most
    <2> QED  BY <2>1, <2>2
<1>5. PICK k \in Instrs : create_token_account("TOK", s.use_seed) = <<k>>
    BY <1>1, CreateIsInstr DEF Mints
<1> DEFINE j == CloseAccount(a)
<1>6. pumpswap_buy(s) = ((handle_wsol(most) \o <<k>>) \o <<i>>) \o Opt(s.close_in, <<j>>)
    BY <1>2, <1>4, <1>5 DEF pumpswap_buy, CanBuy, Opt, close_wsol
<1>7. /\ a \in Places /\ b \in Places /\ a # b /\ a \in Addresses /\ b \in Addresses /\ a # Sol /\ IsNative(a)
      /\ j \in Instrs /\ a = token_address("WSOL", s.use_seed)
    <2>1. b[1] = "TOK" /\ a[1] = "WSOL" /\ a = token_address("WSOL", s.use_seed)
        BY <1>1, TokenAddressIs DEF Mints, wsol_token_account, token_address
    <2>2. a \in Addresses /\ a \in Places /\ a # Sol /\ b \in Addresses /\ b \in Places
        BY <1>1, <2>1, TokenAddressIs DEF Mints
    <2> QED  BY <2>1, <2>2, WsolInstrs DEF IsNative
<1>8. most >= s.amount /\ w.sol >= most + 2 * Rent /\ ~(s.use_seed /\ w.acc[b].open)
    BY DEF CanBuy
<1>9. i = IF s.exact THEN SwapExact(a, s.amount, b, least) ELSE SwapUpTo(a, most, b, n)
    BY <1>3, <1>4, <1>7 DEF pumpswap_buy_instruction
<1> HIDE DEF i, j, a, b, n, amounts
<1>10. n \in Nat /\ least \in Nat /\ most \in Nat
    BY <1>1, <1>4, SlippageTyped, QuantitiesAreNat
<1> HIDE DEF least, most
<1>11. i \in Instrs /\ IsSwap(i, a, b) /\ Asks(i, most)
    <2>1. CASE s.exact
        BY <1>1, <1>7, <1>8, <1>9, <1>10, <2>1, SwapExactIs, ExactAsks
    <2>2. CASE ~s.exact
        BY <1>7, <1>9, <1>10, <2>2, SwapUpToIs, UpToAsks
    <2> QED  BY <2>1, <2>2
<1>12. PICK x \in Outcomes(w, handle_wsol(most)) : Wrapped(w, x, most)
    <2>1. w.sol >= most + Rent
        BY <1>1, <1>8, <1>10
    <2> QED  BY <1>10, <2>1, WrapCan
<1>13. /\ Good(x) /\ x.sol >= Rent /\ x.acc[b] = w.acc[b] /\ x.acc[a].open /\ x.acc[a].amt >= most
    BY <1>1, <1>7, <1>8, <1>10, <1>12 DEF Wrapped, a, Good, Wallets
<1>14. PICK y \in Effects(x, k) : Opened(x, y, b)
    BY <1>1, <1>5, <1>8, <1>13, CreateTokenCan DEF b
<1>15. Good(y) /\ CanGive(y, b) /\ y.acc[a] = x.acc[a]
    BY <1>7, <1>14 DEF Opened, CanGive
<1>16. PICK spent \in i.spend, got \in i.got : spent <= most
    BY <1>11 DEF Asks
<1>17. CanTake(y, a, spent)
    BY <1>7, <1>10, <1>11, <1>13, <1>15, <1>16 DEF CanTake, IsSwap, Good, Wallets
<1>18. PICK z \in Effects(y, i) : Trades(y, z, a, spent, b, got)
    BY <1>7, <1>11, <1>15, <1>17, SwapCan
<1>19. Good(z) /\ z.acc[a].open
    BY <1>7, <1>13, <1>15, <1>18 DEF Trades, Moves
<1>20. PICK v : IF s.close_in THEN v \in Effects(z, j) ELSE v = z
    <2>1. \E v : v \in Effects(z, j)
        BY <1>7, <1>19, CloseCan DEF j
    <2> QED  BY <1>1, <2>1
<1> DEFINE one == handle_wsol(most)
           two == one \o <<k>>
           three == two \o <<i>>
           four == three \o Opt(s.close_in, <<j>>)
<1>21. one \in Seq(Instrs) /\ x \in Outcomes(w, one)
    BY <1>10, <1>12, HandleWsolLeaves
<1> HIDE DEF one
<1>22. two \in Seq(Instrs) /\ y \in Outcomes(w, two)
    BY <1>5, <1>14, <1>21, MoreCan
<1> HIDE DEF two
<1>23. three \in Seq(Instrs) /\ z \in Outcomes(w, three)
    BY <1>11, <1>18, <1>22, MoreCan
<1> HIDE DEF three
<1>24. v \in Outcomes(w, four)
    BY <1>1, <1>7, <1>20, <1>23, OptCan
<1>25. four = pumpswap_buy(s)
    BY <1>6 DEF one, two, three
<1> QED  BY <1>24, <1>25

(* What a sale needs.                                                        *)
ClosesToken(s) == s.close_in \/ (s.market.kind = "PumpFun" /\ s.market.close_when_sell)
CanSell(s, w) ==
    LET token == w.acc[token_address("TOK", s.use_seed)]
    IN  /\ token.open
        /\ IF ClosesToken(s) THEN token.amt = s.amount ELSE token.amt >= s.amount
        /\ s.market.kind = "PumpFun" \/ s.create_out
        /\ w.sol >= Rent

LEMMA PumpfunSellLands ==
    ASSUME NEW s \in Params, s.market.kind = "PumpFun", pumpfun_sell(s) # Rejected,
           NEW w, Good(w), CanSell(s, w)
    PROVE  Outcomes(w, pumpfun_sell(s)) # {}
<1> DEFINE a == token_address("TOK", s.use_seed)
           quote == get_sell_sol_amount_from_token_amount(s.market.curve, s.market.creator, s.amount)
           least == IF s.fixed # NoFixed THEN s.fixed ELSE calculate_with_slippage_sell(quote, s.slippage)
           i == SwapExact(a, s.amount, Sol, least)
           p == s.market.close_when_sell \/ s.close_in
           j == CloseAccount(a)
<1>1. /\ s.amount \in Quantities /\ s.amount \in Nat /\ s.slippage \in Nat /\ s.market \in Markets
      /\ s.use_seed \in BOOLEAN /\ s.close_in \in BOOLEAN
    BY DEF Params, Quantities
<1>2. s.market.curve \in QuotedCurves /\ s.market.creator \in BOOLEAN /\ p \in BOOLEAN /\ p = ClosesToken(s)
    BY <1>1, MarketTyped DEF ClosesToken
<1>3. pumpfun_sell(s) = <<i>> \o Opt(p, <<j>>)
    BY DEF pumpfun_sell, Rejected
<1>4. quote \in Quantities /\ (s.fixed # NoFixed => s.fixed \in Quantities)
    BY <1>1, <1>2, FixedTyped, SellQuoteTyped
<1>5. a \in Addresses /\ a \in Places /\ a # Sol /\ Sol \in Places
    BY <1>1, TokenAddressIs DEF Mints, Places
<1>6. w.acc[a].open /\ w.acc[a].amt \in Nat /\ w.acc[a].amt >= s.amount /\ (p => w.acc[a].amt = s.amount)
    BY <1>1, <1>2, <1>5 DEF CanSell, Good, Wallets
<1> HIDE DEF quote, p
<1>7. least \in Nat
    BY <1>1, <1>4, SlippageTyped, QuantitiesAreNat
<1> HIDE DEF a, least
<1>8. i \in Instrs /\ IsSwap(i, a, Sol) /\ s.amount \in i.spend /\ least \in i.got
    BY <1>1, <1>5, <1>7, SwapExactIs, SurplusAssumption DEF SwapExact
<1>9. j \in Instrs
    BY <1>5 DEF j, CloseAccount, Instrs
<1> HIDE DEF i
<1>10. CanTake(w, a, s.amount) /\ CanGive(w, Sol)
    BY <1>5, <1>6 DEF CanTake, CanGive
<1>11. PICK x \in Effects(w, i) : Trades(w, x, a, s.amount, Sol, least)
    BY <1>5, <1>8, <1>10, SwapCan
<1>12. Good(x) /\ x.acc[a].open /\ (p => x.acc[a].amt = 0)
    BY <1>1, <1>5, <1>6, <1>11 DEF Trades, Moves
<1>13. PICK v : IF p THEN v \in Effects(x, j) ELSE v = x
    <2>1. p => \E v : v \in Effects(x, j)
        BY <1>5, <1>12, CloseCan
    <2> QED  BY <1>2, <2>1
<1> DEFINE one == <<i>>
<1>14. one \in Seq(Instrs) /\ x \in Outcomes(w, one)
    BY <1>8, <1>11, OutcomesOne
<1> HIDE DEF one, j
<1>15. v \in Outcomes(w, one \o Opt(p, <<j>>))
    BY <1>2, <1>9, <1>13, <1>14, OptCan
<1> QED  BY <1>3, <1>15 DEF one

LEMMA PumpswapSellLands ==
    ASSUME NEW s \in Params, s.market.kind = "PumpSwap", pumpswap_sell(s) # Rejected,
           Currency(s.market) = "WSOL", ~Reversed(s.market), NEW w, Good(w), CanSell(s, w)
    PROVE  Outcomes(w, pumpswap_sell(s)) # {}
<1> DEFINE amounts == pumpswap_sell_amounts(s)
           i == pumpswap_sell_instruction(s, amounts.token_amount, amounts.sol_amount)
           a == token_address("TOK", s.use_seed)
           b == wsol_token_account
           least == amounts.sol_amount
           h == CreateAta("WSOL")
           j == CloseAccount(b)
           k == CloseAccount(a)
<1>1. /\ s.amount \in Quantities /\ s.amount \in Nat /\ s.slippage \in Nat /\ s.market \in Markets
      /\ s.use_seed \in BOOLEAN /\ s.close_in \in BOOLEAN /\ s.close_out \in BOOLEAN
    BY DEF Params, Quantities
<1>2. pool_accepted(s.market) /\ amounts.ok
    BY DEF pumpswap_sell
<1>3. quote_is_wsol_or_usdc(s.market) /\ s.market.base = "TOK" /\ s.market.quote = "WSOL"
    BY <1>1, <1>2, WsolPool
<1>4. amounts.token_amount = s.amount /\ least \in Nat
    <2> DEFINE back == sell_base_input_internal(s.amount, s.slippage, s.market.pool, s.market.creator)
    <2>1. amounts = IF back.ok
                    THEN [ok |-> TRUE, sol_amount |-> IF s.fixed # NoFixed THEN s.fixed ELSE back.min_quote,
                          token_amount |-> s.amount]
                    ELSE [ok |-> FALSE]
        BY <1>3 DEF pumpswap_sell_amounts, Err
    <2>2. s.market.pool \in QuotedPools /\ s.market.creator \in BOOLEAN
        BY <1>1, MarketTyped
    <2>3. back.ok => back.ui_quote \in Quantities
                     /\ back.min_quote = calculate_with_slippage_sell(back.ui_quote, s.slippage)
        BY <1>1, <2>2, PoolSellTyped
    <2>4. s.fixed # NoFixed => s.fixed \in Nat
        BY FixedTyped, QuantitiesAreNat
    <2> HIDE DEF back
    <2>5. back.ok
        BY <1>2, <2>1
    <2>6. back.min_quote \in Nat
        BY <1>1, <2>3, <2>5, SlippageTyped
    <2> HIDE DEF amounts
    <2> QED  BY <2>1, <2>4, <2>5, <2>6
<1>5. pumpswap_sell(s) = ((<<h>> \o <<i>>) \o Opt(s.close_out, <<j>>)) \o Opt(s.close_in, <<k>>)
    BY <1>2 DEF pumpswap_sell, CanSell, Opt, close_wsol, create_wsol_ata
<1>6. /\ a \in Addresses /\ a \in Places /\ a # Sol /\ b \in Addresses /\ b \in Places /\ b # Sol /\ a # b
      /\ IsNative(b) /\ b = token_address("WSOL", s.use_seed)
    <2>1. a[1] = "TOK" /\ b[1] = "WSOL" /\ b = token_address("WSOL", s.use_seed)
        BY <1>1, TokenAddressIs DEF Mints, wsol_token_account, token_address
    <2>2. a \in Addresses /\ a \in Places /\ a # Sol /\ b \in Addresses /\ b \in Places /\ b # Sol
        BY <1>1, <2>1, TokenAddressIs DEF Mints
    <2> QED  BY <2>1, <2>2 DEF IsNative
<1>7. i = SwapExact(a, s.amount, b, least)
    BY <1>3, <1>4, <1>6 DEF pumpswap_sell_instruction
<1>8. /\ w.sol >= Rent /\ w.acc[a].open /\ w.acc[a].amt \in Nat /\ w.acc[a].amt >= s.amount
      /\ s.close_in => w.acc[a].amt = s.amount
    BY <1>1, <1>6 DEF CanSell, ClosesToken, Good, Wallets
<1>9. h \in Instrs /\ j \in Instrs /\ k \in Instrs
    BY <1>6, WsolInstrs DEF CloseAccount, Instrs
<1>10. PICK x \in Effects(w, h) : Opened(w, x, b)
    BY <1>8, CreateAtaCan DEF Mints, wsol_token_account
<1> HIDE DEF i, h, j, a, b, least, amounts
<1>11. i \in Instrs /\ IsSwap(i, a, b) /\ s.amount \in i.spend /\ least \in i.got
    BY <1>1, <1>4, <1>6, <1>7, SwapExactIs, SurplusAssumption DEF SwapExact
<1>12. Good(x) /\ x.acc[a] = w.acc[a] /\ CanGive(x, b) /\ CanTake(x, a, s.amount) /\ x.acc[b].open
    BY <1>6, <1>8, <1>10 DEF Opened, CanGive, CanTake
<1>13. PICK y \in Effects(x, i) : Trades(x, y, a, s.amount, b, least)
    BY <1>6, <1>11, <1>12, SwapCan
<1>14. Good(y) /\ y.acc[a].open /\ y.acc[b].open /\ (s.close_in => y.acc[a].amt = 0)
    BY <1>1, <1>6, <1>8, <1>12, <1>13 DEF Trades, Moves
<1>15. PICK z : /\ IF s.close_out THEN z \in Effects(y, j) ELSE z = y
                /\ Good(z) /\ z.acc[a] = y.acc[a]
    <2>1. PICK u \in Effects(y, j) : Good(u) /\ \A c \in Addresses \ {b} : u.acc[c] = y.acc[c]
        BY <1>6, <1>14, CloseCan DEF j
    <2> QED  BY <1>1, <1>6, <1>14, <2>1
<1>16. PICK v : IF s.close_in THEN v \in Effects(z, k) ELSE v = z
    <2>1. s.close_in => \E v : v \in Effects(z, k)
        BY <1>6, <1>14, <1>15, CloseCan
    <2> QED  BY <1>1, <2>1
<1> HIDE DEF k
<1> DEFINE one == <<h>>
           two == one \o <<i>>
           three == two \o Opt(s.close_out, <<j>>)
           four == three \o Opt(s.close_in, <<k>>)
<1>17. one \in Seq(Instrs) /\ x \in Outcomes(w, one)
    BY <1>9, <1>10, OutcomesOne
<1> HIDE DEF one
<1>18. two \in Seq(Instrs) /\ y \in Outcomes(w, two)
    BY <1>11, <1>13, <1>17, MoreCan
<1> HIDE DEF two
<1>19. three \in Seq(Instrs) /\ z \in Outcomes(w, three)
    BY <1>1, <1>9, <1>15, <1>18, OptCan
<1> HIDE DEF three
<1>20. v \in Outcomes(w, four)
    BY <1>1, <1>9, <1>16, <1>19, OptCan
<1>21. four = pumpswap_sell(s)
    BY <1>5 DEF one, two, three
<1> QED  BY <1>20, <1>21

(* DefaultTradesLand: whatever landed since it was sent, a buy or a sale in  *)
(* SOL that creates the accounts it uses is not refused by any of its own    *)
(* instructions while the wallet has what it needs: the builders create,     *)
(* fund and close the accounts they use in a possible order.                 *)
THEOREM FundedTradesLand == Spec => []DefaultTradesLand
<1>1. ClientInv => DefaultTradesLand
    <2> SUFFICES ASSUME ClientInv, NEW t \in pending, t.op \in {"buy", "sell", "sell_by_percent"},
                        Currency(t.s.market) = "WSOL", ~Reversed(t.s.market),
                        IF t.op = "buy" THEN CanBuy(t.s, wallet) ELSE CanSell(t.s, wallet)
                 PROVE  Outcomes(wallet, t.ins) # {}
        <3>1. ClientInv => \A t \in pending : t.op \in {"buy", "sell", "sell_by_percent"}
                                                => t.s.use_seed = use_seed_optimize
            BY DEF ClientInv, Proper
        <3> QED  BY <3>1 DEF DefaultTradesLand, Funded, Recreates, CanLand, CanBuy, CanSell, ClosesToken
    <2>1. Good(wallet) /\ Sent(t)
        BY DEF ClientInv, Proper
    <2>2. t.s \in Params /\ t.s.market \in Markets /\ t.ins # Rejected
        BY <2>1 DEF Sent, Params
    <2>3. t.s.market.kind = "PumpFun" \/ t.s.market.kind = "PumpSwap"
        BY <2>2, MarketTyped
    <2>4. CASE t.op = "buy"
        <3>1. t.ins = build_buy_instructions(t.s) /\ CanBuy(t.s, wallet)
            BY <2>1, <2>4 DEF Sent
        <3> QED  BY <2>1, <2>2, <2>3, <3>1, PumpfunBuyLands, PumpswapBuyLands DEF build_buy_instructions
    <2>5. CASE t.op # "buy"
        <3>1. t.ins = build_sell_instructions(t.s) /\ CanSell(t.s, wallet)
            BY <2>1, <2>5 DEF Sent
        <3> QED  BY <2>1, <2>2, <2>3, <3>1, PumpfunSellLands, PumpswapSellLands DEF build_sell_instructions
    <2> QED  BY <2>4, <2>5
<1> QED  BY <1>1, AlwaysClientInv, PTL

-----------------------------------------------------------------------------
(* The constant product: what a pool with reserves x and y gives of x for n  *)
(* units of y, and what is left of the product.                              *)
LEMMA Times == ASSUME NEW a \in Nat, NEW b \in Nat PROVE a * b \in Nat
OBVIOUS

LEMMA ModSame == ASSUME NEW a \in Nat, NEW m \in Nat, a < m PROVE a % m = a
OBVIOUS

LEMMA TimesMono ==
    ASSUME NEW a \in Nat, NEW b \in Nat, NEW c \in Nat, NEW d \in Nat, a <= c, b <= d
    PROVE  a * b <= c * d
<1>1. a * b <= c * b
    OBVIOUS
<1>2. c * b <= c * d
    OBVIOUS
<1> QED  BY <1>1, <1>2

LEMMA DivMono ==
    ASSUME NEW a \in Nat, NEW b \in Nat \ {0}, NEW c \in Nat, NEW d \in Nat \ {0}, a <= c, d <= b
    PROVE  a \div b <= c \div d
<1> DEFINE x == a \div b
           y == c \div d
<1>1. x \in Nat /\ x * b <= a /\ y \in Nat /\ c < y * d + d
    BY DivBounds
<1> HIDE DEF x, y
<1>2. y * d + d = (y + 1) * d /\ (y + 1) * d <= (y + 1) * b
    BY <1>1
<1>3. x * b < (y + 1) * b
    BY <1>1, <1>2
<1>4. x < y + 1
    BY <1>1, <1>3
<1>5. x <= y
    BY <1>1, <1>4
<1> QED  BY <1>5 DEF x, y

LEMMA ConstantProduct ==
    ASSUME NEW x \in Nat \ {0}, NEW y \in Nat \ {0}, NEW n \in Nat
    PROVE  LET g == (x * n) \div (y + n)
           IN  /\ g \in Nat /\ g < x
               /\ g * (y + n) <= x * n /\ x * n < g * (y + n) + (y + n)
               /\ (x - g) * (y + n) >= x * y
               /\ y * g <= n * (x - g)
<1> DEFINE g == (x * n) \div (y + n)
           t == y + n
<1>1. x * n \in Nat /\ t \in Nat \ {0}
    OBVIOUS
<1>2. g \in Nat /\ g * t <= x * n /\ x * n < g * t + t
    BY <1>1, DivBounds
<1>3. x * t = x * y + x * n /\ g * t = g * y + g * n /\ y * g = g * y /\ n * (x - g) = x * n - g * n
    <2> HIDE DEF g
    <2> QED  BY <1>2
<1> HIDE DEF g, t
<1>4. x * n < x * t
    <2>1. x * y \in Nat \ {0}
        OBVIOUS
    <2> QED  BY <1>1, <1>3, <2>1
<1>5. g * t < x * t
    BY <1>1, <1>2, <1>4
<1>6. g < x
    BY <1>1, <1>2, <1>5
<1>7. (x - g) * t = x * t - g * t
    BY <1>1, <1>2
<1>8. (x - g) * t >= x * y
    <2>1. x * y \in Nat /\ x * n \in Nat /\ g * t \in Nat /\ x * t \in Nat
        BY <1>1, <1>2
    <2> QED  BY <1>2, <1>3, <1>7, <2>1
<1>9. y * g <= n * (x - g)
    <2>1. g * y \in Nat /\ g * n \in Nat /\ x * n \in Nat
        BY <1>1, <1>2
    <2> QED  BY <1>2, <1>3, <2>1
<1> QED  BY <1>2, <1>6, <1>8, <1>9 DEF g, t

-----------------------------------------------------------------------------
(* A pool with both reserves, and one whose product is no less.              *)
Live(P) == P \in PoolState /\ P.base > 0 /\ P.quote > 0
Product(P) == P.base * P.quote
NoLess(P, R) == Product(P) <= Product(R)

LEMMA LiveNat ==
    ASSUME NEW P, Live(P)
    PROVE  P.base \in Nat \ {0} /\ P.quote \in Nat \ {0} /\ Product(P) \in Nat \ {0} /\ ~Drained(P)
<1>1. P.base \in Nat \ {0} /\ P.quote \in Nat \ {0}
    BY U64Assumption DEF Live, PoolState, Reserve
<1>2. Product(P) \in Nat \ {0}
    BY <1>1 DEF Product
<1> QED  BY <1>1, <1>2 DEF Drained

LEMMA EffectiveQuote ==
    ASSUME NEW q \in Nat, NEW fee \in BOOLEAN
    PROVE  LET e == effective_quote(q, fee)
           IN  /\ e \in Nat /\ e <= q /\ (q > 0 => e < q)
               /\ e * (10000 + total_fee_bps(fee)) <= q * 10000
               /\ q * 10000 < (e + 1) * (10000 + total_fee_bps(fee))
<1> DEFINE f == total_fee_bps(fee)
           t == 10000 + f
           e == (q * 10000) \div t
<1>1. f \in Nat /\ f > 0
    BY FeesAreNat, PoolFeesAssumption DEF total_fee_bps
<1> HIDE DEF f
<1>2. effective_quote(q, fee) = e
    BY DEF effective_quote, MAX_FEE_BASIS_POINTS, f
<1>3. t \in Nat \ {0} /\ q * 10000 \in Nat /\ q * t = q * 10000 + q * f
    BY <1>1
<1>4. e \in Nat /\ e * t <= q * 10000 /\ q * 10000 < e * t + t
    BY <1>3, DivBounds
<1> HIDE DEF e
<1>5. (e + 1) * t = e * t + t /\ q * f \in Nat /\ (q > 0 => q * f > 0)
    BY <1>1, <1>3, <1>4
<1> HIDE DEF t
<1>6. e * t <= q * t /\ (q > 0 => e * t < q * t)
    BY <1>3, <1>4, <1>5
<1>7. e <= q /\ (q > 0 => e < q)
    BY <1>3, <1>4, <1>6
<1> QED  BY <1>2, <1>4, <1>5, <1>7 DEF t, f

LEMMA PoolFees == ASSUME NEW n \in Nat, NEW fee \in BOOLEAN PROVE pumpswap_fees(n, fee) \in Nat
<1> DEFINE f1 == compute_fee(n, LP_FEE_BASIS_POINTS)
           f2 == compute_fee(n, PROTOCOL_FEE_BASIS_POINTS)
           f3 == compute_fee(n, COIN_CREATOR_FEE_BASIS_POINTS)
<1>1. f1 \in Nat /\ f2 \in Nat /\ f3 \in Nat
    <2>1. LP_FEE_BASIS_POINTS \in Nat /\ PROTOCOL_FEE_BASIS_POINTS \in Nat /\ COIN_CREATOR_FEE_BASIS_POINTS \in Nat
        BY FeesAreNat
    <2> QED  BY <2>1, FeeIsNat
<1>2. pumpswap_fees(n, fee) = f1 + f2 + (IF fee THEN f3 ELSE 0)
    BY DEF pumpswap_fees
<1> HIDE DEF f1, f2, f3
<1> QED  BY <1>1, <1>2

(* buy_quote_input_internal and sell_base_input_internal on such a pool.     *)
LEMMA PoolBuyIs ==
    ASSUME NEW P, Live(P), NEW q \in Nat, NEW fee \in BOOLEAN
    PROVE  LET r == buy_quote_input_internal(q, 0, P, fee)
           IN  /\ r.ok /\ r.internal = effective_quote(q, fee) /\ r.internal \in Nat
               /\ r.base = (P.base * r.internal) \div (P.quote + r.internal)
<1>1. effective_quote(q, fee) \in Nat
    BY EffectiveQuote
<1> QED  BY <1>1, LiveNat DEF buy_quote_input_internal

LEMMA PoolSellIs ==
    ASSUME NEW P, P.base \in Nat \ {0}, P.quote \in Nat \ {0}, NEW n \in Nat, NEW fee \in BOOLEAN
    PROVE  LET r == sell_base_input_internal(n, 0, P, fee)
               out == (P.quote * n) \div (P.base + n)
           IN  /\ out \in Nat /\ out < P.quote
               /\ r.ok <=> pumpswap_fees(out, fee) <= out
               /\ r.ok => r.internal = out /\ r.ui_quote = out - pumpswap_fees(out, fee)
<1> DEFINE out == (P.quote * n) \div (P.base + n)
<1>1. out \in Nat /\ out < P.quote
    BY ConstantProduct
<1> HIDE DEF out
<1>2. pumpswap_fees(out, fee) \in Nat
    BY <1>1, PoolFees
<1>3. ~Drained(P)
    BY DEF Drained
<1>4. sell_base_input_internal(n, 0, P, fee) =
        IF pumpswap_fees(out, fee) > out
        THEN [ok |-> FALSE]
        ELSE [ok |-> TRUE, internal |-> out, ui_quote |-> out - pumpswap_fees(out, fee),
              min_quote |-> calculate_with_slippage_sell(out - pumpswap_fees(out, fee), 0)]
    BY <1>3 DEF sell_base_input_internal, Err, out
<1>5. (pumpswap_fees(out, fee) <= out) <=> ~(pumpswap_fees(out, fee) > out)
    BY <1>1, <1>2
<1>6. sell_base_input_internal(n, 0, P, fee).ok <=> pumpswap_fees(out, fee) <= out
    BY <1>4, <1>5
<1>7. sell_base_input_internal(n, 0, P, fee).ok =>
        /\ sell_base_input_internal(n, 0, P, fee).internal = out
        /\ sell_base_input_internal(n, 0, P, fee).ui_quote = out - pumpswap_fees(out, fee)
    BY <1>4, <1>5, <1>6
<1> QED  BY <1>1, <1>6, <1>7 DEF out

(* A trade leaves both reserves, and a product that is no less.              *)
LEMMA BuyKeepsProduct ==
    ASSUME NEW P, Live(P), NEW b \in Nat, NEW e \in Nat, NEW f \in Nat,
           b = (P.base * e) \div (P.quote + e),
           NEW R \in PoolState, R.base = P.base - b, R.quote = P.quote + e + f
    PROVE  Live(R) /\ NoLess(P, R)
<1> DEFINE x == P.base
           y == P.quote
<1>1. x \in Nat \ {0} /\ y \in Nat \ {0}
    BY LiveNat
<1>2. b < x /\ (x - b) * (y + e) >= x * y
    BY <1>1, ConstantProduct
<1>a. R.base = x - b /\ R.quote = y + e + f
    OBVIOUS
<1> HIDE DEF x, y
<1>3. R.base \in Nat \ {0} /\ R.quote \in Nat \ {0} /\ R.quote >= y + e
    BY <1>1, <1>2, <1>a
<1>4. R.base * R.quote >= (x - b) * (y + e)
    <2>1. R.base = x - b
        BY DEF x
    <2> QED  BY <1>1, <1>2, <1>3, <2>1, TimesMono
<1>5. R.base * R.quote >= x * y
    BY <1>1, <1>2, <1>3, <1>4
<1> QED  BY <1>3, <1>5 DEF Live, NoLess, Product, x, y

LEMMA SellKeepsProduct ==
    ASSUME NEW P, Live(P), NEW n \in Nat, NEW f \in Nat,
           NEW R \in PoolState, R.base = P.base + n,
           R.quote = P.quote - (P.quote * n) \div (P.base + n) + f
    PROVE  Live(R) /\ NoLess(P, R)
<1> DEFINE x == P.base
           y == P.quote
           o == (y * n) \div (x + n)
<1>1. x \in Nat \ {0} /\ y \in Nat \ {0}
    BY LiveNat
<1>2. o \in Nat /\ o < y /\ (y - o) * (x + n) >= y * x
    BY <1>1, ConstantProduct
<1>3. R.base \in Nat \ {0} /\ R.quote \in Nat \ {0} /\ R.quote >= y - o /\ R.base = x + n
    <2> HIDE DEF o
    <2>1. R.quote = y - o + f
        BY DEF o
    <2> QED  BY <1>1, <1>2, <2>1
<1> HIDE DEF x, y, o
<1>4. (y - o) * (x + n) = (x + n) * (y - o) /\ y * x = x * y
    BY <1>1, <1>2
<1>5. (x + n) * (y - o) <= R.base * R.quote
    <2>1. x + n \in Nat /\ y - o \in Nat
        BY <1>1, <1>2
    <2> QED  BY <1>3, <2>1, TimesMono
<1>6. R.base * R.quote >= x * y
    BY <1>1, <1>2, <1>3, <1>4, <1>5
<1> QED  BY <1>3, <1>6 DEF Live, NoLess, Product, x, y

-----------------------------------------------------------------------------
(* The curve on the chain: virtual SOL, and as many virtual tokens above the *)
(* real ones as at first.                                                    *)
CurveInv(c) ==
    /\ c \in CurveState /\ c.vs > 0
    /\ c.vt - c.rt = InitCurve.vt - InitCurve.rt

LEMMA CurveNat ==
    ASSUME NEW c, CurveInv(c)
    PROVE  /\ c.vt \in Nat \ {0} /\ c.vs \in Nat \ {0} /\ c.rt \in Nat /\ c.rs \in Nat
           /\ c.rt < c.vt /\ c.vt < U64 /\ c.vs < U64 /\ U64 \in Nat \ {0}
BY U64Assumption, ReservesAssumption DEF CurveInv, CurveState, Reserve

LEMMA InitCurveInv == CurveInv(InitCurve)
BY ReservesAssumption DEF CurveInv

LEMMA CostIsPositive ==
    ASSUME NEW c, CurveInv(c), NEW n \in 0..c.rt
    PROVE  cost(c, n) \in Nat \ {0} /\ c.vt - n \in Nat \ {0}
<1>1. c.vt \in Nat \ {0} /\ c.vs \in Nat \ {0} /\ c.rt \in Nat /\ c.rt < c.vt
    BY CurveNat
<1>2. n \in Nat /\ c.vt - n \in Nat \ {0} /\ n * c.vs \in Nat
    BY <1>1
<1>3. (n * c.vs) \div (c.vt - n) \in Nat
    BY <1>2, DivBounds
<1> QED  BY <1>2, <1>3 DEF cost

LEMMA AfterBuyInv ==
    ASSUME NEW c, CurveInv(c), NEW n \in 0..c.rt, AfterBuy(c, n) \in CurveState
    PROVE  CurveInv(AfterBuy(c, n))
<1>1. cost(c, n) \in Nat \ {0}
    BY CostIsPositive
<1>2. c.vt \in Nat \ {0} /\ c.vs \in Nat \ {0} /\ c.rt \in Nat
    BY CurveNat
<1>3. AfterBuy(c, n).vt = c.vt - n /\ AfterBuy(c, n).rt = c.rt - n /\ AfterBuy(c, n).vs = c.vs + cost(c, n)
    BY DEF AfterBuy
<1>4. n \in Nat /\ (c.vt - n) - (c.rt - n) = c.vt - c.rt /\ c.vs + cost(c, n) > 0
    BY <1>1, <1>2
<1> QED  BY <1>3, <1>4 DEF CurveInv

LEMMA CurveSellInv ==
    ASSUME NEW n \in Nat, CurveInv(curve), CurveSell(n), curve' \in CurveState
    PROVE  CurveInv(curve')
<1> DEFINE out == sol_cost(curve, n)
<1>1. curve.vt \in Nat \ {0} /\ curve.vs \in Nat \ {0} /\ curve.rt \in Nat
    BY CurveNat
<1>2. out \in Nat /\ out < curve.vs
    <2>1. n * curve.vs = curve.vs * n
        BY <1>1
    <2>2. out = (curve.vs * n) \div (curve.vt + n)
        BY <2>1 DEF sol_cost
    <2> QED  BY <1>1, <2>2, ConstantProduct
<1>3. curve'.vt = curve.vt + n /\ curve'.rt = curve.rt + n /\ curve'.vs = curve.vs - out
    BY DEF CurveSell
<1> HIDE DEF out
<1>4. (curve.vt + n) - (curve.rt + n) = curve.vt - curve.rt /\ curve.vs - out > 0
    BY <1>1, <1>2
<1> QED  BY <1>3, <1>4 DEF CurveInv

(* Every pool is live, and the product of a pool never falls.                *)
LEMMA PoolStep ==
    ASSUME NEW P, Live(P), NEW R \in PoolState, NEW n \in Nat, NEW fee \in BOOLEAN,
           \/ LET r == buy_quote_input_internal(n, 0, P, fee)
              IN  R = [base |-> P.base - r.base,
                       quote |-> P.quote + r.internal + compute_fee(r.internal, LP_FEE_BASIS_POINTS)]
           \/ LET r == sell_base_input_internal(n, 0, P, fee)
              IN  /\ r.ok
                  /\ R = [base |-> P.base + n,
                          quote |-> P.quote - r.internal + compute_fee(r.internal, LP_FEE_BASIS_POINTS)]
    PROVE  Live(R) /\ NoLess(P, R)
<1>1. P.base \in Nat \ {0} /\ P.quote \in Nat \ {0} /\ LP_FEE_BASIS_POINTS \in Nat
    BY LiveNat, FeesAreNat
<1>2. CASE LET r == buy_quote_input_internal(n, 0, P, fee)
           IN  R = [base |-> P.base - r.base,
                    quote |-> P.quote + r.internal + compute_fee(r.internal, LP_FEE_BASIS_POINTS)]
    <2> DEFINE b == buy_quote_input_internal(n, 0, P, fee).base
               e == buy_quote_input_internal(n, 0, P, fee).internal
               f == compute_fee(e, LP_FEE_BASIS_POINTS)
    <2>1. e \in Nat /\ b = (P.base * e) \div (P.quote + e)
        BY PoolBuyIs
    <2>2. R.base = P.base - b /\ R.quote = P.quote + e + f
        BY <1>2
    <2> HIDE DEF b, e
    <2>3. f \in Nat
        BY <1>1, <2>1, FeeIsNat
    <2>4. b \in Nat
        BY <1>1, <2>1, ConstantProduct
    <2> HIDE DEF f
    <2> QED  BY <2>1, <2>2, <2>3, <2>4, BuyKeepsProduct
<1>3. CASE LET r == sell_base_input_internal(n, 0, P, fee)
           IN  /\ r.ok
               /\ R = [base |-> P.base + n,
                       quote |-> P.quote - r.internal + compute_fee(r.internal, LP_FEE_BASIS_POINTS)]
    <2> DEFINE o == sell_base_input_internal(n, 0, P, fee).internal
               f == compute_fee(o, LP_FEE_BASIS_POINTS)
    <2>1. o \in Nat /\ o = (P.quote * n) \div (P.base + n)
        BY <1>1, <1>3, PoolSellIs
    <2>2. R.base = P.base + n /\ R.quote = P.quote - o + f
        BY <1>3
    <2> HIDE DEF o
    <2>3. f \in Nat
        BY <1>1, <2>1, FeeIsNat
    <2> HIDE DEF f
    <2>4. R.quote = P.quote - (P.quote * n) \div (P.base + n) + f
        BY <2>1, <2>2
    <2> QED  BY <2>2, <2>3, <2>4, SellKeepsProduct
<1> QED  BY <1>2, <1>3

-----------------------------------------------------------------------------
(* The client's curve agrees with the chain's in its tokens, and its SOL is  *)
(* no less than the SOL there, unless the developer's maximum made it wrap.  *)
ViewInv ==
    \/ view = NoView
    \/ /\ view.from \in {"dev_trade", "trade"} /\ view.c \in CurveState
       /\ CurveInv(view.at) /\ view.max \in Reserve
       /\ view.c.vt = view.at.vt /\ view.c.rt = view.at.rt
       /\ InitCurve.vs + view.max < U64 => view.c.vs >= view.at.vs

(* What the reader has, and that the pool's product did not fall since.      *)
Sought(p, side) ==
    /\ p \in Pools /\ side \in {"base", "quote", "given"}
    /\ side # "given" =>
          \A q \in Decodable : (q \in BaseSide <=> side = "base") => LpSupply[q] <= LpSupply[p]

NothingRead == reader \in {Idle, [pc |-> "by_quote"], [pc |-> "failed"]}
PoolKnown == \E p, side : Sought(p, side) /\ \E pc \in {"fetch", "base"} :
    reader = [pc |-> pc, pool |-> p, side |-> side]
BaseRead == \E p, side, before :
    /\ Sought(p, side) /\ Live(before) /\ NoLess(before, pool[p])
    /\ reader = [pc |-> "quote", pool |-> p, side |-> side, base |-> before.base, before |-> before]
BothRead == \E p, side, before, after :
    /\ Sought(p, side) /\ Live(before) /\ Live(after) /\ NoLess(before, after)
    /\ reader = [pc |-> "done", pool |-> p, side |-> side,
                 p |-> [base |-> before.base, quote |-> after.quote],
                 before |-> before, after |-> after]

MarketInv ==
    /\ has_creator \in BOOLEAN /\ trades \in 0..MaxTrades
    /\ CurveInv(curve)
    /\ pool \in [Pools -> PoolState] /\ \A p \in Pools : Live(pool[p])
    /\ ViewInv
    /\ NothingRead \/ PoolKnown \/ BaseRead \/ BothRead

LEMMA MarketInitInv == ASSUME MarketInit PROVE MarketInv
<1>1. CurveInv(curve)
    BY InitCurveInv DEF MarketInit
<1>2. pool \in [Pools -> PoolState] /\ \A p \in Pools : Live(pool[p])
    BY ReservesAssumption DEF MarketInit, Live
<1>3. has_creator \in BOOLEAN /\ trades \in 0..MaxTrades /\ ViewInv /\ NothingRead
    BY TradesAssumption DEF MarketInit, ViewInv, NothingRead
<1> QED  BY <1>1, <1>2, <1>3 DEF MarketInv

LEMMA NoLessTrans ==
    ASSUME NEW P, Live(P), NEW R, Live(R), NEW S, Live(S), NoLess(P, R), NoLess(R, S)
    PROVE  NoLess(P, S)
BY LiveNat DEF NoLess

LEMMA TradeKeepsReader ==
    ASSUME NothingRead \/ PoolKnown \/ BaseRead \/ BothRead, UNCHANGED reader,
           \A p \in Pools : Live(pool[p]) /\ Live(pool'[p]) /\ NoLess(pool[p], pool'[p])
    PROVE  (NothingRead \/ PoolKnown \/ BaseRead \/ BothRead)'
<1>1. CASE NothingRead \/ PoolKnown \/ BothRead
    <2>1. (NothingRead => NothingRead') /\ (PoolKnown => PoolKnown') /\ (BothRead => BothRead')
        BY DEF NothingRead, PoolKnown, BothRead, Idle
    <2> QED  BY <1>1, <2>1
<1>2. CASE BaseRead
    <2>1. PICK p, side, before :
            /\ Sought(p, side) /\ Live(before) /\ NoLess(before, pool[p])
            /\ reader = [pc |-> "quote", pool |-> p, side |-> side, base |-> before.base, before |-> before]
        BY <1>2 DEF BaseRead
    <2>2. p \in Pools
        BY <2>1 DEF Sought
    <2>3. NoLess(before, pool'[p])
        BY <2>1, <2>2, NoLessTrans
    <2> QED  BY <2>1, <2>3 DEF BaseRead
<1> QED  BY <1>1, <1>2

LEMMA ChainTradeInv == ASSUME MarketInv, ChainTrade PROVE MarketInv'
<1>1. has_creator' \in BOOLEAN /\ trades' \in 0..MaxTrades /\ ViewInv' /\ UNCHANGED <<has_creator, reader>>
    <2>1. trades' \in 0..MaxTrades
        BY TradesAssumption DEF MarketInv, ChainTrade
    <2> QED  BY <2>1 DEF MarketInv, ChainTrade, ViewInv, NoView
<1>2. curve' \in CurveState /\ pool' \in [Pools -> PoolState]
    BY DEF ChainTrade
<1>3. PICK amount \in TradeAmounts :
        \/ CurveBuy(amount) \/ CurveSell(amount)
        \/ \E p \in Pools : PoolBuy(p, amount) \/ PoolSell(p, amount)
    BY DEF ChainTrade
<1>4. amount \in Nat
    BY TradesAssumption
<1>5. CurveInv(curve') /\ \A p \in Pools : Live(pool[p]) /\ Live(pool'[p]) /\ NoLess(pool[p], pool'[p])
    <2>0. ASSUME UNCHANGED pool
          PROVE  \A p \in Pools : Live(pool[p]) /\ Live(pool'[p]) /\ NoLess(pool[p], pool'[p])
        <3> TAKE p \in Pools
        <3>1. Live(pool[p])
            BY DEF MarketInv
        <3>2. NoLess(pool[p], pool[p])
            BY <3>1, LiveNat DEF NoLess
        <3> QED  BY <2>0, <3>1, <3>2
    <2>1. CASE CurveBuy(amount)
        <3>1. CurveInv(curve) /\ get_buy_price(curve, amount) \in 1..curve.rt
              /\ curve' = AfterBuy(curve, get_buy_price(curve, amount)) /\ UNCHANGED pool
            BY <2>1 DEF MarketInv, CurveBuy
        <3>2. get_buy_price(curve, amount) \in 0..curve.rt
            BY <3>1
        <3> QED  BY <1>2, <2>0, <3>1, <3>2, AfterBuyInv
    <2>2. CASE CurveSell(amount)
        <3>1. CurveInv(curve')
            BY <1>2, <1>4, <2>2, CurveSellInv DEF MarketInv
        <3>2. UNCHANGED pool
            BY <2>2 DEF CurveSell
        <3> QED  BY <2>0, <3>1, <3>2
    <2>3. ASSUME NEW p \in Pools, PoolBuy(p, amount) \/ PoolSell(p, amount)
          PROVE  CurveInv(curve') /\ \A q \in Pools : Live(pool[q]) /\ Live(pool'[q]) /\ NoLess(pool[q], pool'[q])
        <3>1. CurveInv(curve')
            BY <2>3 DEF MarketInv, PoolBuy, PoolSell
        <3>2. Live(pool[p]) /\ pool'[p] \in PoolState /\ has_creator \in BOOLEAN
            BY <1>2 DEF MarketInv
        <3>3. /\ \A q \in Pools \ {p} : pool'[q] = pool[q]
              /\ \/ LET r == buy_quote_input_internal(amount, 0, pool[p], has_creator)
                    IN  pool'[p] = [base |-> pool[p].base - r.base,
                             quote |-> pool[p].quote + r.internal + compute_fee(r.internal, LP_FEE_BASIS_POINTS)]
                 \/ LET r == sell_base_input_internal(amount, 0, pool[p], has_creator)
                    IN  /\ r.ok
                        /\ pool'[p] = [base |-> pool[p].base + amount,
                                quote |-> pool[p].quote - r.internal + compute_fee(r.internal, LP_FEE_BASIS_POINTS)]
            BY <2>3 DEF MarketInv, PoolBuy, PoolAfterBuy, PoolSell
        <3>4. Live(pool'[p]) /\ NoLess(pool[p], pool'[p])
            BY <1>4, <3>2, <3>3, PoolStep
        <3>5. ASSUME NEW q \in Pools \ {p} PROVE Live(pool[q]) /\ Live(pool'[q]) /\ NoLess(pool[q], pool'[q])
            <4>1. Live(pool[q])
                BY DEF MarketInv
            <4> QED  BY <3>3, <4>1, LiveNat DEF NoLess
        <3> QED  BY <3>1, <3>2, <3>4, <3>5
    <2> QED  BY <1>3, <2>1, <2>2, <2>3
<1>6. (NothingRead \/ PoolKnown \/ BaseRead \/ BothRead)'
    BY <1>1, <1>5, TradeKeepsReader DEF MarketInv
<1> QED  BY <1>1, <1>2, <1>5, <1>6 DEF MarketInv

LEMMA BuyPriceBound ==
    ASSUME NEW c, CurveInv(c), NEW n \in Nat
    PROVE  get_buy_price(c, n) \in 0..c.rt
<1> DEFINE k == (c.vs * c.vt) \div (c.vs + n)
           m == (c.vt - (k + 1)) % U64
<1>1. c.vt \in Nat \ {0} /\ c.vs \in Nat \ {0} /\ c.rt \in Nat /\ U64 \in Nat \ {0}
    BY CurveNat
<1>2. k \in Nat
    BY <1>1, DivBounds, Times
<1>3. get_buy_price(c, n) = IF n = 0 THEN 0 ELSE Min({m, c.rt})
    BY DEF get_buy_price
<1> HIDE DEF k
<1>4. m \in Nat
    BY <1>1, <1>2
<1> HIDE DEF m
<1>5. Min({m, c.rt}) \in Nat /\ Min({m, c.rt}) <= c.rt
    BY <1>1, <1>4, MinOfTwo
<1> QED  BY <1>1, <1>3, <1>5

LEMMA SlippageBuyReserve ==
    ASSUME NEW n \in Nat, NEW bp \in Nat PROVE calculate_with_slippage_buy(n, bp) \in Reserve
<1> DEFINE a == (n * bp) % U64
           d == a \div 10000
<1>1. n * bp \in Nat /\ U64 \in Nat \ {0}
    BY U64Assumption
<1>2. a \in Nat
    BY <1>1, ModBounds
<1>3. calculate_with_slippage_buy(n, bp) = (n + d) % U64
    BY DEF calculate_with_slippage_buy, MAX_FEE_BASIS_POINTS
<1> HIDE DEF a
<1>4. d \in Nat
    BY <1>2, DivBounds
<1> HIDE DEF d
<1>5. n + d \in Int
    BY <1>4
<1> QED  BY <1>1, <1>3, <1>5, ModBounds DEF Reserve

LEMMA DevTradeInv == ASSUME MarketInv, NEW amount \in TradeAmounts, from_dev_trade(amount) PROVE MarketInv'
<1> DEFINE n == get_buy_price(InitCurve, amount)
           k == cost(InitCurve, n)
<1>1. PICK slippage \in Slippages :
        LET m == calculate_with_slippage_buy(cost(curve, n), slippage)
        IN  /\ m >= cost(curve, n)
            /\ view' = [from |-> "dev_trade", at |-> curve', max |-> m, c |-> dev_trade_view(n, m)]
    BY DEF from_dev_trade
<1> DEFINE m == calculate_with_slippage_buy(k, slippage)
<1>2. /\ curve = InitCurve /\ curve' = AfterBuy(InitCurve, n) /\ curve' \in CurveState
      /\ trades < MaxTrades /\ trades' = trades + 1 /\ UNCHANGED <<has_creator, pool, reader>>
    BY DEF from_dev_trade
<1>3. n \in 0..InitCurve.rt
    BY InitCurveInv, BuyPriceBound, TradesAssumption
<1>4. k \in Nat \ {0}
    BY <1>3, InitCurveInv, CostIsPositive
<1>5. m \in Reserve
    BY <1>4, SlippageBuyReserve, TradesAssumption
<1>6. m >= k /\ view' = [from |-> "dev_trade", at |-> curve', max |-> m, c |-> dev_trade_view(n, m)]
    BY <1>1, <1>2
<1>7. CurveInv(curve')
    BY <1>2, <1>3, InitCurveInv, AfterBuyInv
<1> HIDE DEF n, k, m
<1>8. /\ curve'.vt = InitCurve.vt - n /\ curve'.rt = InitCurve.rt - n /\ curve'.vs = InitCurve.vs + k
    BY <1>2 DEF AfterBuy, k
<1>9. InitCurve.vs \in Nat /\ m \in Nat /\ m < U64 /\ U64 \in Nat \ {0}
    BY <1>5, U64Assumption, InitCurveInv, CurveNat DEF Reserve
<1> DEFINE z == InitCurve.vs + m
           v == z % U64
<1>10. v \in Reserve /\ (InitCurve.vs + m < U64 => v >= InitCurve.vs + k)
    <2>1. z \in Nat
        BY <1>9
    <2> HIDE DEF z
    <2>2. v \in Reserve
        BY <1>9, <2>1, ModBounds DEF Reserve
    <2>3. z < U64 => v = z
        BY <1>9, <2>1, ModSame
    <2> HIDE DEF v
    <2> QED  BY <1>4, <1>6, <1>9, <2>2, <2>3 DEF z
<1> HIDE DEF v
<1>11. dev_trade_view(n, m) = [vt |-> InitCurve.vt - n, vs |-> v, rt |-> InitCurve.rt - n, rs |-> m]
    BY DEF dev_trade_view, v, z
<1>12. dev_trade_view(n, m) \in CurveState
    <2>1. InitCurve.vt - n \in Reserve /\ InitCurve.rt - n \in Reserve
        BY <1>2, <1>8 DEF CurveState
    <2> QED  BY <1>5, <1>10, <1>11, <2>1 DEF CurveState
<1>13. ViewInv'
    BY <1>5, <1>6, <1>7, <1>8, <1>10, <1>11, <1>12 DEF ViewInv
<1>14. trades' \in 0..MaxTrades
    BY <1>2, TradesAssumption DEF MarketInv
<1>15. (NothingRead \/ PoolKnown \/ BaseRead \/ BothRead)'
    BY <1>2 DEF MarketInv, NothingRead, PoolKnown, BaseRead, BothRead, Idle
<1> QED  BY <1>2, <1>7, <1>13, <1>14, <1>15 DEF MarketInv

LEMMA FromTradeInv == ASSUME MarketInv, from_trade PROVE MarketInv'
<1>1. CurveInv(curve) /\ curve \in CurveState /\ 0 \in Reserve
    BY U64Assumption DEF MarketInv, CurveInv, Reserve
<1>2. curve.vs \in Nat
    BY <1>1, CurveNat
<1>3. view' = [from |-> "trade", at |-> curve, max |-> 0, c |-> curve]
    BY DEF from_trade
<1>4. ViewInv'
    BY <1>1, <1>2, <1>3 DEF ViewInv
<1>5. (NothingRead \/ PoolKnown \/ BaseRead \/ BothRead)'
    BY DEF MarketInv, from_trade, NothingRead, PoolKnown, BaseRead, BothRead, Idle
<1> QED  BY <1>4, <1>5 DEF MarketInv, from_trade

-----------------------------------------------------------------------------
(* The reader's steps.                                                       *)
LEMMA FoundIsSought ==
    ASSUME NEW S, NEW side \in {"base", "quote"},
           S = (IF side = "base" THEN BaseSide ELSE Pools \ BaseSide), Found(S, side)
    PROVE  PoolKnown'
<1>1. PICK p \in find_by(S) : reader' = [pc |-> "fetch", pool |-> p, side |-> side]
    BY DEF Found
<1>2. p \in Pools /\ \A q \in S \cap Decodable : LpSupply[q] <= LpSupply[p]
    BY PoolsAssumption DEF find_by, Deepest
<1>3. \A q \in Decodable : (q \in BaseSide <=> side = "base") => q \in S \cap Decodable
    BY PoolsAssumption
<1>4. Sought(p, side)
    BY <1>2, <1>3 DEF Sought
<1> QED  BY <1>1, <1>4 DEF PoolKnown

LEMMA ReaderInv ==
    ASSUME MarketInv,
           \/ find_by_base_mint \/ find_by_quote_mint \/ from_pool_address_by_rpc
           \/ fetch_pool \/ read_base \/ read_quote \/ again
    PROVE  MarketInv'
<1>1. UNCHANGED <<has_creator, curve, pool, view, trades>>
    BY DEF find_by_base_mint, find_by_quote_mint, from_pool_address_by_rpc,
           fetch_pool, read_base, read_quote, again
<1>2. ASSUME Failed PROVE NothingRead'
    BY <1>2 DEF Failed, NothingRead
<1>3. (NothingRead \/ PoolKnown \/ BaseRead \/ BothRead)'
    <2>1. CASE find_by_base_mint
        <3>1. CASE Found(BaseSide, "base")
            BY <3>1, FoundIsSought
        <3>2. CASE reader' = [pc |-> "by_quote"]
            BY <3>2 DEF NothingRead
        <3> QED  BY <2>1, <3>1, <3>2 DEF find_by_base_mint
    <2>2. CASE find_by_quote_mint
        <3>1. CASE Found(Pools \ BaseSide, "quote")
            BY <3>1, FoundIsSought
        <3> QED  BY <1>2, <2>2, <3>1 DEF find_by_quote_mint
    <2>3. CASE from_pool_address_by_rpc
        <3>1. PICK p \in Pools : reader' = [pc |-> "fetch", pool |-> p, side |-> "given"]
            BY <2>3 DEF from_pool_address_by_rpc
        <3>2. Sought(p, "given")
            BY DEF Sought
        <3> QED  BY <3>1, <3>2 DEF PoolKnown
    <2>4. ASSUME reader.pc \in {"fetch", "base"}
          PROVE  \E p, side : Sought(p, side) /\ reader = [pc |-> reader.pc, pool |-> p, side |-> side]
        <3>1. PoolKnown
            BY <2>4 DEF MarketInv, NothingRead, BaseRead, BothRead, Idle
        <3> QED  BY <3>1 DEF PoolKnown
    <2>5. CASE fetch_pool
        <3>1. PICK p, side : Sought(p, side) /\ reader = [pc |-> reader.pc, pool |-> p, side |-> side]
            BY <2>4, <2>5 DEF fetch_pool
        <3>2. CASE reader' = [reader EXCEPT !.pc = "base"]
            <4>1. reader' = [pc |-> "base", pool |-> p, side |-> side]
                BY <3>1, <3>2
            <4> QED  BY <3>1, <4>1 DEF PoolKnown
        <3> QED  BY <1>2, <2>5, <3>2 DEF fetch_pool
    <2>6. CASE read_base
        <3>1. PICK p, side : Sought(p, side) /\ reader = [pc |-> reader.pc, pool |-> p, side |-> side]
            BY <2>4, <2>6 DEF read_base
        <3>2. Live(pool[p])
            BY <3>1 DEF MarketInv, Sought
        <3>3. NoLess(pool[p], pool'[p])
            BY <1>1, <3>2, LiveNat DEF NoLess
        <3>4. CASE reader' = [pc |-> "quote", pool |-> reader.pool, side |-> reader.side,
                              base |-> pool[reader.pool].base, before |-> pool[reader.pool]]
            <4>1. reader' = [pc |-> "quote", pool |-> p, side |-> side, base |-> pool[p].base, before |-> pool[p]]
                BY <3>1, <3>4
            <4> QED  BY <3>1, <3>2, <3>3, <4>1 DEF BaseRead
        <3> QED  BY <1>2, <2>6, <3>4 DEF read_base
    <2>7. CASE read_quote
        <3>1. BaseRead
            BY <2>7 DEF MarketInv, NothingRead, PoolKnown, BothRead, Idle, read_quote
        <3>2. PICK p, side, before :
                /\ Sought(p, side) /\ Live(before) /\ NoLess(before, pool[p])
                /\ reader = [pc |-> "quote", pool |-> p, side |-> side, base |-> before.base, before |-> before]
            BY <3>1 DEF BaseRead
        <3>3. Live(pool[p])
            BY <3>2 DEF MarketInv, Sought
        <3>4. CASE reader' = [pc |-> "done", pool |-> reader.pool, side |-> reader.side,
                              p |-> [base |-> reader.base, quote |-> quote_balance],
                              before |-> reader.before, after |-> pool[reader.pool]]
            <4>1. reader' = [pc |-> "done", pool |-> p, side |-> side,
                             p |-> [base |-> before.base, quote |-> pool[p].quote],
                             before |-> before, after |-> pool[p]]
                BY <3>2, <3>4 DEF quote_balance
            <4> QED  BY <3>2, <3>3, <4>1 DEF BothRead
        <3> QED  BY <1>2, <2>7, <3>4 DEF read_quote
    <2>8. CASE again
        BY <2>8 DEF again, NothingRead
    <2> QED  BY <2>1, <2>2, <2>3, <2>5, <2>6, <2>7, <2>8
<1> QED  BY <1>1, <1>3 DEF MarketInv, ViewInv, NoView

(* MarketInv is inductive.                                                   *)
LEMMA MarketInvHolds == MarketSpec => []MarketInv
<1>1. MarketInv /\ [MarketNext]_marketVars => MarketInv'
    <2> SUFFICES ASSUME MarketInv, [MarketNext]_marketVars PROVE MarketInv'
        OBVIOUS
    <2>1. CASE UNCHANGED marketVars
        BY <2>1 DEF marketVars, MarketInv, ViewInv, NoView, NothingRead, PoolKnown, BaseRead, BothRead, Idle
    <2>2. CASE ChainTrade
        BY <2>2, ChainTradeInv
    <2>3. ASSUME NEW amount \in TradeAmounts, from_dev_trade(amount) PROVE MarketInv'
        BY <2>3, DevTradeInv
    <2>4. CASE from_trade
        BY <2>4, FromTradeInv
    <2>5. CASE \/ find_by_base_mint \/ find_by_quote_mint \/ from_pool_address_by_rpc
               \/ fetch_pool \/ read_base \/ read_quote \/ again
        BY <2>5, ReaderInv
    <2> QED  BY <2>1, <2>2, <2>3, <2>4, <2>5 DEF MarketNext
<1> QED  BY <1>1, MarketInitInv, PTL DEF MarketSpec

-----------------------------------------------------------------------------
LEMMA MinIsLess ==
    ASSUME NEW a \in Int, NEW b \in Int, NEW n \in Int, n >= a \/ n >= b PROVE n >= Min({a, b})
BY DEF Min

LEMMA MaxIsMore ==
    ASSUME NEW a \in Int, NEW b \in Int, NEW n \in Int, n <= a \/ n <= b PROVE n <= Max({a, b})
BY DEF Max

(* More quote and less base pay more for base, more base and less quote give *)
(* more base.                                                                *)
LEMMA OutIsMonotone ==
    ASSUME NEW x \in Nat \ {0}, NEW y \in Nat \ {0}, NEW z \in Nat \ {0}, NEW w \in Nat \ {0},
           x >= z, y <= w, NEW n \in Nat
    PROVE  (x * n) \div (y + n) >= (z * n) \div (w + n)
<1>1. z * n <= x * n /\ x * n \in Nat /\ z * n \in Nat
    BY Times, TimesMono
<1>2. y + n \in Nat \ {0} /\ w + n \in Nat \ {0} /\ y + n <= w + n
    OBVIOUS
<1> QED  BY <1>1, <1>2, DivMono

(* The torn pool has as much base as the first and as much quote as the      *)
(* second; the product did not fall, so it is as good as one of them.        *)
LEMMA TornRead ==
    ASSUME NEW P, NEW R, Live(P), Live(R), NoLess(P, R),
           NEW T \in PoolState, T.base = P.base, T.quote = R.quote,
           NEW q \in Nat, NEW fee \in BOOLEAN
    PROVE  LET quoteSell(X) == sell_base_input_internal(q, 0, X, fee)
               quoteBuy(X) == buy_quote_input_internal(q, 0, X, fee)
           IN  /\ quoteSell(P).ok /\ quoteSell(R).ok /\ quoteSell(T).ok =>
                     quoteSell(T).internal >= Min({quoteSell(P).internal, quoteSell(R).internal})
               /\ quoteBuy(T).ok => quoteBuy(T).base <= Max({quoteBuy(P).base, quoteBuy(R).base})
<1> DEFINE x == P.base
           y == P.quote
           z == R.base
           w == R.quote
           e == effective_quote(q, fee)
<1>1. x \in Nat \ {0} /\ y \in Nat \ {0} /\ z \in Nat \ {0} /\ w \in Nat \ {0} /\ x * y <= z * w
    BY LiveNat DEF NoLess, Product
<1>2. Live(T) /\ T.base = x /\ T.quote = w
    BY DEF Live, PoolState
<1>3. e \in Nat
    BY EffectiveQuote
<1> HIDE DEF e
<1>4. w >= y \/ z >= x
    <2> HIDE DEF x, y, z, w
    <2> SUFFICES ASSUME w < y, z < x PROVE FALSE
        BY <1>1
    <2>1. z * w < x * w /\ x * w < x * y
        BY <1>1
    <2> QED  BY <1>1, <2>1
<1> DEFINE sP == (y * q) \div (x + q)
           sR == (w * q) \div (z + q)
           sT == (w * q) \div (x + q)
           bP == (x * e) \div (y + e)
           bR == (z * e) \div (w + e)
           bT == (x * e) \div (w + e)
<1>5. sP \in Nat /\ sR \in Nat /\ sT \in Nat /\ bP \in Nat /\ bR \in Nat /\ bT \in Nat
    <2> HIDE DEF x, y, z, w
    <2> QED  BY <1>1, <1>3, ConstantProduct
<1>6. (sT >= sP \/ sT >= sR) /\ (bT <= bP \/ bT <= bR)
    <2> HIDE DEF x, y, z, w
    <2>1. CASE w >= y
        <3>1. sT >= sP
            BY <1>1, <2>1, OutIsMonotone
        <3>2. bP >= bT
            BY <1>1, <1>3, <2>1, OutIsMonotone
        <3> HIDE DEF sT, sP, bT, bP
        <3> QED  BY <1>5, <3>1, <3>2
    <2>2. CASE z >= x
        <3>1. sT >= sR
            BY <1>1, <2>2, OutIsMonotone
        <3>2. bR >= bT
            BY <1>1, <1>3, <2>2, OutIsMonotone
        <3> HIDE DEF sT, sR, bT, bR
        <3> QED  BY <1>5, <3>1, <3>2
    <2> QED  BY <1>4, <2>1, <2>2
<1>7. /\ sell_base_input_internal(q, 0, P, fee).ok => sell_base_input_internal(q, 0, P, fee).internal = sP
      /\ sell_base_input_internal(q, 0, R, fee).ok => sell_base_input_internal(q, 0, R, fee).internal = sR
      /\ sell_base_input_internal(q, 0, T, fee).ok => sell_base_input_internal(q, 0, T, fee).internal = sT
    <2>1. P.base \in Nat \ {0} /\ P.quote \in Nat \ {0} /\ R.base \in Nat \ {0} /\ R.quote \in Nat \ {0}
          /\ T.base \in Nat \ {0} /\ T.quote \in Nat \ {0}
        BY <1>2, LiveNat
    <2>2. sell_base_input_internal(q, 0, P, fee).ok => sell_base_input_internal(q, 0, P, fee).internal = sP
        BY <2>1, PoolSellIs
    <2>3. sell_base_input_internal(q, 0, R, fee).ok => sell_base_input_internal(q, 0, R, fee).internal = sR
        BY <2>1, PoolSellIs
    <2>4. sell_base_input_internal(q, 0, T, fee).ok =>
            sell_base_input_internal(q, 0, T, fee).internal = (T.quote * q) \div (T.base + q)
        BY <2>1, PoolSellIs
    <2> QED  BY <1>2, <2>2, <2>3, <2>4
<1>8. /\ buy_quote_input_internal(q, 0, P, fee).base = bP
      /\ buy_quote_input_internal(q, 0, R, fee).base = bR
      /\ buy_quote_input_internal(q, 0, T, fee).base = bT
    BY <1>2, PoolBuyIs DEF e
<1> HIDE DEF sP, sR, sT, bP, bR, bT
<1>9. sT >= Min({sP, sR}) /\ bT <= Max({bP, bR})
    <2>1. sT >= Min({sP, sR})
        BY <1>5, <1>6, MinIsLess
    <2>2. bT <= Max({bP, bR})
        BY <1>5, <1>6, MaxIsMore
    <2> QED  BY <2>1, <2>2
<1> QED  BY <1>7, <1>8, <1>9

(* from_mint_by_rpc: whatever trades come between its calls, a quote from    *)
(* the reserves get_token_balances reads one after the other is bounded by   *)
(* the quotes of the two real pools, and the pool is a deepest of its side.  *)
THEOREM UsablePoolView == MarketSpec => []PoolViewIsUsable
<1>1. MarketInv => TornReadIsBounded
    <2> SUFFICES ASSUME MarketInv, reader.pc = "done", NEW q \in Quotes
                 PROVE  LET quoteSell(P) == sell_base_input_internal(q, 0, P, has_creator)
                            quoteBuy(P) == buy_quote_input_internal(q, 0, P, has_creator)
                        IN  /\ quoteSell(reader.before).ok /\ quoteSell(reader.after).ok /\ quoteSell(reader.p).ok =>
                                  quoteSell(reader.p).internal >=
                                      Min({quoteSell(reader.before).internal, quoteSell(reader.after).internal})
                            /\ quoteBuy(reader.p).ok =>
                                  quoteBuy(reader.p).base <= Max({quoteBuy(reader.before).base, quoteBuy(reader.after).base})
        BY DEF TornReadIsBounded
    <2>1. BothRead
        BY DEF MarketInv, NothingRead, PoolKnown, BaseRead, Idle
    <2>2. PICK p, side, before, after :
            /\ Live(before) /\ Live(after) /\ NoLess(before, after)
            /\ reader = [pc |-> "done", pool |-> p, side |-> side,
                         p |-> [base |-> before.base, quote |-> after.quote],
                         before |-> before, after |-> after]
        BY <2>1 DEF BothRead
    <2>3. reader.before = before /\ reader.after = after
          /\ reader.p = [base |-> before.base, quote |-> after.quote]
        BY <2>2
    <2>4. q \in Nat /\ has_creator \in BOOLEAN
        BY TradesAssumption DEF MarketInv
    <2>5. reader.p \in PoolState
        BY <2>2, <2>3 DEF Live, PoolState
    <2> QED  BY <2>2, <2>3, <2>4, <2>5, TornRead
<1>2. MarketInv => DeepestPool
    <2> SUFFICES ASSUME MarketInv, "side" \in DOMAIN reader, reader.side # "given", NEW p \in Decodable,
                        p \in BaseSide <=> reader.side = "base"
                 PROVE  LpSupply[p] <= LpSupply[reader.pool]
        BY DEF DeepestPool
    <2>1. ~NothingRead
        BY DEF NothingRead, Idle
    <2>2. Sought(reader.pool, reader.side)
        BY <2>1 DEF MarketInv, PoolKnown, BaseRead, BothRead
    <2> QED  BY <2>2 DEF Sought
<1> QED  BY <1>1, <1>2, MarketInvHolds, PTL DEF PoolViewIsUsable

-----------------------------------------------------------------------------
(* What a curve charges for n tokens: less than a if n * vs < a * (vt - n).  *)
LEMMA CostBound ==
    ASSUME NEW c, CurveInv(c), NEW n \in 0..c.rt, NEW a \in Nat
    PROVE  /\ n * c.vs < a * (c.vt - n) => cost(c, n) <= a
           /\ n * c.vs <= a * (c.vt - n) => cost(c, n) <= a + 1
<1> DEFINE d == c.vt - n
           p == n * c.vs
           k == p \div d
<1>1. c.vs \in Nat \ {0} /\ n \in Nat /\ d \in Nat \ {0}
    BY CurveNat, CostIsPositive
<1> HIDE DEF d
<1>2. p \in Nat
    BY <1>1
<1> HIDE DEF p
<1>3. k \in Nat /\ k * d <= p
    BY <1>1, <1>2, DivBounds
<1> HIDE DEF k
<1>4. cost(c, n) = k + 1
    BY DEF cost, k, p, d
<1>5. ASSUME p < a * d PROVE k < a
    <2>1. k * d < a * d
        BY <1>1, <1>2, <1>3, <1>5
    <2> QED  BY <1>1, <1>3, <2>1
<1>6. ASSUME p <= a * d PROVE k <= a
    <2>1. k * d <= a * d
        BY <1>1, <1>2, <1>3, <1>6
    <2> QED  BY <1>1, <1>3, <2>1
<1>7. (p < a * d => k + 1 <= a) /\ (p <= a * d => k + 1 <= a + 1)
    BY <1>3, <1>5, <1>6
<1> QED  BY <1>4, <1>7 DEF p, d

(* get_buy_price leaves more than the product of the reserves.               *)
LEMMA BuyPriceIs ==
    ASSUME NEW c, CurveInv(c), NEW a \in Nat \ {0}
    PROVE  LET k == (c.vs * c.vt) \div (c.vs + a)
           IN  /\ k \in Nat /\ k < c.vt /\ c.vs * c.vt < (k + 1) * (c.vs + a) /\ k * (c.vs + a) <= c.vs * c.vt
               /\ get_buy_price(c, a) = Min({c.vt - (k + 1), c.rt})
<1> DEFINE x == c.vt
           y == c.vs
           t == y + a
           k == (y * x) \div t
<1>1. x \in Nat \ {0} /\ y \in Nat \ {0} /\ x < U64 /\ U64 \in Nat \ {0}
    BY CurveNat
<1> HIDE DEF x, y
<1>2. t \in Nat \ {0} /\ y * x \in Nat /\ x * t = y * x + x * a /\ x * a \in Nat \ {0}
    BY <1>1
<1> HIDE DEF t
<1>3. k \in Nat /\ k * t <= y * x /\ y * x < k * t + t
    BY <1>2, DivBounds
<1> HIDE DEF k
<1>4. (k + 1) * t = k * t + t /\ k * t < x * t
    BY <1>1, <1>2, <1>3
<1>5. k < x
    BY <1>1, <1>2, <1>3, <1>4
<1> DEFINE z == x - (k + 1)
<1>6. z \in Nat /\ z < U64
    BY <1>1, <1>3, <1>5
<1> HIDE DEF z
<1>7. z % U64 = z
    BY <1>1, <1>6, ModSame
<1>8. get_buy_price(c, a) = Min({z % U64, c.rt})
    BY DEF get_buy_price, z, k, t, x, y
<1>9. get_buy_price(c, a) = Min({z, c.rt})
    BY <1>7, <1>8
<1> QED  BY <1>3, <1>4, <1>5, <1>9 DEF z, k, t, x, y

LEMMA MinOfTwoLeft ==
    ASSUME NEW a \in Nat, NEW b \in Nat PROVE Min({a, b}) <= a
BY DEF Min

LEMMA CurveRoundTrip ==
    ASSUME NEW c, CurveInv(c), NEW a \in Nat \ {0}, NEW fee \in BOOLEAN,
           get_buy_price(c, a) \in 1..c.rt
    PROVE  get_sell_sol_amount_from_token_amount(AfterBuy(c, get_buy_price(c, a)), fee, get_buy_price(c, a)) <= a
<1> DEFINE n == get_buy_price(c, a)
           k == (c.vs * c.vt) \div (c.vs + a)
           x == c.vt
           y == c.vs
           C == AfterBuy(c, n)
           p == cost(c, n)
           s == (n * (y + p)) \div x
<1>1. x \in Nat \ {0} /\ y \in Nat \ {0} /\ c.rt \in Nat /\ c.rt < x
    BY CurveNat
<1>2. k \in Nat /\ k < x /\ y * x < (k + 1) * (y + a) /\ n = Min({x - (k + 1), c.rt})
    BY BuyPriceIs
<1>3. n \in Nat \ {0} /\ n <= c.rt /\ n \in 0..c.rt /\ n < x
    BY <1>1
<1> HIDE DEF n, k, x, y
<1>4. n <= x - (k + 1)
    <2>1. x - (k + 1) \in Nat
        BY <1>1, <1>2
    <2> QED  BY <1>1, <1>2, <2>1, MinOfTwoLeft
<1>5. n * y < a * (x - n)
    <2> DEFINE d == x - n
    <2>1. d \in Nat /\ d >= k + 1 /\ x = d + n
        BY <1>1, <1>2, <1>3, <1>4
    <2> HIDE DEF d
    <2>2. (k + 1) * (y + a) <= d * (y + a)
        BY <1>1, <1>2, <2>1
    <2>3. y * x < d * (y + a)
        BY <1>1, <1>2, <2>1, <2>2
    <2>4. y * x = d * y + n * y /\ d * (y + a) = d * y + a * d
        BY <1>1, <1>3, <2>1
    <2>5. d * y \in Nat /\ n * y \in Nat /\ a * d \in Nat
        BY <1>1, <1>3, <2>1
    <2>6. n * y < a * d
        BY <2>3, <2>4, <2>5
    <2> QED  BY <2>6 DEF d
<1>6. p \in Nat /\ p <= a
    <2>1. n * c.vs < a * (c.vt - n)
        BY <1>5 DEF x, y
    <2> QED  BY <1>3, <2>1, CostBound, CostIsPositive
<1>7. C.vt = x - n /\ C.vs = y + p
    BY DEF AfterBuy, x, y
<1>8. sol_cost(C, n) = s
    <2>1. x - n + n = x
        BY <1>1, <1>3
    <2> QED  BY <1>7, <2>1 DEF sol_cost
<1> HIDE DEF p, C
<1>9. s \in Nat /\ s <= a
    <2> DEFINE u == n * (y + p)
    <2>1. u \in Nat /\ u <= n * y + n * a /\ n * y \in Nat /\ n * a \in Nat
        <3>1. n * (y + p) = n * y + n * p /\ n * p <= n * a
            BY <1>1, <1>3, <1>6
        <3>2. n * y \in Nat /\ n * a \in Nat /\ n * p \in Nat
            BY <1>1, <1>3, <1>6
        <3> QED  BY <3>1, <3>2
    <2>2. a * (x - n) = a * x - n * a
        BY <1>1, <1>3
    <2> HIDE DEF u
    <2>3. u <= a * x
        <3>1. a * x \in Nat
            BY <1>1
        <3> QED  BY <1>5, <2>1, <2>2, <3>1
    <2>4. s \in Nat /\ s * x <= u
        BY <1>1, <2>1, DivBounds DEF u
    <2> HIDE DEF s
    <2>5. s * x <= a * x
        BY <1>1, <2>1, <2>3, <2>4
    <2> QED  BY <1>1, <2>4, <2>5
<1> HIDE DEF s
<1>10. compute_fee(s, pumpfun_fee(fee)) \in Nat
    BY <1>9, FeesAreNat, FeeIsNat
<1> DEFINE f == compute_fee(s, pumpfun_fee(fee))
<1>11. get_sell_sol_amount_from_token_amount(C, fee, n) = Max({s - f, 0})
    <2>1. n # 0 /\ C.vt # 0
        BY <1>1, <1>3, <1>7
    <2> QED  BY <1>8, <2>1 DEF get_sell_sol_amount_from_token_amount
<1> HIDE DEF f
<1>12. Max({s - f, 0}) \in 0..a
    BY <1>9, <1>10, MaxWithZero DEF f
<1>13. Max({s - f, 0}) <= a
    BY <1>12
<1> QED  BY <1>11, <1>13 DEF C, n

LEMMA CeilBounds ==
    ASSUME NEW a \in Nat, NEW b \in Nat \ {0}
    PROVE  /\ ceil_div(a, b) \in Nat /\ a <= ceil_div(a, b) * b /\ ceil_div(a, b) * b <= a + b - 1
           /\ \A n \in Nat : a <= n * b => ceil_div(a, b) <= n
<1> DEFINE u == a + b - 1
           c == u \div b
<1>1. u \in Nat
    OBVIOUS
<1>2. ceil_div(a, b) = c
    BY DEF ceil_div
<1>3. c \in Nat /\ c * b <= u /\ u < c * b + b
    BY <1>1, DivBounds
<1> HIDE DEF c
<1>4. a <= c * b /\ c * b <= a + b - 1
    BY <1>3
<1>5. ASSUME NEW n \in Nat, a <= n * b PROVE c <= n
    <2>1. c * b < n * b + b /\ n * b + b = (n + 1) * b
        BY <1>3, <1>4, <1>5
    <2>2. c < n + 1
        BY <1>3, <2>1
    <2> QED  BY <1>3, <2>2
<1> QED  BY <1>2, <1>3, <1>4, <1>5

LEMMA FeeBound ==
    ASSUME NEW n \in Nat, NEW bp \in Nat
    PROVE  compute_fee(n, bp) \in Nat /\ compute_fee(n, bp) * 10000 <= n * bp + 9999
<1> DEFINE p == n * bp
<1>1. p \in Nat
    OBVIOUS
<1>2. compute_fee(n, bp) = ceil_div(p, 10000)
    BY DEF compute_fee, MAX_FEE_BASIS_POINTS
<1> HIDE DEF p
<1>3. ceil_div(p, 10000) \in Nat /\ ceil_div(p, 10000) * 10000 <= p + 10000 - 1
    BY <1>1, CeilBounds
<1>4. p + 10000 - 1 = p + 9999
    BY <1>1
<1> QED  BY <1>2, <1>3, <1>4 DEF p

(* The LP fee of a buy fits in what the buyer pays above the internal amount. *)
LEMMA KeptFee ==
    ASSUME NEW e \in Nat, NEW q \in Nat, NEW f \in Nat, NEW lp \in Nat, NEW total \in Nat, lp <= total,
           e * (10000 + total) <= q * 10000, f * 10000 <= e * lp + 9999
    PROVE  e + f <= q
<1>1. e * (10000 + total) = e * 10000 + e * total
    OBVIOUS
<1>2. e * lp <= e * total /\ e * lp \in Nat /\ e * total \in Nat
    BY TimesMono
<1> QED  BY <1>1, <1>2

(* What a sale gets of a pool of x and y that has taken e and the fee f for g *)
(* of x: without a fee no more than e, with one less than both.               *)
LEMMA SaleBack ==
    ASSUME NEW x \in Nat \ {0}, NEW y \in Nat, NEW e \in Nat, NEW f \in Nat, NEW g \in Nat,
           g < x, g * (y + e) <= x * e
    PROVE  /\ ((y + e + f) * g) \div x \in Nat
           /\ ((y + e + f) * g) \div x <= e + f
           /\ f > 0 => ((y + e + f) * g) \div x < e + f
<1> DEFINE u == (y + e + f) * g
           out == u \div x
<1>1. u = g * (y + e) + g * f /\ g * (y + e) \in Nat /\ g * f \in Nat /\ x * e \in Nat /\ x * f \in Nat
    OBVIOUS
<1>2. g * f <= x * f /\ (f > 0 => g * f < x * f)
    <2>1. (x - g) * f = x * f - g * f /\ x - g \in Nat \ {0}
        OBVIOUS
    <2>2. (x - g) * f \in Nat /\ (f > 0 => (x - g) * f > 0)
        BY <2>1
    <2> QED  BY <1>1, <2>1, <2>2
<1>3. u \in Nat /\ out \in Nat /\ out * x <= u
    BY <1>1, DivBounds
<1> HIDE DEF u, out
<1>4. (e + f) * x = x * e + x * f
    OBVIOUS
<1>5. out * x <= (e + f) * x /\ (f > 0 => out * x < (e + f) * x)
    BY <1>1, <1>2, <1>3, <1>4
<1>6. out <= e + f /\ (f > 0 => out < e + f)
    BY <1>3, <1>5
<1> QED  BY <1>3, <1>6 DEF out, u

(* A sale to the pool that a buy has left: of the fee that stayed in it the   *)
(* seller gets part back, which is less than was paid.                       *)
LEMMA PoolRoundTrip ==
    ASSUME NEW P, Live(P), NEW q \in Nat \ {0}, NEW fee \in BOOLEAN
    PROVE  LET r == buy_quote_input_internal(q, 0, P, fee)
               s == sell_base_input_internal(r.base, 0, PoolAfterBuy(P, r), fee)
           IN  s.ok => s.ui_quote < q
<1> DEFINE x == P.base
           y == P.quote
           e == effective_quote(q, fee)
           f == compute_fee(e, LP_FEE_BASIS_POINTS)
           g == (x * e) \div (y + e)
           r == buy_quote_input_internal(q, 0, P, fee)
           A == PoolAfterBuy(P, r)
           s == sell_base_input_internal(r.base, 0, A, fee)
           out == ((y + e + f) * g) \div x
<1>1. /\ x \in Nat \ {0} /\ y \in Nat \ {0} /\ e \in Nat /\ e < q
      /\ e * (10000 + total_fee_bps(fee)) <= q * 10000
    <2>1. x \in Nat \ {0} /\ y \in Nat \ {0}
        BY LiveNat
    <2> HIDE DEF x, y
    <2>2. e \in Nat /\ e < q /\ e * (10000 + total_fee_bps(fee)) <= q * 10000
        BY EffectiveQuote
    <2> QED  BY <2>1, <2>2
<1> HIDE DEF x, y, e
<1>2. f \in Nat /\ f * 10000 <= e * LP_FEE_BASIS_POINTS + 9999
    <2>1. LP_FEE_BASIS_POINTS \in Nat /\ e \in Nat
        BY <1>1, FeesAreNat
    <2> QED  BY <2>1, FeeBound
<1> HIDE DEF f
<1>3. e + f <= q
    <2>1. /\ LP_FEE_BASIS_POINTS \in Nat /\ total_fee_bps(fee) \in Nat
          /\ LP_FEE_BASIS_POINTS <= total_fee_bps(fee)
        BY FeesAreNat DEF total_fee_bps
    <2> QED  BY <1>1, <1>2, <2>1, KeptFee
<1>4. g \in Nat /\ g < x /\ g * (y + e) <= x * e
    <2>1. x \in Nat \ {0} /\ y \in Nat \ {0} /\ e \in Nat
        BY <1>1
    <2> QED  BY <2>1, ConstantProduct
<1>5. r.base = g /\ r.internal = e
    BY PoolBuyIs DEF g, x, y, e
<1> HIDE DEF g, r
<1>6. A.base = x - g /\ A.quote = y + e + f
    BY <1>5 DEF PoolAfterBuy, x, y, f
<1> HIDE DEF A
<1>7. A.base \in Nat \ {0} /\ A.quote \in Nat \ {0} /\ A.base + g = x
    BY <1>1, <1>2, <1>4, <1>6
<1>8. s.ok => s.ui_quote = out - pumpswap_fees(out, fee)
    <2>1. A.quote = y + e + f /\ A.base + g = x
        BY <1>6, <1>7
    <2>2. LET o == (A.quote * g) \div (A.base + g) IN s.ok => s.ui_quote = o - pumpswap_fees(o, fee)
        BY <1>4, <1>5, <1>7, PoolSellIs
    <2>3. (A.quote * g) \div (A.base + g) = out
        BY <2>1
    <2> HIDE DEF s, out
    <2> QED  BY <2>2, <2>3
<1>9. out \in Nat /\ out < q
    <2>1. x \in Nat \ {0} /\ y \in Nat /\ e \in Nat /\ f \in Nat /\ q \in Nat /\ e < q
        BY <1>1, <1>2
    <2>2. out \in Nat /\ out <= e + f /\ (f > 0 => out < e + f)
        BY <1>4, <2>1, SaleBack
    <2> HIDE DEF out
    <2> QED  BY <1>3, <2>1, <2>2
<1> HIDE DEF out
<1>10. pumpswap_fees(out, fee) \in Nat
    BY <1>9, PoolFees
<1>11. out - pumpswap_fees(out, fee) < q
    BY <1>1, <1>9, <1>10
<1> QED  BY <1>8, <1>11 DEF r, A

(* Selling at once what get_buy_price or buy_quote_input_internal gives      *)
(* never pays more than was spent, on any reserves trades can bring about.   *)
THEOREM RoundTripsDoNotPay == MarketSpec => []NoRoundTripGain
<1>1. MarketInv => NoRoundTripGain
    <2> SUFFICES ASSUME MarketInv PROVE NoRoundTripGain
        OBVIOUS
    <2>1. CurveInv(curve) /\ has_creator \in BOOLEAN /\ \A P \in Range(pool) : Live(P)
        BY DEF MarketInv, Range
    <2>2. ASSUME NEW q \in Quotes
          PROVE  q \in Nat \ {0}
        BY TradesAssumption
    <2>3. ASSUME NEW q \in Quotes, get_buy_price(curve, q) \in 1..curve.rt
          PROVE  get_sell_sol_amount_from_token_amount(
                     AfterBuy(curve, get_buy_price(curve, q)), has_creator, get_buy_price(curve, q)) <= q
        BY <2>1, <2>2, <2>3, CurveRoundTrip
    <2>4. ASSUME NEW q \in Quotes, NEW P \in Range(pool)
          PROVE  LET r == buy_quote_input_internal(q, 0, P, has_creator)
                     s == sell_base_input_internal(r.base, 0, PoolAfterBuy(P, r), has_creator)
                 IN  s.ok => s.ui_quote < q
        BY <2>1, <2>2, <2>4, PoolRoundTrip
    <2> QED  BY <2>3, <2>4 DEF NoRoundTripGain
<1> QED  BY <1>1, MarketInvHolds, PTL

(* What get_buy_token_amount_from_sol_amount quotes from a view (from_trade, *)
(* from_dev_trade) is there and affordable while the curve is no dearer than *)
(* when the view was made, however many trades came between.                 *)
THEOREM CheaperQuotesHold == MarketSpec => []QuoteHoldsWhileCheaper
<1>1. MarketInv => QuoteHoldsWhileCheaper
    <2> SUFFICES ASSUME MarketInv, view # NoView, InitCurve.vs + view.max < U64, NEW q \in Quotes,
                        curve.vt >= view.at.vt, curve.vs <= view.at.vs
                 PROVE  LET n == curve_tokens(view.c, has_creator, q)
                        IN  n <= curve.rt /\ cost(curve, n) <= input_amount(has_creator, q) + 1
        BY DEF QuoteHoldsWhileCheaper
    <2> DEFINE a == input_amount(has_creator, q)
               x == view.c.vt
               y == view.c.vs
               g == (a * x) \div (y + a)
               n == curve_tokens(view.c, has_creator, q)
    <2>1. /\ CurveInv(curve) /\ CurveInv(view.at) /\ x = view.at.vt /\ view.c.rt = view.at.rt
          /\ y >= view.at.vs /\ view.c \in CurveState
        BY DEF MarketInv, ViewInv
    <2>2. /\ x \in Nat \ {0} /\ y \in Nat \ {0} /\ view.c.rt \in Nat /\ view.c.rt < x
          /\ curve.vt \in Nat \ {0} /\ curve.vs \in Nat \ {0} /\ curve.rt \in Nat
          /\ view.c.rt <= curve.rt /\ curve.vs <= y /\ curve.vt >= x
        <3>1. /\ view.at.vt \in Nat \ {0} /\ view.at.vs \in Nat \ {0} /\ view.at.rt \in Nat /\ view.at.rt < view.at.vt
              /\ curve.vt \in Nat \ {0} /\ curve.vs \in Nat \ {0} /\ curve.rt \in Nat
            BY <2>1, CurveNat
        <3>2. curve.vt - curve.rt = view.at.vt - view.at.rt
            BY <2>1 DEF CurveInv
        <3>3. y \in Nat
            BY <2>1, U64Assumption DEF CurveState, Reserve
        <3> QED  BY <2>1, <3>1, <3>2, <3>3
    <2>3. a \in Nat
        <3>1. q \in Nat /\ pumpfun_fee(has_creator) \in Nat
            BY TradesAssumption, FeesAreNat
        <3>2. q * 10000 \in Nat /\ pumpfun_fee(has_creator) + 10000 \in Nat \ {0}
            BY <3>1
        <3> QED  BY <3>2, DivBounds DEF input_amount, MAX_FEE_BASIS_POINTS
    <2>4. n = Min({g, view.c.rt})
        BY DEF curve_tokens
    <2> HIDE DEF a, x, y, n
    <2>5. g \in Nat /\ g < x /\ y * g <= a * (x - g)
        <3>1. a * x = x * a
            BY <2>2, <2>3
        <3> QED  BY <2>2, <2>3, <3>1, ConstantProduct
    <2> HIDE DEF g
    <2>6. n \in Nat /\ n <= g /\ n <= view.c.rt
        BY <2>2, <2>4, <2>5, MinOfTwo, MinOfTwoLeft
    <2>7. n <= curve.rt /\ n \in 0..curve.rt
        BY <2>2, <2>6
    <2>8. n * curve.vs <= a * (curve.vt - n)
        <3>1. n * curve.vs <= g * y
            BY <2>2, <2>5, <2>6, TimesMono
        <3>2. g * y = y * g
            BY <2>2, <2>5
        <3>3. a * (x - g) <= a * (curve.vt - n)
            <4>1. x - g \in Nat /\ curve.vt - n \in Nat /\ x - g <= curve.vt - n
                BY <2>2, <2>5, <2>6
            <4> QED  BY <2>3, <4>1, TimesMono
        <3>4. n * curve.vs \in Int /\ y * g \in Int /\ a * (x - g) \in Int /\ a * (curve.vt - n) \in Int
            BY <2>2, <2>3, <2>5, <2>6
        <3> QED  BY <2>5, <3>1, <3>2, <3>3, <3>4
    <2>9. cost(curve, n) <= a + 1
        BY <2>1, <2>3, <2>7, <2>8, CostBound
    <2> QED  BY <2>7, <2>9 DEF a, n
<1> QED  BY <1>1, MarketInvHolds, PTL

-----------------------------------------------------------------------------
(* The formulas against their references, on live pools and curves.          *)
LEMMA MaxIs ==
    ASSUME NEW S, S \subseteq Int, NEW m \in S, \A n \in S : n <= m
    PROVE  Max(S) = m
<1>1. \A n \in S : m >= n
    OBVIOUS
<1>2. \A n \in S : (\A k \in S : n >= k) => n = m
    OBVIOUS
<1> QED  BY <1>1, <1>2 DEF Max

LEMMA QuotesAreTight ==
    ASSUME NEW P, Live(P), NEW q \in Nat, NEW fee \in BOOLEAN
    PROVE  LET r == buy_quote_input_internal(q, 0, P, fee)
           IN  /\ r.base = Max({b \in 0..P.base : (P.base - b) * (P.quote + r.internal) >= P.base * P.quote})
               /\ r.internal = Max({e \in 0..q : e * (MAX_FEE_BASIS_POINTS + total_fee_bps(fee))
                                                    <= q * MAX_FEE_BASIS_POINTS})
<1> DEFINE x == P.base
           y == P.quote
           e == effective_quote(q, fee)
           g == (x * e) \div (y + e)
           t == 10000 + total_fee_bps(fee)
           S == {b \in 0..x : (x - b) * (y + e) >= x * y}
           E == {n \in 0..q : n * t <= q * 10000}
<1>0. x \in Nat \ {0} /\ y \in Nat \ {0} /\ e \in Nat
    BY LiveNat, EffectiveQuote
<1>1. x \in Nat \ {0} /\ y \in Nat \ {0} /\ e \in Nat /\ e <= q /\ e * t <= q * 10000 /\ q * 10000 < (e + 1) * t
    BY <1>0, EffectiveQuote
<1>2. t \in Nat \ {0}
    BY FeesAreNat
<1>3. buy_quote_input_internal(q, 0, P, fee).base = g /\ buy_quote_input_internal(q, 0, P, fee).internal = e
    BY PoolBuyIs
<1> HIDE DEF x, y, e, t
<1>4. g \in Nat /\ g < x /\ x * e < g * (y + e) + (y + e) /\ (x - g) * (y + e) >= x * y
    BY <1>0, ConstantProduct
<1> HIDE DEF g
<1>5. g \in S
    BY <1>1, <1>4
<1>6. ASSUME NEW b \in S PROVE b <= g
    <2> DEFINE u == y + e
    <2>1. b \in Nat /\ u \in Nat \ {0} /\ (x - b) * u >= x * y /\ x * u = x * y + x * e
        BY <1>1
    <2> HIDE DEF u
    <2>2. (x - b) * u = x * u - b * u
        BY <1>1, <2>1
    <2>3. b * u \in Nat /\ x * y \in Nat /\ x * e \in Nat /\ g * u \in Nat
        BY <1>1, <1>4, <2>1
    <2>4. b * u <= x * e
        BY <2>1, <2>2, <2>3
    <2>5. x * e < g * u + u /\ g * u + u = (g + 1) * u
        BY <1>4, <2>1 DEF u
    <2>6. b * u < (g + 1) * u
        BY <1>4, <2>1, <2>3, <2>4, <2>5
    <2>7. b < g + 1
        BY <1>4, <2>1, <2>6
    <2> QED  BY <1>4, <2>1, <2>7
<1>7. Max(S) = g
    <2>1. S \subseteq Int
        OBVIOUS
    <2> HIDE DEF S
    <2> QED  BY <1>5, <1>6, <2>1, MaxIs
<1>8. e \in E
    BY <1>1
<1>9. ASSUME NEW n \in E PROVE n <= e
    <2>1. n \in Nat /\ n * t <= q * 10000
        OBVIOUS
    <2>2. n * t < (e + 1) * t
        BY <1>1, <1>2, <2>1
    <2>3. n < e + 1
        BY <1>1, <1>2, <2>1, <2>2
    <2> QED  BY <1>1, <2>1, <2>3
<1>10. Max(E) = e
    <2>1. E \subseteq Int
        OBVIOUS
    <2> HIDE DEF E
    <2> QED  BY <1>8, <1>9, <2>1, MaxIs
<1> QED  BY <1>3, <1>7, <1>10 DEF x, y, t, MAX_FEE_BASIS_POINTS

Rounded(fee) == IF fee THEN 3 ELSE 2

LEMMA PoolFeesBound ==
    ASSUME NEW n \in Nat, NEW fee \in BOOLEAN
    PROVE  pumpswap_fees(n, fee) * 10000 <= n * total_fee_bps(fee) + 9999 * Rounded(fee)
<1> DEFINE b1 == LP_FEE_BASIS_POINTS
           b2 == PROTOCOL_FEE_BASIS_POINTS
           b3 == COIN_CREATOR_FEE_BASIS_POINTS
           f1 == compute_fee(n, b1)
           f2 == compute_fee(n, b2)
           f3 == compute_fee(n, b3)
<1>1. b1 \in Nat /\ b2 \in Nat /\ b3 \in Nat
    BY FeesAreNat
<1>2. f1 \in Nat /\ f1 * 10000 <= n * b1 + 9999
    BY <1>1, FeeBound
<1>3. f2 \in Nat /\ f2 * 10000 <= n * b2 + 9999
    BY <1>1, FeeBound
<1>4. f3 \in Nat /\ f3 * 10000 <= n * b3 + 9999
    BY <1>1, FeeBound
<1>5. /\ pumpswap_fees(n, fee) = f1 + f2 + (IF fee THEN f3 ELSE 0)
      /\ total_fee_bps(fee) = b1 + b2 + (IF fee THEN b3 ELSE 0)
    BY DEF pumpswap_fees, total_fee_bps
<1> HIDE DEF f1, f2, f3, b1, b2, b3
<1>6. CASE fee
    <2>1. n * (b1 + b2 + b3) = n * b1 + n * b2 + n * b3
        BY <1>1
    <2>2. n * b1 \in Nat /\ n * b2 \in Nat /\ n * b3 \in Nat
        BY <1>1
    <2>3. (f1 + f2 + f3) * 10000 <= n * (b1 + b2 + b3) + 9999 * 3
        BY <1>2, <1>3, <1>4, <2>1, <2>2
    <2> QED  BY <1>5, <1>6, <2>3 DEF Rounded
<1>7. CASE ~fee
    <2>1. n * (b1 + b2 + 0) = n * b1 + n * b2
        BY <1>1
    <2>2. n * b1 \in Nat /\ n * b2 \in Nat
        BY <1>1
    <2>3. (f1 + f2 + 0) * 10000 <= n * (b1 + b2 + 0) + 9999 * 2
        BY <1>2, <1>3, <2>1, <2>2
    <2> QED  BY <1>5, <1>7, <2>3 DEF Rounded
<1> QED  BY <1>6, <1>7

LEMMA RegularBuy ==
    ASSUME NEW P, Live(P), NEW q \in Nat, NEW fee \in BOOLEAN
    PROVE  LET r == buy_quote_input_internal(q, 0, P, fee)
               b == buy_base_input_internal(r.base, 0, P, fee)
           IN  b.ok /\ b.internal <= r.internal /\ b.ui_quote <= q + Rounded(fee)
<1> DEFINE x == P.base
           y == P.quote
           e == effective_quote(q, fee)
           g == (x * e) \div (y + e)
           f == total_fee_bps(fee)
           c == ceil_div(y * g, x - g)
           i == c % U64
           w == i + pumpswap_fees(i, fee)
           b == buy_base_input_internal(g, 0, P, fee)
<1>0. x \in Nat \ {0} /\ y \in Nat \ {0} /\ e \in Nat
    BY LiveNat, EffectiveQuote
<1>1. e * (10000 + f) <= q * 10000 /\ f \in Nat /\ U64 \in Nat \ {0}
    <2>1. e * (10000 + f) <= q * 10000
        BY EffectiveQuote
    <2>2. f \in Nat
        BY FeesAreNat
    <2> QED  BY <2>1, <2>2, U64Assumption
<1>2. buy_quote_input_internal(q, 0, P, fee).base = g /\ buy_quote_input_internal(q, 0, P, fee).internal = e
    BY PoolBuyIs
<1> HIDE DEF e
<1>3. g \in Nat /\ g < x /\ y * g <= e * (x - g)
    <2> HIDE DEF x, y
    <2> QED  BY <1>0, ConstantProduct
<1> HIDE DEF g
<1>4. b.ok /\ b.internal = i /\ b.ui_quote = w % U64
    <2>1. ~Drained(P) /\ ~(g >= P.base)
        BY <1>0, <1>1, <1>3, LiveNat
    <2> HIDE DEF i
    <2>2. buy_base_input_internal(g, 0, P, fee) =
            [ok |-> TRUE, internal |-> i, ui_quote |-> w % U64,
             max_quote |-> calculate_with_slippage_buy(w % U64, 0)]
        BY <2>1 DEF buy_base_input_internal, i
    <2> QED  BY <2>2
<1> HIDE DEF x, y, f, b
<1>5. c \in Nat /\ c <= e
    <2> DEFINE d == x - g
               v == y * g
    <2>1. d \in Nat \ {0} /\ v \in Nat /\ v <= e * d
        BY <1>0, <1>1, <1>3
    <2> HIDE DEF d, v
    <2>2. ceil_div(v, d) \in Nat /\ ceil_div(v, d) <= e
        BY <1>0, <1>1, <2>1, CeilBounds
    <2> QED  BY <2>2 DEF d, v
<1> HIDE DEF c
<1>6. i \in Nat /\ i <= e
    <2>1. c % U64 \in Nat /\ c % U64 <= c
        BY <1>0, <1>1, <1>5
    <2> HIDE DEF i
    <2> QED  BY <1>0, <1>1, <1>5, <2>1 DEF i
<1> HIDE DEF i
<1>7. pumpswap_fees(i, fee) \in Nat /\ pumpswap_fees(i, fee) * 10000 <= i * f + 9999 * Rounded(fee)
    BY <1>6, PoolFees, PoolFeesBound DEF f
<1>8. Rounded(fee) \in Nat
    BY DEF Rounded
<1>9. w \in Nat /\ w <= q + Rounded(fee)
    <2>1. i * (10000 + f) <= e * (10000 + f) /\ i * (10000 + f) = i * 10000 + i * f
        BY <1>0, <1>1, <1>6
    <2>2. i * f \in Nat /\ e * (10000 + f) \in Nat
        BY <1>0, <1>1, <1>6
    <2> DEFINE h == pumpswap_fees(i, fee)
               k == Rounded(fee)
    <2>3. h \in Nat /\ h * 10000 <= i * f + 9999 * k /\ k \in Nat
        BY <1>7, <1>8
    <2> HIDE DEF h, k
    <2>4. (i + h) * 10000 <= q * 10000 + 9999 * k
        BY <1>0, <1>1, <1>6, <2>1, <2>2, <2>3
    <2>5. i + h <= q + k
        BY <1>6, <2>3, <2>4
    <2> QED  BY <1>6, <2>3, <2>5 DEF h, k
<1> HIDE DEF w
<1>10. w % U64 <= w /\ w % U64 \in Nat
    BY <1>0, <1>1, <1>9
<1>11. w % U64 <= q + Rounded(fee)
    BY <1>8, <1>9, <1>10
<1> QED  BY <1>2, <1>4, <1>6, <1>11 DEF b

LEMMA SellQuote ==
    ASSUME NEW P, Live(P), NEW q \in Nat, NEW fee \in BOOLEAN,
           LET r == sell_quote_input_internal(q, 0, P, fee)
           IN  /\ r.ok
               /\ ceil_div(q * MAX_FEE_BASIS_POINTS, MAX_FEE_BASIS_POINTS - total_fee_bps(fee)) < U64
               /\ ceil_div(P.base * r.internal, P.quote - r.internal) < U64
    PROVE  LET r == sell_quote_input_internal(q, 0, P, fee)
               s == sell_base_input_internal(r.base, 0, P, fee)
           IN  s.ok => s.internal >= r.internal /\ s.ui_quote + Rounded(fee) >= q
<1> DEFINE x == P.base
           y == P.quote
           f == total_fee_bps(fee)
           a == q * 10000
           w == 10000 - f
           raw == ceil_div(a, w)
           d == y - raw
           v == x * raw
           base == ceil_div(v, d)
           r == sell_quote_input_internal(q, 0, P, fee)
           s == sell_base_input_internal(base, 0, P, fee)
           out == (y * base) \div (x + base)
<1>1. x \in Nat \ {0} /\ y \in Nat \ {0}
    BY LiveNat
<1>2. f \in Nat /\ w \in Nat \ {0} /\ U64 \in Nat \ {0} /\ a \in Nat
    BY FeesAreNat, PoolFeesAssumption, U64Assumption DEF total_fee_bps, MAX_FEE_BASIS_POINTS
<1> HIDE DEF f, a, w
<1>3. raw \in Nat /\ a <= raw * w
    BY <1>2, CeilBounds
<1>4. raw < U64 /\ calculate_quote_amount_out(q, fee) = raw % U64
    BY DEF calculate_quote_amount_out, MAX_FEE_BASIS_POINTS, a, f, w
<1> HIDE DEF raw
<1>5. calculate_quote_amount_out(q, fee) = raw
    BY <1>2, <1>3, <1>4, ModSame
<1>6. raw < y /\ r = [ok |-> TRUE, internal |-> raw, base |-> base % U64,
                       min_quote |-> calculate_with_slippage_sell(q, 0)]
    <2>1. r.ok
        OBVIOUS
    <2>2. r = IF Drained(P) \/ q > y \/ raw >= y
              THEN Err
              ELSE [ok |-> TRUE, internal |-> raw, base |-> base % U64,
                    min_quote |-> calculate_with_slippage_sell(q, 0)]
        BY <1>5 DEF sell_quote_input_internal
    <2> HIDE DEF r
    <2>3. ~(raw >= y) /\ r = [ok |-> TRUE, internal |-> raw, base |-> base % U64,
                              min_quote |-> calculate_with_slippage_sell(q, 0)]
        BY <2>1, <2>2 DEF Err
    <2> HIDE DEF y, base
    <2> QED  BY <1>1, <1>3, <2>3
<1>7. base < U64
    <2>1. r.internal = raw
        BY <1>6
    <2> QED  BY <2>1
<1> HIDE DEF r, x, y
<1>8. d \in Nat \ {0} /\ v \in Nat
    BY <1>1, <1>3, <1>6
<1> HIDE DEF d, v
<1>9. base \in Nat /\ v <= base * d
    BY <1>8, CeilBounds
<1> HIDE DEF base
<1>10. r.internal = raw /\ r.base = base
    <2>1. base % U64 = base
        BY <1>2, <1>7, <1>9, ModSame
    <2> QED  BY <1>6, <2>1
<1>11. s.ok => s.internal = out /\ s.ui_quote = out - pumpswap_fees(out, fee)
    <2>1. P.base \in Nat \ {0} /\ P.quote \in Nat \ {0}
        BY LiveNat
    <2> QED  BY <1>9, <2>1, PoolSellIs DEF x, y
<1>12. out \in Nat /\ out >= raw
    <2> DEFINE u == y * base
               t == x + base
    <2>1. u \in Nat /\ t \in Nat \ {0}
        BY <1>1, <1>9
    <2>2. raw * t <= u
        <3>1. base * d = base * y - base * raw /\ v = x * raw
            BY <1>1, <1>3, <1>9 DEF d, v
        <3>2. raw * t = x * raw + base * raw /\ u = base * y
            BY <1>1, <1>3, <1>9
        <3>3. x * raw \in Nat /\ base * raw \in Nat /\ base * y \in Nat
            BY <1>1, <1>3, <1>9
        <3> QED  BY <1>9, <3>1, <3>2, <3>3
    <2>3. out = u \div t
        OBVIOUS
    <2> HIDE DEF u, t, out
    <2>4. out \in Nat /\ u < out * t + t
        BY <2>1, <2>3, DivBounds
    <2>5. raw * t < (out + 1) * t
        <3>1. (out + 1) * t = out * t + t /\ raw * t \in Nat /\ out * t \in Nat
            BY <1>3, <2>1, <2>4
        <3> QED  BY <2>1, <2>2, <2>4, <3>1
    <2>6. raw < out + 1
        BY <1>3, <2>1, <2>4, <2>5
    <2> QED  BY <1>3, <2>4, <2>6
<1> HIDE DEF out, s
<1>13. out - pumpswap_fees(out, fee) + Rounded(fee) >= q
    <2> DEFINE h == pumpswap_fees(out, fee)
               k == Rounded(fee)
    <2>1. h \in Nat /\ h * 10000 <= out * f + 9999 * k /\ k \in Nat
        BY <1>12, PoolFees, PoolFeesBound DEF Rounded, f
    <2> HIDE DEF h, k
    <2> DEFINE A == raw * w
               B == out * f
    <2>2. A \in Nat /\ A <= out * w
        BY <1>2, <1>3, <1>12
    <2>3. out * w = out * 10000 - B /\ B \in Nat
        BY <1>2, <1>12 DEF w
    <2>4. h * 10000 <= B + 9999 * k /\ a <= A
        BY <1>3, <2>1
    <2> HIDE DEF A, B
    <2>5. q * 10000 <= out * 10000 - B
        BY <1>2, <1>12, <2>2, <2>3, <2>4 DEF a
    <2>6. q * 10000 <= (out - h + k) * 10000
        BY <1>12, <2>1, <2>3, <2>4, <2>5
    <2>7. q <= out - h + k
        BY <1>12, <2>1, <2>6
    <2> QED  BY <1>12, <2>1, <2>7 DEF h, k
<1> QED  BY <1>10, <1>11, <1>12, <1>13 DEF r, s

LEMMA InputAmountNat ==
    ASSUME NEW q \in Nat, NEW fee \in BOOLEAN PROVE input_amount(fee, q) \in Nat
<1>1. pumpfun_fee(fee) \in Nat
    BY FeesAreNat
<1>2. q * 10000 \in Nat /\ pumpfun_fee(fee) + 10000 \in Nat \ {0}
    BY <1>1
<1> QED  BY <1>2, DivBounds DEF input_amount, MAX_FEE_BASIS_POINTS

LEMMA MinAgree ==
    ASSUME NEW m \in Nat, NEW n \in Nat, NEW r \in Nat, m <= n, n <= m + 1
    PROVE  Min({m, r}) <= Min({n, r}) /\ Min({n, r}) <= Min({m, r}) + 1 /\ Min({n, r}) <= r
<1>1. Min({m, r}) = IF m <= r THEN m ELSE r
    BY DEF Min
<1>2. Min({n, r}) = IF n <= r THEN n ELSE r
    BY DEF Min
<1> QED  BY <1>1, <1>2

LEMMA FormulasAgree ==
    ASSUME NEW c, CurveInv(c), NEW q \in Nat, NEW fee \in BOOLEAN, input_amount(fee, q) > 0
    PROVE  LET a == curve_tokens(c, fee, q)
               b == get_buy_price(c, input_amount(fee, q))
           IN  b <= a /\ a <= b + 1 /\ a <= c.rt
<1> DEFINE i == input_amount(fee, q)
           x == c.vt
           y == c.vs
           t == y + i
           k == (y * x) \div t
           g == (i * x) \div t
           m == x - (k + 1)
<1>1. x \in Nat \ {0} /\ y \in Nat \ {0} /\ c.rt \in Nat
    BY CurveNat
<1>2. i \in Nat \ {0}
    BY InputAmountNat
<1>3. curve_tokens(c, fee, q) = Min({g, c.rt})
    BY DEF curve_tokens
<1> HIDE DEF i
<1>4. k \in Nat /\ k < x /\ y * x < (k + 1) * t /\ k * t <= y * x /\ get_buy_price(c, i) = Min({m, c.rt})
    BY <1>2, BuyPriceIs
<1> HIDE DEF x, y, k
<1>5. t \in Nat \ {0} /\ i * x \in Nat /\ x * t = y * x + i * x
    BY <1>1, <1>2
<1> HIDE DEF t
<1>6. g \in Nat /\ g * t <= i * x /\ i * x < g * t + t
    BY <1>5, DivBounds
<1> HIDE DEF g
<1>7. m \in Nat /\ m + 1 = x - k
    BY <1>1, <1>4
<1>8. m * t = x * t - k * t - t /\ (k + 1) * t = k * t + t /\ (g + 1) * t = g * t + t
      /\ (x - k) * t = x * t - k * t
    BY <1>1, <1>4, <1>5, <1>6
<1>9. x * t \in Nat /\ k * t \in Nat /\ g * t \in Nat /\ y * x \in Nat
    BY <1>1, <1>4, <1>5, <1>6
<1>10. m * t < (g + 1) * t
    <2> HIDE DEF m
    <2> QED  BY <1>4, <1>5, <1>6, <1>8, <1>9
<1>11. g * t <= (x - k) * t
    BY <1>4, <1>5, <1>6, <1>8, <1>9
<1>12. m <= g
    <2> HIDE DEF m
    <2>1. m < g + 1
        BY <1>5, <1>6, <1>7, <1>10
    <2> QED  BY <1>6, <1>7, <2>1
<1>13. g <= m + 1
    <2>1. x - k \in Nat
        BY <1>1, <1>4
    <2>2. g <= x - k
        BY <1>5, <1>6, <1>11, <2>1
    <2> QED  BY <1>7, <2>2
<1> HIDE DEF m
<1> QED  BY <1>1, <1>3, <1>4, <1>6, <1>7, <1>12, <1>13, MinAgree DEF i

LEMMA MaxOfTwo ==
    ASSUME NEW a \in Nat, NEW b \in Nat
    PROVE  Max({a, b}) \in {a, b} /\ Max({a, b}) >= a /\ Max({a, b}) >= b
BY DEF Max

LEMMA BuyOut ==
    ASSUME NEW c, CurveInv(c), c.rt > 0, c.rs < c.vt, NEW supply \in Nat
    PROVE  /\ get_buy_out_price(c, c.rt, 0) >= cost(c, c.rt)
           /\ get_final_market_cap_sol(c, supply, 0) >= get_market_cap_sol(c, supply)
<1> DEFINE x == c.vt
           y == c.vs
           n == Max({c.rt, c.rs})
           p == (n * y) \div (x - n)
           o == get_buy_out_price(c, c.rt, 0)
           k == (c.rt * y) \div (x - c.rt)
<1>1. x \in Nat \ {0} /\ y \in Nat \ {0} /\ c.rt \in Nat /\ c.rs \in Nat /\ c.rt < x
    BY CurveNat
<1>2. n \in Nat /\ n >= c.rt /\ n < x
    BY <1>1, MaxOfTwo
<1> HIDE DEF n, x, y
<1>3. /\ n * y \in Nat /\ c.rt * y \in Nat /\ c.rt * y <= n * y
      /\ x - n \in Nat \ {0} /\ x - c.rt \in Nat \ {0} /\ x - n <= x - c.rt
    BY <1>1, <1>2
<1>4. p \in Nat /\ k \in Nat /\ k <= p
    BY <1>3, DivMono, DivBounds
<1>5. cost(c, c.rt) = k + 1
    BY DEF cost, x, y
<1>6. o = (p + 1) + ((p + 1) * 0) \div 10000
    BY DEF get_buy_out_price, MAX_FEE_BASIS_POINTS, n, x, y
<1> HIDE DEF p, k, o
<1>7. o = p + 1 /\ o \in Nat
    <2>1. (p + 1) * 0 = 0 /\ 0 \div 10000 = 0
        BY <1>4
    <2> QED  BY <1>4, <1>6, <2>1
<1>8. o >= cost(c, c.rt)
    BY <1>4, <1>5, <1>7
<1>9. get_final_market_cap_sol(c, supply, 0) >= get_market_cap_sol(c, supply)
    <2>1. x # c.rt /\ x # 0
        BY <1>1
    <2>2. get_final_market_cap_sol(c, supply, 0) = (supply * (y + o)) \div (x - c.rt)
        BY <2>1 DEF get_final_market_cap_sol, x, y, o
    <2>3. get_market_cap_sol(c, supply) = (supply * y) \div x
        BY <2>1 DEF get_market_cap_sol, x, y
    <2> DEFINE u == supply * y
               v == supply * (y + o)
               d == x - c.rt
    <2>4. u \in Nat /\ v \in Nat /\ u <= v /\ d \in Nat \ {0} /\ d <= x
        BY <1>1, <1>7
    <2> HIDE DEF u, v, d
    <2>5. u \div x <= v \div d
        BY <1>1, <2>4, DivMono
    <2>6. u \div x \in Nat /\ v \div d \in Nat
        BY <1>1, <2>4, DivBounds
    <2> QED  BY <2>2, <2>3, <2>5, <2>6 DEF u, v, d
<1> QED  BY <1>8, <1>9 DEF o

LEMMA CurveSellNat ==
    ASSUME NEW c, CurveInv(c), NEW n \in Nat, NEW fee \in BOOLEAN
    PROVE  get_sell_sol_amount_from_token_amount(c, fee, n) \in Nat
<1> DEFINE s == sol_cost(c, n)
           f == compute_fee(s, pumpfun_fee(fee))
<1>1. c.vt \in Nat \ {0} /\ c.vs \in Nat \ {0}
    BY CurveNat
<1>2. n * c.vs \in Nat /\ c.vt + n \in Nat \ {0}
    BY <1>1
<1>3. s \in Nat
    BY <1>2, DivBounds DEF sol_cost
<1> HIDE DEF s
<1>4. f \in Nat
    BY <1>3, FeesAreNat, FeeIsNat
<1>5. get_sell_sol_amount_from_token_amount(c, fee, n) = IF n = 0 \/ c.vt = 0 THEN 0 ELSE Max({s - f, 0})
    BY DEF get_sell_sol_amount_from_token_amount, s
<1> HIDE DEF f
<1>6. s - f \in Int /\ s - f <= s
    BY <1>3, <1>4
<1>7. Max({s - f, 0}) \in 0..s
    BY <1>3, <1>6, MaxWithZero
<1>8. Max({s - f, 0}) \in Nat
    BY <1>3, <1>7
<1> QED  BY <1>5, <1>8

(* The limits while they fit.                                                *)
LEMMA LimitsAre ==
    ASSUME NEW q \in Nat, NEW s \in Nat, q * s < U64, q + (q * s) \div 10000 < U64
    PROVE  /\ (q * s) \div 10000 \in Nat
           /\ calculate_with_slippage_buy(q, s) = q + (q * s) \div 10000
           /\ s < 10000 => /\ q > 0 => (q * s) \div 10000 < q
                           /\ calculate_with_slippage_sell(q, s) = IF q = 0 THEN 1 ELSE q - (q * s) \div 10000
<1> DEFINE p == q * s
           h == p \div 10000
           b == q + h
           r == q - h
<1>1. p \in Nat /\ p < U64 /\ U64 \in Nat \ {0} /\ (s < 10000 /\ q > 0 => p < q * 10000)
    BY U64Assumption
<1>2. p % U64 = p
    BY <1>1, ModSame
<1> HIDE DEF p
<1>3. h \in Nat /\ h * 10000 <= p
    BY <1>1, DivBounds
<1>4. b < U64
    BY DEF p
<1>5. calculate_with_slippage_buy(q, s) = b % U64
    BY <1>2 DEF calculate_with_slippage_buy, MAX_FEE_BASIS_POINTS, p
<1>6. calculate_with_slippage_sell(q, s) = IF q <= s \div 10000 THEN 1 ELSE r % U64
    BY <1>2 DEF calculate_with_slippage_sell, MAX_FEE_BASIS_POINTS, p
<1> HIDE DEF h
<1>7. b \in Nat
    BY <1>3
<1>8. calculate_with_slippage_buy(q, s) = b
    <2> HIDE DEF b
    <2> QED  BY <1>1, <1>4, <1>5, <1>7, ModSame
<1>9. ASSUME s < 10000
      PROVE  /\ q > 0 => h < q
             /\ calculate_with_slippage_sell(q, s) = IF q = 0 THEN 1 ELSE r
    <2>1. s \div 10000 = 0
        BY <1>9
    <2>2. q > 0 => h < q
        BY <1>1, <1>3, <1>9
    <2>3. CASE q = 0
        BY <1>6, <2>1, <2>2, <2>3
    <2>4. CASE q > 0
        <3>1. r \in Nat /\ r < U64
            BY <1>1, <1>3, <1>4, <2>2, <2>4
        <3> HIDE DEF r
        <3>2. r % U64 = r
            BY <1>1, <3>1, ModSame
        <3> QED  BY <1>6, <2>1, <2>2, <2>4, <3>2
    <2> QED  BY <2>3, <2>4
<1> QED  BY <1>3, <1>8, <1>9 DEF h, p

Fits(q, s) == q * s < U64 /\ q + (q * s) \div MAX_FEE_BASIS_POINTS < U64
LimitsOf(q, s) ==
    /\ calculate_with_slippage_buy(q, s) >= q
    /\ s < MAX_FEE_BASIS_POINTS => calculate_with_slippage_sell(q, s) \in 1..Max({q, 1})
NoStricter(q, t, s) ==
    /\ calculate_with_slippage_buy(q, t) <= calculate_with_slippage_buy(q, s)
    /\ s < MAX_FEE_BASIS_POINTS => calculate_with_slippage_sell(q, t) >= calculate_with_slippage_sell(q, s)

LEMMA LimitsAreBounded ==
    ASSUME NEW q \in Nat, NEW s \in Nat, Fits(q, s), NEW t \in Nat, t <= s
    PROVE  LimitsOf(q, s) /\ NoStricter(q, t, s)
<1>0. q * s < U64 /\ q + (q * s) \div 10000 < U64
    BY DEF Fits, MAX_FEE_BASIS_POINTS
<1> DEFINE h == (q * s) \div 10000
           i == (q * t) \div 10000
<1>1. q * t \in Nat /\ q * s \in Nat /\ q * t <= q * s /\ U64 \in Nat
    BY Times, TimesMono, U64Assumption
<1>2. i <= h /\ i \in Nat /\ h \in Nat
    <2> DEFINE u == q * s
               v == q * t
    <2>1. u \in Nat /\ v \in Nat /\ v <= u
        BY <1>1
    <2> HIDE DEF u, v
    <2>2. v \div 10000 <= u \div 10000
        BY <2>1, DivMono
    <2>3. v \div 10000 \in Nat /\ u \div 10000 \in Nat
        BY <2>1, DivBounds
    <2> QED  BY <2>2, <2>3 DEF u, v
<1>3. q * t < U64
    BY <1>0, <1>1
<1>4. q + i < U64
    <2>1. q + h < U64
        BY <1>0
    <2> HIDE DEF h, i
    <2> QED  BY <1>1, <1>2, <2>1
<1>5. /\ calculate_with_slippage_buy(q, s) = q + h
      /\ s < 10000 => /\ q > 0 => h < q
                      /\ calculate_with_slippage_sell(q, s) = IF q = 0 THEN 1 ELSE q - h
    BY <1>0, LimitsAre
<1>6. /\ calculate_with_slippage_buy(q, t) = q + i
      /\ t < 10000 => calculate_with_slippage_sell(q, t) = IF q = 0 THEN 1 ELSE q - i
    BY <1>3, <1>4, LimitsAre
<1> HIDE DEF h, i
<1>7. Max({q, 1}) \in Nat /\ Max({q, 1}) >= q /\ Max({q, 1}) >= 1
    BY MaxOfTwo
<1>8. ASSUME s < 10000 PROVE calculate_with_slippage_sell(q, s) \in 1..Max({q, 1})
    BY <1>2, <1>5, <1>7, <1>8
<1>9. ASSUME s < 10000 PROVE calculate_with_slippage_sell(q, t) >= calculate_with_slippage_sell(q, s)
    BY <1>2, <1>5, <1>6, <1>9
<1>10. q + h >= q /\ q + i <= q + h
    BY <1>2
<1> QED  BY <1>5, <1>6, <1>8, <1>9, <1>10 DEF LimitsOf, NoStricter, MAX_FEE_BASIS_POINTS

(* The formulas of utils/calc and bonding_curve.rs agree with their          *)
(* references and with one another on every reserve trades can bring about.  *)
THEOREM SoundQuotes == MarketSpec => []QuotesAreSound
<1>1. MarketInv => QuotesAreSound
    <2> SUFFICES ASSUME MarketInv PROVE QuotesAreSound
        OBVIOUS
    <2>1. CurveInv(curve) /\ has_creator \in BOOLEAN /\ \A P \in Range(pool) : Live(P)
        BY DEF MarketInv, Range
    <2>2. \A q \in Quotes : q \in Nat \ {0}
        BY TradesAssumption
    <2>3. MarketTypeOK
        <3>1. reader.pc \in {"idle", "by_quote", "fetch", "base", "quote", "done", "failed"}
            BY DEF MarketInv, NothingRead, PoolKnown, BaseRead, BothRead, Idle
        <3>2. view = NoView \/ (view.from \in {"dev_trade", "trade"} /\ view.c \in CurveState)
            BY DEF MarketInv, ViewInv
        <3> QED  BY <2>1, <3>1, <3>2 DEF MarketInv, CurveInv, MarketTypeOK
    <2>4. QuoteIsTight
        BY <2>1, <2>2, QuotesAreTight DEF QuoteIsTight
    <2>5. RegularBuyCost
        BY <2>1, <2>2, RegularBuy DEF RegularBuyCost, Rounded
    <2>6. SellQuotePays
        BY <2>1, <2>2, SellQuote DEF SellQuotePays, Rounded
    <2>7. CurveFormulasAgree
        BY <2>1, <2>2, FormulasAgree DEF CurveFormulasAgree
    <2>8. BuyOutCovers
        <3>1. InitCurve.vt \in Nat
            BY InitCurveInv, CurveNat
        <3> QED  BY <2>1, <3>1, BuyOut DEF BuyOutCovers
    <2>9. SlippageIsBounded
        <3>1. \A x \in Quotes : get_sell_sol_amount_from_token_amount(curve, has_creator, x) \in Nat
            BY <2>1, <2>2, CurveSellNat
        <3>2. Slippages \subseteq Nat
            BY TradesAssumption
        <3>3. \A q \in Nat, s \in Slippages : Fits(q, s) => LimitsOf(q, s) /\ \A t \in Slippages : t <= s => NoStricter(q, t, s)
            <4> SUFFICES ASSUME NEW q \in Nat, NEW s \in Slippages, Fits(q, s)
                         PROVE  LimitsOf(q, s) /\ \A t \in Slippages : t <= s => NoStricter(q, t, s)
                OBVIOUS
            <4>1. s \in Nat /\ s <= s
                BY <3>2
            <4>2. LimitsOf(q, s)
                BY <4>1, LimitsAreBounded
            <4>3. ASSUME NEW t \in Slippages, t <= s PROVE NoStricter(q, t, s)
                BY <3>2, <4>1, <4>3, LimitsAreBounded
            <4> QED  BY <4>2, <4>3
        <3>4. \A q \in Quotes \cup {get_sell_sol_amount_from_token_amount(curve, has_creator, x) : x \in Quotes} :
                q \in Nat
            BY <2>2, <3>1
        <3>5. SlippageIsBounded <=>
                \A q \in Quotes \cup {get_sell_sol_amount_from_token_amount(curve, has_creator, x) : x \in Quotes} :
                    \A s \in {x \in Slippages : Fits(q, x)} :
                        LimitsOf(q, s) /\ \A t \in Slippages : t <= s => NoStricter(q, t, s)
            BY Zenon DEF SlippageIsBounded, Fits, LimitsOf, NoStricter
        <3> QED  BY <3>3, <3>4, <3>5
    <2> QED  BY <2>3, <2>4, <2>5, <2>6, <2>7, <2>8, <2>9 DEF QuotesAreSound
<1> QED  BY <1>1, MarketInvHolds, PTL
=============================================================================
