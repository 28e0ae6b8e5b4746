--------------------------- MODULE SessionBackend ---------------------------
(***************************************************************************)
(* The session service as its clients see it: AuthSession with the pairs   *)
(* of tokens numbered in the order they are minted.  Rotation is one step  *)
(* here: AuthSession shows that a stored refresh token buys at most one    *)
(* successor however the requests interleave (RotationSingleUse).          *)
(***************************************************************************)
EXTENDS Integers

CONSTANT MaxPair      \* bound on the pairs that are ever minted

ASSUME PairAssumption == MaxPair \in Nat

Pair == 1 .. MaxPair
NoPair == 0

VARIABLES
    rows,       \* pairs whose refresh token is stored
    admitted,   \* pairs whose access token JwtStrategy lets in
    minted,     \* how many pairs there are
    root        \* the login each pair descends from; auxiliary

backend == <<rows, admitted, minted, root>>

BackendTypeOK ==
    /\ rows \in SUBSET Pair
    /\ admitted \in SUBSET Pair
    /\ minted \in 0 .. MaxPair
    /\ root \in [Pair -> Pair \cup {NoPair}]

BackendInit ==
    /\ rows = {}
    /\ admitted = {}
    /\ minted = 0
    /\ root = [n \in Pair |-> NoPair]

Latest == minted + 1

Mint(login, kept) ==
    /\ minted < MaxPair
    /\ minted' = Latest
    /\ rows' = kept \cup {Latest}
    /\ admitted' = admitted \cup {Latest}
    /\ root' = [root EXCEPT ![Latest] = login]

Login == Mint(Latest, rows)

\* Mutant of Rotate: the presented token stays in the table.
RotateKeeps(rt) == rt \in rows /\ Mint(root[rt], rows)

Rotate(rt) == rt \in rows /\ Mint(root[rt], rows \ {rt})

\* The handler fails between deleting the old token and storing the new one.
RotateInVain(rt) ==
    /\ rt \in rows
    /\ rows' = rows \ {rt}
    /\ UNCHANGED <<admitted, minted, root>>

Revoke(rt) ==
    /\ rows' = rows \ {rt}
    /\ UNCHANGED <<admitted, minted, root>>

RevokeAll ==
    /\ rows' = {}
    /\ admitted' = {}
    /\ UNCHANGED <<minted, root>>

\* An access token expires.
AgeOut(n) ==
    /\ n \in admitted
    /\ admitted' = admitted \ {n}
    /\ UNCHANGED <<rows, minted, root>>
=============================================================================
