------------------------------ MODULE MCWallets ------------------------------
(* Small instances of Wallets for TLC. *)
EXTENDS Wallets

CONSTANTS alice, bob, NGN, USD, EUR

\* A half and three halves: a conversion that rounds, and one that gains.
MCRates == {[num |-> 1, den |-> 2], [num |-> 3, den |-> 2]}

\* A BUY of five halves, for which whole units are paid, and one of two.
MCFraction  == {[num |-> 5, den |-> 2]}
MCPurchases == MCFraction \cup {[num |-> 2, den |-> 1]}

\* A user with a funded NGN wallet and a USD wallet; two rows are free.
MCOpening == [w \in WalletIds |->
    CASE w = 1 -> <<alice, NGN>> [] w = 2 -> <<alice, USD>> [] OTHER -> None]
MCDeposits == [w \in WalletIds |-> CASE w = 1 -> 2 [] w = 2 -> 2 [] OTHER -> 0]

\* Two users with the NGN wallet of the sign-up, one of them funded.
MCSignedUp == [w \in WalletIds |->
    CASE w = 1 -> <<alice, NGN>> [] w = 2 -> <<bob, NGN>> [] OTHER -> None]
MCFunded == [w \in WalletIds |-> IF w = 1 THEN 2 ELSE 0]

=============================================================================
