----------------------------- MODULE MCCustody -----------------------------
(* Custody, the agent wallets and the withdrawals, each a scene of the run: one is      *)
(* chosen at the start and the variables of the others rest.                            *)
(* Requests, sessions and passwords are symmetric. Quotes go by the names of requests   *)
(* and client keys by those of sessions, which no other scene uses with them, so one    *)
(* group of permutations serves all the scenes.                                         *)
EXTENDS Custody, Wallets, Withdrawal, TLC

VARIABLE scene

Symm == Permutations(Requests) \cup Permutations(Sessions) \cup Permutations(Tokens)
           \cup Permutations(Passwords)

MCInit ==
    /\ scene \in {"password", "wallets", "withdrawals"}
    /\ Init /\ WalletsInit /\ WithdrawalInit

PasswordScene ==
    scene = "password" /\ Next /\ UNCHANGED <<scene, walletVars, withdrawalVars>>
WalletScene ==
    scene = "wallets" /\ WalletsNext /\ UNCHANGED <<scene, vars, withdrawalVars>>
WithdrawalScene ==
    scene = "withdrawals" /\ WithdrawalNext /\ UNCHANGED <<scene, vars, walletVars>>

MCNext == PasswordScene \/ WalletScene \/ WithdrawalScene
MCSpec == MCInit /\ [][MCNext]_<<scene, vars, walletVars, withdrawalVars>>
=============================================================================
