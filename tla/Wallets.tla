------------------------------- MODULE Wallets -------------------------------
(***************************************************************************)
(* The agent wallets: two keys, made once, sealed in the vault, each with  *)
(* an address the operator is told to fund (wallet/service.ts, the secrets *)
(* of wallet/vault.ts, the setup routes).                                  *)
(*                                                                         *)
(* createAgentWallets does not wait, so nothing runs beside it, but every  *)
(* statement commits on its own and the process may die between two: at is *)
(* the statement it has reached.  POST /setup/complete likewise.  A key    *)
(* stands for its own address.                                             *)
(***************************************************************************)
EXTENDS Naturals

CONSTANTS
    Keys,           \* bound on keys made
    NoKey,
    Chains,         \* what the wizard offers
    WalletDeaths    \* bound on restarts

ASSUME WalletConstants == NoKey \notin Keys /\ WalletDeaths \in Nat

Families == {"evm", "solana"}

VARIABLES
    (* vault_secrets; a secret keeps its kind *)
    secrets,
    (* wallets: address and secret_id of a family *)
    wallets,
    (* installation: none, its enabled chains, setup_completed; risk_policy *)
    install, enabled, policy, completed,
    (* the vault is open *)
    open,
    (* createAgentWallets, /setup/complete *)
    at, made, choice,
    walletDeaths,
    (* history: addresses shown, and keys handed out with the address they were for *)
    told, handed

walletRows == <<secrets, wallets>>
setupRows == <<install, enabled, policy, completed>>
handler == <<at, made, choice>>
walletVars == <<walletRows, setupRows, open, handler, walletDeaths, told, handed>>

NoWallet == [address |-> NoKey, secret |-> NoKey]

WalletsInit ==
    /\ secrets = {}
    /\ wallets = [f \in Families |-> NoWallet]
    /\ install = FALSE /\ enabled = {} /\ policy = {} /\ completed = FALSE
    /\ open = FALSE
    /\ at = "idle" /\ made = NoKey /\ choice = {}
    /\ walletDeaths = 0
    /\ told = {} /\ handed = {}

Exists(f) == wallets[f] # NoWallet
\* generateEvmPrivateKey, generateSolanaKeypair: a key nobody had
Spare == Keys \ {s.key : s \in secrets}
NewKey == CHOOSE k \in Spare : TRUE

\* list, as every caller shows it
Shown == {[family |-> f, address |-> wallets[f].address] : f \in {g \in Families : Exists(g)}}

-----------------------------------------------------------------------------
(* The vault opens at a sign-in and locks at a sign-out or by itself, when nothing *)
(* runs; Custody has how.                                                          *)
VaultTurns ==
    /\ at = "idle"
    /\ open' = ~open
    /\ UNCHANGED <<walletRows, setupRows, handler, walletDeaths, told, handed>>

(* POST /setup/wallets with the vault open. *)
CreateAgentWallets ==
    /\ at = "idle" /\ open
    /\ IF \A f \in Families : Exists(f)
          THEN at' = "return"
          ELSE at' = "evm"
    /\ UNCHANGED <<walletRows, setupRows, open, made, choice, walletDeaths, told, handed>>

(* Mutant: a wallet that is there is made again. *)
PutSecretAgain(f) ==
    /\ at = f /\ Spare # {}
    /\ secrets' = secrets \cup {[key |-> NewKey, kind |-> f]}
    /\ made' = NewKey /\ at' = "insert"
    /\ UNCHANGED <<wallets, setupRows, open, choice, walletDeaths, told, handed>>

(* A family that has no wallet gets a key, and putSecret seals it ... *)
PutSecret(f) ==
    /\ at = f /\ ~Exists(f) /\ Spare # {}
    /\ secrets' = secrets \cup {[key |-> NewKey, kind |-> f]}
    /\ made' = NewKey /\ at' = "insert"
    /\ UNCHANGED <<wallets, setupRows, open, choice, walletDeaths, told, handed>>

After(f) == IF f = "evm" THEN "solana" ELSE "return"

SkipFamily(f) ==
    /\ at = f /\ Exists(f)
    /\ at' = After(f)
    /\ UNCHANGED <<walletRows, setupRows, open, made, choice, walletDeaths, told, handed>>

(* ... then #insert records its address under that secret. *)
Insert ==
    /\ at = "insert"
    /\ \E s \in secrets :
          /\ s.key = made
          /\ wallets' = [wallets EXCEPT ![s.kind] = [address |-> made, secret |-> made]]
          /\ at' = After(s.kind)
    /\ made' = NoKey
    /\ UNCHANGED <<secrets, setupRows, open, choice, walletDeaths, told, handed>>

(* The answer lists the wallets on file. *)
Return ==
    /\ at = "return"
    /\ told' = told \cup Shown
    /\ at' = "idle"
    /\ UNCHANGED <<walletRows, setupRows, open, made, choice, walletDeaths, handed>>

(* GET /setup, GET /wallet and depositAddress *)
Show ==
    /\ at = "idle"
    /\ told' = told \cup Shown
    /\ UNCHANGED <<walletRows, setupRows, open, handler, walletDeaths, handed>>

(* exportWallet and useSigningKey: the vault opens the secret the row names, and its  *)
(* key must be the key of the recorded address.                                       *)
UseSecret(f) ==
    /\ at = "idle" /\ open /\ Exists(f)
    /\ \E s \in secrets :
          /\ s.key = wallets[f].secret
          /\ s.key = wallets[f].address
          /\ handed' = handed \cup {[family |-> f, address |-> wallets[f].address, key |-> s.key]}
    /\ UNCHANGED <<walletRows, setupRows, open, handler, walletDeaths, told>>

(* POST /setup/complete: refused before both wallets exist; then the installation, its *)
(* chains, the policy and the flag, one commit each. What is on file stays, except the *)
(* chains of the installation.                                                         *)
CompleteBegins(chains) ==
    /\ at = "idle" /\ \A f \in Families : Exists(f)
    /\ chains # {}
    /\ choice' = chains /\ at' = "install"
    /\ UNCHANGED <<walletRows, setupRows, open, made, walletDeaths, told, handed>>
CreateInstallation ==
    /\ at = "install"
    /\ install' = TRUE
    /\ enabled' = IF install THEN enabled ELSE choice
    /\ at' = "chains"
    /\ UNCHANGED <<walletRows, policy, completed, open, made, choice, walletDeaths, told, handed>>
SetEnabledChains ==
    /\ at = "chains"
    /\ enabled' = choice /\ at' = "policy"
    /\ UNCHANGED <<walletRows, install, policy, completed, open, made, choice, walletDeaths,
                   told, handed>>

(* With limits in the request the policy is also updated, to the chains chosen now; an *)
(* update that is refused ends the request there.                                      *)
SeedPolicy(limits, valid) ==
    /\ at = "policy"
    /\ policy' = IF policy = {} \/ (limits /\ valid) THEN choice ELSE policy
    /\ IF limits /\ ~valid THEN at' = "idle" /\ choice' = {} ELSE at' = "complete" /\ UNCHANGED choice
    /\ UNCHANGED <<walletRows, install, enabled, completed, open, made, walletDeaths, told, handed>>
CompleteSetup ==
    /\ at = "complete"
    /\ completed' = TRUE /\ at' = "idle" /\ choice' = {}
    /\ UNCHANGED <<walletRows, install, enabled, policy, open, made, walletDeaths, told, handed>>

(* The process dies at any statement, and the vault is locked when it is back. *)
WalletRestart ==
    /\ walletDeaths < WalletDeaths /\ walletDeaths' = walletDeaths + 1
    /\ open' = FALSE
    /\ at' = "idle" /\ made' = NoKey /\ choice' = {}
    /\ UNCHANGED <<walletRows, setupRows, told, handed>>

WalletsNext ==
    \/ VaultTurns \/ CreateAgentWallets \/ Insert \/ Return \/ Show
    \/ \E f \in Families : PutSecret(f) \/ SkipFamily(f) \/ UseSecret(f)
    \/ \E chains \in SUBSET Chains : CompleteBegins(chains)
    \/ CreateInstallation \/ SetEnabledChains \/ CompleteSetup
    \/ \E limits, valid \in BOOLEAN : SeedPolicy(limits, valid)
    \/ WalletRestart

WalletsSpec == WalletsInit /\ [][WalletsNext]_walletVars

-----------------------------------------------------------------------------
(* An address that was shown stays the address of its family, with its key sealed in  *)
(* the vault, whatever is retried and wherever the process died; a key that was handed *)
(* out is the key of an address that was on file; and a setup that says it is complete *)
(* has wallets, chains and limits. (createAgentWallets: "a retried setup request       *)
(* cannot orphan funds at an address ATRA has forgotten"; useSigningKey.)              *)
NoForgottenAddress ==
    /\ \A a \in told :
          /\ wallets[a.family].address = a.address
          /\ [key |-> a.address, kind |-> a.family] \in secrets
    /\ \A h \in handed : h.key = h.address /\ wallets[h.family].address = h.key
    /\ completed => /\ \A f \in Families : Exists(f)
                    /\ install /\ enabled # {} /\ policy # {}
=============================================================================
