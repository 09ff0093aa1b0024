------------------------------ MODULE Treasury ------------------------------
(***************************************************************************)
(* The project treasury: payment proposals from request to exported        *)
(* instruction, the cap engine, the freeze and the providers they are for. *)
(* The treasury holds no key; an exported instruction is text a human      *)
(* executes, once.                                                         *)
(*                                                                         *)
(* A handler is one action, for each commits in one transaction, except    *)
(* the export, which waits for a price.  The Treasury Agent's review calls *)
(* the same propose and recordExpense the admin does, after its own waits, *)
(* and has no action of its own.  A month is a number, and an approval may *)
(* be evaluated in one month and dated in the next.                        *)
(***************************************************************************)
EXTENDS Naturals, FiniteSets, FiniteSetsExt

CONSTANTS
    Proposals,      \* proposal ids
    Providers,
    Recipients,     \* on-chain addresses a provider may be paid at
    None,           \* no recipient: a provider that bills by card or invoice
    CapSet,         \* the caps an admin may configure
    Budgets,        \* the monthly budgets a provider may have
    MaxUsd,         \* bound on amounts
    MaxMonth,       \* bound on the clock
    MaxExpense,     \* bound on recorded expenses per provider and period
    MaxExports      \* bound on exports of one proposal under way at once

ASSUME TreasuryConstants ==
    /\ IsFiniteSet(Proposals)
    /\ None \notin Recipients \cup Providers
    /\ CapSet \subseteq [payment : Nat, monthly : Nat, threshold : Nat]
    /\ Budgets \subseteq Nat
    /\ MaxUsd \in Nat /\ MaxMonth \in Nat /\ MaxExpense \in Nat /\ MaxExports \in Nat

Months == 0..MaxMonth
Amounts == 1..MaxUsd

VARIABLES
    (* treasury_payment_proposals *)
    pstat,          \* status, "none" before the insert
    who, to, usd, period, decided, creator,
    (* treasury_config, treasury_providers, treasury_expenses, treasury_addresses *)
    frozen,
    caps,           \* perPaymentCapUsd, monthlyCapUsd, approvalThresholdUsd
    provider,       \* active, recipient, monthlyBudgetUsd of each provider
    expenses,       \* sum of the expenses of a provider and period
    enabled,        \* an enabled treasury address exists on the chain
    (* the process *)
    exporting,      \* exports of a proposal that wait for a price
    (* the world *)
    month,
    (* history, read by properties only *)
    instructions    \* instructions issued for a proposal

rows == <<pstat, who, to, usd, period, decided, creator>>
conf == <<frozen, caps, provider, expenses, enabled>>
vars == <<rows, conf, exporting, month, instructions>>

Init ==
    /\ pstat = [i \in Proposals |-> "none"]
    /\ who = [i \in Proposals |-> None] /\ to = [i \in Proposals |-> None]
    /\ usd = [i \in Proposals |-> 0] /\ period = [i \in Proposals |-> 0]
    /\ decided = [i \in Proposals |-> 0] /\ creator = [i \in Proposals |-> FALSE]
    /\ frozen = FALSE
    /\ caps = [payment |-> 0, monthly |-> 0, threshold |-> 0]
    /\ provider = [p \in Providers |-> [active |-> TRUE, recipient |-> None, budget |-> 0]]
    /\ expenses = [p \in Providers |-> [m \in Months |-> 0]]
    /\ enabled = FALSE
    /\ exporting = [i \in Proposals |-> 0]
    /\ month = 0
    /\ instructions = [i \in Proposals |-> 0]

-----------------------------------------------------------------------------
(***************************************************************************)
(* The cap engine.                                                         *)
(***************************************************************************)

\* Mutant: what has been exported no longer counts.
OnlyApproved(i) == pstat[i] = "approved"

\* Rows that count as spent
Granted(i) == pstat[i] \in {"approved", "exported"}

SumOf(S) == MapThenSumSet(LAMBDA i : usd[i], S)

\* approvedInMonth
MonthToDate(m) == SumOf({i \in Proposals : Granted(i) /\ decided[i] = m})

\* #providerPeriodSpend
PeriodSpend(p, m) ==
    expenses[p][m] + SumOf({i \in Proposals : Granted(i) /\ who[i] = p /\ period[i] = m})

\* Mutant: a payment of exactly the threshold needs no creator.
EvaluateCapsAboveThreshold(stage, p, recipient, amount, per, creatorApproval) ==
    /\ ~frozen /\ provider[p].active /\ enabled
    /\ provider[p].recipient # None /\ provider[p].recipient = recipient
    /\ amount > 0 /\ amount <= caps.payment
    /\ MonthToDate(month) + amount <= caps.monthly
    /\ provider[p].budget > 0 => PeriodSpend(p, per) + amount <= provider[p].budget
    /\ stage = "approve" /\ amount > caps.threshold => creatorApproval

\* evaluateCaps, at either stage; a budget of zero is no budget.
EvaluateCaps(stage, p, recipient, amount, per, creatorApproval) ==
    /\ ~frozen
    /\ provider[p].active
    /\ provider[p].recipient # None /\ provider[p].recipient = recipient
    /\ enabled
    /\ amount > 0 /\ amount <= caps.payment
    /\ MonthToDate(month) + amount <= caps.monthly
    /\ provider[p].budget > 0 => PeriodSpend(p, per) + amount <= provider[p].budget
    /\ stage = "approve" /\ amount >= caps.threshold => creatorApproval

-----------------------------------------------------------------------------
(***************************************************************************)
(* Proposals.                                                              *)
(***************************************************************************)

\* propose, by the admin or by the review agent (#applyReview), to the provider's
\* recipient of this moment.  A refused request writes no row.
Propose(i, p, amount, per) ==
    /\ EvaluateCaps("propose", p, provider[p].recipient, amount, per, FALSE)
    /\ pstat[i] = "none"
    /\ pstat' = [pstat EXCEPT ![i] = "proposed"]
    /\ who' = [who EXCEPT ![i] = p]
    /\ to' = [to EXCEPT ![i] = provider[p].recipient]
    /\ usd' = [usd EXCEPT ![i] = amount]
    /\ period' = [period EXCEPT ![i] = per]
    /\ UNCHANGED <<decided, creator, conf, exporting, month, instructions>>

\* approve: evaluated now, dated when written, which may be the first instant of the next
\* month.  What the caps refuse is rejected.
Approve(i, creatorApproval, at) ==
    /\ pstat[i] = "proposed" /\ ~frozen
    /\ at \in {month, month + 1} \cap Months
    /\ pstat' = [pstat EXCEPT ![i] =
           IF EvaluateCaps("approve", who[i], to[i], usd[i], period[i], creatorApproval)
              THEN "approved" ELSE "rejected"]
    /\ decided' = [decided EXCEPT ![i] = at]
    /\ creator' = [creator EXCEPT ![i] = creatorApproval]
    /\ month' = at
    /\ UNCHANGED <<who, to, usd, period, conf, exporting, instructions>>

Reject(i) ==
    /\ pstat[i] = "proposed"
    /\ pstat' = [pstat EXCEPT ![i] = "rejected"]
    /\ decided' = [decided EXCEPT ![i] = month]
    /\ creator' = [creator EXCEPT ![i] = FALSE]
    /\ UNCHANGED <<who, to, usd, period, conf, exporting, month, instructions>>

Cancel(i) ==
    /\ pstat[i] = "approved"
    /\ pstat' = [pstat EXCEPT ![i] = "cancelled"]
    /\ UNCHANGED <<who, to, usd, period, decided, creator, conf, exporting, month, instructions>>

\* exportProposal up to the price lookup
ExportStart(i) ==
    /\ pstat[i] = "approved" /\ ~frozen /\ enabled
    /\ exporting[i] < MaxExports
    /\ exporting' = [exporting EXCEPT ![i] = @ + 1]
    /\ UNCHANGED <<rows, conf, month, instructions>>

\* Mutant: status and freeze are not read again after the lookup.
ExportUnchecked(i) ==
    /\ exporting[i] > 0
    /\ exporting' = [exporting EXCEPT ![i] = @ - 1]
    /\ pstat' = [pstat EXCEPT ![i] = "exported"]
    /\ instructions' = [instructions EXCEPT ![i] = @ + 1]
    /\ UNCHANGED <<who, to, usd, period, decided, creator, conf, month>>

\* Mutant: the status is read again, the freeze is not.
ExportDespiteFreeze(i) ==
    /\ exporting[i] > 0
    /\ exporting' = [exporting EXCEPT ![i] = @ - 1]
    /\ IF pstat[i] = "approved"
          THEN /\ pstat' = [pstat EXCEPT ![i] = "exported"]
               /\ instructions' = [instructions EXCEPT ![i] = @ + 1]
          ELSE UNCHANGED <<pstat, instructions>>
    /\ UNCHANGED <<who, to, usd, period, decided, creator, conf, month>>

\* Status and freeze are read again inside the write; the price may be unknown, the
\* instruction is issued all the same.
ExportFinish(i) ==
    /\ exporting[i] > 0
    /\ exporting' = [exporting EXCEPT ![i] = @ - 1]
    /\ IF ~frozen /\ pstat[i] = "approved"
          THEN /\ pstat' = [pstat EXCEPT ![i] = "exported"]
               /\ instructions' = [instructions EXCEPT ![i] = @ + 1]
          ELSE UNCHANGED <<pstat, instructions>>
    /\ UNCHANGED <<who, to, usd, period, decided, creator, conf, month>>

-----------------------------------------------------------------------------
(***************************************************************************)
(* Configuration, providers, expenses.                                     *)
(***************************************************************************)

\* updateConfig: any cap may be raised or lowered, the address switched on or off.
UpdateConfig(c, e) ==
    /\ caps' = c /\ enabled' = e
    /\ UNCHANGED <<rows, frozen, provider, expenses, exporting, month, instructions>>

\* updateProvider and addProvider: a recipient exactly for on-chain billing
UpdateProvider(p, active, recipient, budget) ==
    /\ provider' = [provider EXCEPT ![p] =
                      [active |-> active, recipient |-> recipient, budget |-> budget]]
    /\ UNCHANGED <<rows, frozen, caps, expenses, enabled, exporting, month, instructions>>

\* recordExpense, of any provider and period; no cap applies to a bill.
RecordExpense(p, per, amount) ==
    /\ expenses[p][per] + amount <= MaxExpense
    /\ expenses' = [expenses EXCEPT ![p][per] = @ + amount]
    /\ UNCHANGED <<rows, frozen, caps, provider, enabled, exporting, month, instructions>>

\* freeze, by the admin or by the emergency stop's hook
Freeze ==
    /\ frozen' = TRUE
    /\ UNCHANGED <<rows, caps, provider, expenses, enabled, exporting, month, instructions>>

ClearFreeze ==
    /\ frozen /\ frozen' = FALSE
    /\ UNCHANGED <<rows, caps, provider, expenses, enabled, exporting, month, instructions>>

-----------------------------------------------------------------------------
(***************************************************************************)
(* The clock and the process.                                              *)
(***************************************************************************)

Tick ==
    /\ month < MaxMonth
    /\ month' = month + 1
    /\ UNCHANGED <<rows, conf, exporting, instructions>>

\* The process dies; what waits is gone.
Restart ==
    /\ exporting' = [i \in Proposals |-> 0]
    /\ UNCHANGED <<rows, conf, month, instructions>>

Next ==
    \/ \E i \in Proposals, p \in Providers, amount \in Amounts, per \in Months :
          Propose(i, p, amount, per)
    \/ \E i \in Proposals, c \in BOOLEAN, at \in Months : Approve(i, c, at)
    \/ \E i \in Proposals : Reject(i) \/ Cancel(i) \/ ExportStart(i) \/ ExportFinish(i)
    \/ \E c \in CapSet, e \in BOOLEAN : UpdateConfig(c, e)
    \/ \E p \in Providers, active \in BOOLEAN, r \in Recipients \cup {None}, b \in Budgets :
          UpdateProvider(p, active, r, b)
    \/ \E p \in Providers, per \in Months, amount \in Amounts : RecordExpense(p, per, amount)
    \/ Freeze \/ ClearFreeze
    \/ Tick \/ Restart

Spec == Init /\ [][Next]_vars

-----------------------------------------------------------------------------
(***************************************************************************)
(* Properties                                                              *)
(***************************************************************************)

\* Every column and every field holds a value of its type.
TypeOK ==
    /\ pstat \in [Proposals -> {"none", "proposed", "approved", "rejected", "exported", "cancelled"}]
    /\ who \in [Proposals -> Providers \cup {None}]
    /\ to \in [Proposals -> Recipients \cup {None}]
    /\ usd \in [Proposals -> Nat]
    /\ period \in [Proposals -> Months] /\ decided \in [Proposals -> Months]
    /\ creator \in [Proposals -> BOOLEAN]
    /\ frozen \in BOOLEAN /\ enabled \in BOOLEAN
    /\ caps \in [payment : Nat, monthly : Nat, threshold : Nat]
    /\ provider \in [Providers -> [active : BOOLEAN, recipient : Recipients \cup {None}, budget : Nat]]
    /\ expenses \in [Providers -> [Months -> Nat]]
    /\ exporting \in [Proposals -> Nat]
    /\ month \in Months
    /\ instructions \in [Proposals -> Nat]

\* One instruction for each exported proposal and none for any other, however many exports
\* of it, a cancellation and a restart overlap (service.ts exportProposal).
OneInstruction ==
    \A i \in Proposals : instructions[i] = (IF pstat[i] = "exported" THEN 1 ELSE 0)

Turns(i, s) == pstat[i] # s /\ pstat'[i] = s

\* While the treasury is frozen nothing is proposed, approved or exported, whatever was
\* under way when it froze (service.ts freeze, #assertNotFrozen).
FreezeHolds ==
    [][frozen => \A i \in Proposals :
           ~Turns(i, "proposed") /\ ~Turns(i, "approved") /\ ~Turns(i, "exported")]_vars

\* What has been granted in the month a row is dated, and for the period it is billed to,
\* is within the caps of the moment of each approval, also when the month turns between
\* the evaluation and the date (service.ts approve, #evaluate).
ApprovedWithinLimits ==
    [][\A i \in Proposals : Turns(i, "approved") =>
           LET p == provider[who[i]]
               out == {j \in Proposals : pstat'[j] \in {"approved", "exported"}}
           IN  /\ SumOf({j \in out : decided'[j] = decided'[i]}) <= caps.monthly
               /\ p.budget > 0 =>
                     expenses[who[i]][period[i]]
                         + SumOf({j \in out : who[j] = who[i] /\ period[j] = period[i]})
                     <= p.budget]_vars

\* The row names who was paid before it was approved, and a creator's consent at or above
\* the threshold; neither changes afterwards (service.ts approve; the immutability
\* trigger of treasury_payment_proposals).
GrantsRest ==
    [][\A i \in Proposals :
          /\ Turns(i, "approved") => /\ to[i] = provider[who[i]].recipient
                                     /\ usd[i] >= caps.threshold => creator'[i]
          /\ pstat[i] # "none" =>
                <<who[i], to[i], usd[i], period[i]>>' = <<who[i], to[i], usd[i], period[i]>>
          /\ pstat[i] \in {"approved", "exported", "cancelled"} =>
                <<decided[i], creator[i]>>' = <<decided[i], creator[i]>>]_vars
=============================================================================
