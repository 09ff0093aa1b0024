--------------------------- MODULE TreasuryProofs ---------------------------
(***************************************************************************)
(* Treasury, for any proposals, providers, caps and number of exports:     *)
(* types, one instruction per exported proposal, the freeze, and what an   *)
(* approval rests on.  OneInstruction is inductive with TypeOK; two of the *)
(* action properties need TypeOK only, and the limits need the totals of   *)
(* Sums and that no row is dated after the clock.                          *)
(***************************************************************************)
EXTENDS Treasury, Sums, TLAPS

IInv == TypeOK /\ OneInstruction

\* Every column and field of the treasury holds a value of its type, and each exported
\* proposal has its one instruction, in the initial state.
LEMMA InitIInv == Init => IInv
  <1> SUFFICES ASSUME Init PROVE IInv
    OBVIOUS
  <1>1. TypeOK
    <2>1. 0 \in Months
      BY TreasuryConstants DEF Months
    <2>2. caps \in [payment : Nat, monthly : Nat, threshold : Nat]
      BY DEF Init
    <2>3. provider \in [Providers -> [active : BOOLEAN, recipient : Recipients \cup {None}, budget : Nat]]
      BY DEF Init
    <2>4. expenses \in [Providers -> [Months -> Nat]]
      BY DEF Init
    <2>5. /\ pstat \in [Proposals -> {"none", "proposed", "approved", "rejected", "exported", "cancelled"}]
          /\ who \in [Proposals -> Providers \cup {None}]
          /\ to \in [Proposals -> Recipients \cup {None}]
      BY DEF Init
    <2>6. /\ usd \in [Proposals -> Nat]
          /\ period \in [Proposals -> Months] /\ decided \in [Proposals -> Months]
          /\ exporting \in [Proposals -> Nat] /\ instructions \in [Proposals -> Nat]
      BY <2>1 DEF Init
    <2>7. /\ creator \in [Proposals -> BOOLEAN] /\ frozen \in BOOLEAN /\ enabled \in BOOLEAN
          /\ month \in Months
      BY <2>1 DEF Init
    <2> QED
      BY <2>2, <2>3, <2>4, <2>5, <2>6, <2>7 DEF TypeOK
  <1>2. OneInstruction
    BY DEF Init, OneInstruction
  <1> QED
    BY <1>1, <1>2 DEF IInv

\* Every handler keeps the types of the proposal rows, the configuration and the exports.
LEMMA NextTypeOK == TypeOK /\ [Next]_vars => TypeOK'
  <1> SUFFICES ASSUME TypeOK, [Next]_vars PROVE TypeOK'
    OBVIOUS
  <1> USE TreasuryConstants DEF TypeOK, rows, conf
  <1>1. ASSUME NEW i \in Proposals, NEW p \in Providers, NEW amount \in Amounts,
               NEW per \in Months, Propose(i, p, amount, per)
        PROVE  TypeOK'
    BY <1>1 DEF Propose, Amounts
  <1>2. ASSUME NEW i \in Proposals, NEW c \in BOOLEAN, NEW at \in Months, Approve(i, c, at)
        PROVE  TypeOK'
    BY <1>2 DEF Approve
  <1>3. ASSUME NEW i \in Proposals, Reject(i) PROVE TypeOK'
    BY <1>3 DEF Reject
  <1>4. ASSUME NEW i \in Proposals, Cancel(i) PROVE TypeOK'
    BY <1>4 DEF Cancel
  <1>5. ASSUME NEW i \in Proposals, ExportStart(i) PROVE TypeOK'
    BY <1>5 DEF ExportStart
  <1>6. ASSUME NEW i \in Proposals, ExportFinish(i) PROVE TypeOK'
    <2>1. exporting' \in [Proposals -> Nat]
      <3>1. exporting[i] \in Nat /\ exporting[i] > 0
        BY <1>6 DEF ExportFinish
      <3>2. exporting[i] - 1 \in Nat
        BY <3>1
      <3> QED
        BY <1>6, <3>2 DEF ExportFinish
    <2>2. /\ pstat' \in [Proposals -> {"none", "proposed", "approved", "rejected", "exported", "cancelled"}]
          /\ instructions' \in [Proposals -> Nat]
      <3>1. CASE ~frozen /\ pstat[i] = "approved"
        <4>1. /\ pstat' = [pstat EXCEPT ![i] = "exported"]
              /\ instructions' = [instructions EXCEPT ![i] = @ + 1]
          BY <1>6, <3>1 DEF ExportFinish
        <4>2. instructions[i] + 1 \in Nat
          OBVIOUS
        <4> QED
          BY <4>1, <4>2
      <3>2. CASE ~(~frozen /\ pstat[i] = "approved")
        BY <1>6, <3>2 DEF ExportFinish
      <3> QED
        BY <3>1, <3>2
    <2>3. UNCHANGED <<who, to, usd, period, decided, creator, conf, month>>
      BY <1>6 DEF ExportFinish
    <2> QED
      BY <2>1, <2>2, <2>3
  <1>7. ASSUME NEW c \in CapSet, NEW e \in BOOLEAN, UpdateConfig(c, e) PROVE TypeOK'
    BY <1>7 DEF UpdateConfig
  <1>8. ASSUME NEW p \in Providers, NEW active \in BOOLEAN, NEW r \in Recipients \cup {None},
               NEW b \in Budgets, UpdateProvider(p, active, r, b)
        PROVE  TypeOK'
    BY <1>8 DEF UpdateProvider
  <1>9. ASSUME NEW p \in Providers, NEW per \in Months, NEW amount \in Amounts,
               RecordExpense(p, per, amount)
        PROVE  TypeOK'
    BY <1>9 DEF RecordExpense, Amounts
  <1>10. CASE Freeze \/ ClearFreeze
    BY <1>10 DEF Freeze, ClearFreeze
  <1>11. CASE Tick
    BY <1>11 DEF Tick, Months
  <1>12. CASE Restart
    BY <1>12 DEF Restart
  <1>13. CASE UNCHANGED vars
    BY <1>13 DEF vars
  <1> QED
    BY <1>1, <1>2, <1>3, <1>4, <1>5, <1>6, <1>7, <1>8, <1>9, <1>10, <1>11, <1>12, <1>13
       DEF Next

\* Only the second half of an export issues an instruction, and only for a row it moves
\* from approved to exported in the same transaction.
LEMMA NextOneInstruction == TypeOK /\ OneInstruction /\ [Next]_vars => OneInstruction'
  <1> SUFFICES ASSUME TypeOK, OneInstruction, [Next]_vars PROVE OneInstruction'
    OBVIOUS
  <1> USE DEF TypeOK, OneInstruction, rows, conf
  <1>1. ASSUME NEW i \in Proposals, NEW p \in Providers, NEW amount \in Amounts,
               NEW per \in Months, Propose(i, p, amount, per)
        PROVE  OneInstruction'
    BY <1>1 DEF Propose
  <1>2. ASSUME NEW i \in Proposals, NEW c \in BOOLEAN, NEW at \in Months, Approve(i, c, at)
        PROVE  OneInstruction'
    BY <1>2 DEF Approve
  <1>3. ASSUME NEW i \in Proposals, Reject(i) \/ Cancel(i) PROVE OneInstruction'
    BY <1>3 DEF Reject, Cancel
  <1>4. ASSUME NEW i \in Proposals, ExportFinish(i) PROVE OneInstruction'
    BY <1>4 DEF ExportFinish
  <1>5. ASSUME NEW i \in Proposals, ExportStart(i) PROVE OneInstruction'
    BY <1>5 DEF ExportStart
  <1>6. ASSUME NEW c \in CapSet, NEW e \in BOOLEAN, UpdateConfig(c, e) PROVE OneInstruction'
    BY <1>6 DEF UpdateConfig
  <1>7. ASSUME NEW p \in Providers, NEW active \in BOOLEAN, NEW r \in Recipients \cup {None},
               NEW b \in Budgets, UpdateProvider(p, active, r, b)
        PROVE  OneInstruction'
    BY <1>7 DEF UpdateProvider
  <1>8. ASSUME NEW p \in Providers, NEW per \in Months, NEW amount \in Amounts,
               RecordExpense(p, per, amount)
        PROVE  OneInstruction'
    BY <1>8 DEF RecordExpense
  <1>9. CASE Freeze \/ ClearFreeze \/ Tick \/ Restart
    BY <1>9 DEF Freeze, ClearFreeze, Tick, Restart
  <1>10. CASE UNCHANGED vars
    BY <1>10 DEF vars
  <1> QED
    BY <1>1, <1>2, <1>3, <1>4, <1>5, <1>6, <1>7, <1>8, <1>9, <1>10 DEF Next

\* The inductive invariant holds throughout: types, and one instruction per exported row.
LEMMA AlwaysIInv == Spec => []IInv
  <1>1. IInv /\ [Next]_vars => IInv'
    BY NextTypeOK, NextOneInstruction DEF IInv
  <1> QED
    BY <1>1, InitIInv, PTL DEF Spec

\* The rows, the configuration and the exports under way keep their types, for any
\* proposals, providers, caps and bounds.
THEOREM TreasuryTypes == Spec => []TypeOK
  <1>1. IInv => TypeOK
    BY DEF IInv
  <1> QED
    BY <1>1, AlwaysIInv, PTL

\* A proposal is exported at most once and an instruction exists exactly for an exported
\* one, for any number of exports of it under way at once.
THEOREM ExportedOnce == Spec => []OneInstruction
  <1>1. IInv => OneInstruction
    BY DEF IInv
  <1> QED
    BY <1>1, AlwaysIInv, PTL

-----------------------------------------------------------------------------

\* A step that moves a row is a proposal, an approval, a rejection, a cancellation or the
\* second half of an export; no other handler touches the proposal table.
LEMMA RowMoves ==
  ASSUME TypeOK, [Next]_vars
  PROVE  \/ \E i \in Proposals, p \in Providers, amount \in Amounts, per \in Months :
               Propose(i, p, amount, per)
         \/ \E i \in Proposals, c \in BOOLEAN, at \in Months : Approve(i, c, at)
         \/ \E i \in Proposals : Reject(i) \/ Cancel(i) \/ ExportFinish(i)
         \/ UNCHANGED rows
  <1>1. ASSUME NEW i \in Proposals, ExportStart(i) PROVE UNCHANGED rows
    BY <1>1 DEF ExportStart
  <1>2. ASSUME NEW c \in CapSet, NEW e \in BOOLEAN, UpdateConfig(c, e) PROVE UNCHANGED rows
    BY <1>2 DEF UpdateConfig
  <1>3. ASSUME NEW p \in Providers, NEW active \in BOOLEAN, NEW r \in Recipients \cup {None},
               NEW b \in Budgets, UpdateProvider(p, active, r, b)
        PROVE  UNCHANGED rows
    BY <1>3 DEF UpdateProvider
  <1>4. ASSUME NEW p \in Providers, NEW per \in Months, NEW amount \in Amounts,
               RecordExpense(p, per, amount)
        PROVE  UNCHANGED rows
    BY <1>4 DEF RecordExpense
  <1>5. CASE Freeze \/ ClearFreeze \/ Tick \/ Restart
    BY <1>5 DEF Freeze, ClearFreeze, Tick, Restart
  <1>6. CASE UNCHANGED vars
    BY <1>6 DEF vars
  <1> QED
    BY <1>1, <1>2, <1>3, <1>4, <1>5, <1>6 DEF Next

\* Nothing is proposed, approved or exported while the treasury is frozen, whatever waited
\* for a price when it froze.
THEOREM FreezeIsRespected == Spec => FreezeHolds
  <1> DEFINE Held == frozen => \A i \in Proposals :
                 ~Turns(i, "proposed") /\ ~Turns(i, "approved") /\ ~Turns(i, "exported")
  <1>1. TypeOK /\ [Next]_vars => [Held]_vars
    <2> SUFFICES ASSUME TypeOK, [Next]_vars PROVE Held
      OBVIOUS
    <2> USE DEF TypeOK, Turns
    <2>1. ASSUME NEW i \in Proposals, NEW p \in Providers, NEW amount \in Amounts,
                 NEW per \in Months, Propose(i, p, amount, per)
          PROVE  Held
      BY <2>1 DEF Propose, EvaluateCaps
    <2>2. ASSUME NEW i \in Proposals, NEW c \in BOOLEAN, NEW at \in Months, Approve(i, c, at)
          PROVE  Held
      BY <2>2 DEF Approve
    <2>3. ASSUME NEW i \in Proposals, Reject(i) \/ Cancel(i) \/ ExportFinish(i)
          PROVE  Held
      BY <2>3 DEF Reject, Cancel, ExportFinish
    <2>4. CASE UNCHANGED rows
      BY <2>4 DEF rows
    <2> QED
      BY <2>1, <2>2, <2>3, <2>4, RowMoves
  <1> QED
    BY <1>1, TreasuryTypes, PTL DEF Spec, FreezeHolds

\* Of an approved row the recipient was the provider's and the creator consented at or
\* above the threshold; what a row says of the payment never changes, nor does a decision.
THEOREM GrantsAreGrounded == Spec => GrantsRest
  <1> DEFINE Rest == \A i \in Proposals :
          /\ Turns(i, "approved") => /\ to[i] = provider[who[i]].recipient
                                     /\ usd[i] >= caps.threshold => creator'[i]
          /\ pstat[i] # "none" =>
                <<who[i], to[i], usd[i], period[i]>>' = <<who[i], to[i], usd[i], period[i]>>
          /\ pstat[i] \in {"approved", "exported", "cancelled"} =>
                <<decided[i], creator[i]>>' = <<decided[i], creator[i]>>
  <1>1. TypeOK /\ [Next]_vars => [Rest]_vars
    <2> SUFFICES ASSUME TypeOK, [Next]_vars PROVE Rest
      OBVIOUS
    <2> USE DEF TypeOK, Turns
    <2>1. ASSUME NEW i \in Proposals, NEW p \in Providers, NEW amount \in Amounts,
                 NEW per \in Months, Propose(i, p, amount, per)
          PROVE  Rest
      BY <2>1 DEF Propose
    <2>2. ASSUME NEW i \in Proposals, NEW c \in BOOLEAN, NEW at \in Months, Approve(i, c, at)
          PROVE  Rest
      BY <2>2 DEF Approve, EvaluateCaps
    <2>3. ASSUME NEW i \in Proposals, Reject(i) \/ Cancel(i) \/ ExportFinish(i)
          PROVE  Rest
      BY <2>3 DEF Reject, Cancel, ExportFinish
    <2>4. CASE UNCHANGED rows
      BY <2>4 DEF rows
    <2> QED
      BY <2>1, <2>2, <2>3, <2>4, RowMoves
  <1> QED
    BY <1>1, TreasuryTypes, PTL DEF Spec, GrantsRest

-----------------------------------------------------------------------------

\* No decision is dated in a month that has not begun: an approval that is written in the
\* next month takes the clock there.
Dated == \A i \in Proposals : decided[i] <= month

LEMMA AlwaysDated == Spec => []Dated
  <1>1. Init => Dated
    BY DEF Init, Dated
  <1>2. TypeOK /\ Dated /\ [Next]_vars => Dated'
    <2> SUFFICES ASSUME TypeOK, Dated, [Next]_vars PROVE Dated'
      OBVIOUS
    <2> USE DEF TypeOK, Dated, Months
    <2>0. month \in Nat /\ \A i \in Proposals : decided[i] \in Nat
      BY TreasuryConstants
    <2>1. ASSUME NEW i \in Proposals, NEW c \in BOOLEAN, NEW at \in Months, Approve(i, c, at)
          PROVE  Dated'
      <3>1. at \in Nat /\ month <= at /\ month' = at
        BY <2>0, <2>1 DEF Approve
      <3>2. \A j \in Proposals : decided'[j] = IF j = i THEN at ELSE decided[j]
        BY <2>1 DEF Approve
      <3>3. ASSUME NEW j \in Proposals PROVE decided'[j] <= month'
        <4>1. decided[j] \in Nat /\ decided[j] <= month
          BY <2>0
        <4> HIDE DEF TypeOK, Dated, Months
        <4> QED
          BY <2>0, <3>1, <3>2, <4>1
      <3> QED
        BY <3>3
    <2>2. ASSUME NEW i \in Proposals, Reject(i) PROVE Dated'
      BY <2>0, <2>2 DEF Reject
    <2>3. ASSUME NEW i \in Proposals, Cancel(i) \/ ExportStart(i) \/ ExportFinish(i)
          PROVE  Dated'
      BY <2>3 DEF Cancel, ExportStart, ExportFinish, rows
    <2>4. ASSUME NEW i \in Proposals, NEW p \in Providers, NEW amount \in Amounts,
                 NEW per \in Months, Propose(i, p, amount, per)
          PROVE  Dated'
      BY <2>4 DEF Propose
    <2>5. ASSUME NEW c \in CapSet, NEW e \in BOOLEAN, UpdateConfig(c, e) PROVE Dated'
      BY <2>5 DEF UpdateConfig, rows
    <2>6. ASSUME NEW p \in Providers, NEW active \in BOOLEAN, NEW r \in Recipients \cup {None},
                 NEW b \in Budgets, UpdateProvider(p, active, r, b)
          PROVE  Dated'
      BY <2>6 DEF UpdateProvider, rows
    <2>7. ASSUME NEW p \in Providers, NEW per \in Months, NEW amount \in Amounts,
                 RecordExpense(p, per, amount)
          PROVE  Dated'
      BY <2>7 DEF RecordExpense, rows
    <2>8. CASE Freeze \/ ClearFreeze \/ Restart \/ UNCHANGED vars
      BY <2>8 DEF Freeze, ClearFreeze, Restart, vars, rows
    <2>9. CASE Tick
      BY <2>0, <2>9 DEF Tick, rows
    <2> QED
      BY <2>1, <2>2, <2>3, <2>4, <2>5, <2>6, <2>7, <2>8, <2>9 DEF Next
  <1> QED
    BY <1>1, <1>2, TreasuryTypes, PTL DEF Spec

\* A row that exists names a provider.
Named == \A i \in Proposals : pstat[i] # "none" => who[i] \in Providers

LEMMA AlwaysNamed == Spec => []Named
  <1>1. Init => Named
    BY DEF Init, Named
  <1>2. TypeOK /\ Named /\ [Next]_vars => Named'
    <2> SUFFICES ASSUME TypeOK, Named, [Next]_vars PROVE Named'
      OBVIOUS
    <2> USE DEF TypeOK, Named
    <2>1. ASSUME NEW i \in Proposals, NEW p \in Providers, NEW amount \in Amounts,
                 NEW per \in Months, Propose(i, p, amount, per)
          PROVE  Named'
      BY <2>1 DEF Propose
    <2>2. ASSUME NEW i \in Proposals, NEW c \in BOOLEAN, NEW at \in Months, Approve(i, c, at)
          PROVE  Named'
      BY <2>2 DEF Approve
    <2>3. ASSUME NEW i \in Proposals, Reject(i) \/ Cancel(i) \/ ExportFinish(i) PROVE Named'
      BY <2>3 DEF Reject, Cancel, ExportFinish
    <2>4. CASE UNCHANGED rows
      BY <2>4 DEF rows
    <2> QED
      BY <2>1, <2>2, <2>3, <2>4, RowMoves
  <1> QED
    BY <1>1, <1>2, TreasuryTypes, PTL DEF Spec

\* What the cap engine adds up is a natural number, and one more row adds its amount to it.
LEMMA SumOfRows ==
  ASSUME TypeOK, NEW S \in SUBSET Proposals
  PROVE  /\ SumOf(S) \in Nat
         /\ \A i \in Proposals \ S : SumOf(S \cup {i}) = SumOf(S) + usd[i]
  <1>1. IsFiniteSet(S)
    BY TreasuryConstants, FS_Subset
  <1>2. \A T : SumOf(T) = Total(usd, T)
    BY DEF SumOf, Total
  <1>3. \A i \in Proposals : usd[i] \in Nat
    BY DEF TypeOK
  <1>4. Total(usd, S) \in Nat
    <2>1. \A i \in S : usd[i] \in Nat
      BY <1>3
    <2> QED
      BY <1>1, <2>1, TotalIsNat
  <1>5. ASSUME NEW i \in Proposals \ S PROVE Total(usd, S \cup {i}) = Total(usd, S) + usd[i]
    <2>1. i \notin S /\ usd[i] \in Int /\ \A y \in S : usd[y] \in Int
      BY <1>3
    <2>2. Total(usd, S \cup {i}) = usd[i] + Total(usd, S)
      BY <1>1, <2>1, TotalAdds
    <2> QED
      BY <1>3, <1>4, <2>2
  <1> QED
    BY <1>2, <1>4, <1>5

\* At an approval what has been granted in the month of its date, and for the provider and
\* period it is billed to, is within the caps, for any number of proposals and also when
\* the month turns between the evaluation and the date.
THEOREM LimitsAreKept == Spec => ApprovedWithinLimits
  <1> DEFINE Out == {j \in Proposals : pstat'[j] \in {"approved", "exported"}}
             Same(i) == {j \in Out : decided'[j] = decided'[i]}
             Billed(i) == {j \in Out : who[j] = who[i] /\ period[j] = period[i]}
             Within == \A i \in Proposals : Turns(i, "approved") =>
                 LET p == provider[who[i]]
                     out == {j \in Proposals : pstat'[j] \in {"approved", "exported"}}
                 IN  /\ SumOf({j \in out : decided'[j] = decided'[i]}) <= caps.monthly
                     /\ p.budget > 0 =>
                           expenses[who[i]][period[i]]
                               + SumOf({j \in out : who[j] = who[i] /\ period[j] = period[i]})
                           <= p.budget
  <1>1. TypeOK /\ Dated /\ Named /\ [Next]_vars => [Within]_vars
    <2> SUFFICES ASSUME TypeOK, Dated, Named, [Next]_vars,
                        NEW i \in Proposals, Turns(i, "approved")
                 PROVE  /\ SumOf(Same(i)) <= caps.monthly
                        /\ provider[who[i]].budget > 0 =>
                              expenses[who[i]][period[i]] + SumOf(Billed(i))
                              <= provider[who[i]].budget
      OBVIOUS
    <2>1. PICK c \in BOOLEAN, at \in Months : Approve(i, c, at)
      <3>1. ASSUME NEW j \in Proposals, NEW p \in Providers, NEW amount \in Amounts,
                   NEW per \in Months, Propose(j, p, amount, per)
            PROVE  FALSE
        BY <3>1 DEF Propose, TypeOK, Turns
      <3>2. ASSUME NEW j \in Proposals, Reject(j) \/ Cancel(j) \/ ExportFinish(j) PROVE FALSE
        BY <3>2 DEF Reject, Cancel, ExportFinish, TypeOK, Turns
      <3>3. ASSUME NEW j \in Proposals, NEW c \in BOOLEAN, NEW at \in Months, j # i,
                   Approve(j, c, at)
            PROVE  FALSE
        BY <3>3 DEF Approve, TypeOK, Turns
      <3>4. ~UNCHANGED rows
        BY DEF rows, Turns
      <3> QED
        BY <3>1, <3>2, <3>3, <3>4, RowMoves
    <2>2. EvaluateCaps("approve", who[i], to[i], usd[i], period[i], c)
      BY <2>1 DEF Approve, TypeOK, Turns
    <2>3. /\ pstat[i] = "proposed" /\ pstat'[i] = "approved" /\ decided'[i] = at
          /\ \A j \in Proposals \ {i} : pstat'[j] = pstat[j] /\ decided'[j] = decided[j]
      BY <2>1, <2>2 DEF Approve, TypeOK
    <2>4. month \in Nat /\ at \in Nat /\ at \in {month, month + 1}
      BY <2>1, TreasuryConstants DEF TypeOK, Months, Approve
    <2>5. \A j \in Proposals : decided[j] \in Nat /\ decided[j] <= month
      BY TreasuryConstants DEF TypeOK, Dated, Months
    <2>6. usd[i] \in Nat /\ caps.monthly \in Nat
      BY DEF TypeOK
    <2>7. SumOf(Same(i)) <= caps.monthly
      <3> DEFINE S == {j \in Proposals : Granted(j) /\ decided[j] = month}
      <3>1. SumOf(S) + usd[i] <= caps.monthly
        BY <2>2 DEF EvaluateCaps, MonthToDate
      <3>2. i \in Proposals \ S /\ SumOf(S) \in Nat /\ SumOf(S \cup {i}) = SumOf(S) + usd[i]
        <4>1. i \in Proposals \ S
          BY <2>3 DEF Granted
        <4> HIDE DEF S
        <4>2. S \in SUBSET Proposals
          BY DEF S
        <4> QED
          BY <4>1, <4>2, SumOfRows
      <3>3. CASE at = month
        <4>1. Same(i) = S \cup {i}
          BY <2>3, <3>3 DEF Granted
        <4> HIDE DEF S, Same
        <4> QED
          BY <3>1, <3>2, <4>1
      <3>4. CASE at = month + 1
        <4>1. Same(i) = {} \cup {i}
          BY <2>3, <2>4, <2>5, <3>4
        <4>2. SumOf({}) = 0
          <5>1. Total(usd, {}) = 0
            BY TotalOfNothing
          <5> QED
            BY <5>1 DEF SumOf, Total
        <4>3. SumOf({} \cup {i}) = SumOf({}) + usd[i]
          BY SumOfRows
        <4> HIDE DEF S, Same
        <4>4. SumOf(Same(i)) = usd[i]
          BY <2>6, <4>1, <4>2, <4>3
        <4> QED
          BY <2>6, <3>1, <3>2, <4>4
      <3> QED
        BY <2>4, <3>3, <3>4
    <2>8. ASSUME provider[who[i]].budget > 0
          PROVE  expenses[who[i]][period[i]] + SumOf(Billed(i)) <= provider[who[i]].budget
      <3> DEFINE S == {j \in Proposals : Granted(j) /\ who[j] = who[i] /\ period[j] = period[i]}
      <3>1. expenses[who[i]][period[i]] + SumOf(S) + usd[i] <= provider[who[i]].budget
        BY <2>2, <2>8 DEF EvaluateCaps, PeriodSpend
      <3>2. SumOf(S) \in Nat /\ SumOf(S \cup {i}) = SumOf(S) + usd[i]
        <4>1. i \in Proposals \ S
          BY <2>3 DEF Granted
        <4> HIDE DEF S
        <4>2. S \in SUBSET Proposals
          BY DEF S
        <4> QED
          BY <4>1, <4>2, SumOfRows
      <3>3. Billed(i) = S \cup {i}
        BY <2>3 DEF Granted
      <3>4. expenses[who[i]][period[i]] \in Nat
        <4>1. who[i] \in Providers
          BY <2>3 DEF Named
        <4> QED
          BY <4>1 DEF TypeOK
      <3> HIDE DEF S, Billed
      <3> QED
        BY <2>6, <3>1, <3>2, <3>3, <3>4
    <2> QED
      BY <2>7, <2>8
  <1> QED
    BY <1>1, AlwaysDated, AlwaysNamed, TreasuryTypes, PTL DEF Spec, ApprovedWithinLimits
=============================================================================
