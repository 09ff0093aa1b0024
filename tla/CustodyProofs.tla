--------------------------- MODULE CustodyProofs ---------------------------
(***************************************************************************)
(* Who may act, and what is kept: Custody, the treasury's gate, the agent  *)
(* wallets and the withdrawals out of them.                                *)
(*                                                                         *)
(* Custody, for any passwords, requests, sessions, tokens and purposes:    *)
(* the vault's key is timed, and no session acts more often than the       *)
(* password was proven in it.  KeyIsTimed needs Held, for the password a   *)
(* request works with must be one; ActsWereProven needs Balance, which     *)
(* counts the unspent tokens with the acts.  GuessesAreBounded needs       *)
(* ThrottleInv: what is charged is the wrong passwords and the requests    *)
(* still waiting to be judged.                                             *)
(*                                                                         *)
(* TreasuryAdmin, for any secrets, sessions, sign-ins and tokens: a token  *)
(* needs SecretStays, since a sign-in compares with what it read before    *)
(* its wait; the lockout needs LockInv, which counts the checks that wait  *)
(* with the wrong secrets answered.  Wallets, for any keys and chains: an  *)
(* address stays because a row, once written, is never written again       *)
(* (WalletsStay).                                                          *)
(*                                                                         *)
(* Withdrawal, for any number of quotes, client keys, deaths of the        *)
(* process and transactions of the agent: its three properties are         *)
(* inductive with the types and Stages, which says what a row may be while *)
(* its execution waits; each conjunct has a lemma of its own.              *)
(***************************************************************************)
EXTENDS Custody, TreasuryAdmin, Wallets, Withdrawal, Sums

IInv == CoreTypeOK /\ Held /\ KeyIsTimed /\ Balance

\* A fresh installation satisfies every conjunct: no password, no session, no token.
LEMMA InitIInv == Init => IInv
  <1> SUFFICES ASSUME Init PROVE IInv
    OBVIOUS
  <1> USE CustodyConstants DEF Init
  <1>1. CoreTypeOK
    BY DEF CoreTypeOK
  <1>2. Held /\ KeyIsTimed
    BY DEF Held, KeyIsTimed
  <1>3. Balance
    <2> SUFFICES ASSUME NEW s \in Sessions, NEW p \in AllPurposes
                 PROVE  acts[s][p] + Cardinality(Unspent(s, p)) <= proofs[s][p]
      BY DEF Balance
    <2>1. Unspent(s, p) = {}
      BY DEF Unspent, MayConsume
    <2>2. Cardinality(Unspent(s, p)) = 0
      BY <2>1, FS_EmptySet
    <2> QED
      BY <2>2
  <1> QED
    BY <1>1, <1>2, <1>3 DEF IInv

Waits == {"idle", "setup.hash", "setup.wrap", "login.verify", "reauth.verify", "unlock",
          "change.open", "change.wrap", "change.verify", "change.hash"}

RequestTypes ==
    /\ pc \in [Requests -> Waits]
    /\ pw \in [Requests -> Passwords \cup {None}] /\ new \in [Requests -> Passwords \cup {None}]
    /\ rider \in [Requests -> Sessions \cup {None}]
    /\ want \in [Requests -> AllPurposes \cup {None}]
    /\ seen \in [Requests -> Passwords \cup {None}]

RowTypes ==
    /\ credential \in Passwords \cup {None} /\ header \in Passwords \cup {None}
    /\ dek \in BOOLEAN /\ timer \in {"none", "armed"}
    /\ sess \in [Sessions -> {"none", "live", "dead"}]
    /\ tok \in [Tokens -> {"none", "fresh", "used"}]
    /\ tokSess \in [Tokens -> Sessions \cup {None}]
    /\ tokFor \in [Tokens -> AllPurposes \cup {None}]
    /\ proofs \in [Sessions -> [AllPurposes -> Nat]]
    /\ acts \in [Sessions -> [AllPurposes -> Nat]]

LEMMA TwoParts == CoreTypeOK <=> RequestTypes /\ RowTypes
  BY DEF CoreTypeOK, RequestTypes, RowTypes, Waits

\* A request that ends, or goes on to its next wait, is still one.
LEMMA RequestMoves ==
    ASSUME RequestTypes, NEW r \in Requests,
           \/ End(r)
           \/ \E w \in Waits, v \in Passwords \cup {None} : Derive(r, w, v)
    PROVE  RequestTypes'
  <1>1. CASE End(r)
    <2>1. "idle" \in Waits /\ None \in Passwords \cup {None} /\ None \in Sessions \cup {None}
          /\ None \in AllPurposes \cup {None}
      BY DEF Waits
    <2> QED
      BY <1>1, <2>1 DEF End, RequestTypes
  <1>2. ASSUME NEW w \in Waits, NEW v \in Passwords \cup {None}, Derive(r, w, v)
        PROVE  RequestTypes'
    BY <1>2 DEF Derive, RequestTypes
  <1> QED
    BY <1>1, <1>2

\* The timer is armed, or was.
LEMMA DekTaken == RowTypes /\ TakeDek => dek' \in BOOLEAN /\ timer' \in {"none", "armed"}
  BY DEF RowTypes, TakeDek, Armed

\* Every handler keeps the types of the requests ...
LEMMA NextRequestTypes ==
    ASSUME CoreTypeOK, [Next]_vars
    PROVE  RequestTypes'
  <1>0. RequestTypes /\ RowTypes
    BY TwoParts
  <1>1. {"idle", "setup.hash", "setup.wrap", "login.verify", "reauth.verify", "unlock",
         "change.open", "change.wrap", "change.verify", "change.hash"} \subseteq Waits
    BY DEF Waits
  <1>2. {None, credential, header} \subseteq Passwords \cup {None}
    BY <1>0 DEF RowTypes
  <1>3. ASSUME NEW r \in Requests, NEW p \in Passwords, Setup(r, p) \/ Login(r, p)
        PROVE  RequestTypes'
    BY <1>0, <1>1, <1>2, <1>3 DEF Setup, Login, RequestTypes
  <1>4. ASSUME NEW r \in Requests, NEW s \in Sessions, Initialize(r, s) \/ LoginVerified(r, s)
        PROVE  RequestTypes'
    <2>1. End(r) \/ Derive(r, "unlock", header)
      BY <1>4 DEF Initialize, LoginVerified
    <2> QED
      BY <1>0, <1>1, <1>2, <2>1, RequestMoves
  <1>5. ASSUME NEW r \in Requests, NEW s \in Sessions, NEW p \in Passwords,
               NEW a \in AllPurposes, Reauth(r, s, p, a)
        PROVE  RequestTypes'
    BY <1>0, <1>1, <1>2, <1>5 DEF Reauth, RequestTypes
  <1>6. ASSUME NEW r \in Requests, NEW t \in Tokens, ReauthVerified(r, t)
        PROVE  RequestTypes'
    <2>1. End(r) \/ Derive(r, "unlock", header)
      BY <1>6 DEF ReauthVerified
    <2> QED
      BY <1>0, <1>1, <1>2, <2>1, RequestMoves
  <1>7. ASSUME NEW r \in Requests, NEW s \in Sessions, NEW t \in Tokens,
               NEW cur \in Passwords, NEW next \in Passwords, ChangePassword(r, s, t, cur, next)
        PROVE  RequestTypes'
    <2>1. /\ pw' = [pw EXCEPT ![r] = cur] /\ new' = [new EXCEPT ![r] = next]
          /\ UNCHANGED <<rider, want>>
          /\ \E w \in Waits, v \in {credential, header} :
                pc' = [pc EXCEPT ![r] = w] /\ seen' = [seen EXCEPT ![r] = v]
      BY <1>1, <1>7 DEF ChangePassword
    <2> QED
      BY <1>0, <1>2, <2>1 DEF RequestTypes
  <1>8. ASSUME NEW r \in Requests,
               \/ SetPassword(r) \/ VerifyFails(r) \/ Unlock(r)
               \/ ChangeOpen(r) \/ ChangeWrap(r) \/ ChangeVerify(r) \/ ChangeHash(r)
        PROVE  RequestTypes'
    <2>1. End(r) \/ \E w \in Waits, v \in {None, credential} : Derive(r, w, v)
      BY <1>1, <1>8 DEF SetPassword, VerifyFails, Unlock, ChangeOpen, ChangeWrap, ChangeVerify,
                        ChangeHash
    <2> QED
      BY <1>0, <1>2, <2>1, RequestMoves
  <1>9. CASE Crash
    BY <1>1, <1>2, <1>9 DEF Crash, RequestTypes
  <1>10. ASSUME UNCHANGED reqs PROVE RequestTypes'
    BY <1>0, <1>10 DEF reqs, RequestTypes
  <1>11. ASSUME NEW s \in Sessions, NEW t \in Tokens, NEW p \in Purposes, Act(s, t, p)
         PROVE  RequestTypes'
    BY <1>10, <1>11 DEF Act
  <1>12. ASSUME NEW s \in Sessions, Logout(s) \/ SessionExpires(s) PROVE RequestTypes'
    BY <1>10, <1>12 DEF Logout, SessionExpires
  <1>13. ASSUME NEW t \in Tokens, TokenExpires(t) PROVE RequestTypes'
    BY <1>10, <1>13 DEF TokenExpires
  <1>14. CASE Autolock \/ Tick \/ UNCHANGED vars
    BY <1>10, <1>14 DEF Autolock, Tick, vars
  <1> QED
    BY <1>3, <1>4, <1>5, <1>6, <1>7, <1>8, <1>9, <1>11, <1>12, <1>13, <1>14 DEF Next

\* ... and those of the rows and the vault.
LEMMA NextRowTypes ==
    ASSUME CoreTypeOK, Held, [Next]_vars
    PROVE  RowTypes'
  <1>0. RequestTypes /\ RowTypes
    BY TwoParts
  <1> USE DEF auth, vault, history
  <1>1. ASSUME NEW r \in Requests, NEW p \in Passwords, Setup(r, p) \/ Login(r, p)
        PROVE  RowTypes'
    BY <1>0, <1>1 DEF Setup, Login, RowTypes
  <1>2. ASSUME NEW r \in Requests, NEW s \in Sessions, Initialize(r, s)
        PROVE  RowTypes'
    <2>1. dek' \in BOOLEAN /\ timer' \in {"none", "armed"}
      BY <1>0, <1>2, DekTaken DEF Initialize
    <2>2. header' \in Passwords \cup {None}
      BY <1>0, <1>2 DEF Initialize, RequestTypes
    <2>3. sess' \in [Sessions -> {"none", "live", "dead"}]
      BY <1>0, <1>2 DEF Initialize, Begin, RowTypes
    <2> QED
      BY <1>0, <1>2, <2>1, <2>2, <2>3 DEF Initialize, RowTypes
  <1>3. ASSUME NEW r \in Requests, NEW s \in Sessions, LoginVerified(r, s)
        PROVE  RowTypes'
    BY <1>0, <1>3 DEF LoginVerified, Begin, RowTypes
  <1>4. ASSUME NEW r \in Requests, NEW s \in Sessions, NEW p \in Passwords,
               NEW a \in AllPurposes, Reauth(r, s, p, a)
        PROVE  RowTypes'
    BY <1>0, <1>4 DEF Reauth, RowTypes
  <1>5. ASSUME NEW r \in Requests, NEW t \in Tokens, ReauthVerified(r, t)
        PROVE  RowTypes'
    <2>1. rider[r] \in Sessions /\ want[r] \in AllPurposes
      BY <1>0, <1>5 DEF ReauthVerified, Held, RequestTypes
    <2>2. /\ tok' \in [Tokens -> {"none", "fresh", "used"}]
          /\ tokSess' \in [Tokens -> Sessions \cup {None}]
          /\ tokFor' \in [Tokens -> AllPurposes \cup {None}]
      BY <1>0, <1>5, <2>1 DEF ReauthVerified, RowTypes
    <2>3. proofs' \in [Sessions -> [AllPurposes -> Nat]]
      <3>1. [proofs[rider[r]] EXCEPT ![want[r]] = @ + 1] \in [AllPurposes -> Nat]
        BY <1>0, <2>1 DEF RowTypes
      <3> QED
        BY <1>0, <1>5, <2>1, <3>1 DEF ReauthVerified, RowTypes
    <2> QED
      BY <1>0, <1>5, <2>2, <2>3 DEF ReauthVerified, RowTypes
  <1>6. ASSUME NEW r \in Requests, NEW s \in Sessions, NEW t \in Tokens,
               NEW cur \in Passwords, NEW next \in Passwords, ChangePassword(r, s, t, cur, next)
        PROVE  RowTypes'
    <2>1. acts' \in [Sessions -> [AllPurposes -> Nat]]
      <3>1. [acts[s] EXCEPT !["auth.password"] = @ + 1] \in [AllPurposes -> Nat]
        BY <1>0 DEF RowTypes, AllPurposes
      <3> QED
        BY <1>0, <1>6, <3>1 DEF ChangePassword, RowTypes
    <2> QED
      BY <1>0, <1>6, <2>1 DEF ChangePassword, RowTypes
  <1>7. ASSUME NEW r \in Requests, SetPassword(r) PROVE RowTypes'
    BY <1>0, <1>7 DEF SetPassword, RowTypes, RequestTypes
  <1>8. ASSUME NEW r \in Requests,
               VerifyFails(r) \/ ChangeOpen(r) \/ ChangeVerify(r)
        PROVE  RowTypes'
    BY <1>0, <1>8 DEF VerifyFails, ChangeOpen, ChangeVerify, RowTypes
  <1>9. ASSUME NEW r \in Requests, Unlock(r) PROVE RowTypes'
    <2>1. dek' \in BOOLEAN /\ timer' \in {"none", "armed"}
      BY <1>0, <1>9, DekTaken DEF Unlock, RowTypes
    <2> QED
      BY <1>0, <1>9, <2>1 DEF Unlock, RowTypes
  <1>10. ASSUME NEW r \in Requests, ChangeWrap(r) PROVE RowTypes'
    <2>1. dek' \in BOOLEAN /\ timer' \in {"none", "armed"}
      BY <1>0, <1>10, DekTaken DEF ChangeWrap
    <2> QED
      BY <1>0, <1>10, <2>1 DEF ChangeWrap, RowTypes, RequestTypes
  <1>11. ASSUME NEW r \in Requests, ChangeHash(r) PROVE RowTypes'
    BY <1>0, <1>11 DEF ChangeHash, RowTypes, RequestTypes
  <1>12. ASSUME NEW s \in Sessions, NEW t \in Tokens, NEW p \in Purposes, Act(s, t, p)
         PROVE  RowTypes'
    <2>1. acts' \in [Sessions -> [AllPurposes -> Nat]]
      <3>1. [acts[s] EXCEPT ![p] = @ + 1] \in [AllPurposes -> Nat]
        BY <1>0 DEF RowTypes, AllPurposes
      <3> QED
        BY <1>0, <1>12, <3>1 DEF Act, RowTypes
    <2> QED
      BY <1>0, <1>12, <2>1 DEF Act, RowTypes
  <1>13. ASSUME NEW s \in Sessions, Logout(s) \/ SessionExpires(s) PROVE RowTypes'
    BY <1>0, <1>13 DEF Logout, SessionExpires, Lock, RowTypes
  <1>14. ASSUME NEW t \in Tokens, TokenExpires(t) PROVE RowTypes'
    BY <1>0, <1>14 DEF TokenExpires, RowTypes
  <1>15. CASE Autolock \/ Tick \/ Crash \/ UNCHANGED vars
    BY <1>0, <1>15 DEF Autolock, Lock, Tick, Crash, vars, RowTypes
  <1> QED
    BY <1>1, <1>2, <1>3, <1>4, <1>5, <1>6, <1>7, <1>8, <1>9, <1>10, <1>11, <1>12, <1>13,
       <1>14, <1>15 DEF Next

LEMMA NextCoreTypeOK == CoreTypeOK /\ Held /\ [Next]_vars => CoreTypeOK'
  <1>1. RequestTypes' /\ RowTypes' => CoreTypeOK'
    BY DEF CoreTypeOK, RequestTypes, RowTypes, Waits
  <1> QED
    BY <1>1, NextRequestTypes, NextRowTypes

\* A request that waits holds the password, the session and the purpose it will use, and a
\* vault that exists stays.
LEMMA NextHeld == CoreTypeOK /\ Held /\ [Next]_vars => Held'
  <1> SUFFICES ASSUME CoreTypeOK, Held, [Next]_vars PROVE Held'
    OBVIOUS
  <1> USE CustodyConstants DEF CoreTypeOK, Held, auth, vault, throttle, reqs, history, AllPurposes
  <1>1. ASSUME NEW r \in Requests, NEW p \in Passwords, Setup(r, p)
        PROVE  Held'
    BY <1>1 DEF Setup
  <1>2. ASSUME NEW r \in Requests, NEW p \in Passwords, Login(r, p)
        PROVE  Held'
    BY <1>2 DEF Login
  <1>3. ASSUME NEW r \in Requests, NEW s \in Sessions, Initialize(r, s)
        PROVE  Held'
    BY <1>3 DEF Initialize, TakeDek, Armed, Begin, End
  <1>4. ASSUME NEW r \in Requests, NEW s \in Sessions, LoginVerified(r, s)
        PROVE  Held'
    BY <1>4 DEF LoginVerified, Begin, End, Derive
  <1>5. ASSUME NEW r \in Requests, NEW s \in Sessions, NEW p \in Passwords,
               NEW a \in AllPurposes, Reauth(r, s, p, a)
        PROVE  Held'
    BY <1>5 DEF Reauth
  <1>6. ASSUME NEW r \in Requests, NEW t \in Tokens, ReauthVerified(r, t)
        PROVE  Held'
    BY <1>6 DEF ReauthVerified, End, Derive
  <1>7. ASSUME NEW r \in Requests, NEW s \in Sessions, NEW t \in Tokens,
               NEW cur \in Passwords, NEW next \in Passwords, ChangePassword(r, s, t, cur, next)
        PROVE  Held'
    BY <1>7 DEF ChangePassword, MayConsume
  <1>8. ASSUME NEW r \in Requests, SetPassword(r)
        PROVE  Held'
    BY <1>8 DEF SetPassword, End, Derive
  <1>9. ASSUME NEW r \in Requests, VerifyFails(r)
        PROVE  Held'
    BY <1>9 DEF VerifyFails, End
  <1>10. ASSUME NEW r \in Requests, Unlock(r)
        PROVE  Held'
    BY <1>10 DEF Unlock, TakeDek, Armed, End
  <1>11. ASSUME NEW r \in Requests, ChangeOpen(r)
        PROVE  Held'
    BY <1>11 DEF ChangeOpen, End, Derive
  <1>12. ASSUME NEW r \in Requests, ChangeWrap(r)
        PROVE  Held'
    BY <1>12 DEF ChangeWrap, TakeDek, Armed, Derive
  <1>13. ASSUME NEW r \in Requests, ChangeVerify(r)
        PROVE  Held'
    BY <1>13 DEF ChangeVerify, End, Derive
  <1>14. ASSUME NEW r \in Requests, ChangeHash(r)
        PROVE  Held'
    BY <1>14 DEF ChangeHash, End
  <1>15. ASSUME NEW s \in Sessions, NEW t \in Tokens, NEW p \in Purposes, Act(s, t, p)
        PROVE  Held'
    BY <1>15 DEF Act, MayConsume
  <1>16. ASSUME NEW s \in Sessions, Logout(s)
        PROVE  Held'
    BY <1>16 DEF Logout, Lock
  <1>17. ASSUME NEW s \in Sessions, SessionExpires(s)
        PROVE  Held'
    BY <1>17 DEF SessionExpires
  <1>18. ASSUME NEW t \in Tokens, TokenExpires(t)
        PROVE  Held'
    BY <1>18 DEF TokenExpires
  <1>19. CASE Autolock
    BY <1>19 DEF Autolock, Lock
  <1>20. CASE Tick
    BY <1>20 DEF Tick
  <1>21. CASE Crash
    BY <1>21 DEF Crash
  <1>22. CASE UNCHANGED vars
    BY <1>22 DEF vars
  <1> QED
    BY <1>1, <1>2, <1>3, <1>4, <1>5, <1>6, <1>7, <1>8, <1>9, <1>10, <1>11, <1>12, <1>13,
       <1>14, <1>15, <1>16, <1>17, <1>18, <1>19, <1>20, <1>21, <1>22
       DEF Next

\* The key enters memory together with a timer, and the timer goes only with the key.
LEMMA NextKeyIsTimed == CoreTypeOK /\ Held /\ KeyIsTimed /\ [Next]_vars => KeyIsTimed'
  <1> SUFFICES ASSUME CoreTypeOK, Held, KeyIsTimed, [Next]_vars PROVE KeyIsTimed'
    OBVIOUS
  <1> USE CustodyConstants DEF CoreTypeOK, Held, KeyIsTimed, auth, vault, throttle, reqs, history, AllPurposes
  <1>1. ASSUME NEW r \in Requests, NEW p \in Passwords, Setup(r, p)
        PROVE  KeyIsTimed'
    BY <1>1 DEF Setup
  <1>2. ASSUME NEW r \in Requests, NEW p \in Passwords, Login(r, p)
        PROVE  KeyIsTimed'
    BY <1>2 DEF Login
  <1>3. ASSUME NEW r \in Requests, NEW s \in Sessions, Initialize(r, s)
        PROVE  KeyIsTimed'
    BY <1>3 DEF Initialize, TakeDek, Armed, Begin, End
  <1>4. ASSUME NEW r \in Requests, NEW s \in Sessions, LoginVerified(r, s)
        PROVE  KeyIsTimed'
    BY <1>4 DEF LoginVerified, Begin, End, Derive
  <1>5. ASSUME NEW r \in Requests, NEW s \in Sessions, NEW p \in Passwords,
               NEW a \in AllPurposes, Reauth(r, s, p, a)
        PROVE  KeyIsTimed'
    BY <1>5 DEF Reauth
  <1>6. ASSUME NEW r \in Requests, NEW t \in Tokens, ReauthVerified(r, t)
        PROVE  KeyIsTimed'
    BY <1>6 DEF ReauthVerified, End, Derive
  <1>7. ASSUME NEW r \in Requests, NEW s \in Sessions, NEW t \in Tokens,
               NEW cur \in Passwords, NEW next \in Passwords, ChangePassword(r, s, t, cur, next)
        PROVE  KeyIsTimed'
    BY <1>7 DEF ChangePassword, MayConsume
  <1>8. ASSUME NEW r \in Requests, SetPassword(r)
        PROVE  KeyIsTimed'
    BY <1>8 DEF SetPassword, End, Derive
  <1>9. ASSUME NEW r \in Requests, VerifyFails(r)
        PROVE  KeyIsTimed'
    BY <1>9 DEF VerifyFails, End
  <1>10. ASSUME NEW r \in Requests, Unlock(r)
        PROVE  KeyIsTimed'
    BY <1>10 DEF Unlock, TakeDek, Armed, End
  <1>11. ASSUME NEW r \in Requests, ChangeOpen(r)
        PROVE  KeyIsTimed'
    BY <1>11 DEF ChangeOpen, End, Derive
  <1>12. ASSUME NEW r \in Requests, ChangeWrap(r)
        PROVE  KeyIsTimed'
    BY <1>12 DEF ChangeWrap, TakeDek, Armed, Derive
  <1>13. ASSUME NEW r \in Requests, ChangeVerify(r)
        PROVE  KeyIsTimed'
    BY <1>13 DEF ChangeVerify, End, Derive
  <1>14. ASSUME NEW r \in Requests, ChangeHash(r)
        PROVE  KeyIsTimed'
    BY <1>14 DEF ChangeHash, End
  <1>15. ASSUME NEW s \in Sessions, NEW t \in Tokens, NEW p \in Purposes, Act(s, t, p)
        PROVE  KeyIsTimed'
    BY <1>15 DEF Act, MayConsume
  <1>16. ASSUME NEW s \in Sessions, Logout(s)
        PROVE  KeyIsTimed'
    BY <1>16 DEF Logout, Lock
  <1>17. ASSUME NEW s \in Sessions, SessionExpires(s)
        PROVE  KeyIsTimed'
    BY <1>17 DEF SessionExpires
  <1>18. ASSUME NEW t \in Tokens, TokenExpires(t)
        PROVE  KeyIsTimed'
    BY <1>18 DEF TokenExpires
  <1>19. CASE Autolock
    BY <1>19 DEF Autolock, Lock
  <1>20. CASE Tick
    BY <1>20 DEF Tick
  <1>21. CASE Crash
    BY <1>21 DEF Crash
  <1>22. CASE UNCHANGED vars
    BY <1>22 DEF vars
  <1> QED
    BY <1>1, <1>2, <1>3, <1>4, <1>5, <1>6, <1>7, <1>8, <1>9, <1>10, <1>11, <1>12, <1>13,
       <1>14, <1>15, <1>16, <1>17, <1>18, <1>19, <1>20, <1>21, <1>22
       DEF Next

\* A session's unspent tokens for a purpose are finitely many.
LEMMA FiniteUnspent ==
    ASSUME NEW s, NEW p
    PROVE  IsFiniteSet(Unspent(s, p))
  <1>1. Unspent(s, p) \subseteq Tokens
    BY DEF Unspent
  <1> QED
    BY <1>1, FS_Subset, CustodyConstants

\* Spending a token takes it from the unspent ones of its session and purpose and adds to
\* nobody's (consumeReauthToken's UPDATE, and a token past its time).
LEMMA Spending ==
    ASSUME CoreTypeOK, NEW t \in Tokens, NEW s, NEW p,
           tok' = [tok EXCEPT ![t] = "used"], UNCHANGED <<tokSess, tokFor>>
    PROVE  /\ Cardinality(Unspent(s, p)') <= Cardinality(Unspent(s, p))
           /\ t \in Unspent(s, p) => Cardinality(Unspent(s, p)') = Cardinality(Unspent(s, p)) - 1
           /\ Cardinality(Unspent(s, p)') \in Nat /\ Cardinality(Unspent(s, p)) \in Nat
  <1>1. Unspent(s, p)' = Unspent(s, p) \ {t}
    BY DEF CoreTypeOK, Unspent, MayConsume
  <1>2. IsFiniteSet(Unspent(s, p))
    BY FiniteUnspent
  <1>3. Cardinality(Unspent(s, p)) \in Nat
    BY <1>2, FS_CardinalityType
  <1>4. CASE t \in Unspent(s, p)
    <2>1. Cardinality(Unspent(s, p)') = Cardinality(Unspent(s, p)) - 1
      BY <1>1, <1>2, <1>4, FS_RemoveElement
    <2>2. IsFiniteSet(Unspent(s, p)')
      BY <1>1, <1>2, FS_RemoveElement
    <2>3. Cardinality(Unspent(s, p)') \in Nat
      BY <2>2, FS_CardinalityType
    <2> QED
      BY <2>1, <2>3, <1>3
  <1>5. CASE t \notin Unspent(s, p)
    <2>1. Unspent(s, p)' = Unspent(s, p)
      BY <1>1, <1>5
    <2> QED
      BY <2>1, <1>3, <1>5
  <1> QED
    BY <1>4, <1>5

\* A step that neither grants nor spends nor acts keeps the balance.
LEMMA Idle == Balance /\ UNCHANGED <<tok, tokSess, tokFor, acts, proofs>> => Balance'
  BY DEF Balance, Unspent, MayConsume

\* A password proven pays for the token it grants, and a token for what it is spent on.
LEMMA NextBalance == CoreTypeOK /\ CoreTypeOK' /\ Held /\ Balance /\ [Next]_vars => Balance'
  <1> SUFFICES ASSUME CoreTypeOK, CoreTypeOK', Held, Balance, [Next]_vars PROVE Balance'
    OBVIOUS
  <1> USE CustodyConstants DEF CoreTypeOK, auth, vault, throttle, reqs, history, AllPurposes
  <1>1. ASSUME NEW r \in Requests, NEW p \in Passwords, Setup(r, p)
        PROVE  Balance'
    BY <1>1, Idle DEF Setup
  <1>2. ASSUME NEW r \in Requests, NEW p \in Passwords, Login(r, p)
        PROVE  Balance'
    BY <1>2, Idle DEF Login
  <1>3. ASSUME NEW r \in Requests, NEW s \in Sessions, Initialize(r, s)
        PROVE  Balance'
    BY <1>3, Idle DEF Initialize, TakeDek, Armed, Begin, End
  <1>4. ASSUME NEW r \in Requests, NEW s \in Sessions, LoginVerified(r, s)
        PROVE  Balance'
    BY <1>4, Idle DEF LoginVerified, Begin, End, Derive
  <1>5. ASSUME NEW r \in Requests, NEW s \in Sessions, NEW p \in Passwords,
               NEW a \in AllPurposes, Reauth(r, s, p, a)
        PROVE  Balance'
    BY <1>5, Idle DEF Reauth
  <1>6. ASSUME NEW r \in Requests, NEW t \in Tokens, ReauthVerified(r, t)
        PROVE  Balance'
    <2> SUFFICES ASSUME NEW u \in Sessions, NEW q \in AllPurposes
                 PROVE  acts'[u][q] + Cardinality(Unspent(u, q)') <= proofs'[u][q]
      BY DEF Balance, Unspent
    <2>1. rider[r] \in Sessions /\ want[r] \in AllPurposes
      BY <1>6 DEF ReauthVerified, Held
    <2>2a. t \notin Unspent(u, q)
      BY <1>6 DEF ReauthVerified, Unspent, MayConsume
    <2>2. IsFiniteSet(Unspent(u, q))
      BY FiniteUnspent
    <2>3. Cardinality(Unspent(u, q)) \in Nat
      BY <2>2, FS_CardinalityType
    <2>4. acts' = acts
      BY <1>6 DEF ReauthVerified
    <2>5. acts[u][q] + Cardinality(Unspent(u, q)) <= proofs[u][q]
      BY DEF Balance
    <2>6. CASE u = rider[r] /\ q = want[r]
      <3>1. Unspent(u, q)' = Unspent(u, q) \cup {t}
        BY <1>6, <2>1, <2>6 DEF ReauthVerified, Unspent, MayConsume
      <3>1a. Cardinality(Unspent(u, q) \cup {t}) = Cardinality(Unspent(u, q)) + 1
        BY <2>2, <2>2a, FS_AddElement
      <3>2. Cardinality(Unspent(u, q)') = Cardinality(Unspent(u, q)) + 1
        BY <3>1, <3>1a
      <3>3. proofs'[u][q] = proofs[u][q] + 1
        BY <1>6, <2>1, <2>6 DEF ReauthVerified
      <3> QED
        BY <3>2, <3>3, <2>3, <2>4, <2>5
    <2>7. CASE ~(u = rider[r] /\ q = want[r])
      <3>1. Unspent(u, q)' = Unspent(u, q)
        BY <1>6, <2>1, <2>7 DEF ReauthVerified, Unspent, MayConsume
      <3>2. proofs'[u][q] = proofs[u][q]
        BY <1>6, <2>1, <2>7 DEF ReauthVerified
      <3> QED
        BY <3>1, <3>2, <2>4, <2>5
    <2> QED
      BY <2>6, <2>7
  <1>7. ASSUME NEW r \in Requests, NEW s \in Sessions, NEW t \in Tokens,
               NEW cur \in Passwords, NEW next \in Passwords, ChangePassword(r, s, t, cur, next)
        PROVE  Balance'
    <2> SUFFICES ASSUME NEW u \in Sessions, NEW q \in AllPurposes
                 PROVE  acts'[u][q] + Cardinality(Unspent(u, q)') <= proofs'[u][q]
      BY DEF Balance, Unspent
    <2>1. /\ Cardinality(Unspent(u, q)') <= Cardinality(Unspent(u, q))
          /\ t \in Unspent(u, q) => Cardinality(Unspent(u, q)') = Cardinality(Unspent(u, q)) - 1
          /\ Cardinality(Unspent(u, q)') \in Nat /\ Cardinality(Unspent(u, q)) \in Nat
      BY <1>7, Spending DEF ChangePassword
    <2>2. u = s /\ q = "auth.password" => t \in Unspent(u, q)
      BY <1>7 DEF ChangePassword, Unspent
    <2>3. /\ u = s /\ q = "auth.password" => acts'[u][q] <= acts[u][q] + 1
          /\ ~(u = s /\ q = "auth.password") => acts'[u][q] = acts[u][q]
          /\ acts'[u][q] \in Nat
      BY <1>7 DEF ChangePassword
    <2>4. proofs' = proofs
      BY <1>7 DEF ChangePassword
    <2>5. acts[u][q] + Cardinality(Unspent(u, q)) <= proofs[u][q]
      BY DEF Balance
    <2> QED
      BY <2>1, <2>2, <2>3, <2>4, <2>5
  <1>8. ASSUME NEW r \in Requests, SetPassword(r)
        PROVE  Balance'
    BY <1>8, Idle DEF SetPassword, End, Derive
  <1>9. ASSUME NEW r \in Requests, VerifyFails(r)
        PROVE  Balance'
    BY <1>9, Idle DEF VerifyFails, End
  <1>10. ASSUME NEW r \in Requests, Unlock(r)
        PROVE  Balance'
    BY <1>10, Idle DEF Unlock, TakeDek, Armed, End
  <1>11. ASSUME NEW r \in Requests, ChangeOpen(r)
        PROVE  Balance'
    BY <1>11, Idle DEF ChangeOpen, End, Derive
  <1>12. ASSUME NEW r \in Requests, ChangeWrap(r)
        PROVE  Balance'
    BY <1>12, Idle DEF ChangeWrap, TakeDek, Armed, Derive
  <1>13. ASSUME NEW r \in Requests, ChangeVerify(r)
        PROVE  Balance'
    BY <1>13, Idle DEF ChangeVerify, End, Derive
  <1>14. ASSUME NEW r \in Requests, ChangeHash(r)
        PROVE  Balance'
    BY <1>14, Idle DEF ChangeHash, End
  <1>15. ASSUME NEW s \in Sessions, NEW t \in Tokens, NEW p \in Purposes, Act(s, t, p)
        PROVE  Balance'
    <2> SUFFICES ASSUME NEW u \in Sessions, NEW q \in AllPurposes
                 PROVE  acts'[u][q] + Cardinality(Unspent(u, q)') <= proofs'[u][q]
      BY DEF Balance, Unspent
    <2>1. /\ Cardinality(Unspent(u, q)') <= Cardinality(Unspent(u, q))
          /\ t \in Unspent(u, q) => Cardinality(Unspent(u, q)') = Cardinality(Unspent(u, q)) - 1
          /\ Cardinality(Unspent(u, q)') \in Nat /\ Cardinality(Unspent(u, q)) \in Nat
      BY <1>15, Spending DEF Act
    <2>2. u = s /\ q = p => t \in Unspent(u, q)
      BY <1>15 DEF Act, Unspent
    <2>3. /\ u = s /\ q = p => acts'[u][q] <= acts[u][q] + 1
          /\ ~(u = s /\ q = p) => acts'[u][q] = acts[u][q]
          /\ acts'[u][q] \in Nat
      BY <1>15 DEF Act
    <2>4. proofs' = proofs
      BY <1>15 DEF Act
    <2>5. acts[u][q] + Cardinality(Unspent(u, q)) <= proofs[u][q]
      BY DEF Balance
    <2> QED
      BY <2>1, <2>2, <2>3, <2>4, <2>5
  <1>16. ASSUME NEW s \in Sessions, Logout(s)
        PROVE  Balance'
    BY <1>16, Idle DEF Logout, Lock
  <1>17. ASSUME NEW s \in Sessions, SessionExpires(s)
        PROVE  Balance'
    BY <1>17, Idle DEF SessionExpires
  <1>18. ASSUME NEW t \in Tokens, TokenExpires(t)
        PROVE  Balance'
    <2> SUFFICES ASSUME NEW u \in Sessions, NEW q \in AllPurposes
                 PROVE  acts'[u][q] + Cardinality(Unspent(u, q)') <= proofs'[u][q]
      BY DEF Balance, Unspent
    <2>1. Cardinality(Unspent(u, q)') <= Cardinality(Unspent(u, q))
      BY <1>18, Spending DEF TokenExpires
    <2>2. Cardinality(Unspent(u, q)') \in Nat /\ Cardinality(Unspent(u, q)) \in Nat
      BY <1>18, Spending DEF TokenExpires
    <2>3. acts' = acts /\ proofs' = proofs
      BY <1>18 DEF TokenExpires
    <2>4. acts[u][q] + Cardinality(Unspent(u, q)) <= proofs[u][q]
      BY DEF Balance
    <2> QED
      BY <2>1, <2>2, <2>3, <2>4
  <1>19. CASE Autolock
    BY <1>19, Idle DEF Autolock, Lock
  <1>20. CASE Tick
    BY <1>20, Idle DEF Tick
  <1>21. CASE Crash
    BY <1>21, Idle DEF Crash
  <1>22. CASE UNCHANGED vars
    BY <1>22, Idle DEF vars
  <1> QED
    BY <1>1, <1>2, <1>3, <1>4, <1>5, <1>6, <1>7, <1>8, <1>9, <1>10, <1>11, <1>12, <1>13,
       <1>14, <1>15, <1>16, <1>17, <1>18, <1>19, <1>20, <1>21, <1>22
       DEF Next

\* IInv holds in every state Custody reaches.
THEOREM AlwaysIInv == Spec => []IInv
  <1>1. IInv /\ [Next]_vars => IInv'
    BY NextCoreTypeOK, NextHeld, NextKeyIsTimed, NextBalance DEF IInv
  <1> QED
    BY InitIInv, <1>1, PTL DEF Spec

\* For every number of requests, sessions and passwords, a key in memory has a timer that
\* will wipe it (vault.ts #replaceDek, lock).
THEOREM KeyIsAlwaysTimed == Spec => []KeyIsTimed
  <1>1. IInv => KeyIsTimed
    BY DEF IInv
  <1> QED
    BY AlwaysIInv, <1>1, PTL

\* For every set of sessions, tokens and purposes, a session's acts are within its proofs
\* (auth.ts consumeReauthToken).
THEOREM ActsNeedProofs == Spec => []ActsWereProven
  <1>1. IInv => ActsWereProven
    <2> SUFFICES ASSUME IInv, NEW s \in Sessions, NEW p \in AllPurposes
                 PROVE  acts[s][p] <= proofs[s][p]
      BY DEF ActsWereProven
    <2>1. Cardinality(Unspent(s, p)) \in Nat
      BY FiniteUnspent, FS_CardinalityType
    <2>2. acts[s][p] + Cardinality(Unspent(s, p)) <= proofs[s][p]
      BY DEF IInv, Balance
    <2>3. acts[s][p] \in Nat /\ proofs[s][p] \in Nat
      BY DEF IInv, CoreTypeOK
    <2> QED
      BY <2>1, <2>2, <2>3
  <1> QED
    BY AlwaysIInv, <1>1, PTL

-----------------------------------------------------------------------------
(* The throttle. *)

\* While the check is not locked, the attempts of the last lockout period are among the
\* failures on file; while it is, there are no more than the limit, and none of them is
\* left in the period when the lock ends.
ThrottleInv ==
    /\ failures \in [Times -> Nat] /\ tries \in [Times -> Nat]
    /\ lockedUntil \in Nat /\ now \in Times
    /\ HowMany(failures) < Limit
    /\ \A moment \in Times : tries[moment] # 0 => moment <= now
    /\ now >= lockedUntil =>
          \A moment \in Times : now < moment + Lockout => tries[moment] <= failures[moment]
    /\ now < lockedUntil =>
          /\ HowMany(Kept(tries, now, Lockout)) <= Limit
          /\ \A moment \in Times : tries[moment] # 0 => moment + Lockout <= lockedUntil

LEMMA TimesAreFinite == IsFiniteSet(Times) /\ Times \subseteq Nat
<1>1. MaxTime \in Nat
  BY CustodyConstants
<1>2. IsFiniteSet(0..MaxTime) /\ 0..MaxTime \subseteq Nat
  BY <1>1, FS_Interval
<1> QED
  BY <1>2 DEF Times

LEMMA InitThrottle == Init => ThrottleInv
  <1> SUFFICES ASSUME Init PROVE ThrottleInv
    OBVIOUS
  <1>1. /\ failures = NoStamps(Times) /\ tries = NoStamps(Times)
        /\ now = 0 /\ lockedUntil = 0
    BY DEF Init
  <1>2. NoStamps(Times) \in [Times -> Nat] /\ HowMany(NoStamps(Times)) = 0
    BY TimesAreFinite, NothingStamped
  <1>3. \A moment \in Times : NoStamps(Times)[moment] = 0
    BY DEF NoStamps
  <1>4. 0 \in Times
    BY CustodyConstants DEF Times
  <1> QED
    BY <1>1, <1>2, <1>3, <1>4, CustodyConstants DEF ThrottleInv

\* An attempt that is let through is charged before its key is derived.
LEMMA AttemptIsCharged ==
    ASSUME ThrottleInv, BeginAttempt, UNCHANGED now
    PROVE  ThrottleInv'
  <1> DEFINE charged == Stamped(Recent, now)
  <1>1. /\ now >= lockedUntil
        /\ IF HowMany(charged) >= Limit
              THEN failures' = NoStamps(Times) /\ lockedUntil' = now + Lockout
              ELSE failures' = charged /\ lockedUntil' = 0
        /\ tries' = Stamped(tries, now)
    BY DEF BeginAttempt
  <1>2. /\ failures \in [Times -> Nat] /\ tries \in [Times -> Nat] /\ now \in Times /\ now \in Nat
        /\ HowMany(failures) < Limit
        /\ \A moment \in Times : moment \in Nat /\ tries[moment] \in Nat /\ failures[moment] \in Nat
        /\ \A moment \in Times : now < moment + Lockout => tries[moment] <= failures[moment]
        /\ \A moment \in Times : tries[moment] # 0 => moment <= now
    BY <1>1, TimesAreFinite DEF ThrottleInv
  <1>3. Recent \in [Times -> Nat] /\ HowMany(Recent) <= HowMany(failures)
    BY <1>2, TimesAreFinite, KeptStamps DEF Recent
  <1>4. charged \in [Times -> Nat] /\ HowMany(charged) = HowMany(Recent) + 1
    BY <1>2, <1>3, TimesAreFinite, OneStampMore
  <1>5. tries' \in [Times -> Nat] /\ now' \in Times /\ now' = now
    BY <1>1, <1>2, TimesAreFinite, OneStampMore
  <1>6. /\ \A moment \in Times : tries'[moment] = IF moment = now THEN tries[moment] + 1 ELSE tries[moment]
        /\ \A moment \in Times : charged[moment] = IF moment = now THEN Recent[moment] + 1 ELSE Recent[moment]
        /\ \A moment \in Times : Recent[moment] = IF now < moment + Window THEN failures[moment] ELSE 0
    BY <1>1, <1>2, <1>3 DEF Stamped, Recent, Kept
  <1> HIDE DEF charged
  <1>7. \A moment \in Times : now < moment + Lockout => tries'[moment] <= charged[moment]
    <2> SUFFICES ASSUME NEW moment \in Times, now < moment + Lockout PROVE tries'[moment] <= charged[moment]
      OBVIOUS
    <2>1. moment \in Nat /\ Window \in Nat /\ Lockout \in Nat /\ Lockout <= Window /\ now \in Nat
      BY <1>2, CustodyConstants
    <2>2. now < moment + Window
      BY <2>1
    <2>3. Recent[moment] = failures[moment]
      BY <1>6, <2>2
    <2>4. tries[moment] <= failures[moment] /\ tries[moment] \in Nat /\ failures[moment] \in Nat
      BY <1>2
    <2> QED
      BY <1>6, <2>3, <2>4
  <1>8. \A moment \in Times : tries'[moment] # 0 => moment <= now
    BY <1>2, <1>6
  <1>9. /\ HowMany(Recent) \in Nat /\ HowMany(failures) \in Nat /\ HowMany(charged) \in Nat
        /\ HowMany(charged) <= Limit /\ Limit \in Nat \ {0} /\ Lockout \in Nat \ {0}
    <2>1. /\ HowMany(Recent) \in Nat /\ HowMany(failures) \in Nat /\ HowMany(charged) \in Nat
      BY <1>2, <1>3, <1>4, TimesAreFinite, StampsAreCounted
    <2> QED
      BY <1>2, <1>3, <1>4, <2>1, CustodyConstants
  <1>10. CASE HowMany(charged) >= Limit
    <2>1. failures' = NoStamps(Times) /\ lockedUntil' = now + Lockout
      BY <1>1, <1>10
    <2>2. failures' \in [Times -> Nat] /\ HowMany(failures') = 0
      BY <2>1, TimesAreFinite, NothingStamped
    <2>3. now' < lockedUntil' /\ lockedUntil' \in Nat /\ ~(now' >= lockedUntil')
      BY <1>2, <1>5, <1>9, <2>1
    <2>4. HowMany(Kept(tries', now', Lockout)) <= Limit
      <3> DEFINE k == Kept(tries', now', Lockout)
      <3>1. k \in [Times -> Nat]
        BY <1>5, TimesAreFinite, KeptStamps
      <3>2. \A moment \in Times : k[moment] <= charged[moment]
        <4>1. \A moment \in Times : k[moment] = IF now < moment + Lockout THEN tries'[moment] ELSE 0
          BY <1>5 DEF Kept
        <4>2. \A moment \in Times : charged[moment] \in Nat
          BY <1>4
        <4> QED
          BY <1>7, <4>1, <4>2
      <3>3. HowMany(k) <= HowMany(charged) /\ HowMany(k) \in Nat
        <4> HIDE DEF k
        <4> QED
          BY <1>4, <3>1, <3>2, TimesAreFinite, FewerStamps, StampsAreCounted
      <3> HIDE DEF k
      <3>4. HowMany(k) <= Limit
        BY <1>9, <3>3
      <3> QED
        BY <3>4 DEF k
    <2>5. \A moment \in Times : tries'[moment] # 0 => moment + Lockout <= lockedUntil'
      BY <1>2, <1>8, <1>9, <2>1
    <2>6. HowMany(failures') < Limit
      BY <1>9, <2>2
    <2> QED
      BY <1>5, <1>8, <2>2, <2>3, <2>4, <2>5, <2>6 DEF ThrottleInv
  <1>11. CASE ~(HowMany(charged) >= Limit)
    <2>1. failures' = charged /\ lockedUntil' = 0
      BY <1>1, <1>11
    <2>2. HowMany(failures') < Limit
      BY <1>9, <1>11, <2>1
    <2>3. ~(now' < lockedUntil')
      BY <1>2, <1>5, <2>1
    <2> QED
      BY <1>4, <1>5, <1>7, <1>8, <2>1, <2>2, <2>3 DEF ThrottleInv
  <1> QED
    BY <1>10, <1>11

\* The right password forgets all of it.
LEMMA SuccessForgets ==
    ASSUME ThrottleInv, RecordSuccess, UNCHANGED now
    PROVE  ThrottleInv'
  <1>1. failures' = NoStamps(Times) /\ tries' = NoStamps(Times) /\ lockedUntil' = 0
    BY DEF RecordSuccess
  <1>2. NoStamps(Times) \in [Times -> Nat] /\ HowMany(NoStamps(Times)) = 0
    BY TimesAreFinite, NothingStamped
  <1>3. \A moment \in Times : NoStamps(Times)[moment] = 0
    BY DEF NoStamps
  <1>4. now \in Times /\ now' = now /\ ~(now' < lockedUntil')
    BY <1>1, TimesAreFinite DEF ThrottleInv
  <1> QED
    BY <1>1, <1>2, <1>3, <1>4, CustodyConstants DEF ThrottleInv

LEMMA TimePasses ==
    ASSUME ThrottleInv, Tick
    PROVE  ThrottleInv'
  <1>1. /\ now' = now + 1 /\ now < MaxTime /\ tries' = Kept(tries, now + 1, Lockout)
        /\ failures' = failures /\ lockedUntil' = lockedUntil
    BY DEF Tick, throttle
  <1>2. /\ failures \in [Times -> Nat] /\ tries \in [Times -> Nat] /\ lockedUntil \in Nat
        /\ now \in Times /\ now \in Nat /\ HowMany(failures) < Limit
        /\ \A moment \in Times : moment \in Nat /\ tries[moment] \in Nat /\ failures[moment] \in Nat
        /\ Lockout \in Nat \ {0} /\ Limit \in Nat
    BY TimesAreFinite, CustodyConstants DEF ThrottleInv
  <1>3. now' \in Times
    BY <1>1, <1>2, CustodyConstants DEF Times
  <1>4. /\ tries' \in [Times -> Nat]
        /\ \A moment \in Times : tries'[moment] = IF now + 1 < moment + Lockout THEN tries[moment] ELSE 0
    BY <1>1, <1>2 DEF Kept
  <1>5. \A moment \in Times : tries'[moment] # 0 => moment <= now'
    BY <1>1, <1>2, <1>4 DEF ThrottleInv
  <1>6. ASSUME now' >= lockedUntil', NEW moment \in Times, now' < moment + Lockout
        PROVE  tries'[moment] <= failures'[moment]
    <2>1. /\ moment \in Nat /\ Lockout \in Nat /\ tries[moment] \in Nat /\ failures[moment] \in Nat
          /\ now + 1 < moment + Lockout /\ tries'[moment] = tries[moment]
          /\ failures'[moment] = failures[moment] /\ now + 1 >= lockedUntil
      BY <1>1, <1>2, <1>4, <1>6
    <2>2. CASE now >= lockedUntil
      <3>1. now < moment + Lockout
        BY <1>2, <2>1
      <3>2. tries[moment] <= failures[moment]
        BY <2>2, <3>1 DEF ThrottleInv
      <3> QED
        BY <2>1, <3>2
    <2>3. CASE now < lockedUntil
      <3>1. tries[moment] # 0 => moment + Lockout <= lockedUntil
        BY <2>3 DEF ThrottleInv
      <3>2. tries[moment] = 0
        BY <1>2, <2>1, <3>1
      <3> QED
        BY <2>1, <3>2
    <2> QED
      BY <1>2, <2>2, <2>3
  <1>7. ASSUME now' < lockedUntil'
        PROVE  /\ HowMany(Kept(tries', now', Lockout)) <= Limit
               /\ \A moment \in Times : tries'[moment] # 0 => moment + Lockout <= lockedUntil'
    <2>1. now < lockedUntil
      BY <1>1, <1>2, <1>7
    <2>2. /\ HowMany(Kept(tries, now, Lockout)) <= Limit
          /\ \A moment \in Times : tries[moment] # 0 => moment + Lockout <= lockedUntil
      BY <2>1 DEF ThrottleInv
    <2> DEFINE k == Kept(tries, now, Lockout)
               l == Kept(tries', now', Lockout)
    <2>3. k \in [Times -> Nat] /\ l \in [Times -> Nat]
      BY <1>2, <1>4, TimesAreFinite, KeptStamps
    <2>4. \A moment \in Times : l[moment] <= k[moment]
      <3>1. /\ \A moment \in Times : l[moment] = IF now' < moment + Lockout THEN tries'[moment] ELSE 0
            /\ \A moment \in Times : k[moment] = IF now < moment + Lockout THEN tries[moment] ELSE 0
        BY <1>2, <1>4 DEF Kept
      <3> HIDE DEF k, l
      <3> QED
        BY <1>1, <1>2, <1>4, <3>1
    <2> HIDE DEF k, l
    <2>5. HowMany(l) <= HowMany(k) /\ HowMany(l) \in Nat /\ HowMany(k) \in Nat
      BY <2>3, <2>4, TimesAreFinite, FewerStamps, StampsAreCounted
    <2>6. HowMany(l) <= Limit
      BY <1>2, <2>2, <2>5 DEF k
    <2> QED
      BY <1>1, <1>4, <2>2, <2>6 DEF l
  <1> QED
    BY <1>1, <1>2, <1>3, <1>4, <1>5, <1>6, <1>7 DEF ThrottleInv

\* Only attempts, right passwords and time touch the throttle.
LEMMA NextThrottle == ThrottleInv /\ [Next]_vars => ThrottleInv'
  <1> SUFFICES ASSUME ThrottleInv, [Next]_vars PROVE ThrottleInv'
    OBVIOUS
  <1> DEFINE Rest == UNCHANGED <<failures, lockedUntil, tries, now>>
  <1>1. ASSUME Rest PROVE ThrottleInv'
    BY <1>1 DEF ThrottleInv
  <1> USE DEF throttle, history, vars
  <1>2. ASSUME NEW r \in Requests, NEW p \in Passwords, Setup(r, p) PROVE Rest
    BY <1>2 DEF Setup
  <1>3. ASSUME NEW r \in Requests, NEW p \in Passwords, Login(r, p) PROVE ThrottleInv'
    BY <1>3, AttemptIsCharged DEF Login
  <1>4. ASSUME NEW r \in Requests, NEW s \in Sessions, Initialize(r, s) PROVE Rest
    BY <1>4 DEF Initialize
  <1>5. ASSUME NEW r \in Requests, NEW s \in Sessions, LoginVerified(r, s) PROVE ThrottleInv'
    BY <1>5, SuccessForgets DEF LoginVerified
  <1>6. ASSUME NEW r \in Requests, NEW s \in Sessions, NEW p \in Passwords,
               NEW a \in AllPurposes, Reauth(r, s, p, a)
        PROVE  ThrottleInv'
    BY <1>6, AttemptIsCharged DEF Reauth
  <1>7. ASSUME NEW r \in Requests, NEW t \in Tokens, ReauthVerified(r, t) PROVE ThrottleInv'
    BY <1>7, SuccessForgets DEF ReauthVerified
  <1>8. ASSUME NEW r \in Requests, NEW s \in Sessions, NEW t \in Tokens, NEW cur \in Passwords,
               NEW next \in Passwords, ChangePassword(r, s, t, cur, next)
        PROVE  Rest
    BY <1>8 DEF ChangePassword
  <1>9. ASSUME NEW r \in Requests,
               \/ SetPassword(r) \/ VerifyFails(r) \/ Unlock(r)
               \/ ChangeOpen(r) \/ ChangeWrap(r) \/ ChangeVerify(r) \/ ChangeHash(r)
        PROVE  Rest
    BY <1>9 DEF SetPassword, VerifyFails, Unlock, ChangeOpen, ChangeWrap, ChangeVerify, ChangeHash
  <1>10. ASSUME NEW s \in Sessions, NEW t \in Tokens, NEW p \in Purposes, Act(s, t, p) PROVE Rest
    BY <1>10 DEF Act
  <1>11. ASSUME NEW s \in Sessions, Logout(s) \/ SessionExpires(s) PROVE Rest
    BY <1>11 DEF Logout, SessionExpires
  <1>12. ASSUME NEW t \in Tokens, TokenExpires(t) PROVE Rest
    BY <1>12 DEF TokenExpires
  <1>13. CASE Autolock \/ Crash
    <2>1. Rest
      BY <1>13 DEF Autolock, Crash
    <2> QED
      BY <1>1, <2>1
  <1>14. CASE UNCHANGED vars
    <2>1. Rest
      BY <1>14
    <2> QED
      BY <1>1, <2>1
  <1> HIDE DEF Rest
  <1> QED
    BY <1>1, <1>2, <1>3, <1>4, <1>5, <1>6, <1>7, <1>8, <1>9, <1>10, <1>11, <1>12, <1>13, <1>14,
       TimePasses DEF Next

\* For every limit, window and lockout, without a right password in between no more than the
\* limit is let through in any lockout period, however many attempts arrive at once and
\* across restarts (auth.ts #beginAttempt).
THEOREM GuessesStayBounded == Spec => []GuessesAreBounded
  <1>1. ThrottleInv => GuessesAreBounded
    <2> SUFFICES ASSUME ThrottleInv PROVE GuessesAreBounded
      OBVIOUS
    <2>1. /\ failures \in [Times -> Nat] /\ tries \in [Times -> Nat] /\ HowMany(failures) < Limit
          /\ now \in Nat /\ lockedUntil \in Nat /\ Limit \in Nat
      BY TimesAreFinite, CustodyConstants DEF ThrottleInv
    <2>2. CASE now < lockedUntil
      BY <2>2 DEF ThrottleInv, GuessesAreBounded
    <2>3. CASE now >= lockedUntil
      <3> DEFINE k == Kept(tries, now, Lockout)
      <3>1. k \in [Times -> Nat]
        BY <2>1, TimesAreFinite, KeptStamps
      <3>2. \A moment \in Times : k[moment] <= failures[moment]
        <4>1. \A moment \in Times : /\ k[moment] = IF now < moment + Lockout THEN tries[moment] ELSE 0
                                /\ failures[moment] \in Nat
          BY <2>1 DEF Kept
        <4>2. \A moment \in Times : now < moment + Lockout => tries[moment] <= failures[moment]
          BY <2>3 DEF ThrottleInv
        <4> QED
          BY <4>1, <4>2
      <3> HIDE DEF k
      <3>3. HowMany(k) <= HowMany(failures) /\ HowMany(k) \in Nat /\ HowMany(failures) \in Nat
        BY <2>1, <3>1, <3>2, TimesAreFinite, FewerStamps, StampsAreCounted
      <3>4. HowMany(k) <= Limit
        BY <2>1, <3>3
      <3> QED
        BY <3>4 DEF GuessesAreBounded, k
    <2> QED
      BY <2>1, <2>2, <2>3
  <1>2. ThrottleInv /\ [Next]_vars => ThrottleInv'
    BY NextThrottle
  <1> QED
    BY InitThrottle, <1>1, <1>2, PTL DEF Spec

-----------------------------------------------------------------------------
(* The treasury's gate. *)

\* A row of treasury_admin_tokens, and what a waiting handler holds.
Row == [session : AdminSessions, revoked : BOOLEAN, expires : Nat]
Jobs == {NoJob} \cup [at : {"set"}, secret : Secrets]
                \cup [at : {"verify"}, session : AdminSessions, secret : Secrets,
                      seen : Secrets \cup {NoSecret}]

AdminTypes ==
    /\ adminSecret \in Secrets \cup {NoSecret}
    /\ adminRow \in [AdminTokens -> Row \cup {NoToken}]
    /\ job \in [AdminJobs -> Jobs]
    /\ proven \in [AdminSessions -> Nat \cup {NoToken}]
    /\ adminClock \in Nat

\* A secret a sign-in compares with is the one on file: it is set once.
SecretStays ==
    \A j \in AdminJobs : job[j].at = "verify" =>
        job[j].seen = adminSecret /\ adminSecret # NoSecret

\* A token that was not revoked lives no longer than its session's last proof allows.
TokensFollowProofs ==
    /\ \A s \in AdminSessions : proven[s] # NoToken => proven[s] <= adminClock
    /\ \A t \in AdminTokens : adminRow[t] # NoToken /\ ~adminRow[t].revoked =>
          /\ proven[adminRow[t].session] # NoToken
          /\ adminRow[t].expires <= proven[adminRow[t].session] + TokenTtl

AdminInv == AdminTypes /\ SecretStays /\ TokensFollowProofs

\* A fresh treasury has no secret, no token and nobody waiting.
LEMMA InitAdmin == AdminInit => AdminInv
<1> SUFFICES ASSUME AdminInit PROVE AdminInv
  OBVIOUS
<1> USE AdminConstants DEF AdminInit
<1>1. AdminTypes
  BY DEF AdminTypes, Jobs
<1>2. SecretStays /\ TokensFollowProofs
  BY DEF SecretStays, TokensFollowProofs, NoJob
<1> QED
  BY <1>1, <1>2 DEF AdminInv

\* What a waiting sign-in holds.
LEMMA VerifyJob ==
    ASSUME AdminTypes, NEW j \in AdminJobs, job[j].at = "verify"
    PROVE  job[j].session \in AdminSessions
  BY DEF AdminTypes, Jobs, NoJob

\* Each handler keeps the parts it disturbs; RightSecret is the one that needs SecretStays.
LEMMA NextAdmin == AdminInv /\ [AdminNext]_adminVars => AdminInv'
<1> SUFFICES ASSUME AdminInv, [AdminNext]_adminVars PROVE AdminInv'
  OBVIOUS
<1> USE AdminConstants
    DEF AdminInv, adminVars, adminRows, adminMemory, adminHistory
<1>1. ASSUME NEW j \in AdminJobs, NEW x \in Secrets, SetSecret(j, x) PROVE AdminInv'
  <2>1. job' \in [AdminJobs -> Jobs]
    BY <1>1 DEF SetSecret, AdminTypes, Jobs
  <2> QED
    BY <1>1, <2>1 DEF SetSecret, AdminTypes, SecretStays, TokensFollowProofs
<1>2. ASSUME NEW j \in AdminJobs, NEW x \in Secrets, NEW s \in AdminSessions,
             AdminLogin(j, s, x)
      PROVE  AdminInv'
  <2>1. AdminTypes'
    BY <1>2 DEF AdminLogin, AdminTypes, Jobs
  <2>2. SecretStays'
    BY <1>2 DEF AdminLogin, AdminTypes, SecretStays
  <2>3. TokensFollowProofs'
    BY <1>2 DEF AdminLogin, TokensFollowProofs
  <2> QED
    BY <2>1, <2>2, <2>3
<1>3. ASSUME NEW j \in AdminJobs, StoreSecret(j) PROVE AdminInv'
  <2>0. job[j].secret \in Secrets
    BY <1>3 DEF StoreSecret, AdminTypes, Jobs, NoJob
  <2>1. AdminTypes' /\ TokensFollowProofs'
    BY <1>3, <2>0 DEF StoreSecret, AdminTypes, Jobs, TokensFollowProofs
  <2>2. SecretStays'
    BY <1>3 DEF StoreSecret, AdminTypes, SecretStays, NoJob
  <2> QED
    BY <2>1, <2>2
<1>4. ASSUME NEW j \in AdminJobs, WrongSecret(j) PROVE AdminInv'
  BY <1>4 DEF WrongSecret, AdminTypes, Jobs, SecretStays, TokensFollowProofs, NoJob
<1>5. ASSUME NEW j \in AdminJobs, NEW t \in AdminTokens, RightSecret(j, t) PROVE AdminInv'
  <2> DEFINE s == job[j].session
             row == [session |-> s, revoked |-> FALSE, expires |-> adminClock + TokenTtl]
  <2>1. s \in AdminSessions
    BY <1>5, VerifyJob DEF RightSecret
  <2>2. job[j].secret = adminSecret
    BY <1>5 DEF RightSecret, SecretStays
  <2>3. /\ adminRow' = [Pruned EXCEPT ![t] = row]
        /\ proven' = [proven EXCEPT ![s] = adminClock]
        /\ job' = [job EXCEPT ![j] = NoJob]
        /\ UNCHANGED <<adminSecret, adminClock>>
    BY <1>5, <2>2 DEF RightSecret
  <2>4. row \in Row /\ row # NoToken
    <3>1. adminClock + TokenTtl \in Nat
      BY DEF AdminTypes
    <3>2. row \in Row
      BY <2>1, <3>1 DEF Row
    <3>3. NoToken \notin Row
      BY DEF Row
    <3> QED
      BY <3>2, <3>3
  <2>5. Pruned \in [AdminTokens -> Row \cup {NoToken}]
    BY DEF Pruned, AdminTypes
  <2>6. AdminTypes'
    BY <2>1, <2>3, <2>4, <2>5 DEF AdminTypes, Jobs
  <2>7. SecretStays'
    BY <2>3 DEF AdminTypes, SecretStays, NoJob
  <2>8. \A u \in AdminTokens : adminRow'[u] # NoToken =>
           IF u = t THEN adminRow'[u] = row ELSE adminRow'[u] = adminRow[u]
    BY <2>3, <2>5 DEF Pruned
  <2>9. \A q \in AdminSessions : proven'[q] = IF q = s THEN adminClock ELSE proven[q]
    BY <2>1, <2>3 DEF AdminTypes
  <2>10. \A u \in AdminTokens : adminRow[u] # NoToken => adminRow[u] \in Row
    BY DEF AdminTypes
  <2>11. ASSUME NEW u \in AdminTokens, adminRow'[u] # NoToken, ~adminRow'[u].revoked
         PROVE  /\ proven'[adminRow'[u].session] # NoToken
                /\ adminRow'[u].expires <= proven'[adminRow'[u].session] + TokenTtl
    <3>1. CASE u = t
      <4>1. adminRow'[u] = row
        BY <2>8, <2>11, <3>1
      <4>2. adminRow'[u].session = s /\ adminRow'[u].expires = adminClock + TokenTtl
        BY <4>1
      <4>3. proven'[s] = adminClock /\ adminClock \in Nat
        BY <2>1, <2>9 DEF AdminTypes
      <4> QED
        BY <4>2, <4>3
    <3>2. CASE u # t
      <4>1. adminRow'[u] = adminRow[u] /\ adminRow[u] \in Row
        BY <2>8, <2>10, <2>11, <3>2
      <4> DEFINE q == adminRow[u].session
      <4>2. q \in AdminSessions /\ adminRow[u].expires \in Nat
        BY <4>1 DEF Row
      <4>3. /\ proven[q] # NoToken /\ proven[q] <= adminClock
            /\ adminRow[u].expires <= proven[q] + TokenTtl
        BY <2>11, <4>1, <4>2 DEF TokensFollowProofs
      <4>4. proven[q] \in Nat /\ adminClock \in Nat
        BY <4>2, <4>3 DEF AdminTypes
      <4>5. proven'[q] \in Nat /\ proven[q] <= proven'[q]
        BY <2>9, <4>2, <4>3, <4>4
      <4> QED
        BY <4>1, <4>2, <4>3, <4>4, <4>5
    <3> QED
      BY <3>1, <3>2
  <2>12. \A q \in AdminSessions : proven'[q] # NoToken => proven'[q] <= adminClock'
    BY <2>3, <2>9 DEF TokensFollowProofs, AdminTypes
  <2> QED
    BY <2>6, <2>7, <2>11, <2>12 DEF TokensFollowProofs
<1>6. ASSUME NEW s \in AdminSessions, AdminLogout(s) PROVE AdminInv'
  <2>1. \A t \in AdminTokens : adminRow[t] # NoToken => adminRow[t] \in Row
    BY DEF AdminTypes
  <2>2. \A t \in AdminTokens :
           \/ adminRow[t] = NoToken /\ adminRow'[t] = NoToken
           \/ /\ adminRow[t] \in Row /\ adminRow[t].session = s
              /\ adminRow'[t] = [adminRow[t] EXCEPT !.revoked = TRUE]
           \/ /\ adminRow[t] \in Row /\ adminRow[t].session # s
              /\ adminRow'[t] = adminRow[t]
    BY <1>6, <2>1 DEF AdminLogout
  <2>3. \A r \in Row : [r EXCEPT !.revoked = TRUE] \in Row /\ [r EXCEPT !.revoked = TRUE].revoked
    BY DEF Row
  <2>4. adminRow' \in [AdminTokens -> Row \cup {NoToken}]
    BY <1>6, <2>1, <2>3 DEF AdminLogout
  <2>5. AdminTypes' /\ SecretStays'
    BY <1>6, <2>4 DEF AdminLogout, AdminTypes, SecretStays
  <2>6. \A q \in AdminSessions : proven'[q] = IF q = s THEN NoToken ELSE proven[q]
    BY <1>6 DEF AdminLogout, AdminTypes
  <2>7. ASSUME NEW t \in AdminTokens, adminRow'[t] # NoToken, ~adminRow'[t].revoked
        PROVE  adminRow'[t] = adminRow[t] /\ adminRow[t] \in Row /\ adminRow[t].session # s
    BY <2>2, <2>3, <2>7
  <2>8. \A r \in Row : r.session \in AdminSessions
    BY DEF Row
  <2>9. TokensFollowProofs'
    BY <1>6, <2>6, <2>7, <2>8 DEF TokensFollowProofs, AdminLogout
  <2> QED
    BY <2>5, <2>9
<1>7. ASSUME NEW s \in AdminSessions, NEW t \in AdminTokens \cup {NoToken}, Gate(s, t)
      PROVE  AdminInv'
  BY <1>7 DEF Gate, AdminTypes, SecretStays, TokensFollowProofs
<1>8. CASE AdminTick
  <2>1. AdminTypes' /\ SecretStays'
    BY <1>8 DEF AdminTick, AdminTypes, SecretStays
  <2>2. TokensFollowProofs'
    BY <1>8 DEF AdminTick, AdminTypes, TokensFollowProofs
  <2> QED
    BY <2>1, <2>2
<1>9. CASE AdminRestart
  BY <1>9 DEF AdminRestart, AdminTypes, Jobs, SecretStays, TokensFollowProofs, NoJob
<1>10. CASE UNCHANGED adminVars
  BY <1>10 DEF AdminTypes, SecretStays, TokensFollowProofs
<1> QED
  BY <1>1, <1>2, <1>3, <1>4, <1>5, <1>6, <1>7, <1>8, <1>9, <1>10 DEF AdminNext

Checking == {j \in AdminJobs : job[j].at = "verify"}

Answered == Within(AdminLockout, wrong)

\* A wrong secret of the last lockout period is among the failures on file, unless the lock
\* in force outlasts its period.  What was answered and the checks that still wait are
\* together within the limit and the number of checks at once: a check that ends wrong
\* moves from the one to the other, and none begins under a lock.
LockInv ==
    /\ adminFailures \in [AdminTimes -> Nat] /\ wrong \in [AdminTimes -> Nat]
    /\ adminLocked \in Nat /\ adminClock \in AdminTimes
    /\ HowMany(adminFailures) < AdminLimit
    /\ \A u \in AdminTimes : wrong[u] # 0 => u <= adminClock
    /\ \A u \in AdminTimes : adminClock < u + AdminLockout =>
          wrong[u] <= adminFailures[u] \/ u + AdminLockout <= adminLocked
    /\ HowMany(Answered) + Cardinality(Checking) <= AdminLimit + Cardinality(AdminJobs) - 1

LEMMA AdminTimesAreFinite == IsFiniteSet(AdminTimes) /\ AdminTimes \subseteq Nat
<1>1. AdminTime \in Nat
  BY AdminConstants
<1>2. IsFiniteSet(0..AdminTime) /\ 0..AdminTime \subseteq Nat
  BY <1>1, FS_Interval
<1> QED
  BY <1>2 DEF AdminTimes

\* The secrets that wait to be checked are jobs.
LEMMA ChecksAreJobs ==
    ASSUME NEW S \in SUBSET AdminJobs
    PROVE  /\ IsFiniteSet(S) /\ Cardinality(S) \in Nat /\ Cardinality(AdminJobs) \in Nat
           /\ Cardinality(S) <= Cardinality(AdminJobs)
  BY AdminConstants, FS_Subset, FS_CardinalityType

\* Nothing answered wrong leaves room for every job.
LEMMA NothingAnswered ==
    ASSUME wrong' = NoStamps(AdminTimes)
    PROVE  /\ wrong' \in [AdminTimes -> Nat] /\ \A u \in AdminTimes : wrong'[u] = 0
           /\ HowMany(Answered') + Cardinality(Checking') <=
                 AdminLimit + Cardinality(AdminJobs) - 1
<1>1. NoStamps(AdminTimes) \in [AdminTimes -> Nat] /\ HowMany(NoStamps(AdminTimes)) = 0
  BY AdminTimesAreFinite, NothingStamped
<1>2. \A u \in AdminTimes : NoStamps(AdminTimes)[u] = 0
  BY DEF NoStamps
<1>3. Answered' = Kept(NoStamps(AdminTimes), adminClock', AdminLockout)
  BY DEF Answered, Within
<1>4. HowMany(Answered') <= 0 /\ HowMany(Answered') \in Nat
  <2>1. /\ Answered' \in [AdminTimes -> Nat]
        /\ HowMany(Answered') <= HowMany(NoStamps(AdminTimes))
    BY <1>1, <1>3, AdminTimesAreFinite, KeptStamps
  <2> QED
    BY <1>1, <2>1, AdminTimesAreFinite, StampsAreCounted
<1>5. /\ Cardinality(Checking') \in Nat /\ Cardinality(AdminJobs) \in Nat
      /\ Cardinality(Checking') <= Cardinality(AdminJobs)
  <2>1. Checking' \in SUBSET AdminJobs
    BY DEF Checking
  <2> QED
    BY <2>1, ChecksAreJobs
<1>6. AdminLimit \in Nat \ {0}
  BY AdminConstants
<1> QED
  BY <1>1, <1>2, <1>4, <1>5, <1>6

\* The sum does not grow when nothing is answered and no check begins.
LEMMA SumStays ==
    ASSUME LockInv, NEW w \in [AdminTimes -> Nat], NEW clock1 \in Nat, adminClock <= clock1,
           \A u \in AdminTimes : w[u] <= wrong[u],
           NEW S \in SUBSET Checking
    PROVE  HowMany(Kept(w, clock1, AdminLockout)) + Cardinality(S)
              <= AdminLimit + Cardinality(AdminJobs) - 1
<1> DEFINE k == Kept(w, clock1, AdminLockout)
<1>1. wrong \in [AdminTimes -> Nat] /\ adminClock \in Nat /\ AdminLockout \in Nat
  BY AdminTimesAreFinite, AdminConstants DEF LockInv
<1>2. /\ Answered \in [AdminTimes -> Nat] /\ k \in [AdminTimes -> Nat]
      /\ \A u \in AdminTimes : Answered[u] = IF adminClock < u + AdminLockout THEN wrong[u] ELSE 0
      /\ \A u \in AdminTimes : k[u] = IF clock1 < u + AdminLockout THEN w[u] ELSE 0
  BY <1>1 DEF Answered, Within, Kept
<1> HIDE DEF k
<1>3. \A u \in AdminTimes : k[u] <= Answered[u]
  <2> SUFFICES ASSUME NEW u \in AdminTimes PROVE k[u] <= Answered[u]
    OBVIOUS
  <2>1. u \in Nat /\ w[u] \in Nat /\ wrong[u] \in Nat /\ w[u] <= wrong[u]
    BY <1>1, AdminTimesAreFinite
  <2> QED
    BY <1>1, <1>2, <2>1
<1>4. HowMany(k) <= HowMany(Answered) /\ HowMany(k) \in Nat /\ HowMany(Answered) \in Nat
  BY <1>2, <1>3, AdminTimesAreFinite, FewerStamps, StampsAreCounted
<1>5. /\ Cardinality(S) <= Cardinality(Checking)
      /\ Cardinality(S) \in Nat /\ Cardinality(Checking) \in Nat /\ Cardinality(AdminJobs) \in Nat
  <2>1. Checking \in SUBSET AdminJobs /\ S \in SUBSET AdminJobs
    BY DEF Checking
  <2> QED
    BY <2>1, ChecksAreJobs, FS_Subset
<1>6. AdminLimit \in Nat
  BY AdminConstants
<1>7. HowMany(k) + Cardinality(S) <= AdminLimit + Cardinality(AdminJobs) - 1
  BY <1>4, <1>5, <1>6 DEF LockInv
<1> QED
  BY <1>7 DEF k

\* The steps that touch neither the failures nor the lock.
LEMMA LockRests ==
    ASSUME LockInv, UNCHANGED <<adminFailures, adminLocked, wrong, adminClock>>,
           Checking' \subseteq Checking
    PROVE  LockInv'
<1>1. adminClock \in Nat /\ wrong \in [AdminTimes -> Nat] /\ \A u \in AdminTimes : wrong[u] <= wrong[u]
  BY AdminTimesAreFinite DEF LockInv
<1>2. HowMany(Kept(wrong, adminClock, AdminLockout)) + Cardinality(Checking')
         <= AdminLimit + Cardinality(AdminJobs) - 1
  <2>1. Checking' \in SUBSET Checking /\ adminClock <= adminClock
    BY <1>1
  <2> QED
    BY <1>1, <2>1, SumStays
<1>3. Answered' = Kept(wrong, adminClock, AdminLockout)
  BY DEF Answered, Within
<1> QED
  BY <1>2, <1>3 DEF LockInv

LEMMA InitLock == AdminInit => LockInv
<1> SUFFICES ASSUME AdminInit PROVE LockInv
  OBVIOUS
<1>1. /\ adminFailures = NoStamps(AdminTimes) /\ wrong = NoStamps(AdminTimes)
      /\ adminClock = 0 /\ adminLocked = 0 /\ job = [j \in AdminJobs |-> NoJob]
  BY DEF AdminInit
<1>2. /\ NoStamps(AdminTimes) \in [AdminTimes -> Nat] /\ HowMany(NoStamps(AdminTimes)) = 0
      /\ \A u \in AdminTimes : NoStamps(AdminTimes)[u] = 0
  BY AdminTimesAreFinite, NothingStamped DEF NoStamps
<1>3. HowMany(Answered) <= 0 /\ HowMany(Answered) \in Nat
  <2>1. Answered \in [AdminTimes -> Nat] /\ HowMany(Answered) <= HowMany(wrong)
    BY <1>1, <1>2, AdminTimesAreFinite, KeptStamps DEF Answered, Within
  <2> QED
    BY <1>1, <1>2, <2>1, AdminTimesAreFinite, StampsAreCounted
<1>4. /\ Cardinality(Checking) \in Nat /\ Cardinality(AdminJobs) \in Nat
      /\ Cardinality(Checking) <= Cardinality(AdminJobs)
  <2>1. Checking \in SUBSET AdminJobs
    BY DEF Checking
  <2> QED
    BY <2>1, ChecksAreJobs
<1>5. AdminLimit \in Nat \ {0} /\ 0 \in AdminTimes
  BY AdminConstants DEF AdminTimes
<1>6. HowMany(Answered) + Cardinality(Checking) <= AdminLimit + Cardinality(AdminJobs) - 1
  BY <1>3, <1>4, <1>5
<1> QED
  BY <1>1, <1>2, <1>5, <1>6 DEF LockInv

\* A wrong secret: the check that waited is answered.
LEMMA WrongIsCharged ==
    ASSUME AdminTypes, LockInv, NEW j \in AdminJobs, WrongSecret(j)
    PROVE  LockInv'
<1> DEFINE charged == Stamped(Within(AdminWindow, adminFailures), adminClock)
<1>1. /\ IF HowMany(charged) >= AdminLimit
            THEN /\ adminFailures' = NoStamps(AdminTimes)
                 /\ adminLocked' = adminClock + AdminLockout
            ELSE adminFailures' = charged /\ adminLocked' = adminLocked
      /\ wrong' = Stamped(Answered, adminClock) /\ adminClock' = adminClock
      /\ job[j].at = "verify" /\ job' = [job EXCEPT ![j] = NoJob]
  BY DEF WrongSecret, RecordFailure, Answered
<1>2. /\ adminFailures \in [AdminTimes -> Nat] /\ wrong \in [AdminTimes -> Nat]
      /\ adminLocked \in Nat /\ adminClock \in AdminTimes /\ adminClock \in Nat
      /\ \A u \in AdminTimes : u \in Nat /\ wrong[u] \in Nat /\ adminFailures[u] \in Nat
      /\ AdminLockout \in Nat \ {0} /\ AdminWindow \in Nat /\ AdminLockout <= AdminWindow
      /\ AdminLimit \in Nat \ {0}
  BY AdminTimesAreFinite, AdminConstants DEF LockInv
<1>3. /\ Answered \in [AdminTimes -> Nat]
      /\ \A u \in AdminTimes : Answered[u] = IF adminClock < u + AdminLockout THEN wrong[u] ELSE 0
  BY <1>2 DEF Answered, Within, Kept
<1>4. /\ wrong' \in [AdminTimes -> Nat] /\ HowMany(wrong') = HowMany(Answered) + 1
      /\ \A u \in AdminTimes :
            wrong'[u] = IF u = adminClock THEN Answered[u] + 1 ELSE Answered[u]
  <2>1. /\ wrong' \in [AdminTimes -> Nat] /\ HowMany(wrong') = HowMany(Answered) + 1
    BY <1>1, <1>2, <1>3, AdminTimesAreFinite, OneStampMore
  <2>2. wrong' = [Answered EXCEPT ![adminClock] = @ + 1]
    BY <1>1 DEF Stamped
  <2> QED
    BY <1>2, <1>3, <2>1, <2>2
<1>5. \A u \in AdminTimes : wrong'[u] # 0 => u <= adminClock
  BY <1>2, <1>3, <1>4 DEF LockInv
<1>6. /\ Within(AdminWindow, adminFailures) \in [AdminTimes -> Nat]
      /\ \A u \in AdminTimes : Within(AdminWindow, adminFailures)[u] =
            IF adminClock < u + AdminWindow THEN adminFailures[u] ELSE 0
  BY <1>2 DEF Within, Kept
<1>7. /\ charged \in [AdminTimes -> Nat]
      /\ \A u \in AdminTimes : adminClock < u + AdminWindow =>
            charged[u] = IF u = adminClock THEN adminFailures[u] + 1 ELSE adminFailures[u]
  <2>1. charged \in [AdminTimes -> Nat]
    BY <1>2, <1>6, AdminTimesAreFinite, OneStampMore
  <2> QED
    BY <1>2, <1>6, <2>1 DEF Stamped
<1> HIDE DEF charged
<1>8. HowMany(charged) \in Nat
  BY <1>7, AdminTimesAreFinite, StampsAreCounted
<1>9. HowMany(Answered') + Cardinality(Checking') <= AdminLimit + Cardinality(AdminJobs) - 1
  <2>1. HowMany(Answered') <= HowMany(wrong') /\ Answered' \in [AdminTimes -> Nat]
    BY <1>4, AdminTimesAreFinite, KeptStamps DEF Answered, Within
  <2>2. HowMany(Answered') \in Nat /\ HowMany(Answered) \in Nat
    BY <1>3, <2>1, AdminTimesAreFinite, StampsAreCounted
  <2>3. j \in Checking /\ Checking' = Checking \ {j}
    BY <1>1 DEF Checking, AdminTypes, NoJob
  <2>4. /\ Cardinality(Checking') = Cardinality(Checking) - 1
        /\ Cardinality(Checking) \in Nat /\ Cardinality(Checking') \in Nat
        /\ Cardinality(AdminJobs) \in Nat
    <3>1. Checking \in SUBSET AdminJobs /\ Checking' \in SUBSET AdminJobs
      BY DEF Checking
    <3> QED
      BY <2>3, <3>1, ChecksAreJobs, FS_RemoveElement
  <2>5. HowMany(Answered) + Cardinality(Checking) <= AdminLimit + Cardinality(AdminJobs) - 1
    BY DEF LockInv
  <2> QED
    BY <1>2, <1>4, <2>1, <2>2, <2>4, <2>5
<1>10. CASE HowMany(charged) >= AdminLimit
  <2>1. adminFailures' = NoStamps(AdminTimes) /\ adminLocked' = adminClock + AdminLockout
    BY <1>1, <1>10
  <2>2. /\ adminFailures' \in [AdminTimes -> Nat] /\ HowMany(adminFailures') = 0
        /\ \A u \in AdminTimes : adminFailures'[u] = 0
    BY <2>1, AdminTimesAreFinite, NothingStamped DEF NoStamps
  <2>3. \A u \in AdminTimes : adminClock' < u + AdminLockout =>
           wrong'[u] <= adminFailures'[u] \/ u + AdminLockout <= adminLocked'
    <3> SUFFICES ASSUME NEW u \in AdminTimes
                 PROVE  wrong'[u] <= adminFailures'[u] \/ u + AdminLockout <= adminLocked'
      OBVIOUS
    <3>1. wrong'[u] \in Nat /\ u \in Nat /\ (wrong'[u] # 0 => u <= adminClock)
      BY <1>2, <1>4, <1>5
    <3> QED
      BY <1>2, <2>1, <2>2, <3>1
  <2>4. HowMany(adminFailures') < AdminLimit /\ adminLocked' \in Nat
    BY <1>2, <2>1, <2>2
  <2> QED
    BY <1>1, <1>2, <1>4, <1>5, <1>9, <2>2, <2>3, <2>4 DEF LockInv
<1>11. CASE ~(HowMany(charged) >= AdminLimit)
  <2>1. adminFailures' = charged /\ adminLocked' = adminLocked
    BY <1>1, <1>11
  <2>2. \A u \in AdminTimes : adminClock' < u + AdminLockout =>
           wrong'[u] <= adminFailures'[u] \/ u + AdminLockout <= adminLocked'
    <3> SUFFICES ASSUME NEW u \in AdminTimes, adminClock < u + AdminLockout
                 PROVE  wrong'[u] <= charged[u] \/ u + AdminLockout <= adminLocked
      BY <1>1, <2>1
    <3>1. adminClock < u + AdminWindow
      <4>1. u \in Nat
        BY <1>2
      <4> QED
        BY <1>2, <4>1
    <3>2. /\ wrong'[u] = IF u = adminClock THEN wrong[u] + 1 ELSE wrong[u]
          /\ charged[u] = IF u = adminClock THEN adminFailures[u] + 1 ELSE adminFailures[u]
          /\ wrong[u] \in Nat /\ adminFailures[u] \in Nat
      BY <1>2, <1>3, <1>4, <1>7, <3>1
    <3>3. wrong[u] <= adminFailures[u] \/ u + AdminLockout <= adminLocked
      BY DEF LockInv
    <3> QED
      BY <3>2, <3>3
  <2>3. HowMany(adminFailures') < AdminLimit
    BY <1>2, <1>8, <1>11, <2>1
  <2> QED
    BY <1>1, <1>2, <1>4, <1>5, <1>7, <1>9, <2>1, <2>2, <2>3 DEF LockInv
<1> QED
  BY <1>10, <1>11

\* A check begins while there is no lock: what was answered is then on file.
LEMMA LoginIsOpen ==
    ASSUME LockInv, adminClock >= adminLocked,
           UNCHANGED <<adminFailures, adminLocked, wrong, adminClock>>
    PROVE  LockInv'
<1>1. /\ adminFailures \in [AdminTimes -> Nat] /\ wrong \in [AdminTimes -> Nat]
      /\ adminLocked \in Nat /\ adminClock \in Nat /\ AdminLockout \in Nat
      /\ \A u \in AdminTimes : u \in Nat /\ wrong[u] \in Nat /\ adminFailures[u] \in Nat
      /\ AdminLimit \in Nat \ {0}
  BY AdminTimesAreFinite, AdminConstants DEF LockInv
<1>2. /\ Answered \in [AdminTimes -> Nat]
      /\ \A u \in AdminTimes : Answered[u] = IF adminClock < u + AdminLockout THEN wrong[u] ELSE 0
  BY <1>1 DEF Answered, Within, Kept
<1>3. \A u \in AdminTimes : Answered[u] <= adminFailures[u]
  <2> SUFFICES ASSUME NEW u \in AdminTimes PROVE Answered[u] <= adminFailures[u]
    OBVIOUS
  <2>1. u \in Nat /\ wrong[u] \in Nat /\ adminFailures[u] \in Nat
    BY <1>1
  <2>2. adminClock < u + AdminLockout => wrong[u] <= adminFailures[u]
    <3>1. ~(adminClock < u + AdminLockout /\ u + AdminLockout <= adminLocked)
      BY <1>1, <2>1
    <3> QED
      BY <3>1 DEF LockInv
  <2> QED
    BY <1>2, <2>1, <2>2
<1>4. /\ HowMany(Answered) <= HowMany(adminFailures) /\ HowMany(Answered) \in Nat
      /\ HowMany(adminFailures) \in Nat /\ HowMany(adminFailures) < AdminLimit
  BY <1>1, <1>2, <1>3, AdminTimesAreFinite, FewerStamps, StampsAreCounted DEF LockInv
<1>5. /\ Cardinality(Checking') \in Nat /\ Cardinality(AdminJobs) \in Nat
      /\ Cardinality(Checking') <= Cardinality(AdminJobs)
  <2>1. Checking' \in SUBSET AdminJobs
    BY DEF Checking
  <2> QED
    BY <2>1, ChecksAreJobs
<1>6. HowMany(Answered) + Cardinality(Checking') <= AdminLimit + Cardinality(AdminJobs) - 1
  BY <1>1, <1>4, <1>5
<1>7. Answered' = Answered
  BY DEF Answered, Within
<1> QED
  BY <1>6, <1>7 DEF LockInv

LEMMA NextLock == AdminInv /\ LockInv /\ [AdminNext]_adminVars => LockInv'
<1> SUFFICES ASSUME AdminInv, LockInv, [AdminNext]_adminVars PROVE LockInv'
  OBVIOUS
<1> USE DEF adminVars, adminRows, adminMemory, adminHistory
<1>0. job \in [AdminJobs -> Jobs] /\ AdminTypes
  BY DEF AdminInv, AdminTypes
<1>1. ASSUME NEW j \in AdminJobs, NEW x \in Secrets, SetSecret(j, x) PROVE LockInv'
  <2>1. Checking' \subseteq Checking
    BY <1>0, <1>1 DEF SetSecret, Checking
  <2> QED
    BY <1>1, <2>1, LockRests DEF SetSecret
<1>2. ASSUME NEW j \in AdminJobs, NEW x \in Secrets, NEW s \in AdminSessions,
             AdminLogin(j, s, x)
      PROVE  LockInv'
  BY <1>2, LoginIsOpen DEF AdminLogin
<1>3. ASSUME NEW j \in AdminJobs, StoreSecret(j) PROVE LockInv'
  <2>1. Checking' \subseteq Checking
    BY <1>0, <1>3 DEF StoreSecret, Checking, NoJob
  <2> QED
    BY <1>3, <2>1, LockRests DEF StoreSecret
<1>4. ASSUME NEW j \in AdminJobs, WrongSecret(j) PROVE LockInv'
  BY <1>0, <1>4, WrongIsCharged
<1>5. ASSUME wrong' = NoStamps(AdminTimes), adminFailures' = NoStamps(AdminTimes),
             adminLocked' \in Nat, UNCHANGED adminClock
      PROVE  LockInv'
  <2>1. /\ adminFailures' \in [AdminTimes -> Nat] /\ HowMany(adminFailures') = 0
        /\ \A u \in AdminTimes : adminFailures'[u] = 0
    BY <1>5, AdminTimesAreFinite, NothingStamped DEF NoStamps
  <2>2. /\ wrong' \in [AdminTimes -> Nat] /\ \A u \in AdminTimes : wrong'[u] = 0
        /\ HowMany(Answered') + Cardinality(Checking') <=
              AdminLimit + Cardinality(AdminJobs) - 1
    BY <1>5, NothingAnswered
  <2>3. adminClock' \in AdminTimes /\ 0 < AdminLimit
    BY <1>5, AdminConstants DEF LockInv
  <2> QED
    BY <1>5, <2>1, <2>2, <2>3 DEF LockInv
<1>6. ASSUME NEW j \in AdminJobs, NEW t \in AdminTokens, RightSecret(j, t) PROVE LockInv'
  BY <1>5, <1>6 DEF RightSecret, LockInv
<1>7. ASSUME NEW s \in AdminSessions,
             AdminLogout(s) \/ \E t \in AdminTokens \cup {NoToken} : Gate(s, t)
      PROVE  LockInv'
  <2>1. UNCHANGED <<adminFailures, adminLocked, wrong, adminClock, job>>
    BY <1>7 DEF AdminLogout, Gate
  <2>2. Checking' \subseteq Checking
    BY <2>1 DEF Checking
  <2> QED
    BY <2>1, <2>2, LockRests
<1>8. CASE AdminTick
  <2>1. /\ adminClock' = adminClock + 1 /\ adminClock < AdminTime
        /\ UNCHANGED <<adminFailures, adminLocked, wrong, job>>
    BY <1>8 DEF AdminTick
  <2>2. /\ adminClock \in Nat /\ adminClock' \in Nat /\ adminClock <= adminClock'
        /\ adminClock' \in AdminTimes /\ AdminLockout \in Nat
        /\ wrong \in [AdminTimes -> Nat]
        /\ \A u \in AdminTimes : u \in Nat /\ wrong[u] \in Nat /\ wrong[u] <= wrong[u]
    <3>1. /\ adminClock \in AdminTimes /\ wrong \in [AdminTimes -> Nat] /\ AdminLockout \in Nat
      BY AdminConstants DEF LockInv
    <3>2. adminClock \in Nat /\ \A u \in AdminTimes : u \in Nat
      BY <3>1, AdminTimesAreFinite
    <3>3. adminClock + 1 \in 0..AdminTime
      BY <2>1, <3>2, AdminConstants
    <3>4. \A u \in AdminTimes : wrong[u] \in Nat /\ wrong[u] <= wrong[u]
      BY <3>1
    <3> QED
      BY <2>1, <3>1, <3>2, <3>3, <3>4 DEF AdminTimes
  <2>3. HowMany(Kept(wrong, adminClock', AdminLockout)) + Cardinality(Checking)
           <= AdminLimit + Cardinality(AdminJobs) - 1
    BY <2>2, SumStays
  <2>4. Answered' = Kept(wrong, adminClock', AdminLockout) /\ Checking' = Checking
    BY <2>1 DEF Answered, Within, Checking
  <2>5. \A u \in AdminTimes : /\ wrong[u] # 0 => u <= adminClock'
                              /\ adminClock' < u + AdminLockout => adminClock < u + AdminLockout
    BY <2>1, <2>2 DEF LockInv
  <2> QED
    BY <2>1, <2>2, <2>3, <2>4, <2>5 DEF LockInv
<1>9. CASE AdminRestart
  BY <1>5, <1>9 DEF AdminRestart
<1>10. CASE UNCHANGED adminVars
  <2>1. Checking' \subseteq Checking
    BY <1>10 DEF Checking
  <2> QED
    BY <1>10, <2>1, LockRests
<1> QED
  BY <1>1, <1>2, <1>3, <1>4, <1>6, <1>7, <1>8, <1>9, <1>10 DEF AdminNext

\* For every set of secrets, sessions, tokens and sign-ins at once.  A token that opens the
\* gate belongs to a session that gave the secret on file less than a token's life ago and
\* has not signed out since, whatever was set, revoked or restarted while the secret was
\* being checked; and between restarts a lockout period answers no more wrong secrets than
\* the limit and those already waiting when the lock fell (treasury/admin.ts setSecret,
\* login, resolve, revokeSession, #recordFailure).
THEOREM GateStaysHeld == AdminSpec => []GateIsHeld
<1>1. AdminInv => TokensAreEarned
  <2> SUFFICES ASSUME AdminInv, NEW s \in AdminSessions, NEW t \in AdminTokens, TokenValid(t, s)
               PROVE  proven[s] # NoToken /\ adminClock < proven[s] + TokenTtl
    BY DEF TokensAreEarned
  <2>1. /\ proven[s] # NoToken /\ adminRow[t].expires <= proven[s] + TokenTtl
        /\ adminClock < adminRow[t].expires
    BY DEF AdminInv, TokensFollowProofs, TokenValid
  <2>2. adminRow[t] \in Row /\ adminClock \in Nat /\ proven[s] \in Nat
    BY <2>1 DEF AdminInv, AdminTypes, TokenValid
  <2> QED
    BY <2>1, <2>2, AdminConstants DEF Row
<1>2. LockInv => HowMany(Answered) <= AdminLimit + Cardinality(AdminJobs) - 1
  <2> SUFFICES ASSUME LockInv PROVE HowMany(Answered) <= AdminLimit + Cardinality(AdminJobs) - 1
    OBVIOUS
  <2>1. Cardinality(Checking) \in Nat /\ Cardinality(AdminJobs) \in Nat
    <3>1. Checking \in SUBSET AdminJobs
      BY DEF Checking
    <3> QED
      BY <3>1, ChecksAreJobs
  <2>2. HowMany(Answered) \in Nat
    <3>1. Answered \in [AdminTimes -> Nat]
      BY AdminTimesAreFinite, KeptStamps DEF LockInv, Answered, Within
    <3> QED
      BY <3>1, AdminTimesAreFinite, StampsAreCounted
  <2> QED
    BY <2>1, <2>2, AdminConstants DEF LockInv
<1>3. AdminInv /\ LockInv => GateIsHeld
  BY <1>1, <1>2 DEF GateIsHeld, Answered
<1> QED
  BY InitAdmin, NextAdmin, InitLock, NextLock, <1>3, PTL DEF AdminSpec

-----------------------------------------------------------------------------
(* The agent wallets. *)

\* The row of a family names a sealed secret of that family, whose key is the address.
Sealed(f) ==
    /\ wallets[f].secret = wallets[f].address
    /\ [key |-> wallets[f].address, kind |-> f] \in secrets

WalletTypes ==
    /\ secrets \subseteq [key : Keys, kind : Families]
    /\ wallets \in [Families -> [address : Keys \cup {NoKey}, secret : Keys \cup {NoKey}]]
    /\ at \in {"idle", "insert", "return", "install", "chains", "policy", "complete"} \cup Families
    /\ told \subseteq [family : Families, address : Keys]
    /\ handed \subseteq [family : Families, address : Keys, key : Keys]
    /\ install \in BOOLEAN /\ completed \in BOOLEAN

\* No key is sealed twice, and the one on its way to a row is of a family without one.
KeyPlaces ==
    /\ \A x, y \in secrets : x.key = y.key => x = y
    /\ \A f \in Families : Exists(f) => Sealed(f)
    /\ at = "insert" => \A x \in secrets : x.key = made => ~Exists(x.kind)

\* What was shown and handed out is what the rows say.
Promises ==
    /\ \A a \in told : Exists(a.family) /\ wallets[a.family].address = a.address
    /\ \A h \in handed : /\ Exists(h.family)
                         /\ h.key = h.address /\ wallets[h.family].address = h.key

\* How far a completing setup has come.
SetupPlaces ==
    /\ install => enabled # {}
    /\ at \in {"install", "chains", "policy", "complete"} =>
          choice # {} /\ \A f \in Families : Exists(f)
    /\ at \in {"chains", "policy", "complete"} => install
    /\ at = "complete" => policy # {}
    /\ completed => install /\ policy # {} /\ \A f \in Families : Exists(f)

WalletInv == WalletTypes /\ KeyPlaces /\ Promises /\ SetupPlaces

\* Before setup nothing is sealed, shown or complete.
LEMMA InitWallets == WalletsInit => WalletInv
<1> SUFFICES ASSUME WalletsInit PROVE WalletInv
  OBVIOUS
<1> USE WalletConstants DEF WalletsInit, NoWallet
<1>1. WalletTypes
  BY DEF WalletTypes
<1>2. KeyPlaces
  BY DEF KeyPlaces, Exists, Families
<1>3. Promises /\ SetupPlaces
  BY DEF Promises, SetupPlaces
<1> QED
  BY <1>1, <1>2, <1>3 DEF WalletInv

\* Every statement of the setup routes keeps the columns' types.
LEMMA NextWalletTypes == WalletInv /\ [WalletsNext]_walletVars => WalletTypes'
<1> SUFFICES ASSUME WalletInv, [WalletsNext]_walletVars PROVE WalletTypes'
  OBVIOUS
<1> USE WalletConstants
    DEF WalletInv, WalletTypes, walletVars, walletRows, setupRows, handler, After
<1>1. CASE VaultTurns BY <1>1 DEF VaultTurns
<1>2. CASE CreateAgentWallets BY <1>2 DEF CreateAgentWallets, Families
<1>3. CASE Insert
  <2>1. PICK s \in secrets : /\ s.key = made
                             /\ wallets' = [wallets EXCEPT ![s.kind] = [address |-> made, secret |-> made]]
                             /\ at' = After(s.kind)
    BY <1>3 DEF Insert
  <2>2. made \in Keys /\ s.kind \in Families
    BY <2>1
  <2> QED
    BY <1>3, <2>1, <2>2 DEF Insert, Families
<1>4. CASE Return \/ Show
  <2>1. Shown \subseteq [family : Families, address : Keys]
    <3>1. ASSUME NEW f \in Families, Exists(f) PROVE wallets[f].address \in Keys
      <4>1. [key |-> wallets[f].address, kind |-> f] \in [key : Keys, kind : Families]
        BY <3>1 DEF KeyPlaces, Sealed
      <4> QED
        BY <4>1
    <3> QED
      BY <3>1 DEF Shown
  <2> QED
    BY <1>4, <2>1 DEF Return, Show
<1>5. ASSUME NEW f \in Families, PutSecret(f) PROVE WalletTypes'
  <2>1. NewKey \in Keys
    BY <1>5 DEF PutSecret, NewKey, Spare
  <2> QED
    BY <1>5, <2>1 DEF PutSecret
<1>6. ASSUME NEW f \in Families, SkipFamily(f) PROVE WalletTypes'
  BY <1>6 DEF SkipFamily, Families
<1>7. ASSUME NEW f \in Families, UseSecret(f) PROVE WalletTypes'
  BY <1>7 DEF UseSecret
<1>8. ASSUME NEW chains \in SUBSET Chains, CompleteBegins(chains) PROVE WalletTypes'
  BY <1>8 DEF CompleteBegins
<1>9. CASE CreateInstallation BY <1>9 DEF CreateInstallation
<1>10. CASE SetEnabledChains BY <1>10 DEF SetEnabledChains
<1>11. CASE CompleteSetup BY <1>11 DEF CompleteSetup
<1>12. ASSUME NEW limits \in BOOLEAN, NEW valid \in BOOLEAN, SeedPolicy(limits, valid)
       PROVE  WalletTypes'
  BY <1>12 DEF SeedPolicy
<1>13. CASE WalletRestart BY <1>13 DEF WalletRestart
<1>14. CASE UNCHANGED walletVars BY <1>14
<1> QED
  BY <1>1, <1>2, <1>3, <1>4, <1>5, <1>6, <1>7, <1>8, <1>9, <1>10, <1>11, <1>12, <1>13,
     <1>14 DEF WalletsNext

\* A wallet row, once written, stays as it is, and a sealed secret stays sealed.
LEMMA WalletsStay ==
    WalletInv /\ [WalletsNext]_walletVars =>
        /\ secrets \subseteq secrets'
        /\ \A f \in Families : Exists(f) => wallets'[f] = wallets[f]
<1> SUFFICES ASSUME WalletInv, [WalletsNext]_walletVars
             PROVE  /\ secrets \subseteq secrets'
                    /\ \A f \in Families : Exists(f) => wallets'[f] = wallets[f]
  OBVIOUS
<1> USE WalletConstants DEF WalletInv, WalletTypes, walletVars, walletRows
<1>1. CASE Insert
  BY <1>1 DEF Insert, KeyPlaces
<1>2. ASSUME NEW f \in Families, PutSecret(f)
      PROVE  secrets \subseteq secrets' /\ wallets' = wallets
  BY <1>2 DEF PutSecret
<1>3. CASE UNCHANGED walletRows
  BY <1>3
<1>4. Insert \/ (\E f \in Families : PutSecret(f)) \/ UNCHANGED walletRows
  BY DEF WalletsNext, VaultTurns, CreateAgentWallets, Return, Show, SkipFamily, UseSecret,
         CompleteBegins, CreateInstallation, SetEnabledChains, CompleteSetup, SeedPolicy,
         WalletRestart
<1> QED
  BY <1>1, <1>2, <1>3, <1>4

\* A new key is sealed under no other secret, and reaches a row only of its own family.
LEMMA NextKeyPlaces == WalletInv /\ [WalletsNext]_walletVars => KeyPlaces'
<1> SUFFICES ASSUME WalletInv, [WalletsNext]_walletVars PROVE KeyPlaces'
  OBVIOUS
<1> USE WalletConstants
    DEF WalletInv, WalletTypes, KeyPlaces, Exists, Sealed, NoWallet, walletVars, walletRows,
        setupRows, handler
<1>1. CASE Insert
  <2>1. PICK s \in secrets : /\ s.key = made
                             /\ wallets' = [wallets EXCEPT ![s.kind] = [address |-> made, secret |-> made]]
                             /\ at' = After(s.kind)
    BY <1>1 DEF Insert
  <2>2. s = [key |-> made, kind |-> s.kind] /\ s.kind \in Families
    BY <2>1
  <2>3. at' # "insert"
    BY <2>1 DEF After
  <2>4. secrets' = secrets
    BY <1>1 DEF Insert
  <2> QED
    BY <2>1, <2>2, <2>3, <2>4
<1>2. ASSUME NEW f \in Families, PutSecret(f) PROVE KeyPlaces'
  <2>1. NewKey \in Keys /\ \A x \in secrets : x.key # NewKey
    BY <1>2 DEF PutSecret, NewKey, Spare
  <2>2. /\ secrets' = secrets \cup {[key |-> NewKey, kind |-> f]}
        /\ made' = NewKey /\ wallets' = wallets /\ ~Exists(f)
    BY <1>2 DEF PutSecret
  <2>3. \A x, y \in secrets' : x.key = y.key => x = y
    BY <2>1, <2>2
  <2> QED
    BY <2>1, <2>2, <2>3
<1>3. CASE UNCHANGED walletRows /\ at' # "insert"
  BY <1>3
<1>4. CASE UNCHANGED <<walletRows, handler>>
  BY <1>4
<1>5. \/ Insert \/ (\E f \in Families : PutSecret(f))
      \/ UNCHANGED walletRows /\ at' # "insert"
      \/ UNCHANGED <<walletRows, handler>>
  BY DEF WalletsNext, VaultTurns, CreateAgentWallets, Return, Show, SkipFamily, UseSecret,
         CompleteBegins, CreateInstallation, SetEnabledChains, CompleteSetup, SeedPolicy,
         WalletRestart, After
<1> QED
  BY <1>1, <1>2, <1>3, <1>4, <1>5

\* Nothing that was shown or handed out is contradicted by a later row.
LEMMA NextPromises == WalletInv /\ [WalletsNext]_walletVars => Promises'
<1> SUFFICES ASSUME WalletInv, [WalletsNext]_walletVars PROVE Promises'
  OBVIOUS
<1> USE DEF WalletInv, WalletTypes, Promises, walletVars, walletRows
<1>1. \A f \in Families : Exists(f) => wallets'[f] = wallets[f] /\ Exists(f)'
  BY WalletsStay DEF Exists, NoWallet
<1>2. CASE Return \/ Show
  <2>1. \A a \in Shown : a.family \in Families /\ Exists(a.family)
                         /\ wallets[a.family].address = a.address
    BY DEF Shown
  <2> QED
    BY <1>1, <1>2, <2>1 DEF Return, Show
<1>3. ASSUME NEW f \in Families, UseSecret(f) PROVE Promises'
  BY <1>1, <1>3 DEF UseSecret
<1>4. CASE UNCHANGED <<told, handed>>
  BY <1>1, <1>4
<1>5. (Return \/ Show) \/ (\E f \in Families : UseSecret(f)) \/ UNCHANGED <<told, handed>>
  BY DEF WalletsNext, VaultTurns, CreateAgentWallets, Insert, PutSecret, SkipFamily,
         CompleteBegins, CreateInstallation, SetEnabledChains, CompleteSetup, SeedPolicy,
         WalletRestart
<1> QED
  BY <1>2, <1>3, <1>4, <1>5

\* A setup does not reach a statement without what the earlier ones stored.
LEMMA NextSetupPlaces == WalletInv /\ [WalletsNext]_walletVars => SetupPlaces'
<1> SUFFICES ASSUME WalletInv, [WalletsNext]_walletVars PROVE SetupPlaces'
  OBVIOUS
<1>1. \A f \in Families : Exists(f) => Exists(f)'
  BY WalletsStay DEF Exists, NoWallet
<1> USE DEF WalletInv, WalletTypes, SetupPlaces, setupRows, handler, walletVars
<1>2. CASE Insert
  <2>1. at' \notin {"install", "chains", "policy", "complete"}
    BY <1>2 DEF Insert, After
  <2> QED
    BY <1>1, <1>2, <2>1 DEF Insert
<1>3. ASSUME NEW f \in Families, PutSecret(f) PROVE SetupPlaces'
  BY <1>1, <1>3 DEF PutSecret
<1>4. ASSUME NEW f \in Families, SkipFamily(f) PROVE SetupPlaces'
  BY <1>1, <1>4 DEF SkipFamily, After
<1>5. ASSUME NEW chains \in SUBSET Chains, CompleteBegins(chains) PROVE SetupPlaces'
  BY <1>1, <1>5 DEF CompleteBegins
<1>6. CASE CreateInstallation BY <1>1, <1>6 DEF CreateInstallation
<1>7. CASE SetEnabledChains BY <1>1, <1>7 DEF SetEnabledChains
<1>8. CASE CompleteSetup BY <1>1, <1>8 DEF CompleteSetup
<1>9. ASSUME NEW limits \in BOOLEAN, NEW valid \in BOOLEAN, SeedPolicy(limits, valid)
       PROVE  SetupPlaces'
  BY <1>1, <1>9 DEF SeedPolicy
<1>10. CASE WalletRestart BY <1>1, <1>10 DEF WalletRestart
<1>11. CASE VaultTurns \/ CreateAgentWallets \/ Return \/ Show
  BY <1>1, <1>11 DEF VaultTurns, CreateAgentWallets, Return, Show
<1>12. ASSUME NEW f \in Families, UseSecret(f) PROVE SetupPlaces'
  BY <1>1, <1>12 DEF UseSecret
<1>13. CASE UNCHANGED walletVars BY <1>1, <1>13
<1> QED
  BY <1>2, <1>3, <1>4, <1>5, <1>6, <1>7, <1>8, <1>9, <1>10, <1>11, <1>12, <1>13
     DEF WalletsNext

\* For every set of keys and chains, and however often the process dies: an address that was
\* shown stays the address of its family with its key sealed, a key that was handed out is
\* the key of the address on file, and a complete setup has wallets, chains and limits
\* (wallet/service.ts createAgentWallets, useSigningKey; the setup routes).
THEOREM NoAddressIsForgotten == WalletsSpec => []NoForgottenAddress
<1>1. WalletInv /\ [WalletsNext]_walletVars => WalletInv'
  BY NextWalletTypes, NextKeyPlaces, NextPromises, NextSetupPlaces DEF WalletInv
<1>2. WalletInv => NoForgottenAddress
  BY DEF WalletInv, WalletTypes, KeyPlaces, Sealed, Promises, SetupPlaces, NoForgottenAddress
<1> QED
  BY InitWallets, <1>1, <1>2, PTL DEF WalletsSpec

-----------------------------------------------------------------------------
(* Withdrawal: the invariant of its rows.                                   *)

WithdrawalInv == WithdrawalTypeOK /\ Stages /\ NeverTwice /\ SeenIsRecorded /\ RowTellsTheTruth

\* The empty table and the empty chain satisfy every conjunct.
LEMMA InitWithdrawal == WithdrawalInit => WithdrawalInv
  <1> SUFFICES ASSUME WithdrawalInit PROVE WithdrawalInv
    OBVIOUS
  <1>1. WithdrawalTypeOK
    BY WithdrawalConstants DEF WithdrawalInit, WithdrawalTypeOK
  <1>2. Stages /\ NeverTwice
    BY DEF WithdrawalInit, Stages, NeverTwice
  <1>3. SeenIsRecorded /\ RowTellsTheTruth
    BY DEF WithdrawalInit, SeenIsRecorded, RowTellsTheTruth
  <1> QED
    BY <1>1, <1>2, <1>3 DEF WithdrawalInv

\* Every step of execute, refresh, the chain and the process keeps the types.
LEMMA NextTypeOK == WithdrawalTypeOK /\ [WithdrawalNext]_withdrawalVars => WithdrawalTypeOK'
  <1> SUFFICES ASSUME WithdrawalTypeOK, [WithdrawalNext]_withdrawalVars
               PROVE  WithdrawalTypeOK'
    OBVIOUS
  <1> USE WithdrawalConstants DEF WithdrawalTypeOK, local, table, chain
  <1>1. ASSUME NEW q \in Quotes, NEW s \in BOOLEAN, Quote(q, s) PROVE WithdrawalTypeOK'
    BY <1>1 DEF Quote
  <1>2. ASSUME NEW q \in Quotes, NEW k \in ClientKeys \cup {NoClientKey}, Submit(q, k)
        PROVE  WithdrawalTypeOK'
    BY <1>2 DEF Submit, FreshKey
  <1>3. ASSUME NEW q \in Quotes, Expire(q) PROVE WithdrawalTypeOK'
    BY <1>3 DEF Expire
  <1>4. ASSUME NEW q \in Quotes, Context(q) PROVE WithdrawalTypeOK'
    BY <1>4 DEF Context
  <1>5. ASSUME NEW q \in Quotes, FailUnsigned(q) PROVE WithdrawalTypeOK'
    BY <1>5 DEF FailUnsigned
  <1>6. ASSUME NEW q \in Quotes, Sign(q) PROVE WithdrawalTypeOK'
    BY <1>6 DEF Sign
  <1>7. ASSUME NEW q \in Quotes, Reach(q) PROVE WithdrawalTypeOK'
    BY <1>7 DEF Reach
  <1>8. ASSUME NEW q \in Quotes, Sent(q) PROVE WithdrawalTypeOK'
    BY <1>8 DEF Sent
  <1>9. ASSUME NEW q \in Quotes, SendFails(q) PROVE WithdrawalTypeOK'
    BY <1>9 DEF SendFails
  <1>10. ASSUME NEW q \in Quotes, Confirm(q) PROVE WithdrawalTypeOK'
    BY <1>10 DEF Confirm, Outcome
  <1>11. ASSUME NEW q \in Quotes, Refresh(q) PROVE WithdrawalTypeOK'
    BY <1>11 DEF Refresh, Outcome
  <1>12. ASSUME NEW q \in Quotes, NEW as \in {"mined", "reverted"}, MineTransfer(q, as)
        PROVE  WithdrawalTypeOK'
    <2>1. tx' \in [Quotes -> {"unsent", "pending", "mined", "reverted", "dropped"}]
      BY <1>12 DEF MineTransfer, Mine
    <2>2. nextNonce' \in Nat
      BY <1>12 DEF MineTransfer, Mine
    <2>3. UNCHANGED <<local, table, nonce, pool, agent, deaths, signed>>
      BY <1>12 DEF MineTransfer, Mine
    <2> QED
      BY <2>1, <2>2, <2>3
  <1>13. ASSUME NEW n \in 0..MaxNonce, TradeSent(n) PROVE WithdrawalTypeOK'
    BY <1>13 DEF TradeSent
  <1>14. CASE VaultFlips
    BY <1>14 DEF VaultFlips
  <1>15. CASE MineTrade
    BY <1>15 DEF MineTrade, Mine
  <1>16. CASE ProcessDies
    <2>1. quote' \in [Quotes -> {"none", "open", "blocked", "gone"}]
      BY <1>16 DEF ProcessDies
    <2>2. waits' \in [Quotes -> {"idle", "context", "sign", "send", "confirm"}]
      BY <1>16 DEF ProcessDies
    <2>3. unlocked' \in BOOLEAN
      BY <1>16 DEF ProcessDies
    <2>4. deaths' \in Nat
      BY <1>16 DEF ProcessDies
    <2>5. UNCHANGED <<table, nonce, chain, signed>>
      BY <1>16 DEF ProcessDies
    <2> QED
      BY <2>1, <2>2, <2>3, <2>4, <2>5
  <1>17. CASE UNCHANGED withdrawalVars
    BY <1>17 DEF withdrawalVars
  <1> QED
    BY <1>1, <1>2, <1>3, <1>4, <1>5, <1>6, <1>7, <1>8, <1>9, <1>10, <1>11, <1>12, <1>13,
       <1>14, <1>15, <1>16, <1>17 DEF WithdrawalNext

\* The row, the place its execution waits and the transfer stay in step.
LEMMA NextStages ==
  WithdrawalTypeOK /\ Stages /\ SeenIsRecorded /\ [WithdrawalNext]_withdrawalVars => Stages'
  <1> SUFFICES ASSUME WithdrawalTypeOK, Stages, SeenIsRecorded, [WithdrawalNext]_withdrawalVars
               PROVE  Stages'
    OBVIOUS
  <1> USE WithdrawalConstants DEF WithdrawalTypeOK, Stages, SeenIsRecorded, local, table, chain
  <1>1. ASSUME NEW q \in Quotes, NEW s \in BOOLEAN, Quote(q, s) PROVE Stages'
    BY <1>1 DEF Quote
  <1>2. ASSUME NEW q \in Quotes, NEW k \in ClientKeys \cup {NoClientKey}, Submit(q, k)
        PROVE  Stages'
    BY <1>2 DEF Submit, FreshKey
  <1>3. ASSUME NEW q \in Quotes, Expire(q) PROVE Stages'
    BY <1>3 DEF Expire
  <1>4. ASSUME NEW q \in Quotes, Context(q) PROVE Stages'
    BY <1>4 DEF Context
  <1>5. ASSUME NEW q \in Quotes, FailUnsigned(q) PROVE Stages'
    BY <1>5 DEF FailUnsigned
  <1>6. ASSUME NEW q \in Quotes, Sign(q) PROVE Stages'
    BY <1>6 DEF Sign
  <1>7. ASSUME NEW q \in Quotes, Reach(q) PROVE Stages'
    BY <1>7 DEF Reach
  <1>8. ASSUME NEW q \in Quotes, Sent(q) PROVE Stages'
    BY <1>8 DEF Sent
  <1>9. ASSUME NEW q \in Quotes, SendFails(q) PROVE Stages'
    BY <1>9 DEF SendFails
  <1>10. ASSUME NEW q \in Quotes, Confirm(q) PROVE Stages'
    BY <1>10 DEF Confirm, Outcome
  <1>11. ASSUME NEW q \in Quotes, Refresh(q) PROVE Stages'
    BY <1>11 DEF Refresh, Outcome
  <1>12. ASSUME NEW q \in Quotes, NEW as \in {"mined", "reverted"}, MineTransfer(q, as)
        PROVE  Stages'
    BY <1>12 DEF MineTransfer, Mine
  <1>13. ASSUME NEW n \in 0..MaxNonce, TradeSent(n) PROVE Stages'
    BY <1>13 DEF TradeSent
  <1>14. CASE VaultFlips
    BY <1>14 DEF VaultFlips
  <1>15. CASE MineTrade
    BY <1>15 DEF MineTrade, Mine
  <1>16. CASE ProcessDies
    BY <1>16 DEF ProcessDies
  <1>17. CASE UNCHANGED withdrawalVars
    BY <1>17 DEF withdrawalVars
  <1> QED
    BY <1>1, <1>2, <1>3, <1>4, <1>5, <1>6, <1>7, <1>8, <1>9, <1>10, <1>11, <1>12, <1>13,
       <1>14, <1>15, <1>16, <1>17 DEF WithdrawalNext

\* Only Sign signs, of a row that has no hash yet, and only Submit writes a key, a fresh one.
LEMMA NextNeverTwice ==
  WithdrawalTypeOK /\ Stages /\ NeverTwice /\ [WithdrawalNext]_withdrawalVars => NeverTwice'
  <1> SUFFICES ASSUME WithdrawalTypeOK, Stages, NeverTwice, [WithdrawalNext]_withdrawalVars
               PROVE  NeverTwice'
    OBVIOUS
  <1> USE WithdrawalConstants DEF WithdrawalTypeOK, Stages, NeverTwice, local, table, chain
  <1>1. ASSUME NEW q \in Quotes, NEW s \in BOOLEAN, Quote(q, s) PROVE NeverTwice'
    BY <1>1 DEF Quote
  <1>2. ASSUME NEW q \in Quotes, NEW k \in ClientKeys \cup {NoClientKey}, Submit(q, k)
        PROVE  NeverTwice'
    BY <1>2 DEF Submit, FreshKey
  <1>3. ASSUME NEW q \in Quotes, Expire(q) PROVE NeverTwice'
    BY <1>3 DEF Expire
  <1>4. ASSUME NEW q \in Quotes, Context(q) PROVE NeverTwice'
    BY <1>4 DEF Context
  <1>5. ASSUME NEW q \in Quotes, FailUnsigned(q) PROVE NeverTwice'
    BY <1>5 DEF FailUnsigned
  <1>6. ASSUME NEW q \in Quotes, Sign(q) PROVE NeverTwice'
    BY <1>6 DEF Sign
  <1>7. ASSUME NEW q \in Quotes, Reach(q) PROVE NeverTwice'
    BY <1>7 DEF Reach
  <1>8. ASSUME NEW q \in Quotes, Sent(q) PROVE NeverTwice'
    BY <1>8 DEF Sent
  <1>9. ASSUME NEW q \in Quotes, SendFails(q) PROVE NeverTwice'
    BY <1>9 DEF SendFails
  <1>10. ASSUME NEW q \in Quotes, Confirm(q) PROVE NeverTwice'
    BY <1>10 DEF Confirm, Outcome
  <1>11. ASSUME NEW q \in Quotes, Refresh(q) PROVE NeverTwice'
    BY <1>11 DEF Refresh, Outcome
  <1>12. ASSUME NEW q \in Quotes, NEW as \in {"mined", "reverted"}, MineTransfer(q, as)
        PROVE  NeverTwice'
    BY <1>12 DEF MineTransfer, Mine
  <1>13. ASSUME NEW n \in 0..MaxNonce, TradeSent(n) PROVE NeverTwice'
    BY <1>13 DEF TradeSent
  <1>14. CASE VaultFlips
    BY <1>14 DEF VaultFlips
  <1>15. CASE MineTrade
    BY <1>15 DEF MineTrade, Mine
  <1>16. CASE ProcessDies
    BY <1>16 DEF ProcessDies
  <1>17. CASE UNCHANGED withdrawalVars
    BY <1>17 DEF withdrawalVars
  <1> QED
    BY <1>1, <1>2, <1>3, <1>4, <1>5, <1>6, <1>7, <1>8, <1>9, <1>10, <1>11, <1>12, <1>13,
       <1>14, <1>15, <1>16, <1>17 DEF WithdrawalNext

\* A transfer reaches the network from the execution that has recorded its hash.
LEMMA NextSeenIsRecorded ==
  WithdrawalTypeOK /\ Stages /\ SeenIsRecorded /\ [WithdrawalNext]_withdrawalVars
    => SeenIsRecorded'
  <1> SUFFICES ASSUME WithdrawalTypeOK, Stages, SeenIsRecorded, [WithdrawalNext]_withdrawalVars
               PROVE  SeenIsRecorded'
    OBVIOUS
  <1> USE WithdrawalConstants DEF WithdrawalTypeOK, Stages, SeenIsRecorded, local, table, chain
  <1>1. ASSUME NEW q \in Quotes, NEW s \in BOOLEAN, Quote(q, s) PROVE SeenIsRecorded'
    BY <1>1 DEF Quote
  <1>2. ASSUME NEW q \in Quotes, NEW k \in ClientKeys \cup {NoClientKey}, Submit(q, k)
        PROVE  SeenIsRecorded'
    BY <1>2 DEF Submit, FreshKey
  <1>3. ASSUME NEW q \in Quotes, Expire(q) PROVE SeenIsRecorded'
    BY <1>3 DEF Expire
  <1>4. ASSUME NEW q \in Quotes, Context(q) PROVE SeenIsRecorded'
    BY <1>4 DEF Context
  <1>5. ASSUME NEW q \in Quotes, FailUnsigned(q) PROVE SeenIsRecorded'
    BY <1>5 DEF FailUnsigned
  <1>6. ASSUME NEW q \in Quotes, Sign(q) PROVE SeenIsRecorded'
    BY <1>6 DEF Sign
  <1>7. ASSUME NEW q \in Quotes, Reach(q) PROVE SeenIsRecorded'
    BY <1>7 DEF Reach
  <1>8. ASSUME NEW q \in Quotes, Sent(q) PROVE SeenIsRecorded'
    BY <1>8 DEF Sent
  <1>9. ASSUME NEW q \in Quotes, SendFails(q) PROVE SeenIsRecorded'
    BY <1>9 DEF SendFails
  <1>10. ASSUME NEW q \in Quotes, Confirm(q) PROVE SeenIsRecorded'
    BY <1>10 DEF Confirm, Outcome
  <1>11. ASSUME NEW q \in Quotes, Refresh(q) PROVE SeenIsRecorded'
    BY <1>11 DEF Refresh, Outcome
  <1>12. ASSUME NEW q \in Quotes, NEW as \in {"mined", "reverted"}, MineTransfer(q, as)
        PROVE  SeenIsRecorded'
    BY <1>12 DEF MineTransfer, Mine
  <1>13. ASSUME NEW n \in 0..MaxNonce, TradeSent(n) PROVE SeenIsRecorded'
    BY <1>13 DEF TradeSent
  <1>14. CASE VaultFlips
    BY <1>14 DEF VaultFlips
  <1>15. CASE MineTrade
    BY <1>15 DEF MineTrade, Mine
  <1>16. CASE ProcessDies
    BY <1>16 DEF ProcessDies
  <1>17. CASE UNCHANGED withdrawalVars
    BY <1>17 DEF withdrawalVars
  <1> QED
    BY <1>1, <1>2, <1>3, <1>4, <1>5, <1>6, <1>7, <1>8, <1>9, <1>10, <1>11, <1>12, <1>13,
       <1>14, <1>15, <1>16, <1>17 DEF WithdrawalNext

\* A row is settled by what the chain said, or failed before it was signed, or failed with
\* its outcome recorded as unknown.
LEMMA NextRowTellsTheTruth ==
  WithdrawalTypeOK /\ Stages /\ SeenIsRecorded /\ RowTellsTheTruth /\ [WithdrawalNext]_withdrawalVars
    => RowTellsTheTruth'
  <1> SUFFICES ASSUME WithdrawalTypeOK, Stages, SeenIsRecorded, RowTellsTheTruth, [WithdrawalNext]_withdrawalVars
               PROVE  RowTellsTheTruth'
    OBVIOUS
  <1> USE WithdrawalConstants
      DEF WithdrawalTypeOK, Stages, SeenIsRecorded, RowTellsTheTruth, local, table, chain
  <1>1. ASSUME NEW q \in Quotes, NEW s \in BOOLEAN, Quote(q, s) PROVE RowTellsTheTruth'
    BY <1>1 DEF Quote
  <1>2. ASSUME NEW q \in Quotes, NEW k \in ClientKeys \cup {NoClientKey}, Submit(q, k)
        PROVE  RowTellsTheTruth'
    BY <1>2 DEF Submit, FreshKey
  <1>3. ASSUME NEW q \in Quotes, Expire(q) PROVE RowTellsTheTruth'
    BY <1>3 DEF Expire
  <1>4. ASSUME NEW q \in Quotes, Context(q) PROVE RowTellsTheTruth'
    BY <1>4 DEF Context
  <1>5. ASSUME NEW q \in Quotes, FailUnsigned(q) PROVE RowTellsTheTruth'
    BY <1>5 DEF FailUnsigned
  <1>6. ASSUME NEW q \in Quotes, Sign(q) PROVE RowTellsTheTruth'
    BY <1>6 DEF Sign
  <1>7. ASSUME NEW q \in Quotes, Reach(q) PROVE RowTellsTheTruth'
    BY <1>7 DEF Reach
  <1>8. ASSUME NEW q \in Quotes, Sent(q) PROVE RowTellsTheTruth'
    BY <1>8 DEF Sent
  <1>9. ASSUME NEW q \in Quotes, SendFails(q) PROVE RowTellsTheTruth'
    BY <1>9 DEF SendFails
  <1>10. ASSUME NEW q \in Quotes, Confirm(q) PROVE RowTellsTheTruth'
    BY <1>10 DEF Confirm, Outcome
  <1>11. ASSUME NEW q \in Quotes, Refresh(q) PROVE RowTellsTheTruth'
    BY <1>11 DEF Refresh, Outcome
  <1>12. ASSUME NEW q \in Quotes, NEW as \in {"mined", "reverted"}, MineTransfer(q, as)
        PROVE  RowTellsTheTruth'
    BY <1>12 DEF MineTransfer, Mine
  <1>13. ASSUME NEW n \in 0..MaxNonce, TradeSent(n) PROVE RowTellsTheTruth'
    BY <1>13 DEF TradeSent
  <1>14. CASE VaultFlips
    BY <1>14 DEF VaultFlips
  <1>15. CASE MineTrade
    BY <1>15 DEF MineTrade, Mine
  <1>16. CASE ProcessDies
    BY <1>16 DEF ProcessDies
  <1>17. CASE UNCHANGED withdrawalVars
    BY <1>17 DEF withdrawalVars
  <1> QED
    BY <1>1, <1>2, <1>3, <1>4, <1>5, <1>6, <1>7, <1>8, <1>9, <1>10, <1>11, <1>12, <1>13,
       <1>14, <1>15, <1>16, <1>17 DEF WithdrawalNext

\* The inductive invariant holds throughout.
LEMMA AlwaysWithdrawal == WithdrawalSpec => []WithdrawalInv
  <1>1. WithdrawalInv /\ [WithdrawalNext]_withdrawalVars => WithdrawalInv'
    BY NextTypeOK, NextStages, NextNeverTwice, NextSeenIsRecorded, NextRowTellsTheTruth
       DEF WithdrawalInv
  <1> QED
    BY <1>1, InitWithdrawal, PTL DEF WithdrawalSpec

\* Rows, locals and chain keep their types, for any quotes, keys and bounds.
THEOREM WithdrawalTypes == WithdrawalSpec => []WithdrawalTypeOK
  <1>1. WithdrawalInv => WithdrawalTypeOK
    BY DEF WithdrawalInv
  <1> QED
    BY <1>1, AlwaysWithdrawal, PTL

\* No quote and no idempotency key ever yields a second signed transfer, however many
\* submissions overlap and wherever the process dies.
THEOREM NoSecondTransaction == WithdrawalSpec => []NeverTwice
  <1>1. WithdrawalInv => NeverTwice
    BY DEF WithdrawalInv
  <1> QED
    BY <1>1, AlwaysWithdrawal, PTL

\* Whatever the network has seen of a withdrawal is on disk under its hash.
THEOREM HashBeforeNetwork == WithdrawalSpec => []SeenIsRecorded
  <1>1. WithdrawalInv => SeenIsRecorded
    BY DEF WithdrawalInv
  <1> QED
    BY <1>1, AlwaysWithdrawal, PTL

\* A settled row says what the chain did, or that the outcome is unknown.
THEOREM HonestRows == WithdrawalSpec => []RowTellsTheTruth
  <1>1. WithdrawalInv => RowTellsTheTruth
    BY DEF WithdrawalInv
  <1> QED
    BY <1>1, AlwaysWithdrawal, PTL
=============================================================================
