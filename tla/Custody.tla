------------------------------- MODULE Custody -------------------------------
(***************************************************************************)
(* The operator's password and what it opens: the dashboard's sessions and *)
(* single-use re-authentications, and the vault's key.                     *)
(*                                                                         *)
(* A request waits each time it derives a key from a password (a KDF of    *)
(* about a second), so a handler is one action per derivation: seen is     *)
(* what the request read before it began to wait.  The vault's key is one  *)
(* value for ever; what changes is the password its wrapping opens with,   *)
(* and whether the process holds it.                                       *)
(***************************************************************************)
EXTENDS Naturals, FiniteSets, Stamps

CONSTANTS
    Passwords,
    None,           \* no password set, no vault created
    Requests,       \* requests served at once
    Sessions,       \* bound on sessions begun
    Tokens,         \* bound on re-authentications granted
    Purposes,       \* what a wallet re-authentication may be for
    Limit, Window, Lockout,     \* LOGIN_FAILURE_LIMIT, _WINDOW_MS, LOGIN_LOCKOUT_MS
    MaxTime, MaxCrashes         \* bounds on the clock and on deaths

ASSUME CustodyConstants ==
    /\ None \notin Passwords \cup Sessions
    /\ Limit \in Nat \ {0} /\ Window \in Nat /\ Lockout \in Nat \ {0} /\ Lockout <= Window
    /\ MaxTime \in Nat /\ MaxCrashes \in Nat
    /\ "auth.password" \notin Purposes /\ None \notin Purposes \cup {"auth.password"}
    /\ IsFiniteSet(Tokens)

Times == 0 .. MaxTime

AllPurposes == Purposes \cup {"auth.password"}

VARIABLES
    (* auth_credential, vault_header *)
    credential,     \* the password that signs in
    header,         \* the password the vault's key is wrapped under
    (* the vault in memory *)
    dek, timer,
    (* sessions, reauth_tokens *)
    sess, tok, tokSess, tokFor,
    (* auth_throttle *)
    failures, lockedUntil,
    (* the requests *)
    pc, pw, new, rider, want, seen,
    (* the clock, and a bound *)
    now, crashes,
    (* history *)
    tries,          \* when attempts were let through, since the last right password
    proofs, acts    \* passwords proven and acts done, by session and purpose

auth == <<credential, sess, tok, tokSess, tokFor>>
vault == <<header, dek, timer>>
throttle == <<failures, lockedUntil>>
reqs == <<pc, pw, new, rider, want, seen>>
history == <<tries, proofs, acts>>
vars == <<auth, vault, throttle, reqs, now, crashes, history>>

Init ==
    /\ credential = None /\ header = None
    /\ dek = FALSE /\ timer = "none"
    /\ sess = [s \in Sessions |-> "none"]
    /\ tok = [t \in Tokens |-> "none"]
    /\ tokSess = [t \in Tokens |-> None] /\ tokFor = [t \in Tokens |-> None]
    /\ failures = NoStamps(Times) /\ lockedUntil = 0
    /\ pc = [r \in Requests |-> "idle"]
    /\ pw = [r \in Requests |-> None] /\ new = [r \in Requests |-> None]
    /\ rider = [r \in Requests |-> None] /\ want = [r \in Requests |-> None]
    /\ seen = [r \in Requests |-> None]
    /\ now = 0 /\ crashes = 0
    /\ tries = NoStamps(Times)
    /\ proofs = [s \in Sessions |-> [p \in AllPurposes |-> 0]]
    /\ acts = [s \in Sessions |-> [p \in AllPurposes |-> 0]]

-----------------------------------------------------------------------------
(***************************************************************************)
(* The pieces of the handlers.                                             *)
(***************************************************************************)

\* The request is answered, or refused; what it held is forgotten.
End(r) ==
    /\ pc' = [pc EXCEPT ![r] = "idle"]
    /\ pw' = [pw EXCEPT ![r] = None] /\ new' = [new EXCEPT ![r] = None]
    /\ rider' = [rider EXCEPT ![r] = None] /\ want' = [want EXCEPT ![r] = None]
    /\ seen' = [seen EXCEPT ![r] = None]

\* It waits for a key derivation, of what it has just read.
Derive(r, where, what) ==
    /\ pc' = [pc EXCEPT ![r] = where]
    /\ seen' = [seen EXCEPT ![r] = what]
    /\ UNCHANGED <<pw, new, rider, want>>

\* createSession
Begin(s) == sess[s] = "none" /\ sess' = [sess EXCEPT ![s] = "live"]

\* #armAutolock: a timer that is set is left alone.
Armed == IF timer = "none" THEN "armed" ELSE timer

\* #replaceDek
TakeDek == dek' = TRUE /\ timer' = Armed

\* Mutant: the interval is cleared, and the field keeps it.
LockKeepsTimer == dek' = FALSE /\ timer' = (IF timer = "none" THEN "none" ELSE "cleared")

\* lock
Lock == dek' = FALSE /\ timer' = "none"

Recent == Kept(failures, now, Window)

\* Mutant: the attempt that reaches the limit is still free.
BeginOneMore ==
    /\ now >= lockedUntil
    /\ LET charged == Stamped(Recent, now)
       IN  IF HowMany(charged) > Limit
              THEN failures' = NoStamps(Times) /\ lockedUntil' = now + Lockout
              ELSE failures' = charged /\ lockedUntil' = 0
    /\ tries' = Stamped(tries, now)

\* #beginAttempt: charged before the derivation; the attempt that reaches the limit locks
\* the check for those behind it and goes on itself.
BeginAttempt ==
    /\ now >= lockedUntil
    /\ LET charged == Stamped(Recent, now)
       IN  IF HowMany(charged) >= Limit
              THEN failures' = NoStamps(Times) /\ lockedUntil' = now + Lockout
              ELSE failures' = charged /\ lockedUntil' = 0
    /\ tries' = Stamped(tries, now)

\* #recordSuccess
RecordSuccess == failures' = NoStamps(Times) /\ lockedUntil' = 0 /\ tries' = NoStamps(Times)

\* Mutant: the statement does not name the purpose.
MayConsumeAny(t, p, s) == tok[t] = "fresh" /\ tokSess[t] = s

\* consumeReauthToken's WHERE clause
MayConsume(t, p, s) == tok[t] = "fresh" /\ tokSess[t] = s /\ tokFor[t] = p

-----------------------------------------------------------------------------
(***************************************************************************)
(* POST /auth/setup                                                        *)
(***************************************************************************)

Setup(r, p) ==
    /\ pc[r] = "idle" /\ credential = None
    /\ pc' = [pc EXCEPT ![r] = "setup.hash"] /\ pw' = [pw EXCEPT ![r] = p]
    /\ UNCHANGED <<auth, vault, throttle, new, rider, want, seen, now, crashes, history>>

\* setPassword's insert, which a second setup finds taken; then initialize begins.
SetPassword(r) ==
    /\ pc[r] = "setup.hash"
    /\ IF credential = None
          THEN /\ credential' = pw[r]
               /\ Derive(r, "setup.wrap", None)
          ELSE End(r) /\ UNCHANGED credential
    /\ UNCHANGED <<vault, sess, tok, tokSess, tokFor, throttle, now, crashes, history>>

\* initialize's insert, and the wizard's session
Initialize(r, s) ==
    /\ pc[r] = "setup.wrap"
    /\ header' = pw[r] /\ TakeDek
    /\ Begin(s) /\ End(r)
    /\ UNCHANGED <<credential, tok, tokSess, tokFor, throttle, now, crashes, history>>

-----------------------------------------------------------------------------
(***************************************************************************)
(* POST /auth/login, /auth/logout, /auth/reauth                            *)
(***************************************************************************)

Login(r, p) ==
    /\ pc[r] = "idle" /\ credential # None
    /\ BeginAttempt
    /\ pc' = [pc EXCEPT ![r] = "login.verify"] /\ pw' = [pw EXCEPT ![r] = p]
    /\ seen' = [seen EXCEPT ![r] = credential]
    /\ UNCHANGED <<auth, vault, new, rider, want, now, crashes, proofs, acts>>

Reauth(r, s, p, purpose) ==
    /\ pc[r] = "idle" /\ sess[s] = "live"
    /\ BeginAttempt
    /\ pc' = [pc EXCEPT ![r] = "reauth.verify"] /\ pw' = [pw EXCEPT ![r] = p]
    /\ rider' = [rider EXCEPT ![r] = s] /\ want' = [want EXCEPT ![r] = purpose]
    /\ seen' = [seen EXCEPT ![r] = credential]
    /\ UNCHANGED <<auth, vault, new, now, crashes, proofs, acts>>

\* verifyPassword answers no: the charge stays.
VerifyFails(r) ==
    /\ pc[r] \in {"login.verify", "reauth.verify"} /\ pw[r] # seen[r]
    /\ End(r)
    /\ UNCHANGED <<auth, vault, throttle, now, crashes, history>>

\* The password was right: a session, then the vault if there is one.
LoginVerified(r, s) ==
    /\ pc[r] = "login.verify" /\ pw[r] = seen[r]
    /\ RecordSuccess
    /\ Begin(s)
    /\ IF header = None THEN End(r) ELSE Derive(r, "unlock", header)
    /\ UNCHANGED <<credential, vault, tok, tokSess, tokFor, now, crashes, proofs, acts>>

\* The same for a re-authentication: a token for this session and purpose, then the vault
\* if it is locked.
ReauthVerified(r, t) ==
    /\ pc[r] = "reauth.verify" /\ pw[r] = seen[r]
    /\ RecordSuccess
    /\ tok[t] = "none"
    /\ tok' = [tok EXCEPT ![t] = "fresh"]
    /\ tokSess' = [tokSess EXCEPT ![t] = rider[r]]
    /\ tokFor' = [tokFor EXCEPT ![t] = want[r]]
    /\ proofs' = [proofs EXCEPT ![rider[r]][want[r]] = @ + 1]
    /\ IF header = None \/ dek THEN End(r) ELSE Derive(r, "unlock", header)
    /\ UNCHANGED <<credential, vault, sess, now, crashes, acts>>

\* unlock: the tag fails under another password.
Unlock(r) ==
    /\ pc[r] = "unlock"
    /\ IF pw[r] = seen[r] THEN TakeDek ELSE UNCHANGED <<dek, timer>>
    /\ End(r)
    /\ UNCHANGED <<auth, header, throttle, now, crashes, history>>

Logout(s) ==
    /\ sess[s] = "live"
    /\ sess' = [sess EXCEPT ![s] = "dead"]
    /\ Lock
    /\ UNCHANGED <<credential, tok, tokSess, tokFor, header, throttle, reqs, now, crashes, history>>

-----------------------------------------------------------------------------
(***************************************************************************)
(* POST /auth/password                                                     *)
(***************************************************************************)

\* The token is spent, then the vault is rewrapped if there is one.
ChangePassword(r, s, t, cur, next) ==
    /\ pc[r] = "idle" /\ sess[s] = "live"
    /\ MayConsume(t, "auth.password", s)
    /\ tok' = [tok EXCEPT ![t] = "used"]
    /\ acts' = [acts EXCEPT ![s]["auth.password"] = @ + 1]
    /\ pw' = [pw EXCEPT ![r] = cur] /\ new' = [new EXCEPT ![r] = next]
    /\ IF header = None
          THEN /\ pc' = [pc EXCEPT ![r] = "change.verify"]
               /\ seen' = [seen EXCEPT ![r] = credential]
          ELSE /\ pc' = [pc EXCEPT ![r] = "change.open"]
               /\ seen' = [seen EXCEPT ![r] = header]
    /\ UNCHANGED <<credential, sess, tokSess, tokFor, vault, throttle, rider, want, now, crashes,
                   tries, proofs>>

\* Vault.changePassword, the old key derived: it opens the wrapping or the request ends.
ChangeOpen(r) ==
    /\ pc[r] = "change.open"
    /\ IF pw[r] = seen[r] THEN Derive(r, "change.wrap", None) ELSE End(r)
    /\ UNCHANGED <<auth, vault, throttle, now, crashes, history>>

\* ... and the new one: the header is written, whatever it holds by now, and the vault is
\* left open.
ChangeWrap(r) ==
    /\ pc[r] = "change.wrap"
    /\ header' = new[r] /\ TakeDek
    /\ Derive(r, "change.verify", credential)
    /\ UNCHANGED <<auth, throttle, now, crashes, history>>

\* AuthService.changePassword: the current password once more, then the new hash.
ChangeVerify(r) ==
    /\ pc[r] = "change.verify"
    /\ IF pw[r] = seen[r] THEN Derive(r, "change.hash", None) ELSE End(r)
    /\ UNCHANGED <<auth, vault, throttle, now, crashes, history>>

\* revokeAllSessions comes with the hash.
ChangeHash(r) ==
    /\ pc[r] = "change.hash"
    /\ credential' = new[r]
    /\ sess' = [s \in Sessions |-> IF sess[s] = "live" THEN "dead" ELSE sess[s]]
    /\ End(r)
    /\ UNCHANGED <<tok, tokSess, tokFor, vault, throttle, now, crashes, history>>

-----------------------------------------------------------------------------
(***************************************************************************)
(* What a re-authentication is for, and time.                              *)
(***************************************************************************)

\* POST /wallet/withdraw and /wallet/export: the token is spent, then the vault must be
\* open.
Act(s, t, p) ==
    /\ sess[s] = "live" /\ MayConsume(t, p, s)
    /\ tok' = [tok EXCEPT ![t] = "used"]
    /\ acts' = IF dek THEN [acts EXCEPT ![s][p] = @ + 1] ELSE acts
    /\ UNCHANGED <<credential, sess, tokSess, tokFor, vault, throttle, reqs, now, crashes, tries, proofs>>

\* #enforceAutolock, from the timer
Autolock ==
    /\ dek /\ timer = "armed"
    /\ Lock
    /\ UNCHANGED <<auth, header, throttle, reqs, now, crashes, history>>

\* SESSION_TTL_MS, REAUTH_TTL_MS
SessionExpires(s) ==
    /\ sess[s] = "live" /\ sess' = [sess EXCEPT ![s] = "dead"]
    /\ UNCHANGED <<credential, tok, tokSess, tokFor, vault, throttle, reqs, now, crashes, history>>
TokenExpires(t) ==
    /\ tok[t] = "fresh" /\ tok' = [tok EXCEPT ![t] = "used"]
    /\ UNCHANGED <<credential, sess, tokSess, tokFor, vault, throttle, reqs, now, crashes, history>>

\* Attempts older than a lockout no longer count for the property.
Tick ==
    /\ now < MaxTime /\ now' = now + 1
    /\ tries' = Kept(tries, now + 1, Lockout)
    /\ UNCHANGED <<auth, vault, throttle, reqs, crashes, proofs, acts>>

\* The process dies: requests and key are gone, the throttle is not.
Crash ==
    /\ crashes < MaxCrashes /\ crashes' = crashes + 1
    /\ dek' = FALSE /\ timer' = "none"
    /\ pc' = [r \in Requests |-> "idle"]
    /\ pw' = [r \in Requests |-> None] /\ new' = [r \in Requests |-> None]
    /\ rider' = [r \in Requests |-> None] /\ want' = [r \in Requests |-> None]
    /\ seen' = [r \in Requests |-> None]
    /\ UNCHANGED <<auth, header, throttle, now, history>>

Next ==
    \/ \E r \in Requests, p \in Passwords : Setup(r, p) \/ Login(r, p)
    \/ \E r \in Requests, s \in Sessions : Initialize(r, s) \/ LoginVerified(r, s)
    \/ \E r \in Requests, s \in Sessions, p \in Passwords, a \in AllPurposes : Reauth(r, s, p, a)
    \/ \E r \in Requests, t \in Tokens : ReauthVerified(r, t)
    \/ \E r \in Requests, s \in Sessions, t \in Tokens, cur \in Passwords, next \in Passwords :
          ChangePassword(r, s, t, cur, next)
    \/ \E r \in Requests :
          \/ SetPassword(r) \/ VerifyFails(r) \/ Unlock(r)
          \/ ChangeOpen(r) \/ ChangeWrap(r) \/ ChangeVerify(r) \/ ChangeHash(r)
    \/ \E s \in Sessions, t \in Tokens, p \in Purposes : Act(s, t, p)
    \/ \E s \in Sessions : Logout(s) \/ SessionExpires(s)
    \/ \E t \in Tokens : TokenExpires(t)
    \/ Autolock \/ Tick \/ Crash

Spec == Init /\ [][Next]_vars

-----------------------------------------------------------------------------
(***************************************************************************)
(* Properties                                                              *)
(***************************************************************************)

\* Every row, every local and the vault's memory hold values of their types.
CoreTypeOK ==
    /\ credential \in Passwords \cup {None} /\ header \in Passwords \cup {None}
    /\ dek \in BOOLEAN /\ timer \in {"none", "armed"}
    /\ sess \in [Sessions -> {"none", "live", "dead"}]
    /\ tok \in [Tokens -> {"none", "fresh", "used"}]
    /\ tokSess \in [Tokens -> Sessions \cup {None}]
    /\ tokFor \in [Tokens -> AllPurposes \cup {None}]
    /\ pc \in [Requests -> {"idle", "setup.hash", "setup.wrap", "login.verify", "reauth.verify",
                            "unlock", "change.open", "change.wrap", "change.verify", "change.hash"}]
    /\ pw \in [Requests -> Passwords \cup {None}] /\ new \in [Requests -> Passwords \cup {None}]
    /\ rider \in [Requests -> Sessions \cup {None}]
    /\ want \in [Requests -> AllPurposes \cup {None}]
    /\ seen \in [Requests -> Passwords \cup {None}]
    /\ proofs \in [Sessions -> [AllPurposes -> Nat]]
    /\ acts \in [Sessions -> [AllPurposes -> Nat]]

TypeOK ==
    /\ CoreTypeOK
    /\ failures \in [Times -> Nat] /\ lockedUntil \in Nat /\ tries \in [Times -> Nat]
    /\ now \in Times /\ crashes \in Nat

\* Without a right password in between, no more than Limit attempts are let through in any
\* lockout period, however many arrive at once and across restarts (auth.ts
\* #beginAttempt).
GuessesAreBounded == HowMany(Kept(tries, now, Lockout)) <= Limit

\* A session acts for a purpose no more often than the password was proven in it for that
\* purpose, whatever was asked for twice, for another purpose or from another session
\* (auth.ts consumeReauthToken).
ActsWereProven ==
    \A s \in Sessions, p \in AllPurposes : acts[s][p] <= proofs[s][p]

\* A key in memory has a timer that will wipe it, through every overlap of unlocking,
\* locking and rewrapping (vault.ts #armAutolock, lock).
KeyIsTimed == dek => timer = "armed" /\ header # None

\* What makes the two inductive: a request holds what its place in the handler needs, and
\* a session's acts and unspent tokens are within its proofs.
Held ==
    \A r \in Requests :
       /\ pc[r] = "setup.wrap" => pw[r] # None
       /\ pc[r] = "setup.hash" => pw[r] # None
       /\ pc[r] = "reauth.verify" => rider[r] # None /\ want[r] # None
       /\ pc[r] \in {"unlock", "change.open", "change.wrap"} => header # None
       /\ pc[r] \in {"change.open", "change.wrap"} => new[r] # None

Unspent(s, p) == {t \in Tokens : MayConsume(t, p, s)}

Balance ==
    \A s \in Sessions, p \in AllPurposes : acts[s][p] + Cardinality(Unspent(s, p)) <= proofs[s][p]

\* "there is one password, which both opens the dashboard and unlocks the wallet vault"
\* (auth.ts) and "the change is atomic" (docs/wallet-recovery.md): once there is a vault and
\* no request is under way, the password that signs in opens it.
OnePassword ==
    header # None /\ (\A r \in Requests : pc[r] = "idle") => credential = header
=============================================================================
