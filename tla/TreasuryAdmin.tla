---------------------------- MODULE TreasuryAdmin ----------------------------
(***************************************************************************)
(* The gate of the treasury: a secret that is not the operator's password, *)
(* set once, and the short-lived tokens it is exchanged for               *)
(* (treasury/admin.ts, its rows in treasury/store.ts, the /admin routes).  *)
(*                                                                         *)
(* Hashing a secret is a wait, so a setup and a sign-in are two actions    *)
(* each: what was read is held in the job.  Unlike the operator's sign-in, *)
(* a wrong secret is charged when its wait is over.  The throttles are in  *)
(* memory and a restart forgets them.  Callers have a dashboard session;   *)
(* one that ends can send nothing more.                                    *)
(***************************************************************************)
EXTENDS Naturals, FiniteSets, Stamps

CONSTANTS
    Secrets, NoSecret,
    AdminSessions,
    AdminJobs,          \* bound on setups and sign-ins at once
    AdminTokens, NoToken,   \* bound on tokens on file
    AdminLimit, AdminWindow, AdminLockout,  \* TREASURY_ADMIN_FAILURE_LIMIT, ...
    TokenTtl,           \* TREASURY_ADMIN_TOKEN_TTL_MS
    GateLimit, GateWindow,  \* TREASURY_GATE_FAILURE_LIMIT, ...
    AdminTime,          \* bound on the clock
    AdminDeaths         \* bound on restarts

ASSUME AdminConstants ==
    /\ AdminLimit \in Nat \ {0} /\ AdminWindow \in Nat
    /\ AdminLockout \in Nat \ {0} /\ AdminLockout <= AdminWindow
    /\ IsFiniteSet(AdminJobs)
    /\ TokenTtl \in Nat /\ GateLimit \in Nat /\ GateWindow \in Nat
    /\ AdminTime \in Nat /\ AdminDeaths \in Nat
    /\ NoToken \notin Nat
    /\ NoToken \notin [session : AdminSessions, revoked : BOOLEAN, expires : Nat]

AdminTimes == 0 .. AdminTime

VARIABLES
    (* treasury_config.admin_hash, treasury_admin_tokens *)
    adminSecret, adminRow,
    (* TreasuryAdminAuth *)
    adminFailures, adminLocked, gateFailures,
    (* the waiting handlers *)
    job,
    adminClock, adminDeaths,
    (* history *)
    proven,     \* when a session last gave the right secret and has not signed out since
    wrong       \* when wrong secrets were answered, since the last right one

adminRows == <<adminSecret, adminRow>>
adminMemory == <<adminFailures, adminLocked, gateFailures>>
adminHistory == <<proven, wrong>>
adminVars == <<adminRows, adminMemory, job, adminClock, adminDeaths, adminHistory>>

NoJob == [at |-> "idle"]

AdminInit ==
    /\ adminSecret = NoSecret
    /\ adminRow = [t \in AdminTokens |-> NoToken]
    /\ adminFailures = NoStamps(AdminTimes) /\ adminLocked = 0
    /\ gateFailures = [s \in AdminSessions |-> NoStamps(AdminTimes)]
    /\ job = [j \in AdminJobs |-> NoJob]
    /\ adminClock = 0 /\ adminDeaths = 0
    /\ proven = [s \in AdminSessions |-> NoToken]
    /\ wrong = NoStamps(AdminTimes)

-----------------------------------------------------------------------------
(* POST /admin/setup: refused when there is a secret, before the wait ... *)
SetSecret(j, x) ==
    /\ job[j] = NoJob /\ adminSecret = NoSecret
    /\ job' = [job EXCEPT ![j] = [at |-> "set", secret |-> x]]
    /\ UNCHANGED <<adminRows, adminMemory, adminClock, adminDeaths, adminHistory>>

(* Mutant: the update does not say WHERE admin_hash IS NULL. *)
StoreSecretAnyway(j) ==
    /\ job[j].at = "set"
    /\ adminSecret' = job[j].secret
    /\ job' = [job EXCEPT ![j] = NoJob]
    /\ UNCHANGED <<adminRow, adminMemory, adminClock, adminDeaths, adminHistory>>

(* ... and by the conditional update after it. *)
StoreSecret(j) ==
    /\ job[j].at = "set"
    /\ adminSecret' = IF adminSecret = NoSecret THEN job[j].secret ELSE adminSecret
    /\ job' = [job EXCEPT ![j] = NoJob]
    /\ UNCHANGED <<adminRow, adminMemory, adminClock, adminDeaths, adminHistory>>

(* POST /admin/login: a secret is set and the check is not locked. *)
AdminLogin(j, s, x) ==
    /\ job[j] = NoJob
    /\ adminSecret # NoSecret
    /\ adminClock >= adminLocked
    /\ job' = [job EXCEPT ![j] = [at |-> "verify", session |-> s, secret |-> x,
                                  seen |-> adminSecret]]
    /\ UNCHANGED <<adminRows, adminMemory, adminClock, adminDeaths, adminHistory>>

Within(window, stamps) == Kept(stamps, adminClock, window)

(* #recordFailure *)
RecordFailure ==
    LET charged == Stamped(Within(AdminWindow, adminFailures), adminClock)
    IN  IF HowMany(charged) >= AdminLimit
           THEN adminFailures' = NoStamps(AdminTimes) /\ adminLocked' = adminClock + AdminLockout
           ELSE adminFailures' = charged /\ UNCHANGED adminLocked

WrongSecret(j) ==
    /\ job[j].at = "verify" /\ job[j].secret # job[j].seen
    /\ RecordFailure
    /\ job' = [job EXCEPT ![j] = NoJob]
    /\ wrong' = Stamped(Within(AdminLockout, wrong), adminClock)
    /\ UNCHANGED <<adminRows, gateFailures, adminClock, adminDeaths, proven>>

(* pruneAdminTokens *)
Pruned == [t \in AdminTokens |->
              IF adminRow[t] # NoToken /\ adminRow[t].expires <= adminClock
                 THEN NoToken ELSE adminRow[t]]

(* The failures are forgotten, a lock in force is not; old tokens are deleted and a   *)
(* new one is bound to the session that asked. A sign-out while the secret was being  *)
(* checked does not reach it.                                                         *)
RightSecret(j, t) ==
    /\ job[j].at = "verify" /\ job[j].secret = job[j].seen
    /\ adminFailures' = NoStamps(AdminTimes)
    /\ Pruned[t] = NoToken
    /\ adminRow' = [Pruned EXCEPT ![t] = [session |-> job[j].session, revoked |-> FALSE,
                                          expires |-> adminClock + TokenTtl]]
    /\ job' = [job EXCEPT ![j] = NoJob]
    /\ proven' = IF job[j].secret = adminSecret
                    THEN [proven EXCEPT ![job[j].session] = adminClock] ELSE proven
    /\ wrong' = NoStamps(AdminTimes)
    /\ UNCHANGED <<adminSecret, adminLocked, gateFailures, adminClock, adminDeaths>>

(* POST /admin/logout: revokeAdminTokens *)
AdminLogout(s) ==
    /\ adminRow' = [t \in AdminTokens |->
                       IF adminRow[t] # NoToken /\ adminRow[t].session = s
                          THEN [adminRow[t] EXCEPT !.revoked = TRUE] ELSE adminRow[t]]
    /\ proven' = [proven EXCEPT ![s] = NoToken]
    /\ UNCHANGED <<adminSecret, adminMemory, job, adminClock, adminDeaths, wrong>>

(* The test of resolve and of hasValidToken. *)
TokenValid(t, s) ==
    /\ adminRow[t] # NoToken
    /\ ~adminRow[t].revoked
    /\ adminRow[t].session = s
    /\ adminRow[t].expires > adminClock

(* resolve, in front of every other treasury route: the session's recent failures are *)
(* looked at first, so a throttled session learns nothing of its token. A request     *)
(* without a token (t = NoToken) is refused and not charged. A pass changes nothing    *)
(* here: what follows is the treasury's.                                              *)
Gate(s, t) ==
    LET recent == Within(GateWindow, gateFailures[s])
        open == HowMany(recent) < GateLimit
        valid == t # NoToken /\ TokenValid(t, s)
    IN  /\ gateFailures' =
              [gateFailures EXCEPT ![s] = IF open /\ t # NoToken /\ ~valid
                                             THEN Stamped(recent, adminClock) ELSE recent]
        /\ UNCHANGED <<adminRows, adminFailures, adminLocked, job, adminClock, adminDeaths,
                       adminHistory>>

AdminTick ==
    /\ adminClock < AdminTime /\ adminClock' = adminClock + 1
    /\ UNCHANGED <<adminRows, adminMemory, job, adminDeaths, proven, wrong>>

(* The process dies: the waiting handlers and both throttles are gone. *)
AdminRestart ==
    /\ adminDeaths < AdminDeaths /\ adminDeaths' = adminDeaths + 1
    /\ adminFailures' = NoStamps(AdminTimes) /\ adminLocked' = 0
    /\ gateFailures' = [s \in AdminSessions |-> NoStamps(AdminTimes)]
    /\ job' = [j \in AdminJobs |-> NoJob]
    /\ wrong' = NoStamps(AdminTimes)
    /\ UNCHANGED <<adminRows, adminClock, proven>>

AdminNext ==
    \/ \E j \in AdminJobs :
          \/ \E x \in Secrets : SetSecret(j, x)
          \/ \E x \in Secrets, s \in AdminSessions : AdminLogin(j, s, x)
          \/ StoreSecret(j) \/ WrongSecret(j)
          \/ \E t \in AdminTokens : RightSecret(j, t)
    \/ \E s \in AdminSessions :
          \/ AdminLogout(s)
          \/ \E t \in AdminTokens \cup {NoToken} : Gate(s, t)
    \/ AdminTick \/ AdminRestart

AdminSpec == AdminInit /\ [][AdminNext]_adminVars

-----------------------------------------------------------------------------
(* A token opens the gate only to a session that gave the secret that is on file, not *)
(* longer than a token's life ago and with no sign-out since.                         *)
(* (admin.ts setSecret, login, resolve, revokeSession.)                               *)
TokensAreEarned ==
    \A s \in AdminSessions, t \in AdminTokens :
        TokenValid(t, s) => proven[s] # NoToken /\ adminClock < proven[s] + TokenTtl

(* TokensAreEarned, and between restarts a lockout period answers no more wrong secrets *)
(* than the limit and those already waiting when the lock fell (admin.ts                *)
(* #recordFailure).                                                                     *)
GateIsHeld ==
    /\ TokensAreEarned
    /\ HowMany(Within(AdminLockout, wrong)) <= AdminLimit + Cardinality(AdminJobs) - 1
=============================================================================
