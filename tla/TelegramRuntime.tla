---------------------------- MODULE TelegramRuntime ----------------------------
(* What the runtime itself keeps of Telegram, whichever transport carries the     *)
(* messages: the link row and the pairing code (telegram/pairing.ts), and the     *)
(* command router (telegram/commands.ts) with its replay cursor, its two-step      *)
(* emergency and the switches it may touch. The transports are TelegramLink and    *)
(* TelegramDirect.                                                                 *)
(*                                                                                 *)
(* A private chat has the id of its user, so a user stands for both. An update is  *)
(* its position in the bot's stream, which is what update_id is. The age of a      *)
(* message, the rate limits and the text are choices; words that only read are    *)
(* left out, and so is /alerts, which sets a switch TelegramNotifier leaves open.  *)
EXTENDS Naturals, Sequences, FiniteSets

CONSTANTS Users,        \* Telegram accounts
          NoUser,       \* stands for no account
          MaxCodes,     \* bound: pairing codes issued
          MaxUpdates    \* bound: messages sent to the bot

ASSUME TelegramConstants ==
    /\ NoUser \notin Users
    /\ MaxCodes \in Nat \ {0}
    /\ MaxUpdates \in Nat \ {0}

VARIABLES updates,      \* the bot's stream: who wrote which word
          link,         \* telegram_link: the account that may command, or NoUser
          pending,      \* the unused, unretired row of telegram_pair_codes, or 0
          issued,       \* how many codes were issued
          expired,      \* codes whose five minutes are over
          cursor,       \* telegram_chat_cursor, per chat
          challenge,    \* in memory: who was asked to confirm the stop
          stop, paused, \* the switches of the control plane
          effects,      \* history: how often an update was carried out
          engaged       \* history: the updates that engaged the stop

runtimeVars == <<updates, link, pending, issued, expired, cursor, challenge,
                 stop, paused, effects, engaged>>

Codes == 1..MaxCodes
Words == {"pause", "resume", "emergency", "confirm"}
Messages == [user: Users, word: Words, code: {0}]
            \cup [user: Users, word: {"pair"}, code: Codes]

RuntimeTypes ==
    /\ updates \in Seq(Messages)
    /\ link \in Users \cup {NoUser}
    /\ pending \in 0..MaxCodes
    /\ issued \in 0..MaxCodes
    /\ expired \subseteq Codes
    /\ cursor \in [Users -> 0..MaxUpdates]
    /\ challenge \in Users \cup {NoUser}
    /\ stop \in BOOLEAN /\ paused \in BOOLEAN
    /\ effects \in [1..MaxUpdates -> Nat]
    /\ engaged \subseteq 1..MaxUpdates

RuntimeInit ==
    /\ updates = <<>>
    /\ link = NoUser /\ pending = 0 /\ issued = 0 /\ expired = {}
    /\ cursor = [u \in Users |-> 0]
    /\ challenge = NoUser
    /\ stop = FALSE /\ paused = FALSE
    /\ effects = [i \in 1..MaxUpdates |-> 0]
    /\ engaged = {}

\* Someone writes to the bot.
UserSends ==
    /\ Len(updates) < MaxUpdates
    /\ \E m \in Messages :
          /\ m.word = "pair" => m.code <= issued
          /\ updates' = Append(updates, m)
    /\ UNCHANGED <<link, pending, issued, expired, cursor, challenge, stop, paused,
                   effects, engaged>>

\* The five minutes of a code pass.
CodeExpires ==
    /\ \E c \in (1..issued) \ expired : expired' = expired \cup {c}
    /\ UNCHANGED <<updates, link, pending, issued, cursor, challenge, stop, paused,
                   effects, engaged>>

-----------------------------------------------------------------------------
(* The pairing rows. Each operator says what becomes of link and pending.       *)

\* The offer a reconnecting transport repeats.
Pending == IF pending \in expired THEN 0 ELSE pending

\* A code is issued only without a link; it retires the older one.
Issue ==
    /\ link = NoUser /\ issued < MaxCodes
    /\ issued' = issued + 1
    /\ pending' = issued + 1
    /\ UNCHANGED link

Unpair == link' = NoUser /\ pending' = 0

\* The row may only move from nobody to someone, or stay with the same account.
WriteLink(u) ==
    \/ link \in {NoUser, u} /\ link' = u /\ pending' = 0
    \/ link \notin {NoUser, u} /\ UNCHANGED <<link, pending>>

\* The gateway says who redeemed a code. Whether one is pending is not asked.
ConfirmFromGateway(u) == WriteLink(u)

\* The runtime checks the code itself.
Verify(u, c) ==
    IF c = Pending THEN WriteLink(u) ELSE UNCHANGED <<link, pending>>

-----------------------------------------------------------------------------
(* The router. A transport hands it update i and does what it does besides.      *)

\* Mutant: the last one may come again.
FreshAgain(i) == i >= cursor[updates[i].user]

Fresh(i) == i > cursor[updates[i].user]

Carry(i) == effects' = [effects EXCEPT ![i] = @ + 1]

NoEffect == UNCHANGED <<challenge, stop, paused, effects, engaged>>

\* The cursor moved and nothing else: too old, unauthorized, rate limited, not
\* applicable, or the process died before the row it was about to write.
Refuse == NoEffect /\ UNCHANGED <<link, pending>>

SetPause(i) ==
    /\ updates[i].word \in {"pause", "resume"}
    /\ updates[i].word = "resume" => ~stop
    /\ paused # (updates[i].word = "pause")
    /\ paused' = ~paused
    /\ Carry(i)
    /\ UNCHANGED <<challenge, stop, engaged>>

\* Mutant: a challenge answers every CONFIRM.
EmergencyKeepsChallenge(i) ==
    /\ ~stop
    /\ \/ /\ updates[i].word = "emergency"
          /\ challenge' = updates[i].user
          /\ UNCHANGED <<stop, engaged>>
       \/ /\ updates[i].word = "confirm"
          /\ challenge = updates[i].user
          /\ UNCHANGED challenge
          /\ stop' = TRUE
          /\ engaged' = engaged \cup {i}
    /\ Carry(i)
    /\ UNCHANGED paused

Emergency(i) ==
    /\ ~stop
    /\ \/ /\ updates[i].word = "emergency"
          /\ challenge' = updates[i].user
          /\ UNCHANGED <<stop, engaged>>
       \/ /\ updates[i].word = "confirm"
          /\ challenge = updates[i].user
          /\ challenge' = NoUser
          /\ stop' = TRUE
          /\ engaged' = engaged \cup {i}
       \/ /\ updates[i].word = "confirm"
          /\ challenge # updates[i].user
          /\ challenge' = NoUser
          /\ UNCHANGED <<stop, engaged>>
    /\ Carry(i)
    /\ UNCHANGED paused

Dispatch(i) ==
    /\ link = updates[i].user
    /\ SetPause(i) \/ Emergency(i)
    /\ UNCHANGED <<link, pending>>

\* /pair, which a stranger may send; the gateway answers it and forwards none.
PairCommand(i, direct) ==
    /\ updates[i].word = "pair" /\ direct
    /\ Verify(updates[i].user, updates[i].code)
    /\ NoEffect

\* One message, from the replay check to the reply.
Handle(i, direct) ==
    /\ UNCHANGED <<updates, issued, expired>>
    /\ \/ ~Fresh(i) /\ UNCHANGED cursor /\ Refuse
       \/ /\ Fresh(i)
          /\ cursor' = [cursor EXCEPT ![updates[i].user] = i]
          /\ Refuse \/ PairCommand(i, direct) \/ Dispatch(i)

\* The stop is cleared from the dashboard.
ClearStop ==
    /\ stop /\ stop' = FALSE
    /\ UNCHANGED <<updates, link, pending, issued, expired, cursor, challenge,
                   paused, effects, engaged>>

\* The sixty seconds of a challenge pass, or the process that held it dies.
ForgetChallenge ==
    /\ challenge # NoUser /\ challenge' = NoUser
    /\ UNCHANGED <<updates, link, pending, issued, expired, cursor, stop, paused,
                   effects, engaged>>

-----------------------------------------------------------------------------
(* An update takes effect at most once and never after a later one of its chat,     *)
(* whatever is delivered twice, late or again after a restart: the cursor of        *)
(* commands.ts is written before the effect.                                        *)
EffectsAdvance ==
    [][\A i \in 1..MaxUpdates :
          effects'[i] # effects[i] =>
             /\ effects[i] = 0
             /\ \A j \in i..Len(updates) :
                   updates[j].user = updates[i].user => effects[j] = 0]_effects

(* The stop takes two messages: each CONFIRM that engaged it answers an /emergency    *)
(* of the same account, one that no earlier CONFIRM of the account answered           *)
(* (commands.ts #emergency).                                                           *)
StopTakesTwo ==
    \A j \in engaged : \E i \in 1..(j - 1) :
       /\ updates[i] = [user |-> updates[j].user, word |-> "emergency", code |-> 0]
       /\ effects[i] = 1
       /\ \A k \in engaged : updates[k].user = updates[j].user /\ k < j => k < i
=============================================================================
