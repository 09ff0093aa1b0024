---------------------------- MODULE RemoteProofs ----------------------------
(* Proofs about what reaches the runtime from outside: the command router under    *)
(* both transports, the pairing of the two sides over the gateway, and the         *)
(* gateway's own requests, and what goes out, the notifier. For every number of    *)
(* accounts, codes, messages, sockets, faults, deaths, requests, tokens, days and  *)
(* events.                                                                          *)
(*                                                                                 *)
(* The router: an update is carried out only past its chat's cursor, and the       *)
(* cursor is at or past all that was carried out (CursorLeads); a challenge stands *)
(* for an /emergency that was carried out and not answered yet (Unanswered).       *)
(* The link: every frame, task and handler that speaks of the row says what the     *)
(* row said at its version (RowInv), a welcomed socket has said hello (HelloInv),   *)
(* and a side that heard of the row as it is agrees, or has asked for the row to    *)
(* go (Agreement).                                                                  *)
(* The gateway: for a day whose counters are still kept, no fewer requests were     *)
(* counted than admitted (UsageCounts), which needs to know how far midnight can be  *)
(* ahead of a request under way (RequestPlaces); what is kept under a key may be     *)
(* served under it (FineEntry).                                                      *)
(* The notifier: for any part of the last hour the slots taken cover what went out    *)
(* in it (SlotsCover); a key remembers for an hour what went out under it, and what   *)
(* is under way came later (FlightsAreFresh, KeysRemember); a failed rejection gives  *)
(* back the cooldown that stood for those before it (CooldownStands).                 *)
EXTENDS TelegramLink, TelegramDirect, TelegramNotifier, Gateway, Sums

-----------------------------------------------------------------------------
(* The router.                                                             *)

\* An /emergency of u that was carried out and that no CONFIRM of u answered.
Unanswered(u, i) ==
    /\ updates[i] = [user |-> u, word |-> "emergency", code |-> 0]
    /\ effects[i] = 1
    /\ \A k \in engaged : updates[k].user = u => k < i

RouterTypes ==
    /\ updates \in Seq(Messages) /\ Len(updates) <= MaxUpdates
    /\ cursor \in [Users -> Nat]
    /\ effects \in [1..MaxUpdates -> {0, 1}]
    /\ challenge \in Users \cup {NoUser}
    /\ engaged \subseteq 1..Len(updates)

\* The cursor is at or past every update that was carried out.
CursorLeads ==
    \A i \in 1..MaxUpdates :
        effects[i] = 1 => i <= Len(updates) /\ i <= cursor[updates[i].user]

RouterInv ==
    /\ RouterTypes /\ CursorLeads
    /\ \A j \in engaged : effects[j] = 1
    /\ challenge # NoUser => \E i \in 1..Len(updates) : Unanswered(challenge, i)
    /\ StopTakesTwo


\* The step in which an update takes effect.
EffectStep ==
    \A i \in 1..MaxUpdates :
        effects'[i] # effects[i] =>
           /\ effects[i] = 0
           /\ \A j \in i..Len(updates) :
                 updates[j].user = updates[i].user => effects[j] = 0

\* At the start nothing was sent.
LEMMA InitRouter == RuntimeInit => RouterInv
<1> SUFFICES ASSUME RuntimeInit PROVE RouterInv
  OBVIOUS
<1>1. Len(updates) = 0 /\ updates \in Seq(Messages) /\ 1..Len(updates) = {}
  BY DEF RuntimeInit
<1>2. RouterTypes
  BY <1>1, TelegramConstants DEF RuntimeInit, RouterTypes
<1> QED
  BY <1>2, TelegramConstants DEF RuntimeInit, RouterInv, CursorLeads, StopTakesTwo

\* Nothing of the router changes but a challenge that is forgotten.
LEMMA RouterRests ==
    ASSUME RouterInv, UNCHANGED <<updates, effects, engaged, cursor>>,
           challenge' \in {challenge, NoUser}
    PROVE  RouterInv' /\ EffectStep
<1>1. RouterTypes' /\ CursorLeads' /\ StopTakesTwo'
  BY DEF RouterInv, RouterTypes, CursorLeads, StopTakesTwo
<1>2. challenge' # NoUser => \E i \in 1..Len(updates') : Unanswered(challenge, i)'
  BY DEF RouterInv, Unanswered
<1>3. \A j \in engaged' : effects'[j] = 1
  BY DEF RouterInv
<1> QED
  BY <1>1, <1>2, <1>3 DEF RouterInv, EffectStep

\* Every message has an account.
LEMMA MessageUsers == \A m \in Messages : m.user \in Users
  BY DEF Messages

\* A message more: those that were there stay where they are.
LEMMA RouterSends ==
    ASSUME RouterInv, UserSends
    PROVE  RouterInv' /\ EffectStep
<1>1. PICK m \in Messages : updates' = Append(updates, m)
  BY DEF UserSends
<1>2. /\ updates \in Seq(Messages) /\ Len(updates) \in Nat /\ Len(updates) < MaxUpdates
      /\ UNCHANGED <<effects, engaged, cursor, challenge>>
  BY DEF RouterInv, RouterTypes, UserSends
<1>3. /\ updates' \in Seq(Messages) /\ Len(updates') = Len(updates) + 1
      /\ \A i \in 1..Len(updates) : updates'[i] = updates[i]
  BY <1>1, <1>2
<1>4. RouterTypes'
  BY <1>2, <1>3, TelegramConstants DEF RouterInv, RouterTypes
<1>5. CursorLeads'
  BY <1>2, <1>3 DEF RouterInv, CursorLeads
<1>6. \A i \in 1..Len(updates) : i \in 1..Len(updates')
  BY <1>2, <1>3
<1>7. \A k \in engaged : k \in 1..Len(updates) /\ updates'[k] = updates[k]
  BY <1>3 DEF RouterInv, RouterTypes
<1>8. ASSUME challenge' # NoUser
      PROVE  \E i \in 1..Len(updates') : Unanswered(challenge, i)'
  <2>1. PICK i \in 1..Len(updates) : Unanswered(challenge, i)
    BY <1>2, <1>8 DEF RouterInv
  <2>2. Unanswered(challenge, i)'
    BY <1>2, <1>3, <1>7, <2>1 DEF Unanswered
  <2> QED
    BY <1>6, <2>2
<1>9. StopTakesTwo'
  <2> SUFFICES ASSUME NEW j \in engaged
               PROVE  \E i \in 1..(j - 1) :
                         /\ updates'[i] = [user |-> updates'[j].user, word |-> "emergency",
                                           code |-> 0]
                         /\ effects[i] = 1
                         /\ \A k \in engaged :
                               updates'[k].user = updates'[j].user /\ k < j => k < i
    BY <1>2 DEF StopTakesTwo
  <2>1. PICK i \in 1..(j - 1) :
           /\ updates[i] = [user |-> updates[j].user, word |-> "emergency", code |-> 0]
           /\ effects[i] = 1
           /\ \A k \in engaged : updates[k].user = updates[j].user /\ k < j => k < i
    BY DEF RouterInv, StopTakesTwo
  <2>2. i \in 1..Len(updates)
    BY <1>2, <1>7
  <2> QED
    BY <1>3, <1>7, <2>1, <2>2
<1>10. \A j \in engaged' : effects'[j] = 1
  BY <1>2 DEF RouterInv
<1> QED
  BY <1>2, <1>4, <1>5, <1>8, <1>9, <1>10 DEF RouterInv, EffectStep

\* An update that is fresh and takes effect: the cursor moves to it first.
LEMMA FreshUpdates ==
    ASSUME RouterInv, NEW i \in 1..Len(updates), Fresh(i)
    PROVE  /\ i \in 1..MaxUpdates /\ updates[i].user \in Users /\ effects[i] = 0
           /\ \A j \in 1..Len(updates) :
                 updates[j].user = updates[i].user /\ effects[j] = 1 => j < i
<1>1. /\ updates \in Seq(Messages) /\ Len(updates) \in Nat /\ Len(updates) <= MaxUpdates
      /\ cursor \in [Users -> Nat] /\ effects \in [1..MaxUpdates -> {0, 1}]
      /\ MaxUpdates \in Nat
  BY TelegramConstants DEF RouterInv, RouterTypes
<1>2. i \in 1..MaxUpdates /\ updates[i].user \in Users
  BY <1>1, MessageUsers
<1>3. cursor[updates[i].user] \in Nat /\ i > cursor[updates[i].user]
  BY <1>1, <1>2 DEF Fresh
<1>4. \A j \in 1..Len(updates) :
         updates[j].user = updates[i].user /\ effects[j] = 1 => j < i
  BY <1>1, <1>3 DEF RouterInv, CursorLeads
<1> QED
  BY <1>1, <1>2, <1>4

\* What becomes of the router when fresh update i is carried out.
LEMMA RouterCarries ==
    ASSUME RouterInv, NEW i \in 1..Len(updates), Fresh(i), updates' = updates,
           cursor' = [cursor EXCEPT ![updates[i].user] = i], Carry(i),
           \/ challenge' \in {challenge, NoUser} /\ engaged' = engaged
           \/ /\ updates[i].word = "emergency" /\ challenge' = updates[i].user
              /\ engaged' = engaged
           \/ /\ challenge = updates[i].user /\ challenge' = NoUser
              /\ engaged' = engaged \cup {i}
    PROVE  RouterInv' /\ EffectStep
<1>1. /\ updates \in Seq(Messages) /\ Len(updates) \in Nat /\ Len(updates) <= MaxUpdates
      /\ cursor \in [Users -> Nat] /\ effects \in [1..MaxUpdates -> {0, 1}]
      /\ challenge \in Users \cup {NoUser} /\ engaged \subseteq 1..Len(updates)
      /\ MaxUpdates \in Nat /\ NoUser \notin Users
  BY TelegramConstants DEF RouterInv, RouterTypes
<1>2. /\ i \in 1..MaxUpdates /\ updates[i].user \in Users /\ effects[i] = 0
      /\ \A j \in 1..Len(updates) :
            updates[j].user = updates[i].user /\ effects[j] = 1 => j < i
  BY FreshUpdates
<1>3. /\ effects' \in [1..MaxUpdates -> {0, 1}]
      /\ \A j \in 1..MaxUpdates : effects'[j] = IF j = i THEN 1 ELSE effects[j]
  BY <1>1, <1>2 DEF Carry
<1>4. /\ cursor' \in [Users -> Nat]
      /\ \A u \in Users : cursor'[u] = IF u = updates[i].user THEN i ELSE cursor[u]
  BY <1>1, <1>2
<1>5. RouterTypes'
  BY <1>1, <1>2, <1>3, <1>4 DEF RouterTypes
<1>6. CursorLeads'
  <2> SUFFICES ASSUME NEW j \in 1..MaxUpdates, effects'[j] = 1
               PROVE  j <= Len(updates) /\ j <= cursor'[updates[j].user]
    BY DEF CursorLeads
  <2>1. CASE j = i
    BY <1>1, <1>2, <1>4, <2>1
  <2>2. CASE j # i
    <3>1. effects[j] = 1 /\ j <= Len(updates) /\ j <= cursor[updates[j].user]
      BY <1>3, <2>2 DEF RouterInv, CursorLeads
    <3>2. j \in 1..Len(updates) /\ updates[j].user \in Users
      BY <1>1, <3>1, MessageUsers
    <3> QED
      BY <1>1, <1>2, <1>4, <3>1, <3>2
  <2> QED
    BY <2>1, <2>2
<1>7. \A j \in engaged : effects[j] = 1 /\ j \in 1..Len(updates) /\ j \in 1..MaxUpdates
  BY <1>1 DEF RouterInv
<1>8. \A j \in engaged' : effects'[j] = 1
  BY <1>1, <1>2, <1>3, <1>7
<1>9. \A k \in engaged : updates[k].user = updates[i].user => k < i
  BY <1>2, <1>7
<1>10. ASSUME challenge' # NoUser
       PROVE  \E n \in 1..Len(updates') : Unanswered(challenge, n)'
  <2>1. CASE challenge' = challenge /\ engaged' = engaged
    <3>1. PICK n \in 1..Len(updates) : Unanswered(challenge, n)
      BY <1>10, <2>1 DEF RouterInv
    <3>2. n \in 1..MaxUpdates
      BY <1>1
    <3>3. Unanswered(challenge, n)'
      BY <1>3, <2>1, <3>1, <3>2 DEF Unanswered
    <3> QED
      BY <1>1, <3>3
  <2>2. CASE /\ updates[i].word = "emergency" /\ challenge' = updates[i].user
             /\ engaged' = engaged
    <3>1. updates[i] = [user |-> updates[i].user, word |-> "emergency", code |-> 0]
      BY <1>1, <2>2 DEF Messages
    <3>2. Unanswered(challenge, i)'
      BY <1>2, <1>3, <1>9, <2>2, <3>1 DEF Unanswered
    <3> QED
      BY <3>2
  <2> QED
    BY <1>10, <2>1, <2>2
<1>11. StopTakesTwo'
  <2> DEFINE Answers(j, n) ==
                /\ updates[n] = [user |-> updates[j].user, word |-> "emergency", code |-> 0]
                /\ effects'[n] = 1
                /\ \A k \in engaged' : updates[k].user = updates[j].user /\ k < j => k < n
  <2>1. ASSUME NEW j \in engaged', j \in engaged PROVE \E n \in 1..(j - 1) : Answers(j, n)
    <3>1. PICK n \in 1..(j - 1) :
             /\ updates[n] = [user |-> updates[j].user, word |-> "emergency", code |-> 0]
             /\ effects[n] = 1
             /\ \A k \in engaged : updates[k].user = updates[j].user /\ k < j => k < n
      BY <2>1 DEF RouterInv, StopTakesTwo
    <3>2. n \in 1..MaxUpdates
      BY <1>1, <1>7, <2>1
    <3>3. updates[i].user = updates[j].user => j < i
      BY <1>9, <2>1
    <3>4. i \in Nat /\ j \in Nat
      BY <1>7, <2>1
    <3>5. ASSUME NEW k \in engaged', updates[k].user = updates[j].user, k < j PROVE k < n
      <4>1. k # i
        BY <3>3, <3>4, <3>5
      <4> QED
        BY <3>1, <3>5, <4>1
    <3>6. effects'[n] = 1
      BY <1>3, <3>1, <3>2
    <3> QED
      BY <3>1, <3>5, <3>6
  <2>2. ASSUME NEW j \in engaged', j \notin engaged PROVE \E n \in 1..(j - 1) : Answers(j, n)
    <3>1. /\ j = i /\ engaged' = engaged \cup {i}
          /\ challenge = updates[i].user /\ challenge # NoUser
      BY <1>1, <1>2, <2>2
    <3>2. PICK n \in 1..Len(updates) : Unanswered(challenge, n)
      BY <3>1 DEF RouterInv
    <3>3. /\ updates[n] = [user |-> updates[i].user, word |-> "emergency", code |-> 0]
          /\ effects[n] = 1
          /\ \A k \in engaged : updates[k].user = updates[i].user => k < n
      BY <3>1, <3>2 DEF Unanswered
    <3>4. n < i
      BY <1>2, <3>2, <3>3
    <3>5. n \in 1..(i - 1) /\ n \in 1..MaxUpdates
      BY <1>1, <3>2, <3>4
    <3>6. effects'[n] = 1
      BY <1>3, <3>3, <3>5
    <3>7. ASSUME NEW k \in engaged', updates[k].user = updates[j].user, k < j PROVE k < n
      BY <3>1, <3>3, <3>7
    <3> QED
      BY <3>1, <3>3, <3>5, <3>6, <3>7
  <2>3. \A j \in engaged' : \E n \in 1..(j - 1) : Answers(j, n)
    BY <2>1, <2>2
  <2> QED
    BY <2>3 DEF StopTakesTwo
<1>12. EffectStep
  <2> SUFFICES ASSUME NEW n \in 1..MaxUpdates, effects'[n] # effects[n]
               PROVE  /\ effects[n] = 0
                      /\ \A j \in n..Len(updates) :
                            updates[j].user = updates[n].user => effects[j] = 0
    BY DEF EffectStep
  <2>1. n = i
    BY <1>3
  <2>2. ASSUME NEW j \in i..Len(updates), updates[j].user = updates[i].user
        PROVE  effects[j] = 0
    <3>1. j \in 1..Len(updates) /\ j \in 1..MaxUpdates /\ ~(j < i)
      BY <1>1
    <3> QED
      BY <1>1, <1>2, <2>2, <3>1
  <2> QED
    BY <1>2, <2>1, <2>2
<1> QED
  BY <1>5, <1>6, <1>8, <1>10, <1>11, <1>12 DEF RouterInv

\* The cursor moves to a fresh update that is refused.
LEMMA RouterMoves ==
    ASSUME RouterInv, NEW i \in 1..Len(updates), Fresh(i), updates' = updates,
           cursor' = [cursor EXCEPT ![updates[i].user] = i],
           UNCHANGED <<challenge, effects, engaged>>
    PROVE  RouterInv' /\ EffectStep
<1>1. /\ updates \in Seq(Messages) /\ Len(updates) \in Nat
      /\ cursor \in [Users -> Nat] /\ MaxUpdates \in Nat
  BY TelegramConstants DEF RouterInv, RouterTypes
<1>2. updates[i].user \in Users /\ i > cursor[updates[i].user]
  BY <1>1, FreshUpdates DEF Fresh
<1>3. /\ cursor' \in [Users -> Nat]
      /\ \A u \in Users : cursor'[u] = IF u = updates[i].user THEN i ELSE cursor[u]
  BY <1>1, <1>2
<1>4. \A u \in Users : cursor[u] <= cursor'[u] /\ cursor[u] \in Nat /\ cursor'[u] \in Nat
  BY <1>1, <1>2, <1>3
<1>5. RouterTypes'
  BY <1>3 DEF RouterInv, RouterTypes
<1>6. CursorLeads'
  <2> SUFFICES ASSUME NEW j \in 1..MaxUpdates, effects[j] = 1
               PROVE  j <= Len(updates) /\ j <= cursor'[updates[j].user]
    BY DEF CursorLeads
  <2>1. j <= Len(updates) /\ j <= cursor[updates[j].user] /\ j \in Nat
    BY <1>1 DEF RouterInv, CursorLeads
  <2>2. updates[j].user \in Users
    BY <1>1, <2>1, MessageUsers
  <2> QED
    BY <1>4, <2>1, <2>2
<1>7. StopTakesTwo'
  BY DEF RouterInv, StopTakesTwo
<1>8. challenge' # NoUser => \E n \in 1..Len(updates') : Unanswered(challenge, n)'
  BY DEF RouterInv, Unanswered
<1>9. \A j \in engaged' : effects'[j] = 1
  BY DEF RouterInv
<1> QED
  BY <1>5, <1>6, <1>7, <1>8, <1>9 DEF RouterInv, EffectStep

\* One message, whichever transport it came by.
LEMMA RouterHandles ==
    ASSUME RouterInv, NEW i \in 1..Len(updates), NEW direct, Handle(i, direct)
    PROVE  RouterInv' /\ EffectStep
<1>1. updates' = updates
  BY DEF Handle
<1>2. CASE UNCHANGED cursor
  <2>1. CASE ~Fresh(i)
    BY <1>1, <1>2, <2>1, RouterRests DEF Handle, Refuse, NoEffect
  <2>2. CASE Fresh(i)
    <3>1. cursor' = [cursor EXCEPT ![updates[i].user] = i]
      BY <2>2 DEF Handle
    <3>2. cursor'[updates[i].user] = i
      BY <3>1, FreshUpdates, <2>2 DEF RouterInv, RouterTypes
    <3>3. i \in Nat /\ i > i
      BY <1>2, <2>2, <3>2 DEF Fresh
    <3> QED
      BY <3>3
  <2> QED
    BY <2>1, <2>2
<1>3. CASE Fresh(i) /\ cursor' = [cursor EXCEPT ![updates[i].user] = i]
  <2>1. CASE Refuse \/ PairCommand(i, direct)
    <3>1. UNCHANGED <<challenge, effects, engaged>>
      BY <2>1 DEF Refuse, PairCommand, NoEffect
    <3> QED
      BY <1>1, <1>3, <3>1, RouterMoves
  <2>2. CASE Dispatch(i)
    <3>1. CASE SetPause(i)
      BY <1>1, <1>3, <3>1, RouterCarries DEF SetPause
    <3>2. CASE Emergency(i)
      <4>1. Carry(i)
        BY <3>2 DEF Emergency
      <4>2. \/ /\ updates[i].word = "emergency" /\ challenge' = updates[i].user
               /\ engaged' = engaged
            \/ /\ challenge = updates[i].user /\ challenge' = NoUser
               /\ engaged' = engaged \cup {i}
            \/ challenge' = NoUser /\ engaged' = engaged
        BY <3>2 DEF Emergency
      <4> QED
        BY <1>1, <1>3, <4>1, <4>2, RouterCarries
    <3> QED
      BY <2>2, <3>1, <3>2 DEF Dispatch
  <2> QED
    BY <1>3, <2>1, <2>2 DEF Handle
<1> QED
  BY <1>2, <1>3 DEF Handle
-----------------------------------------------------------------------------
(* The link.                                                               *)

Accounts == Users \cup {NoUser}

UpFrames == [type : {"hello"}] \cup [type : {"offer", "revoke"}, code : 0..MaxCodes]

DownFrames ==
    [type : {"welcome"}, user : Accounts, of : Nat]
    \cup [type : {"paired"}, user : Users, of : Nat]
    \cup [type : {"unpaired"}, user : {NoUser}, of : Nat]
    \cup [type : {"command"}, update : 1..MaxUpdates]

HubTasks ==
    [type : {"hello"}, sock : Sockets]
    \cup [type : {"offer", "revoke"}, sock : Sockets, code : 0..MaxCodes]
    \cup [type : {"welcome"}, sock : Sockets, user : Accounts, of : Nat]
    \cup [type : {"unpaired"}, sock : Sockets, of : Nat]
    \cup [type : {"displaced"}, of : Nat]

HookStates == {"telegram", "consumed", "checked", "linked", "forward", "done"}

Elements(s) == {s[m] : m \in 1..Len(s)}

LinkKinds ==
    /\ link \in Accounts /\ pending \in 0..MaxCodes /\ issued \in 0..MaxCodes
    /\ gwLink \in Accounts /\ version \in Nat /\ told \in Nat /\ told <= version
    /\ hook \in [1..MaxUpdates -> [at : HookStates, of : Nat]]
    /\ cur \in 0..MaxSockets /\ opened \in 0..MaxSockets
    /\ hello \subseteq Sockets /\ welcomed \in BOOLEAN
    /\ up \in [Sockets -> Seq(UpFrames)] /\ down \in Seq(DownFrames)
    /\ tasks \subseteq HubTasks

\* A version of the row and what the row said then.
Faithful(of, user) == of <= version /\ (of = version => user = gwLink)

FrameFaithful(f) == f.type # "command" => Faithful(f.of, f.user)

TaskFaithful(t) ==
    /\ t.type = "welcome" => Faithful(t.of, t.user)
    /\ t.type \in {"unpaired", "displaced"} => Faithful(t.of, NoUser)

\* What is under way says what the row said.
RowInv ==
    /\ version = 0 => gwLink = NoUser /\ link = NoUser
    /\ \A f \in Elements(down) : FrameFaithful(f)
    /\ \A t \in tasks : TaskFaithful(t)
    /\ \A i \in 1..Len(updates) : hook[i].at = "linked" => Faithful(hook[i].of, User(i))

\* Only updates that were sent are handled or forwarded.
CommandsExist ==
    /\ \A f \in Elements(down) : f.type = "command" => f.update \in 1..Len(updates)
    /\ \A i \in 1..MaxUpdates : hook[i].at # "telegram" => i <= Len(updates)

\* A welcome goes to a socket that said hello.
HelloInv ==
    /\ welcomed => cur \in hello
    /\ \A f \in Elements(down) : f.type = "welcome" => cur \in hello
    /\ \A t \in tasks : t.type \in {"hello", "welcome"} => t.sock \in hello

RevokeUnderWay ==
    \/ \E f \in Elements(up[cur]) : f.type = "revoke"
    \/ \E t \in tasks : t.type = "revoke"

\* Who heard of the row as it is agrees with it, or has asked for it to go.
Agreement ==
    welcomed /\ cur \in gwOpen /\ told = version =>
        ((link = NoUser) <=> (gwLink = NoUser)) \/ RevokeUnderWay

LinkInv == LinkKinds /\ RowInv /\ HelloInv /\ Agreement

\* The inductive invariant of the link, with the router on top of it.
AllInv == RouterInv /\ LinkInv /\ CommandsExist

\* At the start there is no row and nothing under way.
LEMMA InitLink == RuntimeInit /\ LinkInit => AllInv
<1> SUFFICES ASSUME RuntimeInit, LinkInit PROVE AllInv
  OBVIOUS
<1>1. RouterInv
  BY InitRouter
<1>2. /\ <<>> \in Seq(DownFrames) /\ <<>> \in Seq(UpFrames) /\ Len(<<>>) = 0
      /\ Elements(<<>>) = {} /\ 1..0 = {}
  BY DEF Elements
<1>3. LinkKinds
  <2>1. hook \in [1..MaxUpdates -> [at : HookStates, of : Nat]]
    BY DEF LinkInit, HookStates
  <2>2. up \in [Sockets -> Seq(UpFrames)]
    BY <1>2 DEF LinkInit
  <2>3. /\ 0 \in 0..MaxCodes /\ 0 \in 0..MaxSockets
    BY TelegramConstants, LinkConstants
  <2>4. /\ link \in Accounts /\ pending \in 0..MaxCodes /\ issued \in 0..MaxCodes
        /\ gwLink \in Accounts /\ version \in Nat /\ told \in Nat /\ told <= version
        /\ cur \in 0..MaxSockets /\ opened \in 0..MaxSockets
    BY <2>3 DEF RuntimeInit, LinkInit, Accounts
  <2>5. /\ hello \subseteq Sockets /\ welcomed \in BOOLEAN
        /\ tasks \subseteq HubTasks /\ down \in Seq(DownFrames)
    BY <1>2 DEF LinkInit
  <2> QED
    BY <2>1, <2>2, <2>4, <2>5 DEF LinkKinds
<1>4. RowInv
  BY <1>2 DEF RuntimeInit, LinkInit, RowInv
<1>5. HelloInv /\ Agreement
  BY <1>2 DEF LinkInit, HelloInv, Agreement
<1>6. CommandsExist
  BY <1>2 DEF LinkInit, CommandsExist
<1> QED
  BY <1>1, <1>3, <1>4, <1>5, <1>6 DEF AllInv, LinkInv

\* What a sequence holds after an append,
LEMMA ElementsOfAppend ==
    ASSUME NEW S, NEW s \in Seq(S), NEW f \in S
    PROVE  Append(s, f) \in Seq(S) /\ Elements(Append(s, f)) = Elements(s) \cup {f}
<1>1. /\ Append(s, f) \in Seq(S) /\ Len(Append(s, f)) = Len(s) + 1 /\ Len(s) \in Nat
      /\ Append(s, f)[Len(s) + 1] = f
      /\ \A m \in 1..Len(s) : Append(s, f)[m] = s[m]
  OBVIOUS
<1>2. 1..(Len(s) + 1) = (1..Len(s)) \cup {Len(s) + 1}
  BY <1>1
<1>3. Elements(Append(s, f)) = {Append(s, f)[m] : m \in 1..Len(s)} \cup {f}
  BY <1>1, <1>2 DEF Elements
<1>4. {Append(s, f)[m] : m \in 1..Len(s)} = Elements(s)
  BY <1>1 DEF Elements
<1> QED
  BY <1>1, <1>3, <1>4

\* and without its head,
LEMMA ElementsOfTail ==
    ASSUME NEW S, NEW s \in Seq(S), s # <<>>
    PROVE  /\ Tail(s) \in Seq(S) /\ Head(s) \in S
           /\ Elements(s) = Elements(Tail(s)) \cup {Head(s)}
<1>1. /\ Tail(s) \in Seq(S) /\ Head(s) = s[1] /\ Head(s) \in S /\ Len(s) \in Nat \ {0}
      /\ Len(Tail(s)) = Len(s) - 1
      /\ \A m \in 1..(Len(s) - 1) : Tail(s)[m] = s[m + 1]
  OBVIOUS
<1>2. ASSUME NEW x \in Elements(s) PROVE x \in Elements(Tail(s)) \cup {Head(s)}
  <2>1. PICK m \in 1..Len(s) : x = s[m]
    BY DEF Elements
  <2>2. CASE m = 1
    BY <1>1, <2>1, <2>2
  <2>3. CASE m # 1
    <3>1. m - 1 \in 1..(Len(s) - 1) /\ Tail(s)[m - 1] = x
      BY <1>1, <2>1, <2>3
    <3> QED
      BY <1>1, <3>1 DEF Elements
  <2> QED
    BY <2>2, <2>3
<1>3. ASSUME NEW x \in Elements(Tail(s)) PROVE x \in Elements(s)
  <2>1. PICK m \in 1..(Len(s) - 1) : x = s[m + 1]
    BY <1>1 DEF Elements
  <2>2. m + 1 \in 1..Len(s)
    BY <1>1
  <2> QED
    BY <2>1, <2>2 DEF Elements
<1>4. Head(s) \in Elements(s)
  BY <1>1 DEF Elements
<1> QED
  BY <1>1, <1>2, <1>3, <1>4

\* and at least, after a concatenation,
LEMMA ElementsOfConcat ==
    ASSUME NEW S, NEW s \in Seq(S), NEW t \in Seq(S)
    PROVE  s \o t \in Seq(S) /\ Elements(s) \cup Elements(t) \subseteq Elements(s \o t)
<1>1. /\ s \o t \in Seq(S) /\ Len(s \o t) = Len(s) + Len(t) /\ Len(s) \in Nat /\ Len(t) \in Nat
      /\ \A m \in 1..Len(s) : (s \o t)[m] = s[m]
      /\ \A m \in 1..Len(t) : (s \o t)[Len(s) + m] = t[m]
  OBVIOUS
<1>2. \A m \in 1..Len(s) : m \in 1..(Len(s) + Len(t))
  BY <1>1
<1>3. \A m \in 1..Len(t) : Len(s) + m \in 1..(Len(s) + Len(t))
  BY <1>1
<1> QED
  BY <1>1, <1>2, <1>3 DEF Elements

\* and with one element.
LEMMA ElementsOfOne ==
    ASSUME NEW f PROVE <<f>> \in Seq({f}) /\ f \in Elements(<<f>>)
  BY DEF Elements

\* What the frames and the tasks carry.
LEMMA FrameFields ==
    \A f \in DownFrames :
        /\ f.type \in {"welcome", "paired", "unpaired", "command"}
        /\ f.type # "command" => f.of \in Nat /\ f.user \in Accounts
        /\ f.type = "paired" => f.user \in Users
        /\ f.type = "unpaired" => f.user = NoUser
        /\ f.type = "command" => f.update \in 1..MaxUpdates
  BY DEF DownFrames, Accounts

\* The same of the frames to the hub,
LEMMA UpFields ==
    \A f \in UpFrames :
        /\ f.type \in {"hello", "offer", "revoke"}
        /\ f.type # "hello" => f.code \in 0..MaxCodes
  BY DEF UpFrames

\* and of the tasks.
LEMMA TaskFields ==
    \A t \in HubTasks :
        /\ t.type \in {"hello", "offer", "revoke", "welcome", "unpaired", "displaced"}
        /\ t.type # "displaced" => t.sock \in Sockets
        /\ t.type \in {"offer", "revoke"} => t.code \in 0..MaxCodes
        /\ t.type = "welcome" => t.user \in Accounts
        /\ t.type \in {"welcome", "unpaired", "displaced"} => t.of \in Nat
  BY DEF HubTasks

\* The elements are of the kind the sequence is of.
LEMMA ElementsAreKind ==
    ASSUME NEW S, NEW s \in Seq(S)
    PROVE  \A f \in Elements(s) : f \in S
  BY DEF Elements

\* A frame that is sent comes last on the runtime's own socket, or is lost.
LEMMA SendsAFrame ==
    ASSUME LinkKinds, NEW s, NEW f \in DownFrames, Send(s, f)
    PROVE  /\ down' \in Seq(DownFrames)
           /\ \/ down' = down
              \/ s = cur /\ Elements(down') = Elements(down) \cup {f}
<1>1. down \in Seq(DownFrames)
  BY DEF LinkKinds
<1>2. CASE s = cur /\ s \in gwOpen
  BY <1>1, <1>2, ElementsOfAppend DEF Send
<1>3. CASE ~(s = cur /\ s \in gwOpen)
  BY <1>1, <1>3 DEF Send
<1> QED
  BY <1>2, <1>3

\* The row stays, or has a new version.
RowMoves ==
    \/ UNCHANGED <<gwLink, version>>
    \/ version' = version + 1

\* What was faithful stays so: a new version makes the older one say nothing.
LEMMA FaithfulStays ==
    ASSUME version \in Nat, RowMoves, NEW of \in Nat, NEW user, Faithful(of, user)
    PROVE  Faithful(of, user)'
  BY DEF RowMoves, Faithful

\* Steps whose new frames, tasks and handlers are faithful keep all of them so.
LEMMA RowKept ==
    ASSUME LinkKinds, RowInv, RowMoves, version' = 0 => link' = NoUser,
           \A f \in Elements(down') : f \in Elements(down) \/ FrameFaithful(f)',
           \A t \in tasks' : t \in tasks \/ TaskFaithful(t)',
           Len(updates) <= MaxUpdates, Len(updates) \in Nat,
           \A i \in 1..Len(updates') : hook'[i].at = "linked" =>
               \/ i \in 1..Len(updates) /\ hook'[i] = hook[i] /\ updates'[i] = updates[i]
               \/ Faithful(hook[i].of, User(i))'
    PROVE  RowInv'
<1>1. version \in Nat /\ down \in Seq(DownFrames) /\ tasks \subseteq HubTasks
  BY DEF LinkKinds
<1>2. \A f \in Elements(down) : FrameFaithful(f)'
  <2> SUFFICES ASSUME NEW f \in Elements(down), f.type # "command"
               PROVE  Faithful(f.of, f.user)'
    BY DEF FrameFaithful
  <2>1. f.of \in Nat /\ Faithful(f.of, f.user)
    BY <1>1, ElementsAreKind, FrameFields DEF RowInv, FrameFaithful
  <2> QED
    BY <1>1, <2>1, FaithfulStays
<1>3. \A t \in tasks : TaskFaithful(t)'
  <2> SUFFICES ASSUME NEW t \in tasks PROVE TaskFaithful(t)'
    OBVIOUS
  <2>1. TaskFaithful(t) /\ (t.type \in {"welcome", "unpaired", "displaced"} => t.of \in Nat)
    BY <1>1, TaskFields DEF RowInv
  <2>2. ASSUME t.type = "welcome" PROVE Faithful(t.of, t.user)'
    BY <1>1, <2>1, <2>2, FaithfulStays DEF TaskFaithful
  <2>3. ASSUME t.type \in {"unpaired", "displaced"} PROVE Faithful(t.of, NoUser)'
    BY <1>1, <2>1, <2>3, FaithfulStays DEF TaskFaithful
  <2> QED
    BY <2>2, <2>3 DEF TaskFaithful
<1>4. ASSUME NEW i \in 1..Len(updates'), hook'[i].at = "linked"
      PROVE  Faithful(hook[i].of, User(i))'
  <2>1. CASE i \in 1..Len(updates) /\ hook'[i] = hook[i] /\ updates'[i] = updates[i]
    <3>1. PICK of, user : of = hook[i].of /\ user = User(i)
      OBVIOUS
    <3>2. i \in 1..MaxUpdates /\ of \in Nat
      BY <2>1, <3>1, TelegramConstants DEF LinkKinds
    <3>3. Faithful(of, user)'
      BY <1>1, <1>4, <2>1, <3>1, <3>2, FaithfulStays DEF RowInv
    <3>4. of = hook'[i].of /\ user = User(i)'
      BY <2>1, <3>1 DEF User
    <3> QED
      BY <3>3, <3>4
  <2>2. CASE Faithful(hook[i].of, User(i))'
    BY <2>2
  <2> QED
    BY <1>4, <2>1, <2>2
<1>5. version' = 0 => gwLink' = NoUser /\ link' = NoUser
  BY <1>1 DEF RowMoves, RowInv
<1> QED
  BY <1>2, <1>3, <1>4, <1>5 DEF RowInv

\* Nothing that the two sides compare has changed, and no revoke is lost.
LEMMA AgreementKept ==
    ASSUME Agreement, UNCHANGED <<cur, link, gwLink, told, version>>,
           welcomed' => welcomed, gwOpen' \subseteq gwOpen,
           welcomed /\ cur \in gwOpen' /\ RevokeUnderWay => RevokeUnderWay'
    PROVE  Agreement'
  BY DEF Agreement

\* What the invariant says of the state a step starts in.
LEMMA Before ==
    ASSUME AllInv
    PROVE  /\ LinkKinds /\ RowInv /\ HelloInv /\ Agreement /\ CommandsExist
           /\ version \in Nat /\ told \in Nat /\ told <= version
           /\ Len(updates) \in Nat /\ Len(updates) <= MaxUpdates /\ MaxUpdates \in Nat
           /\ \A i \in 1..Len(updates) :
                 i \in 1..MaxUpdates /\ User(i) \in Users /\ hook[i].of \in Nat
           /\ tasks \subseteq HubTasks /\ hello \subseteq Sockets
           /\ welcomed => cur \in Sockets
           /\ up \in [Sockets -> Seq(UpFrames)] /\ down \in Seq(DownFrames)
           /\ 0 \notin Sockets
<1>1. LinkKinds /\ RowInv /\ HelloInv /\ Agreement /\ CommandsExist /\ RouterTypes
  BY DEF AllInv, LinkInv, RouterInv
<1>2. /\ Len(updates) \in Nat /\ Len(updates) <= MaxUpdates /\ MaxUpdates \in Nat
      /\ updates \in Seq(Messages)
  BY <1>1, TelegramConstants DEF RouterTypes
<1>3. \A i \in 1..Len(updates) : i \in 1..MaxUpdates /\ User(i) \in Users
  BY <1>2, MessageUsers DEF User
<1>4. \A i \in 1..MaxUpdates : hook[i].of \in Nat
  BY <1>1 DEF LinkKinds
<1>5. 0 \notin Sockets
  BY LinkConstants DEF Sockets
<1> QED
  BY <1>1, <1>2, <1>3, <1>4, <1>5 DEF LinkKinds, HelloInv

\* webSocketMessage.
LEMMA KeepsHubReceives ==
    ASSUME AllInv, NEW s \in Sockets, HubReceives(s)
    PROVE  LinkInv' /\ CommandsExist'
<1> DEFINE f == Head(up[s])
<1>1. /\ LinkKinds /\ RowInv /\ HelloInv /\ Agreement /\ CommandsExist
      /\ up \in [Sockets -> Seq(UpFrames)] /\ tasks \subseteq HubTasks
  BY Before
<1>2. /\ Tail(up[s]) \in Seq(UpFrames) /\ f \in UpFrames
      /\ Elements(up[s]) = Elements(Tail(up[s])) \cup {f}
  BY <1>1, ElementsOfTail DEF HubReceives
<1>3. /\ UNCHANGED <<link, pending, issued, updates, gwLink, version, told, hook, cur, opened,
                     gwOpen, welcomed, down>>
      /\ up' = [up EXCEPT ![s] = Tail(up[s])]
  BY DEF HubReceives, rowVars, runtimeVars
<1>4. \/ /\ f.type = "hello" /\ hello' = hello \cup {s}
         /\ tasks' = tasks \cup {[type |-> "hello", sock |-> s]}
      \/ /\ f.type \in {"offer", "revoke"} /\ s \in hello /\ hello' = hello
         /\ tasks' = tasks \cup {[type |-> f.type, sock |-> s, code |-> f.code]}
      \/ /\ f.type \in {"offer", "revoke"} /\ hello' = hello /\ tasks' = tasks
         /\ s \notin hello \/ f.type = "offer"
  BY DEF HubReceives
<1>5. LinkKinds'
  <2>1. up' \in [Sockets -> Seq(UpFrames)]
    BY <1>1, <1>2, <1>3
  <2>2. [type |-> "hello", sock |-> s] \in HubTasks
    BY DEF HubTasks
  <2>3. f.type \in {"offer", "revoke"} =>
           [type |-> f.type, sock |-> s, code |-> f.code] \in HubTasks
    BY <1>2, UpFields DEF HubTasks
  <2>4. tasks' \subseteq HubTasks /\ hello' \subseteq Sockets
    BY <1>1, <1>4, <2>2, <2>3 DEF LinkKinds
  <2> QED
    BY <1>1, <1>3, <2>1, <2>4 DEF LinkKinds
<1>6. \A t \in tasks' : t \in tasks \/ t.type \in {"offer", "revoke"}
                       \/ (t.type = "hello" /\ t.sock \in hello')
  BY <1>4
<1>7. RowInv'
  <2>1. \A t \in tasks' : t \in tasks \/ TaskFaithful(t)'
    BY <1>6 DEF TaskFaithful
  <2>2. version' = 0 => link' = NoUser
    BY <1>1, <1>3 DEF RowInv
  <2> QED
    BY <1>1, <1>3, <2>1, <2>2, Before, RowKept DEF RowMoves
<1>8. HelloInv'
  <2>1. hello \subseteq hello'
    BY <1>4
  <2> QED
    BY <1>1, <1>3, <1>6, <2>1 DEF HelloInv
<1>9. Agreement'
  <2>1. ASSUME welcomed, RevokeUnderWay PROVE RevokeUnderWay'
    <3>1. tasks \subseteq tasks' /\ cur \in hello /\ cur \in Sockets
      BY <1>1, <1>4, <2>1, Before DEF HelloInv
    <3>2. CASE \E t \in tasks : t.type = "revoke"
      BY <3>1, <3>2 DEF RevokeUnderWay
    <3>3. CASE \E g \in Elements(up[cur]) : g.type = "revoke"
      <4>1. PICK g \in Elements(up[cur]) : g.type = "revoke"
        BY <3>3
      <4>2. CASE g \in Elements(up'[cur])
        BY <1>3, <4>1, <4>2 DEF RevokeUnderWay
      <4>3. CASE g \notin Elements(up'[cur])
        <5>1. s = cur /\ g = f
          BY <1>1, <1>2, <1>3, <3>1, <4>1, <4>3
        <5>2. [type |-> f.type, sock |-> s, code |-> f.code] \in tasks'
          BY <1>4, <3>1, <4>1, <5>1
        <5> QED
          BY <4>1, <5>1, <5>2 DEF RevokeUnderWay
      <4> QED
        BY <4>2, <4>3
    <3> QED
      BY <2>1, <3>2, <3>3 DEF RevokeUnderWay
  <2> QED
    BY <1>1, <1>3, <2>1, AgreementKept
<1>10. CommandsExist'
  BY <1>1, <1>3 DEF CommandsExist
<1> QED
  BY <1>5, <1>7, <1>8, <1>9, <1>10 DEF LinkInv

\* The query of a handler.
LEMMA KeepsHubQuery ==
    ASSUME AllInv, NEW t \in tasks, HubQuery(t)
    PROVE  LinkInv' /\ CommandsExist'
<1>1. /\ LinkKinds /\ RowInv /\ HelloInv /\ Agreement /\ CommandsExist
      /\ tasks \subseteq HubTasks /\ version \in Nat /\ told \in Nat /\ told <= version
  BY Before
<1>2. /\ UNCHANGED <<link, pending, issued, updates, told, hook, cur, opened, gwOpen, hello,
                     welcomed, up, down>>
  BY DEF HubQuery, socketVars, runtimeVars
<1>3. \/ /\ t.type = "hello" /\ UNCHANGED <<gwLink, version>>
         /\ tasks' = (tasks \ {t}) \cup
               {[type |-> "welcome", sock |-> t.sock, user |-> gwLink, of |-> version]}
      \/ /\ t.type = "offer" /\ UNCHANGED <<gwLink, version>> /\ tasks' = tasks \ {t}
      \/ /\ t.type = "revoke" /\ gwLink' = NoUser /\ version' = version + 1
         /\ tasks' = (tasks \ {t}) \cup
               {[type |-> "unpaired", sock |-> t.sock, of |-> version + 1]}
  BY DEF HubQuery, StorePairOffer, UnlinkInstall, rowVars
<1>4. t \in HubTasks /\ t.type # "displaced" /\ t.sock \in Sockets
  BY <1>1, <1>3, TaskFields
<1>5. gwLink \in Accounts /\ gwLink' \in Accounts /\ version' \in Nat /\ version <= version'
  BY <1>1, <1>3 DEF LinkKinds, Accounts
<1>6. LinkKinds'
  <2>1. [type |-> "welcome", sock |-> t.sock, user |-> gwLink, of |-> version] \in HubTasks
    BY <1>1, <1>4, <1>5 DEF HubTasks
  <2>2. [type |-> "unpaired", sock |-> t.sock, of |-> version + 1] \in HubTasks
    BY <1>1, <1>4 DEF HubTasks
  <2>3. tasks' \subseteq HubTasks
    BY <1>1, <1>3, <2>1, <2>2
  <2>4. told <= version'
    BY <1>1, <1>5
  <2> QED
    BY <1>1, <1>2, <1>5, <2>3, <2>4 DEF LinkKinds
<1>7. \A x \in tasks' :
         \/ x \in tasks
         \/ x.type = "welcome" /\ x.sock = t.sock /\ x.of = version /\ x.user = gwLink
            /\ UNCHANGED <<gwLink, version>> /\ t.type = "hello"
         \/ x.type = "unpaired" /\ x.of = version' /\ gwLink' = NoUser
  BY <1>3
<1>8. RowInv'
  <2>1. \A x \in tasks' : x \in tasks \/ TaskFaithful(x)'
    BY <1>5, <1>7 DEF TaskFaithful, Faithful
  <2>2. version' = 0 => link' = NoUser
    BY <1>1, <1>2, <1>3 DEF RowInv
  <2>3. RowMoves
    BY <1>3 DEF RowMoves
  <2> QED
    BY <1>1, <1>2, <2>1, <2>2, <2>3, Before, RowKept
<1>9. HelloInv'
  BY <1>1, <1>2, <1>7 DEF HelloInv
<1>10. Agreement'
  <2>1. CASE version' = version + 1
    BY <1>1, <1>2, <2>1 DEF Agreement
  <2>2. CASE UNCHANGED <<gwLink, version>> /\ t.type # "revoke"
    <3>1. RevokeUnderWay => RevokeUnderWay'
      BY <1>2, <1>3, <2>2 DEF RevokeUnderWay
    <3> QED
      BY <1>1, <1>2, <2>2, <3>1, AgreementKept
  <2> QED
    BY <1>3, <2>1, <2>2
<1>11. CommandsExist'
  BY <1>1, <1>2 DEF CommandsExist
<1> QED
  BY <1>6, <1>8, <1>9, <1>10, <1>11 DEF LinkInv

\* What the query found is sent.
LEMMA KeepsHubSends ==
    ASSUME AllInv, NEW t \in tasks, HubSends(t)
    PROVE  LinkInv' /\ CommandsExist'
<1>1. /\ LinkKinds /\ RowInv /\ HelloInv /\ Agreement /\ CommandsExist
      /\ tasks \subseteq HubTasks /\ TaskFaithful(t)
  BY Before DEF RowInv
<1>2. /\ UNCHANGED <<link, pending, issued, updates, gwLink, version, told, hook, cur, opened,
                     gwOpen, hello, welcomed, up>>
      /\ tasks' = tasks \ {t} /\ t.type \in {"welcome", "unpaired"}
  BY DEF HubSends, rowVars, socketVars, runtimeVars
<1>3. PICK f \in DownFrames :
         /\ Send(t.sock, f) /\ FrameFaithful(f) /\ f.type = t.type
  <2>1. CASE t.type = "welcome"
    <3> DEFINE f == [type |-> "welcome", user |-> t.user, of |-> t.of]
    <3>1. f \in DownFrames /\ Send(t.sock, f)
      BY <1>1, <2>1, TaskFields DEF HubSends, DownFrames
    <3> QED
      BY <1>1, <2>1, <3>1 DEF FrameFaithful, TaskFaithful
  <2>2. CASE t.type = "unpaired"
    <3> DEFINE f == [type |-> "unpaired", user |-> NoUser, of |-> t.of]
    <3>1. f \in DownFrames /\ Send(t.sock, f)
      BY <1>1, <2>2, TaskFields DEF HubSends, DownFrames
    <3> QED
      BY <1>1, <2>2, <3>1 DEF FrameFaithful, TaskFaithful
  <2> QED
    BY <1>2, <2>1, <2>2
<1>4. /\ down' \in Seq(DownFrames)
      /\ \A g \in Elements(down') : g \in Elements(down) \/ (g = f /\ t.sock = cur)
  BY <1>1, <1>3, SendsAFrame
<1>5. LinkKinds'
  BY <1>1, <1>2, <1>4 DEF LinkKinds
<1>6. FrameFaithful(f)'
  BY <1>2, <1>3 DEF FrameFaithful, Faithful
<1>7. RowInv'
  <2>1. version' = 0 => link' = NoUser
    BY <1>1, <1>2 DEF RowInv
  <2> QED
    BY <1>1, <1>2, <1>4, <1>6, <2>1, Before, RowKept DEF RowMoves
<1>8. HelloInv'
  BY <1>1, <1>2, <1>3, <1>4 DEF HelloInv
<1>9. Agreement'
  <2>1. RevokeUnderWay => RevokeUnderWay'
    BY <1>2 DEF RevokeUnderWay
  <2> QED
    BY <1>1, <1>2, <2>1, AgreementKept
<1>10. CommandsExist'
  BY <1>1, <1>2, <1>3, <1>4 DEF CommandsExist
<1> QED
  BY <1>5, <1>7, <1>8, <1>9, <1>10 DEF LinkInv

\* The hub closes a connection, or what was under way up on an ended one is lost.
LEMMA KeepsLosses ==
    ASSUME AllInv, NEW s \in Sockets, HubCloses(s) \/ LoseUp(s)
    PROVE  LinkInv' /\ CommandsExist'
<1>1. /\ LinkKinds /\ RowInv /\ HelloInv /\ Agreement /\ CommandsExist
      /\ up \in [Sockets -> Seq(UpFrames)]
  BY Before
<1>2. /\ UNCHANGED <<link, pending, issued, updates, gwLink, version, told, hook, cur, opened,
                     hello, welcomed, down, tasks>>
      /\ gwOpen' \subseteq gwOpen
      /\ \/ up' = up
         \/ up' = [up EXCEPT ![s] = <<>>] /\ ~(s = cur /\ s \in gwOpen)
  BY DEF HubCloses, LoseUp, rowVars, runtimeVars
<1>3. up' \in [Sockets -> Seq(UpFrames)]
  <2>1. <<>> \in Seq(UpFrames)
    OBVIOUS
  <2> QED
    BY <1>1, <1>2, <2>1
<1>4. LinkKinds'
  BY <1>1, <1>2, <1>3 DEF LinkKinds
<1>5. RowInv' /\ HelloInv' /\ CommandsExist'
  BY <1>1, <1>2 DEF RowInv, FrameFaithful, TaskFaithful, Faithful, User, HelloInv,
                    CommandsExist
<1>6. Agreement'
  <2>1. cur \in Sockets /\ cur \in gwOpen' => up'[cur] = up[cur]
    BY <1>1, <1>2
  <2>2. welcomed /\ cur \in gwOpen' /\ RevokeUnderWay => RevokeUnderWay'
    BY <1>2, <2>1, Before DEF RevokeUnderWay
  <2> QED
    BY <1>1, <1>2, <2>2, AgreementKept
<1> QED
  BY <1>4, <1>5, <1>6 DEF LinkInv

\* A handler throws.
LEMMA KeepsHubFails ==
    ASSUME AllInv, NEW t \in tasks, HubFails(t)
    PROVE  LinkInv' /\ CommandsExist'
<1>1. /\ LinkKinds /\ RowInv /\ HelloInv /\ Agreement /\ CommandsExist /\ version \in Nat
  BY Before
<1>2. /\ UNCHANGED <<link, pending, issued, updates, gwLink, version, hook, cur, opened,
                     gwOpen, hello, welcomed, up, down>>
      /\ tasks' = tasks \ {t} /\ told' = 0
  BY DEF HubFails, rowVars, socketVars, runtimeVars
<1>3. LinkKinds'
  BY <1>1, <1>2 DEF LinkKinds
<1>4. RowInv' /\ HelloInv' /\ CommandsExist'
  BY <1>1, <1>2 DEF RowInv, FrameFaithful, TaskFaithful, Faithful, User, HelloInv,
                    CommandsExist
<1>5. Agreement'
  BY <1>1, <1>2 DEF Agreement, RowInv
<1> QED
  BY <1>3, <1>4, <1>5 DEF LinkInv

\* The webhook's handler of one update.
LEMMA KeepsHookStep ==
    ASSUME AllInv, HookStep
    PROVE  LinkInv' /\ CommandsExist'
<1>1. /\ LinkKinds /\ RowInv /\ HelloInv /\ Agreement /\ CommandsExist
      /\ version \in Nat /\ told \in Nat /\ told <= version /\ MaxUpdates \in Nat
      /\ hook \in [1..MaxUpdates -> [at : HookStates, of : Nat]]
  BY Before DEF LinkKinds
<1>2. UNCHANGED <<link, pending, issued, updates, told, cur, opened, gwOpen, hello, welcomed, up,
                  tasks>>
  BY DEF HookStep, socketVars, runtimeVars
<1>3. PICK i \in 1..Len(updates) :
         \/ WebhookEnds(i) \/ PairConsumes(i) \/ PairChecks(i) \/ PairLinks(i)
         \/ PairAnnounces(i) \/ CommandLooksUp(i) \/ CommandForwards(i)
  BY DEF HookStep
<1>4. i \in 1..MaxUpdates /\ User(i) \in Users /\ hook[i].of \in Nat /\ User(i)' = User(i)
  BY <1>2, Before DEF User
\* What becomes of the row and of this handler.
<1>5. \/ /\ UNCHANGED <<gwLink, version>>
         /\ \E at \in HookStates \ {"linked", "telegram"} : hook' = [hook EXCEPT ![i].at = at]
      \/ /\ gwLink' = User(i) /\ version' = version + 1
         /\ hook' = [hook EXCEPT ![i] = [at |-> "linked", of |-> version + 1]]
  BY <1>3 DEF WebhookEnds, PairConsumes, PairChecks, PairLinks, PairAnnounces, CommandLooksUp,
              CommandForwards, ConsumePairCode, LinkTelegram, rowVars, HookStates
\* What is sent.
<1>6. \/ down' = down
      \/ \E f \in DownFrames :
            /\ Send(cur, f) /\ UNCHANGED <<gwLink, version>>
            /\ \/ f.type = "paired" /\ FrameFaithful(f)
               \/ f.type = "command" /\ f.update = i
  <2>1. CASE PairAnnounces(i)
    <3> DEFINE f == [type |-> "paired", user |-> User(i), of |-> hook[i].of]
    <3>1. f \in DownFrames /\ (down' = down \/ Send(cur, f)) /\ UNCHANGED <<gwLink, version>>
      BY <1>4, <2>1 DEF PairAnnounces, DownFrames, rowVars
    <3>2. FrameFaithful(f)
      BY <1>1, <1>3, <2>1 DEF PairAnnounces, RowInv, FrameFaithful
    <3> QED
      BY <3>1, <3>2
  <2>2. CASE CommandForwards(i)
    <3> DEFINE f == [type |-> "command", update |-> i]
    <3>1. f \in DownFrames /\ (down' = down \/ Send(cur, f)) /\ UNCHANGED <<gwLink, version>>
      BY <1>4, <2>2 DEF CommandForwards, DownFrames, rowVars
    <3> QED
      BY <3>1
  <2> QED
    BY <1>3, <2>1, <2>2
    DEF WebhookEnds, PairConsumes, PairChecks, PairLinks, CommandLooksUp
<1>7. /\ down' \in Seq(DownFrames)
      /\ \A g \in Elements(down') :
            \/ g \in Elements(down)
            \/ g.type = "paired" /\ FrameFaithful(g)'
            \/ g.type = "command" /\ g.update \in 1..Len(updates)
  <2>1. CASE down' = down
    BY <1>1, <2>1 DEF LinkKinds
  <2>2. ASSUME NEW f \in DownFrames, Send(cur, f), UNCHANGED <<gwLink, version>>,
               \/ f.type = "paired" /\ FrameFaithful(f)
               \/ f.type = "command" /\ f.update = i
        PROVE  <1>7!1 /\ <1>7!2
    <3>1. FrameFaithful(f) => FrameFaithful(f)'
      BY <2>2 DEF FrameFaithful, Faithful
    <3>2. /\ down' \in Seq(DownFrames)
          /\ \A g \in Elements(down') : g \in Elements(down) \/ g = f
      BY <1>1, <2>2, SendsAFrame
    <3> QED
      BY <2>2, <3>1, <3>2
  <2> QED
    BY <1>6, <2>1, <2>2
<1>8. /\ hook' \in [1..MaxUpdates -> [at : HookStates, of : Nat]]
      /\ \A j \in 1..MaxUpdates : j # i => hook'[j] = hook[j]
      /\ hook'[i].at = "linked" =>
            hook'[i].of = version' /\ gwLink' = User(i)
  <2>1. ASSUME NEW at \in HookStates \ {"linked", "telegram"},
               hook' = [hook EXCEPT ![i].at = at]
        PROVE  <1>8!1 /\ <1>8!2 /\ <1>8!3
    BY <1>1, <1>4, <2>1
  <2>2. ASSUME gwLink' = User(i), version' = version + 1,
               hook' = [hook EXCEPT ![i] = [at |-> "linked", of |-> version + 1]]
        PROVE  <1>8!1 /\ <1>8!2 /\ <1>8!3
    BY <1>1, <1>4, <2>2 DEF HookStates
  <2> QED
    BY <1>5, <2>1, <2>2
<1>9. gwLink' \in Accounts /\ version' \in Nat /\ version <= version' /\ RowMoves
  BY <1>1, <1>4, <1>5 DEF LinkKinds, Accounts, RowMoves
<1>10. LinkKinds'
  <2>1. told <= version'
    BY <1>1, <1>9
  <2> QED
    BY <1>1, <1>2, <1>7, <1>8, <1>9, <2>1 DEF LinkKinds
<1>11. RowInv'
  <2>1. version' = 0 => link' = NoUser
    BY <1>1, <1>2, <1>5 DEF RowInv
  <2>2. \A g \in Elements(down') : g \in Elements(down) \/ FrameFaithful(g)'
    BY <1>7 DEF FrameFaithful
  <2>3. \A j \in 1..Len(updates') : hook'[j].at = "linked" =>
           \/ j \in 1..Len(updates) /\ hook'[j] = hook[j] /\ updates'[j] = updates[j]
           \/ Faithful(hook[j].of, User(j))'
    BY <1>2, <1>4, <1>8, <1>9, Before DEF Faithful
  <2> QED
    BY <1>1, <1>2, <1>9, <2>1, <2>2, <2>3, Before, RowKept
<1>12. HelloInv'
  BY <1>1, <1>2, <1>7 DEF HelloInv
<1>13. Agreement'
  <2>1. CASE version' = version + 1
    BY <1>1, <1>2, <2>1 DEF Agreement
  <2>2. CASE UNCHANGED <<gwLink, version>>
    <3>1. RevokeUnderWay => RevokeUnderWay'
      BY <1>2 DEF RevokeUnderWay
    <3> QED
      BY <1>1, <1>2, <2>2, <3>1, AgreementKept
  <2> QED
    BY <1>5, <2>1, <2>2
<1>14. CommandsExist'
  <2>1. \A j \in 1..MaxUpdates : hook'[j].at # "telegram" => j <= Len(updates')
    BY <1>1, <1>2, <1>8, Before DEF CommandsExist
  <2> QED
    BY <1>1, <1>2, <1>7, <2>1 DEF CommandsExist
<1> QED
  BY <1>10, <1>11, <1>12, <1>13, <1>14 DEF LinkInv

\* The linked account pairs another installation.
LEMMA KeepsPairsElsewhere ==
    ASSUME AllInv, PairsElsewhere
    PROVE  LinkInv' /\ CommandsExist'
<1>1. /\ LinkKinds /\ RowInv /\ HelloInv /\ Agreement /\ CommandsExist
      /\ version \in Nat /\ told \in Nat /\ told <= version /\ tasks \subseteq HubTasks
  BY Before
<1>2. UNCHANGED <<link, pending, issued, updates, told, hook, cur, opened, gwOpen, hello,
                  welcomed, up>>
  BY DEF PairsElsewhere, socketVars, runtimeVars
<1>3. CASE /\ gwLink' = NoUser /\ version' = version + 1 /\ down' = down
           /\ tasks' = tasks \cup {[type |-> "displaced", of |-> version + 1]}
  <2>1. [type |-> "displaced", of |-> version + 1] \in HubTasks
    BY <1>1 DEF HubTasks
  <2>2. LinkKinds'
    <3>1. told <= version' /\ version' \in Nat /\ gwLink' \in Accounts
      BY <1>1, <1>3 DEF Accounts
    <3> QED
      BY <1>1, <1>2, <1>3, <2>1, <3>1 DEF LinkKinds
  <2>3. RowInv'
    <3>1. \A x \in tasks' : x \in tasks \/ TaskFaithful(x)'
      BY <1>1, <1>3 DEF TaskFaithful, Faithful
    <3>2. version' = 0 => link' = NoUser
      BY <1>1, <1>3
    <3> QED
      BY <1>1, <1>2, <1>3, <3>1, <3>2, Before, RowKept DEF RowMoves
  <2>4. HelloInv' /\ CommandsExist'
    BY <1>1, <1>2, <1>3 DEF HelloInv, CommandsExist
  <2>5. Agreement'
    BY <1>1, <1>2, <1>3 DEF Agreement
  <2> QED
    BY <2>2, <2>3, <2>4, <2>5 DEF LinkInv
<1>4. CASE /\ UNCHANGED <<gwLink, version>>
           /\ \E t \in tasks :
                 /\ t.type = "displaced" /\ tasks' = tasks \ {t}
                 /\ \/ down' = down
                    \/ Send(cur, [type |-> "unpaired", user |-> NoUser, of |-> t.of])
  <2>1. PICK t \in tasks :
           /\ t.type = "displaced" /\ tasks' = tasks \ {t}
           /\ \/ down' = down
              \/ Send(cur, [type |-> "unpaired", user |-> NoUser, of |-> t.of])
    BY <1>4
  <2> DEFINE f == [type |-> "unpaired", user |-> NoUser, of |-> t.of]
  <2>2. f \in DownFrames /\ Faithful(t.of, NoUser)
    BY <1>1, <2>1, TaskFields DEF DownFrames, RowInv, TaskFaithful
  <2>3. /\ down' \in Seq(DownFrames)
        /\ \A g \in Elements(down') : g \in Elements(down) \/ g = f
    <3>1. CASE down' = down
      BY <1>1, <3>1 DEF LinkKinds
    <3>2. CASE Send(cur, f)
      BY <1>1, <2>2, <3>2, SendsAFrame
    <3> QED
      BY <2>1, <3>1, <3>2
  <2>4. LinkKinds'
    BY <1>1, <1>2, <1>4, <2>1, <2>3 DEF LinkKinds
  <2>5. RowInv'
    <3>1. FrameFaithful(f)'
      BY <1>4, <2>2 DEF FrameFaithful, Faithful
    <3>2. version' = 0 => link' = NoUser
      BY <1>1, <1>2, <1>4 DEF RowInv
    <3>3. \A g \in Elements(down') : g \in Elements(down) \/ FrameFaithful(g)'
      BY <2>3, <3>1
    <3> QED
      BY <1>1, <1>2, <1>4, <2>1, <3>2, <3>3, Before, RowKept DEF RowMoves
  <2>6. HelloInv' /\ CommandsExist'
    BY <1>1, <1>2, <2>1, <2>3 DEF HelloInv, CommandsExist
  <2>7. Agreement'
    <3>1. RevokeUnderWay => RevokeUnderWay'
      BY <1>2, <2>1 DEF RevokeUnderWay
    <3> QED
      BY <1>1, <1>2, <1>4, <3>1, AgreementKept
  <2> QED
    BY <2>4, <2>5, <2>6, <2>7 DEF LinkInv
<1> QED
  BY <1>3, <1>4 DEF PairsElsewhere, rowVars

\* The socket comes and goes.
LEMMA KeepsConnections ==
    ASSUME AllInv, Connect \/ Disconnect
    PROVE  LinkInv' /\ CommandsExist'
<1>1. /\ LinkKinds /\ RowInv /\ HelloInv /\ Agreement /\ CommandsExist
      /\ up \in [Sockets -> Seq(UpFrames)] /\ 0 \notin Sockets /\ hello \subseteq Sockets
      /\ opened \in 0..MaxSockets
  BY Before DEF LinkKinds
<1>2. /\ UNCHANGED <<link, pending, issued, updates, gwLink, version, told, hook, hello, tasks>>
  BY DEF Connect, Disconnect, rowVars, runtimeVars
<1>3. CASE Connect
  <2>1. /\ cur = 0 /\ welcomed' = welcomed /\ down' = down
        /\ opened + 1 \in Sockets /\ opened' = opened + 1 /\ cur' = opened + 1
        /\ opened' \in 0..MaxSockets
    BY <1>1, <1>3, LinkConstants DEF Connect, Sockets
  <2>2. welcomed = FALSE /\ \A f \in Elements(down) : f.type # "welcome"
    BY <1>1, <2>1 DEF HelloInv, LinkKinds
  <2>3. up' \in [Sockets -> Seq(UpFrames)]
    <3>1. <<[type |-> "hello"]>> \in Seq(UpFrames)
      BY DEF UpFrames
    <3> QED
      BY <1>1, <1>3, <3>1 DEF Connect
  <2>4. LinkKinds'
    BY <1>1, <1>2, <2>1, <2>3 DEF LinkKinds
  <2>5. RowInv' /\ CommandsExist'
    BY <1>1, <1>2, <2>1
    DEF RowInv, FrameFaithful, TaskFaithful, Faithful, User, CommandsExist
  <2>6. HelloInv' /\ Agreement'
    BY <1>1, <1>2, <2>1, <2>2 DEF HelloInv, Agreement
  <2> QED
    BY <2>4, <2>5, <2>6 DEF LinkInv
<1>4. CASE Disconnect
  <2>1. /\ cur' = 0 /\ welcomed' = FALSE /\ down' = <<>> /\ UNCHANGED <<opened, up>>
        /\ Elements(<<>>) = {} /\ <<>> \in Seq(DownFrames) /\ 0 \in 0..MaxSockets
    BY <1>4, LinkConstants DEF Disconnect, Elements
  <2>2. LinkKinds'
    BY <1>1, <1>2, <2>1 DEF LinkKinds
  <2>3. RowInv' /\ CommandsExist'
    BY <1>1, <1>2, <2>1
    DEF RowInv, FrameFaithful, TaskFaithful, Faithful, User, CommandsExist
  <2>4. HelloInv' /\ Agreement'
    BY <1>1, <1>2, <2>1 DEF HelloInv, Agreement
  <2> QED
    BY <2>2, <2>3, <2>4 DEF LinkInv
<1> QED
  BY <1>3, <1>4

\* What the pairing rows become, and that they keep their kinds.
LEMMA RowsOfTheRuntime ==
    ASSUME LinkKinds
    PROVE  /\ Pending \in 0..MaxCodes
           /\ Unpair => link' \in Accounts /\ pending' \in 0..MaxCodes
           /\ \A u \in Users : WriteLink(u) =>
                 /\ link' \in Accounts /\ pending' \in 0..MaxCodes /\ link' # NoUser
<1> USE TelegramConstants
<1>1. /\ link \in Accounts /\ pending \in 0..MaxCodes /\ 0 \in 0..MaxCodes
  BY DEF LinkKinds
<1> QED
  BY <1>1 DEF Pending, Unpair, WriteLink, Accounts

\* A frame the runtime handles.
LEMMA KeepsRuntimeReceives ==
    ASSUME AllInv, RuntimeReceives
    PROVE  LinkInv' /\ CommandsExist'
<1> DEFINE f == Head(down)
<1>1. /\ LinkKinds /\ RowInv /\ HelloInv /\ Agreement /\ CommandsExist
      /\ version \in Nat /\ told \in Nat /\ told <= version
      /\ up \in [Sockets -> Seq(UpFrames)] /\ down \in Seq(DownFrames)
      /\ hello \subseteq Sockets
  BY Before
<1>2. /\ UNCHANGED <<issued, updates, gwLink, version, hook, cur, opened, gwOpen, hello, tasks>>
      /\ down' = Tail(down) /\ down # <<>>
  BY DEF RuntimeReceives, rowVars, Handle
<1>3. /\ Tail(down) \in Seq(DownFrames) /\ f \in DownFrames
      /\ Elements(down) = Elements(Tail(down)) \cup {f}
  BY <1>1, <1>2, ElementsOfTail
<1>4. /\ \A g \in Elements(down') : g \in Elements(down)
      /\ FrameFaithful(f) /\ down' \in Seq(DownFrames)
      /\ f.type = "welcome" => cur \in hello
  BY <1>1, <1>2, <1>3 DEF RowInv, HelloInv
\* What is to be shown of each kind of frame.
<1> DEFINE Kinds == /\ link' \in Accounts /\ pending' \in 0..MaxCodes
                    /\ told' \in Nat /\ told' <= version /\ welcomed' \in BOOLEAN
                    /\ up' \in [Sockets -> Seq(UpFrames)]
<1>5. ASSUME Kinds, version = 0 => link' = NoUser, welcomed' => cur \in hello, Agreement'
      PROVE  LinkInv' /\ CommandsExist'
  <2>1. LinkKinds'
    BY <1>1, <1>2, <1>4, <1>5 DEF LinkKinds
  <2>2. RowInv'
    BY <1>1, <1>2, <1>4, <1>5, Before, RowKept DEF RowMoves
  <2>3. HelloInv'
    BY <1>1, <1>2, <1>4, <1>5 DEF HelloInv
  <2>4. CommandsExist'
    BY <1>1, <1>2, <1>4 DEF CommandsExist
  <2> QED
    BY <1>5, <2>1, <2>2, <2>3, <2>4 DEF LinkInv
<1>6. CASE f.type = "welcome"
  <2>1. welcomed' = TRUE /\ told' = f.of /\ Reconcile(f.user)
    BY <1>6 DEF RuntimeReceives
  <2>2. cur \in Sockets /\ up[cur] \in Seq(UpFrames)
    BY <1>1, <1>4, <1>6
  <2>3. f.of \in Nat /\ f.user \in Accounts /\ Faithful(f.of, f.user)
    BY <1>3, <1>4, <1>6, FrameFields DEF FrameFaithful
  <2> DEFINE disown == IF f.user \notin {NoUser, link} THEN <<RevokeFrame>> ELSE <<>>
             offer == IF link = NoUser /\ Pending # 0 THEN <<OfferFrame(Pending)>> ELSE <<>>
  <2>4. disown \in Seq(UpFrames) /\ offer \in Seq(UpFrames)
    <3>1. RevokeFrame \in UpFrames /\ OfferFrame(Pending) \in UpFrames
      BY <1>1, RowsOfTheRuntime, TelegramConstants DEF RevokeFrame, OfferFrame, UpFrames
    <3> QED
      BY <3>1
  <2>5. /\ up' = [up EXCEPT ![cur] = (up[cur] \o disown) \o offer]
        /\ IF link \notin {NoUser, f.user} THEN Unpair ELSE UNCHANGED <<link, pending>>
    BY <2>1 DEF Reconcile
  <2> HIDE DEF disown, offer
  <2>6. /\ up[cur] \o disown \in Seq(UpFrames)
        /\ (up[cur] \o disown) \o offer \in Seq(UpFrames)
        /\ Elements(disown) \subseteq Elements((up[cur] \o disown) \o offer)
    <3>1. /\ up[cur] \o disown \in Seq(UpFrames)
          /\ Elements(disown) \subseteq Elements(up[cur] \o disown)
      BY <2>2, <2>4, ElementsOfConcat
    <3>2. /\ (up[cur] \o disown) \o offer \in Seq(UpFrames)
          /\ Elements(up[cur] \o disown) \subseteq Elements((up[cur] \o disown) \o offer)
      BY <2>4, <3>1, ElementsOfConcat
    <3> QED
      BY <3>1, <3>2
  <2>7. Kinds
    <3>1. link' \in Accounts /\ pending' \in 0..MaxCodes
      BY <1>1, <2>5, RowsOfTheRuntime DEF LinkKinds
    <3>2. up' \in [Sockets -> Seq(UpFrames)]
      BY <1>1, <2>5, <2>6
    <3> QED
      BY <2>1, <2>3, <3>1, <3>2 DEF Faithful
  <2>8. version = 0 => link' = NoUser
    BY <1>1, <2>5 DEF RowInv, Unpair
  <2>9. Agreement'
    <3>1. SUFFICES ASSUME f.of = version
                   PROVE  ((link' = NoUser) <=> (gwLink = NoUser)) \/ RevokeUnderWay'
      BY <1>2, <2>1 DEF Agreement
    <3>2. f.user = gwLink
      BY <2>3, <3>1 DEF Faithful
    <3>3. CASE f.user \in {NoUser, link}
      BY <2>5, <3>2, <3>3 DEF Unpair
    <3>4. CASE f.user \notin {NoUser, link}
      <4>1. RevokeFrame \in Elements(disown) /\ RevokeFrame.type = "revoke"
        BY <3>4, ElementsOfOne DEF disown, RevokeFrame
      <4>2. up'[cur'] = (up[cur] \o disown) \o offer
        BY <1>1, <1>2, <2>2, <2>5
      <4> QED
        BY <2>6, <4>1, <4>2 DEF RevokeUnderWay
    <3> QED
      BY <3>3, <3>4
  <2> QED
    BY <1>4, <1>5, <1>6, <2>7, <2>8, <2>9
<1>7. CASE f.type \in {"paired", "unpaired"}
  <2>1. /\ welcomed' = welcomed /\ up' = up /\ told' = f.of
        /\ f.type = "paired" => ConfirmFromGateway(f.user)
        /\ f.type = "unpaired" => Unpair
    BY <1>7 DEF RuntimeReceives
  <2>2. /\ f.of \in Nat /\ Faithful(f.of, f.user)
        /\ f.type = "paired" => f.user \in Users
        /\ f.type = "unpaired" => f.user = NoUser
    BY <1>3, <1>4, <1>7, FrameFields DEF FrameFaithful
  <2>3. Kinds
    BY <1>1, <1>7, <2>1, <2>2, RowsOfTheRuntime
    DEF LinkKinds, ConfirmFromGateway, Faithful
  <2>4. version = 0 => link' = NoUser
    BY <1>1, <1>7, <2>1, <2>2, TelegramConstants DEF RowInv, Faithful, Unpair
  <2>5. Agreement'
    BY <1>1, <1>2, <1>7, <2>1, <2>2, RowsOfTheRuntime, TelegramConstants
    DEF Agreement, Faithful, Unpair, ConfirmFromGateway
  <2> QED
    BY <1>1, <1>5, <2>1, <2>3, <2>4, <2>5 DEF HelloInv
<1>8. CASE f.type = "command"
  <2>1. UNCHANGED <<welcomed, up, told, link, pending>>
    BY <1>8 DEF RuntimeReceives, Handle, Refuse, PairCommand, Dispatch
  <2>2. Kinds
    BY <1>1, <2>1 DEF LinkKinds
  <2>3. Agreement'
    <3>1. RevokeUnderWay => RevokeUnderWay'
      BY <1>2, <2>1 DEF RevokeUnderWay
    <3> QED
      BY <1>1, <1>2, <2>1, <3>1, AgreementKept
  <2> QED
    BY <1>1, <1>5, <2>1, <2>2, <2>3 DEF HelloInv, RowInv
<1> QED
  BY <1>6, <1>7, <1>8 DEF RuntimeReceives

\* issuePairCode and unpair.
LEMMA KeepsOperator ==
    ASSUME AllInv, Operator
    PROVE  LinkInv' /\ CommandsExist'
<1>1. /\ LinkKinds /\ RowInv /\ HelloInv /\ Agreement /\ CommandsExist
      /\ up \in [Sockets -> Seq(UpFrames)] /\ (welcomed => cur \in Sockets)
  BY Before
<1>2. UNCHANGED <<updates, gwLink, version, hook, cur, opened, gwOpen, hello, welcomed, down,
                  tasks, told>>
  BY DEF Operator, rowVars
<1>3. PICK frame \in UpFrames :
         /\ Push(<<frame>>)
         /\ issued' \in 0..MaxCodes /\ pending' \in 0..MaxCodes /\ link' \in Accounts
         /\ link' = link \/ (link' = NoUser /\ frame.type = "revoke")
  <2>1. CASE Issue /\ Push(<<OfferFrame(issued + 1)>>)
    <3>1. issued + 1 \in 0..MaxCodes /\ link \in Accounts
      BY <1>1, <2>1, TelegramConstants DEF Issue, LinkKinds
    <3>2. OfferFrame(issued + 1) \in UpFrames
      BY <3>1 DEF OfferFrame, UpFrames
    <3> QED
      BY <2>1, <3>1, <3>2 DEF Issue
  <2>2. CASE Unpair /\ UNCHANGED issued /\ Push(<<RevokeFrame>>)
    <3>1. RevokeFrame \in UpFrames /\ RevokeFrame.type = "revoke"
      BY TelegramConstants DEF RevokeFrame, UpFrames
    <3> QED
      BY <1>1, <2>2, <3>1, RowsOfTheRuntime DEF LinkKinds, Unpair
  <2> QED
    BY <2>1, <2>2 DEF Operator
<1>4. /\ up' \in [Sockets -> Seq(UpFrames)]
      /\ welcomed => Elements(up[cur]) \cup {frame} \subseteq Elements(up'[cur])
  <2>1. CASE welcomed
    <3>1. up[cur] \in Seq(UpFrames) /\ <<frame>> \in Seq(UpFrames)
      BY <1>1, <2>1
    <3>2. /\ up[cur] \o <<frame>> \in Seq(UpFrames)
          /\ Elements(up[cur]) \cup Elements(<<frame>>) \subseteq Elements(up[cur] \o <<frame>>)
      BY <3>1, ElementsOfConcat
    <3>3. up' = [up EXCEPT ![cur] = up[cur] \o <<frame>>]
      BY <1>3, <2>1 DEF Push
    <3> QED
      BY <1>1, <2>1, <3>2, <3>3, ElementsOfOne
  <2>2. CASE ~welcomed
    BY <1>1, <1>3, <2>2 DEF Push
  <2> QED
    BY <2>1, <2>2
<1>5. LinkKinds'
  BY <1>1, <1>2, <1>3, <1>4 DEF LinkKinds
<1>6. RowInv' /\ HelloInv' /\ CommandsExist'
  BY <1>1, <1>2, <1>3
  DEF RowInv, FrameFaithful, TaskFaithful, Faithful, User, HelloInv, CommandsExist
<1>7. Agreement'
  <2>1. CASE link' = link
    <3>1. welcomed /\ RevokeUnderWay => RevokeUnderWay'
      BY <1>2, <1>4 DEF RevokeUnderWay
    <3> QED
      BY <1>1, <1>2, <2>1, <3>1, AgreementKept
  <2>2. CASE frame.type = "revoke"
    BY <1>2, <1>4, <2>2 DEF Agreement, RevokeUnderWay
  <2> QED
    BY <1>3, <2>1, <2>2
<1> QED
  BY <1>5, <1>6, <1>7 DEF LinkInv

\* Steps of others: messages sent, codes that expire, the rows nothing here compares.
LEMMA KeepsTheRest ==
    ASSUME AllInv,
           UNCHANGED <<link, pending, issued, gwLink, version, told, hook, cur, opened, gwOpen,
                       hello, welcomed, up, down, tasks>>,
           UserSends \/ updates' = updates
    PROVE  LinkInv' /\ CommandsExist'
<1>1. /\ LinkKinds /\ RowInv /\ HelloInv /\ Agreement /\ CommandsExist
      /\ Len(updates) \in Nat /\ Len(updates) <= MaxUpdates /\ MaxUpdates \in Nat
  BY Before
<1>2. /\ Len(updates') \in Nat /\ Len(updates) <= Len(updates')
      /\ \A i \in 1..Len(updates) : updates'[i] = updates[i]
      /\ Len(updates') <= MaxUpdates
  <2>1. CASE updates' = updates
    BY <1>1, <2>1
  <2>2. CASE UserSends
    <3>1. PICK m \in Messages : updates' = Append(updates, m)
      BY <2>2 DEF UserSends
    <3>2. updates \in Seq(Messages) /\ Len(updates) < MaxUpdates
      BY <2>2 DEF AllInv, RouterInv, RouterTypes, UserSends
    <3> QED
      BY <1>1, <3>1, <3>2
  <2> QED
    BY <2>1, <2>2
<1>3. LinkKinds' /\ HelloInv'
  BY <1>1 DEF LinkKinds, HelloInv
<1>4. Agreement'
  BY <1>1 DEF Agreement, RevokeUnderWay
<1>5. CommandsExist'
  BY <1>1, <1>2 DEF CommandsExist
<1>6. RowInv'
  <2>1. version' = 0 => link' = NoUser
    BY <1>1 DEF RowInv
  <2>2. \A i \in 1..Len(updates') : hook'[i].at = "linked" =>
           i \in 1..Len(updates) /\ hook'[i] = hook[i] /\ updates'[i] = updates[i]
    BY <1>1, <1>2 DEF CommandsExist
  <2> QED
    BY <1>1, <2>1, <2>2, RowKept DEF RowMoves
<1> QED
  BY <1>3, <1>4, <1>5, <1>6 DEF LinkInv

\* The router under the link: only a command moves it.
LEMMA RouterUnderLink ==
    ASSUME AllInv, [LinkNext]_<<runtimeVars, linkVars>>
    PROVE  RouterInv' /\ EffectStep
<1>1. RouterInv
  BY DEF AllInv
<1>2. CASE UNCHANGED <<updates, effects, engaged, cursor, challenge>>
  BY <1>1, <1>2, RouterRests
<1>3. CASE RuntimeReceives
  <2>1. CASE Head(down).type = "command"
    <3>1. Head(down) \in Elements(down)
      BY <1>3, Before, ElementsOfTail DEF RuntimeReceives
    <3>2. Head(down).update \in 1..Len(updates)
      BY <2>1, <3>1, Before DEF CommandsExist
    <3>3. Handle(Head(down).update, FALSE)
      BY <1>3, <2>1 DEF RuntimeReceives
    <3> QED
      BY <1>1, <3>2, <3>3, RouterHandles
  <2>2. CASE Head(down).type # "command"
    BY <1>2, <1>3, <2>2 DEF RuntimeReceives, NoEffect
  <2> QED
    BY <2>1, <2>2
<1>4. CASE Operator
  BY <1>2, <1>4 DEF Operator, NoEffect
<1>5. CASE UserSends
  BY <1>1, <1>5, RouterSends
<1>6. CASE CodeExpires \/ ClearStop \/ ForgetChallenge
  BY <1>1, <1>6, RouterRests DEF CodeExpires, ClearStop, ForgetChallenge
<1>7. CASE UNCHANGED runtimeVars
  BY <1>2, <1>7 DEF runtimeVars
<1> QED
  BY <1>3, <1>4, <1>5, <1>6, <1>7
  DEF LinkNext, HubReceives, HubCloses, LoseUp, HubQuery, HubSends, HubFails, HookStep,
      PairsElsewhere, PurgeStale, Connect, Disconnect

\* The invariant is inductive.
LEMMA StepKeepsLink ==
    ASSUME AllInv, [LinkNext]_<<runtimeVars, linkVars>>
    PROVE  AllInv'
<1>1. LinkInv' /\ CommandsExist'
  <2>1. CASE \E s \in Sockets : HubReceives(s) \/ HubCloses(s) \/ LoseUp(s)
    BY <2>1, KeepsHubReceives, KeepsLosses
  <2>2. CASE \E t \in tasks : HubQuery(t) \/ HubSends(t) \/ HubFails(t)
    BY <2>2, KeepsHubQuery, KeepsHubSends, KeepsHubFails
  <2>3. CASE HookStep \/ PairsElsewhere
    BY <2>3, KeepsHookStep, KeepsPairsElsewhere
  <2>4. CASE PurgeStale
    BY <2>4, KeepsTheRest DEF PurgeStale, socketVars, runtimeVars
  <2>5. CASE Connect \/ Disconnect \/ RuntimeReceives \/ Operator
    BY <2>5, KeepsConnections, KeepsRuntimeReceives, KeepsOperator
  <2>6. CASE (UserSends \/ CodeExpires \/ ClearStop \/ ForgetChallenge) /\ UNCHANGED linkVars
    BY <2>6, KeepsTheRest
    DEF UserSends, CodeExpires, ClearStop, ForgetChallenge, linkVars, rowVars, socketVars
  <2>7. CASE UNCHANGED <<runtimeVars, linkVars>>
    BY <2>7, KeepsTheRest DEF runtimeVars, linkVars, rowVars, socketVars
  <2> QED
    BY <2>1, <2>2, <2>3, <2>4, <2>5, <2>6, <2>7 DEF LinkNext
<1> QED
  BY <1>1, RouterUnderLink DEF AllInv

(* Over the gateway's socket, when nothing is under way and the last frame the       *)
(* runtime handled was made from the row as it is, the two sides agree whether the    *)
(* runtime is linked. (service.ts #reconcile, onPaired, onUnpaired; hub.ts pair.revoke.) *)
THEOREM LinkSidesAgree == LinkSpec => []SidesAgree
<1>1. RuntimeInit /\ LinkInit => AllInv
  BY InitLink
<1>2. AllInv /\ [LinkNext]_<<runtimeVars, linkVars>> => AllInv'
  BY StepKeepsLink
<1>3. AllInv => SidesAgree
  <2> SUFFICES ASSUME AllInv, Settled, told = version
               PROVE  (link = NoUser) <=> (gwLink = NoUser)
    BY DEF SidesAgree
  <2>1. Agreement /\ Elements(<<>>) = {}
    BY Before DEF Elements
  <2> QED
    BY <2>1 DEF Agreement, Settled, RevokeUnderWay
<1> QED
  BY <1>1, <1>2, <1>3, PTL DEF LinkSpec

(* Over the gateway's socket each CONFIRM that engaged the stop answers an /emergency *)
(* of its own account that no earlier CONFIRM of the account answered, whatever is     *)
(* lost, delayed or delivered twice. (commands.ts #emergency.)                          *)
THEOREM LinkStopTakesTwo == LinkSpec => []StopTakesTwo
<1>1. RuntimeInit /\ LinkInit => AllInv
  BY InitLink
<1>2. AllInv /\ [LinkNext]_<<runtimeVars, linkVars>> => AllInv'
  BY StepKeepsLink
<1>3. AllInv => StopTakesTwo
  BY DEF AllInv, RouterInv
<1> QED
  BY <1>1, <1>2, <1>3, PTL DEF LinkSpec

(* Over the gateway's socket an update takes effect at most once, and never after a   *)
(* later one of its chat: the cursor is written before the effect.                     *)
(* (commands.ts handle.)                                                                *)
THEOREM LinkEffectsAdvance == LinkSpec => EffectsAdvance
<1>1. RuntimeInit /\ LinkInit => AllInv
  BY InitLink
<1>2. AllInv /\ [LinkNext]_<<runtimeVars, linkVars>> => AllInv'
  BY StepKeepsLink
<1>3. AllInv /\ [LinkNext]_<<runtimeVars, linkVars>> => [EffectStep]_effects
  BY RouterUnderLink
<1>4. EffectsAdvance <=> [][EffectStep]_effects
  BY DEF EffectsAdvance, EffectStep
<1> QED
  BY <1>1, <1>2, <1>3, <1>4, PTL DEF LinkSpec

-----------------------------------------------------------------------------
(* The direct transport.                                                   *)

\* The router, and a poll offset that is a number from 1 on.
PollInv == RouterInv /\ offset \in Nat \ {0}

\* A step of the direct transport: the update under the offset, or none.
LEMMA StepKeepsPoll ==
    ASSUME PollInv, [DirectNext]_<<runtimeVars, directVars>>
    PROVE  PollInv' /\ EffectStep
<1>1. RouterInv /\ offset \in Nat \ {0} /\ Len(updates) \in Nat
  BY DEF PollInv, RouterInv, RouterTypes
<1>2. offset' \in Nat \ {0}
  <2>1. offset' = offset \/ offset' = offset + 1
    BY DEF DirectNext, HandleUpdate, SaveOffset, OperatorDirect, Die, directVars
  <2> QED
    BY <1>1, <2>1
<1>3. RouterInv' /\ EffectStep
  <2>1. CASE HandleUpdate
    <3>1. offset <= Len(updates) /\ Handle(offset, TRUE)
      BY <2>1 DEF HandleUpdate
    <3>2. offset \in 1..Len(updates)
      BY <1>1, <3>1
    <3> QED
      BY <1>1, <3>1, <3>2, RouterHandles
  <2>2. CASE SaveOffset \/ UNCHANGED runtimeVars
    BY <1>1, <2>2, RouterRests DEF SaveOffset, runtimeVars
  <2>3. CASE OperatorDirect \/ Die
    BY <1>1, <2>3, RouterRests DEF OperatorDirect, Die
  <2>4. CASE UserSends
    BY <1>1, <2>4, RouterSends
  <2>5. CASE CodeExpires \/ ClearStop \/ ForgetChallenge
    BY <1>1, <2>5, RouterRests DEF CodeExpires, ClearStop, ForgetChallenge
  <2> QED
    BY <2>1, <2>2, <2>3, <2>4, <2>5 DEF DirectNext
<1> QED
  BY <1>2, <1>3 DEF PollInv

\* The poll starts at the first update.
LEMMA InitPoll == RuntimeInit /\ DirectInit => PollInv
  BY InitRouter DEF PollInv, DirectInit

(* The same when the runtime polls Telegram itself and may die between handling an    *)
(* update and saving its offset. (commands.ts #emergency; transport.ts                 *)
(* DirectBotTransport.)                                                                 *)
THEOREM DirectStopTakesTwo == DirectSpec => []StopTakesTwo
<1>1. RuntimeInit /\ DirectInit => PollInv
  BY InitPoll
<1>2. PollInv /\ [DirectNext]_<<runtimeVars, directVars>> => PollInv'
  BY StepKeepsPoll
<1>3. PollInv => StopTakesTwo
  BY DEF PollInv, RouterInv
<1> QED
  BY <1>1, <1>2, <1>3, PTL DEF DirectSpec

(* An update the poll is given again after a death takes no effect again.             *)
(* (commands.ts handle; transport.ts DirectBotTransport.)                               *)
THEOREM DirectEffectsAdvance == DirectSpec => EffectsAdvance
<1>1. RuntimeInit /\ DirectInit => PollInv
  BY InitPoll
<1>2. PollInv /\ [DirectNext]_<<runtimeVars, directVars>> => PollInv'
  BY StepKeepsPoll
<1>3. PollInv /\ [DirectNext]_<<runtimeVars, directVars>> => [EffectStep]_effects
  BY StepKeepsPoll
<1>4. EffectsAdvance <=> [][EffectStep]_effects
  BY DEF EffectsAdvance, EffectStep
<1> QED
  BY <1>1, <1>2, <1>3, <1>4, PTL DEF DirectSpec

-----------------------------------------------------------------------------
(* The gateway: quotas.                                                    *)


\* Where a request is, and what the counters have to say of those that were admitted.
Stations == {"idle", "sent", "refused", "checked", "limited", "admitted", "asked",
             "served", "failed"}

Admitted(d, i, k) == {r \in Requests :
                         req[r].admitted = d /\ req[r].kind = k /\ Install(r) = i}

\* A request is counted on the day it was told, which is today or was yesterday.
RequestPlaces ==
    /\ day \in Nat
    /\ DOMAIN req = Requests
    /\ \A r \in Requests :
          /\ DOMAIN req[r] = DOMAIN NoRequest
          /\ req[r].at \in Stations
          /\ req[r].at # "idle" /\ req[r].at # "refused" =>
                req[r].kind \in RequestKinds /\ req[r].token \in Tokens
          /\ req[r].admitted # Absent =>
                req[r].at \in {"admitted", "asked", "served", "failed"}
          /\ req[r].at \in {"checked", "limited"} =>
                req[r].now \in Nat /\ req[r].now <= day /\ day <= req[r].now + 1

UsageCounts ==
    /\ \A x \in DOMAIN usage : usage[x] \in [used : Nat, rejected : Nat]
    /\ \A d \in Nat, i \in Installs, k \in RequestKinds :
          /\ Cardinality(Admitted(d, i, k)) <= Cap[k]
          /\ day <= d + Retention =>
                Cardinality(Admitted(d, i, k)) <= UsageOf(d, i, k).used
Fields == DOMAIN NoRequest

\* What the counters see of a request does not change.
SameCount(q) ==
    \/ /\ req'[q].admitted = req[q].admitted
       /\ req'[q].kind = req[q].kind /\ req'[q].token = req[q].token
    \/ req'[q].admitted = Absent /\ req[q].admitted = Absent

\* The records a request starts and may end as.
LEMMA RequestFields ==
    /\ Fields = {"at", "kind", "token", "body", "now", "admitted", "cached", "answer"}
    /\ NoRequest.at = "idle" /\ NoRequest.admitted = Absent /\ NoRequest.now = 0
    /\ DOMAIN Refused = Fields /\ Refused.at = "refused" /\ Refused.admitted = Absent
  BY DEF Fields, NoRequest, Refused

\* At the start nothing is counted and nothing admitted.
LEMMA InitGateway == GatewayInit => RequestPlaces /\ UsageCounts
<1> SUFFICES ASSUME GatewayInit PROVE RequestPlaces /\ UsageCounts
  OBVIOUS
<1> USE GatewayConstants, RequestFields DEF GatewayInit
<1>1. RequestPlaces
  BY DEF RequestPlaces, Stations, Fields
<1>2. \A d \in Nat, i \in Installs, k \in RequestKinds : Admitted(d, i, k) = {}
  BY DEF Admitted
<1>3. DOMAIN usage = {} /\ Cardinality({}) = 0 /\ \A k \in RequestKinds : Cap[k] \in Nat
  BY FS_EmptySet
<1>4. \A d \in Nat, i \in Installs, k \in RequestKinds : UsageOf(d, i, k).used = 0
  BY <1>3 DEF UsageOf
<1> HIDE DEF GatewayInit
<1>5. \A d \in Nat, i \in Installs, k \in RequestKinds :
         /\ Cardinality(Admitted(d, i, k)) <= Cap[k]
         /\ Cardinality(Admitted(d, i, k)) <= UsageOf(d, i, k).used
  <2> SUFFICES ASSUME NEW d \in Nat, NEW i \in Installs, NEW k \in RequestKinds
               PROVE  /\ Cardinality(Admitted(d, i, k)) <= Cap[k]
                      /\ Cardinality(Admitted(d, i, k)) <= UsageOf(d, i, k).used
    OBVIOUS
  <2>1. Cardinality(Admitted(d, i, k)) = 0
    BY <1>2, <1>3
  <2> QED
    BY <2>1, <1>3, <1>4
<1>6. UsageCounts
  BY <1>3, <1>5 DEF UsageCounts
<1> QED
  BY <1>1, <1>6

\* One request moves.
LEMMA OneMoves ==
    ASSUME RequestPlaces, NEW r \in Requests, NEW x, req' = [req EXCEPT ![r] = x], day' = day,
           DOMAIN x = Fields, x.at \in Stations,
           x.at # "idle" /\ x.at # "refused" => x.kind \in RequestKinds /\ x.token \in Tokens,
           x.admitted # Absent => x.at \in {"admitted", "asked", "served", "failed"},
           x.at \in {"checked", "limited"} => x.now \in Nat /\ x.now <= day /\ day <= x.now + 1
    PROVE  RequestPlaces'
<1>1. /\ DOMAIN req' = Requests
      /\ \A q \in Requests : req'[q] = IF q = r THEN x ELSE req[q]
  BY DEF RequestPlaces
<1> QED
  BY <1>1 DEF RequestPlaces, Fields

\* A request that moves and keeps its count leaves every other request's alone.
LEMMA OthersKeepTheirCount ==
    ASSUME RequestPlaces, NEW r \in Requests, NEW x, req' = [req EXCEPT ![r] = x],
           \/ x.admitted = req[r].admitted /\ x.kind = req[r].kind /\ x.token = req[r].token
           \/ x.admitted = Absent /\ req[r].admitted = Absent
    PROVE  \A q \in Requests : SameCount(q)
  BY DEF RequestPlaces, SameCount

\* The steps in which a request moves and is not counted.
Moves(r) ==
    \/ \E k \in RequestKinds, t \in Tokens : Arrive(r, k, t)
    \/ Authenticate(r) \/ Burst(r) \/ UpgradeBurst(r)
    \/ Accept(r) \/ Look(r) \/ RpcAnswers(r) \/ MarketAnswers(r) \/ InferenceAnswers(r)
    \/ RpcFails(r) \/ MarketFails(r) \/ InferenceFails(r)

\* Such a step keeps every request in its place, and every count.
LEMMA MovesKeepCounts ==
    ASSUME RequestPlaces, NEW r \in Requests, Moves(r)
    PROVE  /\ RequestPlaces' /\ (\A q \in Requests : SameCount(q))
           /\ UNCHANGED <<day, usage>>
<1> USE RequestFields
<1>1. /\ DOMAIN req[r] = Fields /\ day \in Nat
      /\ req[r].at \in Stations
      /\ req[r].at # "idle" /\ req[r].at # "refused" =>
            req[r].kind \in RequestKinds /\ req[r].token \in Tokens
      /\ req[r].admitted # Absent => req[r].at \in {"admitted", "asked", "served", "failed"}
      /\ req[r].at \in {"checked", "limited"} =>
            req[r].now \in Nat /\ req[r].now <= day /\ day <= req[r].now + 1
  BY DEF RequestPlaces, Fields
<1>2. UNCHANGED <<day, usage>>
  BY DEF Moves, Arrive, Authenticate, Burst, UpgradeBurst, Allow, Accept, Look, RpcAnswers,
         MarketAnswers, InferenceAnswers, RpcFails, MarketFails, InferenceFails, Fails
<1> DEFINE New(x) ==
        /\ req' = [req EXCEPT ![r] = x]
        /\ DOMAIN x = Fields /\ x.at \in Stations
        /\ x.at # "idle" /\ x.at # "refused" => x.kind \in RequestKinds /\ x.token \in Tokens
        /\ x.admitted # Absent => x.at \in {"admitted", "asked", "served", "failed"}
        /\ x.at \in {"checked", "limited"} => x.now \in Nat /\ x.now <= day /\ day <= x.now + 1
        /\ \/ x.admitted = req[r].admitted /\ x.kind = req[r].kind /\ x.token = req[r].token
           \/ x.admitted = Absent /\ req[r].admitted = Absent
<1>3. \E x : New(x)
  <2>1. ASSUME NEW k \in RequestKinds, NEW t \in Tokens, Arrive(r, k, t) PROVE \E x : New(x)
    <3>1. PICK body \in Bodies(k) :
             req' = [req EXCEPT ![r] = [NoRequest EXCEPT !.at = "sent", !.kind = k,
                                                         !.token = t, !.body = body]]
      BY <2>1 DEF Arrive
    <3> DEFINE x == [NoRequest EXCEPT !.at = "sent", !.kind = k, !.token = t, !.body = body]
    <3>2. /\ DOMAIN x = Fields /\ x.at = "sent" /\ x.kind = k /\ x.token = t /\ x.admitted = Absent
      BY DEF Fields
    <3>3. req[r].admitted = Absent
      BY <1>1, <2>1 DEF Arrive
    <3>4. New(x)
      BY <3>1, <3>2, <3>3 DEF Stations
    <3> QED
      BY <3>4
  <2>2. CASE Authenticate(r)
    <3> DEFINE x == IF Authentic(req[r].token, req[r].kind) /\ Valid(req[r].kind, req[r].body)
                    THEN [req[r] EXCEPT !.at = "checked", !.now = day] ELSE Refused
    <3>1. req' = [req EXCEPT ![r] = x] /\ req[r].at = "sent"
      BY <2>2 DEF Authenticate
    <3> DEFINE y == [req[r] EXCEPT !.at = "checked", !.now = day]
    <3>2. /\ DOMAIN y = Fields /\ y.at = "checked" /\ y.kind = req[r].kind
          /\ y.token = req[r].token /\ y.admitted = req[r].admitted /\ y.now = day
      BY <1>1
    <3>3. \/ req' = [req EXCEPT ![r] = y]
          \/ req' = [req EXCEPT ![r] = Refused]
      BY <3>1
    <3> HIDE DEF x, y
    <3>4. New(y) \/ New(Refused)
      BY <1>1, <3>1, <3>2, <3>3 DEF Stations
    <3> QED
      BY <3>4
  <2>3. CASE Burst(r) \/ UpgradeBurst(r)
    <3>1. PICK now \in Nat :
             /\ req[r].at = "checked" /\ now <= day /\ day <= now + 1
             /\ \/ req' = [req EXCEPT ![r].at = "limited", ![r].now = now]
                \/ req' = [req EXCEPT ![r] = Refused]
      BY <1>1, <2>3 DEF Burst, UpgradeBurst, Allow
    <3>2. New([req[r] EXCEPT !.at = "limited", !.now = now]) \/ New(Refused)
      BY <1>1, <3>1 DEF Stations
    <3> QED
      BY <3>2
  <2>4. CASE Accept(r)
    <3>1. New([req[r] EXCEPT !.at = "served"])
      BY <1>1, <2>4 DEF Accept, Stations
    <3> QED
      BY <3>1
  <2>5. CASE Look(r)
    <3>1. \/ New([req[r] EXCEPT !.at = "served", !.cached = TRUE, !.answer = FromStore(r)])
          \/ New([req[r] EXCEPT !.at = "asked"])
      BY <1>1, <2>5 DEF Look, Stations
    <3> QED
      BY <3>1
  <2>6. CASE RpcAnswers(r)
    <3>1. PICK answer : req' = [req EXCEPT ![r].at = "served", ![r].answer = answer]
      BY <2>6 DEF RpcAnswers
    <3>2. New([req[r] EXCEPT !.at = "served", !.answer = answer])
      BY <1>1, <2>6, <3>1 DEF RpcAnswers, Stations
    <3> QED
      BY <3>2
  <2>7. CASE MarketAnswers(r)
    <3>1. PICK answer : req' = [req EXCEPT ![r].at = "served", ![r].answer = answer]
      BY <2>7 DEF MarketAnswers
    <3>2. New([req[r] EXCEPT !.at = "served", !.answer = answer])
      BY <1>1, <2>7, <3>1 DEF MarketAnswers, Stations
    <3> QED
      BY <3>2
  <2>8. CASE InferenceAnswers(r)
    <3>1. New([req[r] EXCEPT !.at = "served"])
      BY <1>1, <2>8 DEF InferenceAnswers, Stations
    <3> QED
      BY <3>1
  <2>9. CASE RpcFails(r) \/ MarketFails(r) \/ InferenceFails(r)
    <3>1. New([req[r] EXCEPT !.at = "failed"])
      BY <1>1, <2>9 DEF RpcFails, MarketFails, InferenceFails, Fails, Stations
    <3> QED
      BY <3>1
  <2> QED
    BY <2>1, <2>2, <2>3, <2>4, <2>5, <2>6, <2>7, <2>8, <2>9 DEF Moves
<1>4. PICK x : New(x)
  BY <1>3
<1>5. RequestPlaces'
  BY <1>2, <1>4, OneMoves
<1>6. \A q \in Requests : SameCount(q)
  BY <1>4, OthersKeepTheirCount
<1> QED
  BY <1>2, <1>5, <1>6

\* Then the same requests are admitted, whatever is asked for,
LEMMA SameAdmitted ==
    ASSUME \A q \in Requests : SameCount(q), NEW d \in Nat, NEW i, NEW k
    PROVE  Admitted(d, i, k)' = Admitted(d, i, k)
<1>1. \A q \in Requests :
         (req'[q].admitted = d /\ req'[q].kind = k /\ InstallOf[req'[q].token] = i)
         <=> (req[q].admitted = d /\ req[q].kind = k /\ InstallOf[req[q].token] = i)
  BY GatewayConstants DEF SameCount
<1> QED
  BY <1>1 DEF Admitted, Install

\* and the counters say as much of them as before.
LEMMA SameCounts ==
    ASSUME UsageCounts, \A q \in Requests : SameCount(q), UNCHANGED <<day, usage>>
    PROVE  UsageCounts'
<1>1. \A d \in Nat, i \in Installs, k \in RequestKinds : Admitted(d, i, k)' = Admitted(d, i, k)
  BY SameAdmitted
<1> QED
  BY <1>1 DEF UsageCounts, UsageOf, Installs

\* They are finitely many.
LEMMA AdmittedIsFinite ==
    ASSUME NEW d, NEW i, NEW k
    PROVE  /\ IsFiniteSet(Admitted(d, i, k))
           /\ Cardinality(Admitted(d, i, k)) \in Nat
<1>1. Admitted(d, i, k) \in SUBSET Requests
  BY DEF Admitted
<1> QED
  BY <1>1, GatewayConstants, FS_Subset, FS_CardinalityType

\* consumeQuota: whoever is admitted is counted, on the day it was told.
LEMMA SpendCounts ==
    ASSUME RequestPlaces, UsageCounts, NEW r \in Requests, Spend(r)
    PROVE  RequestPlaces' /\ UsageCounts'
<1> USE RequestFields, GatewayConstants
<1>1. /\ DOMAIN req = Requests /\ DOMAIN req[r] = Fields /\ day \in Nat /\ day' = day
      /\ req[r].at = "limited" /\ req[r].kind \in RequestKinds /\ Install(r) \in Installs
      /\ req[r].admitted = Absent /\ req[r].token \in Tokens
      /\ req[r].now \in Nat /\ req[r].now <= day /\ day <= req[r].now + 1
  BY DEF RequestPlaces, Fields, Spend, Install, Installs
<1>2. PICK d, k, i, allowed, row :
         /\ d \in Nat /\ k \in RequestKinds /\ i \in Installs /\ allowed \in BOOLEAN
         /\ d = req[r].now /\ k = req[r].kind /\ i = Install(r)
         /\ (allowed <=> Allowed(d, i, k)) /\ row = UsageOf(d, i, k)
  BY <1>1 DEF Allowed
<1> DEFINE next == IF allowed THEN [row EXCEPT !.used = @ + 1]
                   ELSE [row EXCEPT !.rejected = @ + 1]
<1>3. /\ row \in [used : Nat, rejected : Nat] /\ Cap[k] \in Nat
      /\ next \in [used : Nat, rejected : Nat]
      /\ allowed => row.used < Cap[k] /\ next.used = row.used + 1
      /\ ~allowed => next.used = row.used
  <2>1. row \in [used : Nat, rejected : Nat] /\ Cap[k] \in Nat
    BY <1>2 DEF UsageOf, UsageCounts
  <2> QED
    BY <1>2, <2>1 DEF Allowed
<1>4. /\ allowed => req' = [req EXCEPT ![r] = [@ EXCEPT !.at = "admitted", !.admitted = d]]
      /\ ~allowed => req' = [req EXCEPT ![r] = Refused]
      /\ usage' = [y \in DOMAIN usage \cup {<<d, i, k>>} |->
                      IF y = <<d, i, k>> THEN next ELSE usage[y]]
  BY <1>2 DEF Spend, ConsumeQuota
<1> HIDE DEF next
<1>5. RequestPlaces'
  <2>1. CASE allowed
    <3> DEFINE y == [req[r] EXCEPT !.at = "admitted", !.admitted = d]
    <3>1. /\ req' = [req EXCEPT ![r] = y]
          /\ DOMAIN y = Fields /\ y.at = "admitted" /\ y.kind = k /\ y.token = req[r].token
          /\ y.admitted = d
      BY <1>1, <1>2, <1>4, <2>1
    <3> HIDE DEF y
    <3> QED
      BY <1>1, <1>2, <3>1, OneMoves DEF Stations
  <2>2. CASE ~allowed
    <3>1. req' = [req EXCEPT ![r] = Refused]
      BY <1>4, <2>2
    <3> QED
      BY <1>1, <3>1, OneMoves DEF Stations
  <2> QED
    BY <2>1, <2>2
<1>6. \A q \in Requests \ {r} : req'[q] = req[q]
  BY <1>1, <1>4
<1>7. \A e \in Nat, j \in Installs, l \in RequestKinds :
         <<e, j, l>> # <<d, i, k>> =>
            /\ Admitted(e, j, l)' = Admitted(e, j, l)
            /\ UsageOf(e, j, l)' = UsageOf(e, j, l)
  <2> SUFFICES ASSUME NEW e \in Nat, NEW j \in Installs, NEW l \in RequestKinds,
                      <<e, j, l>> # <<d, i, k>>
               PROVE  /\ Admitted(e, j, l)' = Admitted(e, j, l)
                      /\ UsageOf(e, j, l)' = UsageOf(e, j, l)
    OBVIOUS
  <2>1. r \notin Admitted(e, j, l)
    BY <1>1 DEF Admitted
  <2>2. ~(req'[r].admitted = e /\ req'[r].kind = l /\ InstallOf[req'[r].token] = j)
    <3>1. CASE allowed
      <4>1. req'[r] = [req[r] EXCEPT !.at = "admitted", !.admitted = d]
        BY <1>1, <1>2, <1>4, <3>1
      <4>2. req'[r].admitted = d /\ req'[r].kind = k /\ req'[r].token = req[r].token
        BY <1>1, <1>2, <4>1
      <4> QED
        BY <1>2, <4>2 DEF Install
    <3>2. CASE ~allowed
      BY <1>1, <1>4, <3>2
    <3> QED
      BY <3>1, <3>2
  <2>3. Admitted(e, j, l)' = Admitted(e, j, l)
    BY <1>6, <2>1, <2>2 DEF Admitted, Install
  <2>4. UsageOf(e, j, l)' = UsageOf(e, j, l)
    BY <1>4 DEF UsageOf
  <2> QED
    BY <2>3, <2>4
<1>8. /\ Cardinality(Admitted(d, i, k)') <= Cap[k]
      /\ Cardinality(Admitted(d, i, k)') <= UsageOf(d, i, k)'.used
  <2> DEFINE A == Admitted(d, i, k)
  <2>1. /\ IsFiniteSet(A) /\ Cardinality(A) \in Nat /\ r \notin A
        /\ Cardinality(A) <= Cap[k] /\ Cardinality(A) <= row.used
    <3>1. IsFiniteSet(A) /\ Cardinality(A) \in Nat
      BY AdmittedIsFinite
    <3>2. day <= d + Retention
      BY <1>1, <1>2
    <3>3. r \notin A
      BY <1>1, <1>2 DEF Admitted
    <3> QED
      BY <1>2, <3>1, <3>2, <3>3 DEF UsageCounts
  <2>2. UsageOf(d, i, k)' = next
    BY <1>4 DEF UsageOf
  <2>3. CASE allowed
    <3>1. req'[r] = [req[r] EXCEPT !.at = "admitted", !.admitted = d]
      BY <1>1, <1>4, <2>3
    <3>2. req'[r].admitted = d /\ req'[r].kind = k /\ InstallOf[req'[r].token] = i
      BY <1>1, <1>2, <3>1 DEF Install
    <3>3. Admitted(d, i, k)' = A \cup {r}
      BY <1>6, <3>2 DEF Admitted, Install
    <3>4. Cardinality(A \cup {r}) = Cardinality(A) + 1
      BY <2>1, FS_AddElement
    <3> QED
      BY <1>2, <1>3, <2>1, <2>2, <2>3, <3>3, <3>4
  <2>4. CASE ~allowed
    <3>1. req'[r].admitted = Absent
      BY <1>1, <1>4, <2>4
    <3>2. Admitted(d, i, k)' = A
      BY <1>1, <1>2, <1>6, <2>1, <3>1 DEF Admitted, Install
    <3> QED
      BY <1>2, <1>3, <2>1, <2>2, <2>4, <3>2
  <2> QED
    BY <2>3, <2>4
<1>9. UsageCounts'
  <2>1. \A y \in DOMAIN usage' : usage'[y] \in [used : Nat, rejected : Nat]
    BY <1>3, <1>4 DEF UsageCounts
  <2>2. ASSUME NEW e \in Nat, NEW j \in Installs, NEW l \in RequestKinds
        PROVE  /\ Cardinality(Admitted(e, j, l)') <= Cap[l]
               /\ day <= e + Retention =>
                     Cardinality(Admitted(e, j, l)') <= UsageOf(e, j, l)'.used
    <3>1. CASE <<e, j, l>> = <<d, i, k>>
      BY <1>8, <3>1 DEF Admitted, UsageOf
    <3>2. CASE <<e, j, l>> # <<d, i, k>>
      BY <1>7, <3>2 DEF UsageCounts
    <3> QED
      BY <3>1, <3>2
  <2> QED
    BY <1>1, <2>1, <2>2 DEF UsageCounts, Installs
<1> QED
  BY <1>5, <1>9

\* The inductive invariant of the counters, kept by every step.
QuotaInv == RequestPlaces /\ UsageCounts

\* Housekeeping removes only counters of days on which nothing can be counted.
LEMMA PurgeKeepsQuota ==
    ASSUME QuotaInv, PurgeUsage
    PROVE  QuotaInv'
<1> USE DEF QuotaInv
<1>1. UNCHANGED <<day, req>>
  BY DEF PurgeUsage
<1>2. RequestPlaces'
  BY <1>1 DEF RequestPlaces
<1>3. day \in Nat
  BY DEF RequestPlaces
<1>4. \A d \in Nat, i \in Installs, k \in RequestKinds :
         day <= d + Retention => UsageOf(d, i, k)' = UsageOf(d, i, k)
  <2> SUFFICES ASSUME NEW d \in Nat, NEW i \in Installs, NEW k \in RequestKinds,
                      day <= d + Retention
               PROVE  UsageOf(d, i, k)' = UsageOf(d, i, k)
    OBVIOUS
  <2>1. <<d, i, k>>[1] >= day - Retention
    BY <1>3, GatewayConstants
  <2> QED
    BY <2>1 DEF PurgeUsage, UsageOf
<1>5. \A d \in Nat, i \in Installs, k \in RequestKinds :
         Admitted(d, i, k)' = Admitted(d, i, k)
  BY <1>1 DEF Admitted, Install
<1>6. \A y \in DOMAIN usage' : usage'[y] \in [used : Nat, rejected : Nat]
  BY DEF PurgeUsage, UsageCounts
<1> QED
  BY <1>1, <1>2, <1>4, <1>5, <1>6 DEF UsageCounts, Installs

\* Midnight waits for the requests that were told the day before.
LEMMA MidnightKeepsQuota ==
    ASSUME QuotaInv, NextDay
    PROVE  QuotaInv'
<1> USE DEF QuotaInv
<1>1. UNCHANGED <<req, usage>> /\ day \in Nat /\ day' = day + 1
  BY DEF NextDay, RequestPlaces
<1>2. RequestPlaces'
  BY <1>1, RequestFields DEF RequestPlaces, NextDay
<1>3. \A d \in Nat, i \in Installs, k \in RequestKinds :
         Admitted(d, i, k)' = Admitted(d, i, k) /\ UsageOf(d, i, k)' = UsageOf(d, i, k)
  BY <1>1 DEF Admitted, Install, UsageOf
<1>4. \A d \in Nat : day' <= d + Retention => day <= d + Retention
  BY <1>1, GatewayConstants
<1> QED
  BY <1>1, <1>2, <1>3, <1>4 DEF UsageCounts, Installs

\* Steps that leave the requests, the counters and the day alone.
LEMMA ElsewhereKeepsQuota ==
    ASSUME QuotaInv, UNCHANGED <<day, req, usage>>
    PROVE  QuotaInv'
  BY DEF QuotaInv, RequestPlaces, UsageCounts, Admitted, Install, Installs, UsageOf

\* The invariant is inductive.
LEMMA StepKeepsQuota == QuotaInv /\ [GatewayNext]_gatewayVars => QuotaInv'
<1> SUFFICES ASSUME QuotaInv, [GatewayNext]_gatewayVars PROVE QuotaInv'
  OBVIOUS
<1>1. CASE \E r \in Requests : Moves(r)
  BY <1>1, MovesKeepCounts, SameCounts DEF QuotaInv
<1>2. CASE \E r \in Requests : Spend(r)
  BY <1>2, SpendCounts DEF QuotaInv
<1>3. CASE PurgeUsage
  BY <1>3, PurgeKeepsQuota
<1>4. CASE NextDay
  BY <1>4, MidnightKeepsQuota
<1>5. CASE UNCHANGED <<day, req, usage>>
  BY <1>5, ElsewhereKeepsQuota
<1>6. CASE GatewayNext
  <2>1. CASE \E t \in Tokens : Mint(t)
    BY <1>5, <2>1 DEF Mint
  <2>2. CASE \E r \in Requests, k \in RequestKinds, t \in Tokens : Arrive(r, k, t)
    BY <1>1, <2>2 DEF Moves
  <2>3. CASE \E r \in Requests : Guard(r) \/ UpgradeQuota(r)
    BY <1>2, <2>3 DEF Guard, UpgradeQuota
  <2>4. CASE \E p \in puts : Put(p)
    BY <1>5, <2>4 DEF Put
  <2>5. CASE \E k \in DOMAIN cache : Expire(k)
    BY <1>5, <2>5 DEF Expire
  <2>6. CASE Revoke
    BY <1>5, <2>6 DEF Revoke
  <2> QED
    BY <1>1, <1>3, <1>4, <1>6, <2>1, <2>2, <2>3, <2>4, <2>5, <2>6 DEF GatewayNext, Moves
<1>7. CASE UNCHANGED gatewayVars
  BY <1>5, <1>7 DEF gatewayVars
<1> QED
  BY <1>6, <1>7

(* No installation is served more requests of a kind on one day than its quota, for *)
(* any number of requests and any retention of at least a day.                       *)
(* (hub.ts consumeQuota, purgeUsage; proxy.ts guardProxy.)                            *)
THEOREM QuotaIsKept == GatewaySpec => []QuotaHolds
<1>1. GatewayInit => QuotaInv
  BY InitGateway DEF QuotaInv
<1>2. QuotaInv => QuotaHolds
  <2>1. 0..MaxDay \subseteq Nat
    BY GatewayConstants
  <2> QED
    BY <2>1 DEF QuotaInv, UsageCounts, QuotaHolds, Admitted
<1> QED
  BY <1>1, <1>2, StepKeepsQuota, PTL DEF GatewaySpec

(* Of the sockets that were open when the rows were revoked none is left once the   *)
(* sockets are closed. (admin.ts revoke; hub.ts closeSockets.)                        *)
THEOREM RevokedSessionsEnd == GatewaySpec => []SessionsEnd
<1> DEFINE Inv == SessionsEnd /\ DOMAIN revoke = {"at", "install"}
<1>1. GatewayInit => Inv
  BY DEF GatewayInit, SessionsEnd
<1>2. Inv /\ [GatewayNext]_gatewayVars => Inv'
  <2> SUFFICES ASSUME Inv, [GatewayNext]_gatewayVars PROVE Inv'
    OBVIOUS
  <2>1. CASE UNCHANGED <<sock, revoke>>
    BY <2>1 DEF SessionsEnd
  <2>2. CASE \E r \in Requests : Accept(r)
    BY <2>2 DEF Accept, SessionsEnd
  <2>3. CASE Revoke
    <3>1. PICK i \in Installs : RevokeCounts(i) \/ RevokeStep(i)
      BY <2>3 DEF Revoke
    <3>2. CASE RevokeCounts(i)
      BY <3>2 DEF RevokeCounts, SessionsEnd
    <3>3. CASE RevokeStep(i)
      <4>1. /\ DOMAIN revoke' = {"at", "install"} /\ revoke'.install = i
            /\ \/ revoke'.at # "closed"
               \/ sock' = {s \in sock : s.install # i}
        BY <3>3 DEF RevokeStep, CloseSockets
      <4> QED
        BY <4>1 DEF SessionsEnd
    <3> QED
      BY <3>1, <3>2, <3>3
  <2>4. CASE GatewayNext
    BY <2>1, <2>2, <2>3, <2>4
    DEF GatewayNext, Mint, Arrive, Authenticate, Burst, UpgradeBurst, Allow, Guard,
        UpgradeQuota, Spend, Look, RpcAnswers, MarketAnswers, InferenceAnswers, RpcFails,
        MarketFails, InferenceFails, Fails, Put, Expire, PurgeUsage, NextDay
  <2> QED
    BY <2>1, <2>4 DEF gatewayVars
<1>3. Inv => SessionsEnd
  OBVIOUS
<1> QED
  BY <1>1, <1>2, <1>3, PTL DEF GatewaySpec

-----------------------------------------------------------------------------
(* The answers of the proxies.                                             *)

Ready == {"checked", "limited", "admitted", "asked", "served", "failed"}

\* Replies under the caller's own ids, each with what was said of that very call.
OwnReplies(calls, answer, cached) ==
    /\ Len(answer) = Len(calls)
    /\ \A n \in DOMAIN calls :
          /\ answer[n].id = calls[n].id
          /\ answer[n].value = NoResponse \/ answer[n].value.of = calls[n].call
          /\ cached => answer[n].value.what = "result"

\* A request as it may be found at any time.
FineRequest(x) ==
    /\ DOMAIN x = Fields
    /\ x.at = "sent" => x.kind \in RequestKinds /\ x.body \in Bodies(x.kind)
    /\ x.at \in Ready => /\ x.kind = "rpc" => x.body \in RpcBodies /\ ValidRpc(x.body)
                         /\ x.kind = "market" => x.body \in MarketQueries \ {Absent}
    /\ x.at \in Ready \cup {"sent"} => x.at = "served" \/ x.cached = FALSE
    /\ x.at = "served" /\ x.kind = "rpc" => OwnReplies(x.body.calls, x.answer, x.cached)
    /\ x.at = "served" /\ x.kind = "market" =>
          MarketAnswer(x.body, x.answer[1].value, x.cached)

\* What may be kept under a key: a result of that call, or what a query with that key
\* may yield, in whichever case it spelled the name.
FineEntry(key, value) ==
    /\ \A c \in Reads : key = <<"rpc", c>> => value.of = c /\ value.what = "result"
    /\ \A q \in MarketQueries \ {Absent} :
          key = MarketKey(q) => MarketAnswer(q, value, TRUE)

AnswerInv ==
    /\ DOMAIN req = Requests
    /\ \A r \in Requests : FineRequest(req[r])
    /\ \A key \in DOMAIN cache : FineEntry(key, cache[key])
    /\ \A p \in puts : FineEntry(p.key, p.value)

\* At the start nothing is kept and nothing served.
LEMMA InitAnswers == GatewayInit => AnswerInv
<1>1. FineRequest(NoRequest)
  BY RequestFields DEF FineRequest, Ready, Fields
<1> QED
  BY <1>1 DEF GatewayInit, AnswerInv

\* A refused request is fine.
LEMMA RefusedIsFine == FineRequest(Refused)
  BY RequestFields DEF FineRequest, Ready

\* One request moves, the cache and the puts stay fine.
LEMMA AnswerMoves ==
    ASSUME AnswerInv, NEW r \in Requests, NEW x, req' = [req EXCEPT ![r] = x],
           FineRequest(x), cache' = cache, \A p \in puts' : FineEntry(p.key, p.value)
    PROVE  AnswerInv'
<1>1. /\ DOMAIN req' = Requests
      /\ \A q \in Requests : req'[q] = IF q = r THEN x ELSE req[q]
  BY DEF AnswerInv
<1>2. \A q \in Requests : FineRequest(req[q])
  BY DEF AnswerInv
<1>3. \A q \in Requests : FineRequest(req'[q])
  BY <1>1, <1>2
<1>4. \A key \in DOMAIN cache' : FineEntry(key, cache'[key])
  BY DEF AnswerInv
<1> QED
  BY <1>1, <1>3, <1>4 DEF AnswerInv

\* The calls of a body that passed the checks.
LEMMA CallsOfABody ==
    ASSUME NEW body \in RpcBodies, ValidRpc(body)
    PROVE  /\ Len(body.calls) \in Nat \ {0}
           /\ DOMAIN body.calls = 1..Len(body.calls)
           /\ \A n \in DOMAIN body.calls : body.calls[n].call \in Reads
           /\ body.batch \/ Len(body.calls) = 1
<1>1. body \in RpcBodies \ {Absent}
  BY DEF ValidRpc
<1>2. PICK S : body.calls \in Seq(S)
  BY <1>1, RequestBodies
<1>3. Len(body.calls) \in Nat \ {0} /\ DOMAIN body.calls = 1..Len(body.calls)
  BY <1>2, GatewayConstants DEF ValidRpc
<1>4. \A n \in DOMAIN body.calls : body.calls[n].call \in Reads
  BY DEF ValidRpc
<1> QED
  BY <1>1, <1>3, <1>4, RequestBodies

\* The last of some numbers.
LEMMA LastOfSome ==
    ASSUME NEW m \in Nat, NEW S \in SUBSET (1..m), S # {}
    PROVE  \E x \in S : \A y \in S : y <= x
<1> DEFINE T == {m - x : x \in S}
<1>1. T \subseteq Nat /\ T # {}
  <2>1. \A x \in S : m - x \in Nat
    BY S \subseteq 1..m
  <2>2. \E x \in S : m - x \in T
    OBVIOUS
  <2> QED
    BY <2>1, <2>2
<1>2. PICK z \in T : \A y \in T : ~(<<y, z>> \in OpToRel(<, Nat))
  <2> HIDE DEF T
  <2> QED
    BY <1>1, NatLessThanWellFounded, WFMin
<1>3. \A y \in T : ~(y < z)
  BY <1>1, <1>2 DEF OpToRel
<1>4. PICK x \in S : z = m - x
  OBVIOUS
<1>5. ASSUME NEW y \in S PROVE y <= x
  <2>1. m - y \in T
    OBVIOUS
  <2> QED
    BY <1>3, <1>4, <2>1
<1> QED
  BY <1>5

\* byId and replyFor: each call has a reply of its own.
LEMMA RepliesAreOwn ==
    ASSUME NEW body \in RpcBodies, ValidRpc(body),
           NEW replies \in UpstreamReplies(body.calls)
    PROVE  /\ OwnReplies(body.calls, RepliesById(body.calls, replies), FALSE)
           /\ LET v == RepliesById(body.calls, replies)[1].value
              IN  v = NoResponse \/ v.of = body.calls[1].call
<1> DEFINE calls == body.calls
           answer == RepliesById(calls, replies)
<1>1. /\ Len(calls) \in Nat \ {0} /\ DOMAIN calls = 1..Len(calls)
  BY CallsOfABody
<1>2. PICK m \in 0..Len(calls) :
         /\ DOMAIN replies = 1..m
         /\ \A j \in 1..m : \E n \in DOMAIN calls :
               /\ replies[j].number = n /\ replies[j].value \in Said(calls, n)
  BY DEF UpstreamReplies
<1>3. \A j \in 1..m : replies[j].number \in DOMAIN calls
                      /\ replies[j].value.of = calls[replies[j].number].call
  BY <1>2 DEF Said
<1>4. ASSUME NEW n \in DOMAIN calls
      PROVE  /\ answer[n].id = calls[n].id
             /\ answer[n].value = NoResponse \/ answer[n].value.of = calls[n].call
  <2> DEFINE with == {j \in DOMAIN replies : replies[j].number = n}
             last == CHOOSE j \in with : \A l \in with : l <= j
  <2>1. answer[n] = [id |-> calls[n].id,
                     value |-> IF with = {} THEN NoResponse ELSE replies[last].value]
    BY DEF RepliesById, ReplyFor
  <2>2. CASE with = {}
    BY <2>1, <2>2
  <2>3. CASE with # {}
    <3>1. with \in SUBSET (1..m) /\ m \in Nat
      BY <1>1, <1>2
    <3>2. \E j \in with : \A l \in with : l <= j
      <4> HIDE DEF with
      <4> QED
        BY <2>3, <3>1, LastOfSome
    <3>3. last \in with
      BY <3>2
    <3>4. last \in 1..m /\ replies[last].number = n
      BY <1>2, <3>3
    <3> HIDE DEF last
    <3> QED
      BY <1>3, <2>1, <2>3, <3>4
  <2> QED
    BY <2>2, <2>3
<1>5. Len(answer) = Len(calls)
  <2>1. DOMAIN answer = 1..Len(calls)
    BY <1>1 DEF RepliesById
  <2>2. answer \in Seq({answer[n] : n \in 1..Len(calls)})
    BY <1>1, <2>1 DEF RepliesById
  <2> QED
    BY <1>1, <2>1, <2>2
<1> HIDE DEF answer
<1>6. OwnReplies(calls, answer, FALSE)
  BY <1>4, <1>5 DEF OwnReplies
<1>7. LET v == answer[1].value IN v = NoResponse \/ v.of = calls[1].call
  BY <1>1, <1>4
<1> QED
  BY <1>6, <1>7 DEF answer

\* Queries with one key have one route, and names that differ at most by case.
LEMMA OneMarketKey ==
    ASSUME NEW p, NEW q, MarketKey(p) = MarketKey(q)
    PROVE  SameButForCase(p, q)
  BY DEF MarketKey, SameButForCase

\* A market query is kept under a key that no call has.
LEMMA MarketKeyIsNoCall ==
    ASSUME NEW q, NEW c
    PROVE  MarketKey(q) # <<"rpc", c>>
  BY DEF MarketKey

\* A call whose answer may be kept: what it is kept under is that call.
LEMMA KeyOfACall ==
    ASSUME NEW r \in Requests, req[r].kind = "rpc", Key(r) # Absent
    PROVE  /\ Key(r) = <<"rpc", req[r].body.calls[1].call>>
           /\ ~req[r].body.batch
  BY DEF Key

\* An answer from the store is the request's own.
LEMMA StoredAnswersAreFine ==
    ASSUME AnswerInv, NEW r \in Requests, req[r].at = "admitted", req[r].kind # "ws",
           Key(r) # Absent, Key(r) \in DOMAIN cache
    PROVE  FineRequest([req[r] EXCEPT !.at = "served", !.cached = TRUE,
                                      !.answer = FromStore(r)])
<1> DEFINE x == [req[r] EXCEPT !.at = "served", !.cached = TRUE, !.answer = FromStore(r)]
<1>1. FineRequest(req[r]) /\ FineEntry(Key(r), cache[Key(r)])
  BY DEF AnswerInv
<1>2. /\ DOMAIN x = Fields /\ x.at = "served" /\ x.cached = TRUE /\ x.answer = FromStore(r)
      /\ x.kind = req[r].kind /\ x.body = req[r].body
  BY <1>1, RequestFields DEF FineRequest
<1>3. /\ x.kind = "rpc" => x.body \in RpcBodies /\ ValidRpc(x.body)
      /\ x.kind = "market" => x.body \in MarketQueries \ {Absent}
  BY <1>1, <1>2 DEF FineRequest, Ready
<1> SUFFICES FineRequest(x)
  OBVIOUS
<1> HIDE DEF x
<1>4. CASE x.kind = "rpc"
  <2>1. /\ DOMAIN x.body.calls = 1..1 /\ Len(x.body.calls) = 1
        /\ x.body.calls[1].call \in Reads
    <3>1. ~x.body.batch
      BY <1>2, <1>4, KeyOfACall
    <3>2. x.body \in RpcBodies /\ ValidRpc(x.body)
      BY <1>3, <1>4
    <3>3. Len(x.body.calls) = 1
      BY <3>1, <3>2, CallsOfABody
    <3> QED
      BY <3>2, <3>3, CallsOfABody
  <2>2. x.answer = << [id |-> x.body.calls[1].id, value |-> cache[Key(r)]] >>
    BY <1>2, <1>4 DEF FromStore
  <2>3. /\ cache[Key(r)].of = x.body.calls[1].call
        /\ cache[Key(r)].what = "result"
    BY <1>1, <1>2, <1>4, <2>1, KeyOfACall DEF FineEntry
  <2>4. OwnReplies(x.body.calls, x.answer, x.cached)
    BY <2>1, <2>2, <2>3 DEF OwnReplies
  <2> QED
    BY <1>2, <1>3, <1>4, <2>4 DEF FineRequest
<1>5. CASE x.kind = "market"
  <2>1. Key(r) = MarketKey(x.body)
    BY <1>2, <1>5 DEF Key
  <2>2. x.answer[1].value = cache[Key(r)]
    BY <1>2, <1>5 DEF FromStore
  <2>3. MarketAnswer(x.body, x.answer[1].value, x.cached)
    BY <1>1, <1>2, <1>3, <1>5, <2>1, <2>2 DEF FineEntry
  <2> QED
    BY <1>2, <1>3, <1>5, <2>3 DEF FineRequest
<1>6. CASE x.kind # "rpc" /\ x.kind # "market"
  BY <1>2, <1>6 DEF FineRequest
<1> QED
  BY <1>4, <1>5, <1>6

\* An answer of a chain's provider is the request's own, and so is what is put.
LEMMA RpcAnswersKeep ==
    ASSUME AnswerInv, NEW r \in Requests, RpcAnswers(r)
    PROVE  AnswerInv'
<1> DEFINE body == req[r].body
<1>1. /\ FineRequest(req[r]) /\ req[r].at = "asked" /\ req[r].kind = "rpc"
      /\ cache' = cache
  BY DEF AnswerInv, RpcAnswers
<1>2. body \in RpcBodies /\ ValidRpc(body) /\ req[r].cached = FALSE
  BY <1>1 DEF FineRequest, Ready
<1>3. PICK replies, answer :
         /\ replies \in UpstreamReplies(body.calls)
         /\ answer = RepliesById(body.calls, replies)
         /\ req' = [req EXCEPT ![r].at = "served", ![r].answer = answer]
         /\ puts' = IF Key(r) # Absent /\ answer[1].value.what = "result"
                    THEN puts \cup {[key |-> Key(r), value |-> answer[1].value]} ELSE puts
  BY DEF RpcAnswers
<1>4. /\ OwnReplies(body.calls, answer, FALSE)
      /\ answer[1].value = NoResponse \/ answer[1].value.of = body.calls[1].call
  BY <1>2, <1>3, RepliesAreOwn
<1> DEFINE x == [req[r] EXCEPT !.at = "served", !.answer = answer]
<1>5. FineRequest(x)
  <2>1. /\ DOMAIN x = Fields /\ x.at = "served" /\ x.cached = FALSE /\ x.answer = answer
        /\ x.kind = "rpc" /\ x.body = body
    BY <1>1, <1>2, RequestFields DEF FineRequest
  <2> HIDE DEF x
  <2> QED
    BY <1>2, <1>4, <2>1 DEF FineRequest
<1>6. \A p \in puts' : FineEntry(p.key, p.value)
  <2>1. \A p \in puts : FineEntry(p.key, p.value)
    BY DEF AnswerInv
  <2>2. CASE Key(r) # Absent /\ answer[1].value.what = "result"
    <3>1. NoResponse.what = "no response"
      BY DEF NoResponse
    <3>2. answer[1].value.of = body.calls[1].call
      BY <1>4, <2>2, <3>1
    <3>3. Key(r) = <<"rpc", body.calls[1].call>>
      BY <1>1, <2>2, KeyOfACall
    <3>4. \A c : Key(r) = <<"rpc", c>> => answer[1].value.of = c
      BY <3>2, <3>3
    <3>5. \A q : Key(r) # MarketKey(q)
      BY <3>3, MarketKeyIsNoCall
    <3>6. FineEntry(Key(r), answer[1].value)
      BY <2>2, <3>4, <3>5 DEF FineEntry
    <3> QED
      BY <1>3, <2>1, <2>2, <3>6
  <2>3. CASE ~(Key(r) # Absent /\ answer[1].value.what = "result")
    BY <1>3, <2>1, <2>3
  <2> QED
    BY <2>2, <2>3
<1>7. req' = [req EXCEPT ![r] = x]
  BY <1>3 DEF AnswerInv
<1> HIDE DEF x
<1> QED
  BY <1>1, <1>5, <1>6, <1>7, AnswerMoves

\* An answer of a market provider is the request's own, and so is what is put.
LEMMA MarketAnswersKeep ==
    ASSUME AnswerInv, NEW r \in Requests, MarketAnswers(r)
    PROVE  AnswerInv'
<1>1. /\ FineRequest(req[r]) /\ req[r].at = "asked" /\ req[r].kind = "market"
      /\ cache' = cache
  BY DEF AnswerInv, MarketAnswers
<1>2. req[r].body \in MarketQueries \ {Absent} /\ req[r].cached = FALSE
  BY <1>1 DEF FineRequest, Ready
<1>3. PICK v \in MarketOutcomes(req[r].body) :
         /\ req' = [req EXCEPT ![r].at = "served", ![r].answer = << [id |-> Absent, value |-> v] >>]
         /\ puts' = puts \cup {[key |-> Key(r), value |-> v]}
  BY DEF MarketAnswers
<1> DEFINE x == [req[r] EXCEPT !.at = "served", !.answer = << [id |-> Absent, value |-> v] >>]
<1>4. FineRequest(x)
  <2>1. /\ DOMAIN x = Fields /\ x.at = "served" /\ x.kind = "market" /\ x.body = req[r].body
        /\ x.answer[1].value = v /\ x.cached = FALSE
    BY <1>1, <1>2, RequestFields DEF FineRequest
  <2>2. MarketAnswer(req[r].body, v, FALSE)
    BY <1>3 DEF MarketAnswer
  <2> HIDE DEF x
  <2> QED
    BY <1>2, <2>1, <2>2 DEF FineRequest
<1>5. FineEntry(Key(r), v)
  <2>1. Key(r) = MarketKey(req[r].body)
    BY <1>1 DEF Key
  <2>2. ASSUME NEW q \in MarketQueries \ {Absent}, Key(r) = MarketKey(q)
        PROVE  MarketAnswer(q, v, TRUE)
    <3>1. SameButForCase(req[r].body, q)
      BY <2>1, <2>2, OneMarketKey
    <3> QED
      BY <1>2, <1>3, <3>1 DEF MarketAnswer
  <2>3. \A c \in Reads : Key(r) # <<"rpc", c>>
    BY <2>1, MarketKeyIsNoCall
  <2> QED
    BY <2>2, <2>3 DEF FineEntry
<1>6. \A p \in puts' : FineEntry(p.key, p.value)
  BY <1>3, <1>5 DEF AnswerInv
<1>7. req' = [req EXCEPT ![r] = x]
  BY <1>3 DEF AnswerInv
<1> HIDE DEF x
<1> QED
  BY <1>1, <1>4, <1>6, <1>7, AnswerMoves

\* The steps in which a request gets no answer of a provider.
LEMMA OtherMovesKeep ==
    ASSUME AnswerInv, NEW r \in Requests,
           \/ \E k \in RequestKinds, t \in Tokens : Arrive(r, k, t)
           \/ Authenticate(r) \/ Burst(r) \/ UpgradeBurst(r) \/ Guard(r) \/ UpgradeQuota(r)
           \/ Accept(r) \/ Look(r) \/ InferenceAnswers(r)
           \/ RpcFails(r) \/ MarketFails(r) \/ InferenceFails(r)
    PROVE  AnswerInv'
<1> USE RequestFields
<1>1. FineRequest(req[r]) /\ UNCHANGED <<cache, puts>>
  BY DEF AnswerInv, Arrive, Authenticate, Burst, UpgradeBurst, Allow, Guard, UpgradeQuota,
         Spend, Accept, Look, InferenceAnswers, RpcFails, MarketFails, InferenceFails, Fails
<1>2. \A p \in puts' : FineEntry(p.key, p.value)
  BY <1>1 DEF AnswerInv
<1> DEFINE New(x) == req' = [req EXCEPT ![r] = x] /\ FineRequest(x)
           OnlyAt(x, at) == /\ DOMAIN x = Fields /\ x.at = at /\ x.kind = req[r].kind
                            /\ x.body = req[r].body /\ x.cached = req[r].cached
<1>3. ASSUME NEW x, NEW at \in {"limited", "admitted", "asked", "failed"}, OnlyAt(x, at),
             req[r].at \in {"checked", "limited", "admitted", "asked"}
      PROVE  FineRequest(x)
  BY <1>1, <1>3 DEF FineRequest, Ready
<1>4. \E x : New(x)
  <2>1. ASSUME NEW k \in RequestKinds, NEW t \in Tokens, Arrive(r, k, t) PROVE \E x : New(x)
    <3>1. PICK body \in Bodies(k) :
             req' = [req EXCEPT ![r] = [NoRequest EXCEPT !.at = "sent", !.kind = k,
                                                         !.token = t, !.body = body]]
      BY <2>1 DEF Arrive
    <3> DEFINE x == [NoRequest EXCEPT !.at = "sent", !.kind = k, !.token = t, !.body = body]
    <3>2. DOMAIN x = Fields /\ x.at = "sent" /\ x.kind = k /\ x.body = body /\ x.cached = FALSE
      BY DEF Fields, NoRequest
    <3> HIDE DEF x
    <3>3. FineRequest(x)
      BY <3>2 DEF FineRequest, Ready
    <3> QED
      BY <3>1, <3>3 DEF x
  <2>2. CASE Authenticate(r)
    <3> DEFINE x == [req[r] EXCEPT !.at = "checked", !.now = day]
    <3>1. /\ \/ req' = [req EXCEPT ![r] = Refused]
             \/ req' = [req EXCEPT ![r] = x] /\ Valid(req[r].kind, req[r].body)
          /\ req[r].at = "sent"
      BY <2>2 DEF Authenticate, AnswerInv
    <3>2. OnlyAt(x, "checked")
      BY <1>1 DEF FineRequest
    <3> HIDE DEF x
    <3>3. ASSUME Valid(req[r].kind, req[r].body) PROVE FineRequest(x)
      BY <1>1, <3>1, <3>2, <3>3
      DEF FineRequest, Ready, Valid, ValidMarket, Bodies, RequestKinds
    <3> QED
      BY <3>1, <3>3, RefusedIsFine
  <2>3. CASE Burst(r) \/ UpgradeBurst(r)
    <3>1. PICK now :
             /\ req[r].at = "checked"
             /\ \/ req' = [req EXCEPT ![r].at = "limited", ![r].now = now]
                \/ req' = [req EXCEPT ![r] = Refused]
      BY <2>3 DEF Burst, UpgradeBurst, Allow
    <3> DEFINE x == [req[r] EXCEPT !.at = "limited", !.now = now]
    <3>2. OnlyAt(x, "limited")
      BY <1>1 DEF FineRequest
    <3>3. \/ req' = [req EXCEPT ![r] = x]
          \/ req' = [req EXCEPT ![r] = Refused]
      BY <3>1 DEF AnswerInv
    <3> HIDE DEF x
    <3> QED
      BY <1>3, <3>1, <3>2, <3>3, RefusedIsFine
  <2>4. CASE Guard(r) \/ UpgradeQuota(r)
    <3> DEFINE x == [req[r] EXCEPT !.at = "admitted", !.admitted = req[r].now]
    <3>1. /\ \/ req' = [req EXCEPT ![r] = x]
             \/ req' = [req EXCEPT ![r] = Refused]
          /\ req[r].at = "limited"
      BY <2>4 DEF Guard, UpgradeQuota, Spend, AnswerInv
    <3>2. OnlyAt(x, "admitted")
      BY <1>1 DEF FineRequest
    <3> HIDE DEF x
    <3> QED
      BY <1>3, <3>1, <3>2, RefusedIsFine
  <2>5. CASE Look(r) /\ req'[r].at = "served"
    <3> DEFINE x == [req[r] EXCEPT !.at = "served", !.cached = TRUE, !.answer = FromStore(r)]
    <3>1. /\ req[r].at = "admitted" /\ req[r].kind # "ws"
          /\ Key(r) # Absent /\ Key(r) \in DOMAIN cache /\ req' = [req EXCEPT ![r] = x]
      BY <1>1, <2>5 DEF Look, AnswerInv, FineRequest
    <3> HIDE DEF x
    <3>2. FineRequest(x)
      BY <3>1, StoredAnswersAreFine DEF x
    <3> QED
      BY <3>1, <3>2
  <2>6. CASE Look(r) /\ req'[r].at # "served"
    <3> DEFINE x == [req[r] EXCEPT !.at = "asked"]
    <3>1. req[r].at = "admitted" /\ req' = [req EXCEPT ![r] = x]
      BY <1>1, <2>6 DEF Look, AnswerInv, FineRequest
    <3>2. OnlyAt(x, "asked")
      BY <1>1 DEF FineRequest
    <3> HIDE DEF x
    <3> QED
      BY <1>3, <3>1, <3>2
  <2>7. CASE Accept(r) \/ InferenceAnswers(r)
    <3> DEFINE x == [req[r] EXCEPT !.at = "served"]
    <3>1. req[r].kind \in {"ws", "inference"} /\ req' = [req EXCEPT ![r] = x]
      BY <2>7 DEF Accept, InferenceAnswers, AnswerInv
    <3>2. OnlyAt(x, "served")
      BY <1>1 DEF FineRequest
    <3> HIDE DEF x
    <3>3. FineRequest(x)
      BY <3>1, <3>2 DEF FineRequest
    <3> QED
      BY <3>1, <3>3
  <2>8. CASE RpcFails(r) \/ MarketFails(r) \/ InferenceFails(r)
    <3> DEFINE x == [req[r] EXCEPT !.at = "failed"]
    <3>1. req[r].at = "asked" /\ req' = [req EXCEPT ![r] = x]
      BY <2>8 DEF RpcFails, MarketFails, InferenceFails, Fails, AnswerInv
    <3>2. OnlyAt(x, "failed")
      BY <1>1 DEF FineRequest
    <3> HIDE DEF x
    <3> QED
      BY <1>3, <3>1, <3>2
  <2> QED
    BY <2>1, <2>2, <2>3, <2>4, <2>5, <2>6, <2>7, <2>8
<1> QED
  BY <1>1, <1>2, <1>4, AnswerMoves

\* The invariant is inductive.
LEMMA StepKeepsAnswers == AnswerInv /\ [GatewayNext]_gatewayVars => AnswerInv'
<1> SUFFICES ASSUME AnswerInv, [GatewayNext]_gatewayVars PROVE AnswerInv'
  OBVIOUS
<1>1. CASE UNCHANGED <<req, cache, puts>>
  BY <1>1 DEF AnswerInv
<1>2. ASSUME NEW p \in puts, Put(p) PROVE AnswerInv'
  <2>1. req' = req /\ puts' \subseteq puts /\ FineEntry(p.key, p.value)
    BY <1>2 DEF Put, AnswerInv
  <2>2. \A key \in DOMAIN cache' : FineEntry(key, cache'[key])
    BY <1>2, <2>1 DEF Put, AnswerInv
  <2> QED
    BY <2>1, <2>2 DEF AnswerInv
<1>3. ASSUME NEW k, Expire(k) PROVE AnswerInv'
  BY <1>3 DEF Expire, AnswerInv
<1>4. CASE GatewayNext
  BY <1>1, <1>2, <1>3, <1>4, RpcAnswersKeep, MarketAnswersKeep, OtherMovesKeep
  DEF GatewayNext, Mint, Revoke, PurgeUsage, NextDay
<1>5. CASE UNCHANGED gatewayVars
  BY <1>1, <1>5 DEF gatewayVars
<1> QED
  BY <1>4, <1>5

(* A served call has a reply of its own, under the caller's id and with what was said *)
(* of that very call, whatever the provider leaves out, repeats or reorders and        *)
(* whatever else is kept. A market query is answered for itself or, from the cache,    *)
(* for one that has its key: the same route, and the same name but for case. (rpc.ts    *)
(* byId, replyFor and the put; market.ts answer and its keys.)                           *)
THEOREM AnswersAreOwn == GatewaySpec => []AnswersAreTheirOwn
<1>1. AnswerInv => AnswersAreTheirOwn
  BY DEF AnswerInv, FineRequest, OwnReplies, AnswersAreTheirOwn
<1> QED
  BY <1>1, InitAnswers, StepKeepsAnswers, PTL DEF GatewaySpec

-----------------------------------------------------------------------------
(* The notifier.                                                           *)

\* What took a slot and was not given back: what went out and what is on its way.
Item(f) == [key |-> f.key, at |-> f.at]
Out == delivered \cup {Item(f) : f \in flight}

Items == [key : Keys, at : 1..MaxClock]
Flights == [key : Keys, at : 1..MaxClock, before : Nat]

OutTypes ==
    /\ clock \in 1..MaxClock
    /\ sentAt \in [1..MaxClock -> Nat]
    /\ dedupe \in [Keys -> 0..MaxClock]
    /\ cooldown \in Nat
    /\ delivered \subseteq Items /\ flight \subseteq Flights
    /\ IsFiniteSet(Out)

\* A send under way is the last of its key, begun now or a tick ago.
FlightsAreFresh ==
    \A f \in flight :
        /\ f.at <= clock /\ clock <= f.at + 1 /\ dedupe[f.key] = f.at
        /\ \A g \in flight : f.key = g.key => f = g

\* For an hour a key remembers what went out under it; what is under way came later.
KeysRemember ==
    \A d \in delivered :
        /\ d.at <= clock
        /\ clock < d.at + Hour => dedupe[d.key] = d.at
        /\ d.key = LossKey => warned
        /\ \A f \in flight : f.key = d.key => d.key # LossKey /\ d.at + Hour <= f.at
        /\ \A e \in delivered :
              d # e /\ d.key = e.key =>
                 d.key # LossKey /\ (d.at + Hour <= e.at \/ e.at + Hour <= d.at)

\* The cooldown stands for the last rejection, and a send that fails gives back the one
\* that stood for those before it.
CooldownStands ==
    /\ \A f \in flight : f.key \in Rejections =>
          /\ cooldown = f.at + Cooldown /\ f.before <= f.at
          /\ \A g \in flight : g.key \in Rejections => f = g
          /\ \A d \in delivered : d.key \in Rejections => d.at + Cooldown <= f.before
    /\ \A d \in delivered : d.key \in Rejections =>
          /\ d.at + Cooldown <= cooldown
          /\ \A e \in delivered : e.key \in Rejections /\ d # e =>
                d.at + Cooldown <= e.at \/ e.at + Cooldown <= d.at

\* What took its slot since t, and the slots taken since then.
OutSince(t) == {x \in Out : t <= x.at}
SlotsSince(t) == Kept(sentAt, t, 1)
OutIn(t) == {x \in Out : x.at \in t..(t + Hour - 1)}

\* For any part of the last hour the slots cover what went out in it, and no hour has
\* more than the cap.
SlotsCover ==
    \A t \in 1..MaxClock :
        /\ clock < t + Hour => Cardinality(OutSince(t)) <= HowMany(SlotsSince(t))
        /\ Cardinality(OutIn(t)) <= HourlyCap

NotifierInv ==
    OutTypes /\ FlightsAreFresh /\ KeysRemember /\ CooldownStands /\ SlotsCover


LEMMA TicksAreFinite ==
    /\ IsFiniteSet(1..MaxClock) /\ \A t \in 1..MaxClock : t \in Nat /\ 1 <= t
    /\ HourlyCap \in Nat /\ Cooldown \in Nat /\ Hour \in Nat /\ 2 <= Cooldown /\ Cooldown <= Hour
  BY NotifierConstants, FS_Interval

\* What is out is an item, taken no later than now.
LEMMA OutIsItems == NotifierInv => \A x \in Out : x \in Items /\ x.at <= clock
  BY DEF NotifierInv, OutTypes, FlightsAreFresh, KeysRemember, Out, Item, Items, Flights

\* At the start nothing is out.
LEMMA InitNotifier == NotifierInit => NotifierInv
<1> SUFFICES ASSUME NotifierInit PROVE NotifierInv
  OBVIOUS
<1>1. /\ clock = 1 /\ sentAt = NoStamps(1..MaxClock) /\ dedupe = [k \in Keys |-> 0]
      /\ cooldown = 0 /\ flight = {} /\ delivered = {} /\ Out = {}
  BY DEF NotifierInit, Out
<1>2. sentAt \in [1..MaxClock -> Nat]
  BY <1>1, TicksAreFinite, NothingStamped
<1>3. OutTypes
  BY <1>1, <1>2, NotifierConstants, FS_EmptySet DEF OutTypes
<1>4. FlightsAreFresh /\ KeysRemember /\ CooldownStands
  BY <1>1 DEF FlightsAreFresh, KeysRemember, CooldownStands
<1>5. SlotsCover
  <2> SUFFICES ASSUME NEW t \in 1..MaxClock
               PROVE  /\ Cardinality(OutSince(t)) <= HowMany(SlotsSince(t))
                      /\ Cardinality(OutIn(t)) <= HourlyCap
    BY DEF SlotsCover
  <2>1. OutSince(t) = {} /\ OutIn(t) = {}
    BY <1>1 DEF OutSince, OutIn
  <2>2. SlotsSince(t) \in [1..MaxClock -> Nat]
    BY <1>2, TicksAreFinite, KeptStamps DEF SlotsSince
  <2>3. HowMany(SlotsSince(t)) \in Nat
    BY <2>2, TicksAreFinite, StampsAreCounted
  <2> QED
    BY <2>1, <2>3, TicksAreFinite, FS_EmptySet
<1> QED
  BY <1>3, <1>4, <1>5 DEF NotifierInv

\* Nothing more goes out, and the slots still cover it: since no time were more given back
\* than taken out.
LEMMA CoverStays ==
    ASSUME NotifierInv, Out' \subseteq Out, clock <= clock', clock' \in Nat,
           \A t \in 1..MaxClock : clock < t + Hour =>
              Cardinality(OutSince(t)') <= HowMany(SlotsSince(t)')
    PROVE  SlotsCover' /\ IsFiniteSet(Out')
<1>1. IsFiniteSet(Out) /\ IsFiniteSet(Out') /\ clock \in 1..MaxClock
  BY FS_Subset DEF NotifierInv, OutTypes
<1>2. ASSUME NEW t \in 1..MaxClock
      PROVE  Cardinality(OutIn(t)') <= HourlyCap
  <2>1. OutIn(t) \subseteq Out /\ OutIn(t)' \subseteq OutIn(t)
    BY DEF OutIn
  <2>2. IsFiniteSet(OutIn(t))
    BY <1>1, <2>1, FS_Subset
  <2>3. IsFiniteSet(OutIn(t)') /\ Cardinality(OutIn(t)') <= Cardinality(OutIn(t))
    BY <2>1, <2>2, FS_Subset
  <2>4. Cardinality(OutIn(t)) \in Nat /\ Cardinality(OutIn(t)') \in Nat
    BY <2>2, <2>3, FS_CardinalityType
  <2>5. Cardinality(OutIn(t)) <= HourlyCap
    BY DEF NotifierInv, SlotsCover
  <2> QED
    BY <2>3, <2>4, <2>5, TicksAreFinite
<1>3. ASSUME NEW t \in 1..MaxClock, clock' < t + Hour PROVE clock < t + Hour
  BY <1>1, <1>3, TicksAreFinite
<1> QED
  BY <1>1, <1>2, <1>3 DEF SlotsCover

LEMMA SlotsAreCounted ==
    ASSUME OutTypes, NEW t
    PROVE  SlotsSince(t) \in [1..MaxClock -> Nat] /\ HowMany(SlotsSince(t)) \in Nat
<1>1. SlotsSince(t) \in [1..MaxClock -> Nat]
  BY TicksAreFinite, KeptStamps DEF OutTypes, SlotsSince
<1> QED
  BY <1>1, TicksAreFinite, StampsAreCounted

\* A slot is taken: the cap of any hour around it is not reached yet.
LEMMA RaiseIsCovered ==
    ASSUME NotifierInv, NEW k \in Keys, Raise(k), OutTypes',
           Out' = Out \cup {[key |-> k, at |-> clock]}
    PROVE  SlotsCover'
<1> DEFINE x == [key |-> k, at |-> clock]
<1>1. /\ sentAt' = Stamped(Recent, clock) /\ clock' = clock /\ HowMany(Recent) < HourlyCap
      /\ sentAt \in [1..MaxClock -> Nat] /\ clock \in 1..MaxClock /\ IsFiniteSet(Out)
  BY DEF Raise, NotifierInv, OutTypes
<1>2. Recent \in [1..MaxClock -> Nat]
      /\ \A u \in 1..MaxClock : Recent[u] = IF clock < u + Hour THEN sentAt[u] ELSE 0
  BY <1>1 DEF Recent, Kept
<1>3. sentAt' \in [1..MaxClock -> Nat] /\ HowMany(Recent) \in Nat
  BY <1>1, <1>2, TicksAreFinite, OneStampMore, StampsAreCounted
<1>4. ASSUME NEW S, S \subseteq Out
      PROVE  /\ IsFiniteSet(S \cup {x}) /\ Cardinality(S \cup {x}) <= Cardinality(S) + 1
             /\ Cardinality(S) \in Nat /\ Cardinality(S \cup {x}) \in Nat
  <2>1. IsFiniteSet(S)
    BY <1>1, <1>4, FS_Subset
  <2>2. Cardinality(S) \in Nat
    BY <2>1, FS_CardinalityType
  <2>3. \/ Cardinality(S \cup {x}) = Cardinality(S)
        \/ Cardinality(S \cup {x}) = Cardinality(S) + 1
    BY <2>1, FS_AddElement
  <2>4. IsFiniteSet(S \cup {x})
    BY <2>1, FS_AddElement
  <2> HIDE DEF x
  <2> QED
    BY <2>2, <2>3, <2>4
<1>5. ASSUME NEW t \in 1..MaxClock, t <= clock, clock < t + Hour
      PROVE  /\ Cardinality(OutSince(t)') <= HowMany(SlotsSince(t)')
             /\ Cardinality(OutIn(t)') <= HourlyCap
  <2>1. OutSince(t) \subseteq Out /\ OutSince(t)' = OutSince(t) \cup {x}
        /\ OutIn(t) \subseteq OutSince(t) /\ OutIn(t) \subseteq Out
        /\ OutIn(t)' = OutIn(t) \cup {x}
    <3>1. \A y \in Out : y.at \in Nat
      BY OutIsItems, TicksAreFinite DEF Items
    <3>2. x.at = clock /\ clock \in Nat /\ t \in Nat /\ clock \in t..(t + Hour - 1)
      BY <1>1, <1>5, TicksAreFinite
    <3> QED
      BY <1>5, <3>1, <3>2 DEF OutSince, OutIn
  <2>2. /\ SlotsSince(t) \in [1..MaxClock -> Nat] /\ HowMany(SlotsSince(t)) \in Nat
        /\ \A u \in 1..MaxClock : SlotsSince(t)[u] = IF t <= u THEN sentAt[u] ELSE 0
    <3>1. \A u \in 1..MaxClock : SlotsSince(t)[u] = IF t < u + 1 THEN sentAt[u] ELSE 0
      BY <1>1 DEF SlotsSince, Kept
    <3>2. \A u \in 1..MaxClock : t <= u <=> t < u + 1
      BY TicksAreFinite
    <3>3. SlotsSince(t) \in [1..MaxClock -> Nat] /\ HowMany(SlotsSince(t)) \in Nat
      BY SlotsAreCounted DEF NotifierInv
    <3> QED
      BY <3>1, <3>2, <3>3
  <2>3. HowMany(SlotsSince(t)) <= HowMany(Recent)
    <3>1. \A u \in 1..MaxClock : t <= u => clock < u + Hour
      BY <1>1, <1>5, TicksAreFinite
    <3>2. \A u \in 1..MaxClock : sentAt[u] \in Nat
      BY <1>1
    <3>3. \A u \in 1..MaxClock : SlotsSince(t)[u] <= Recent[u]
      BY <1>2, <2>2, <3>1, <3>2
    <3> QED
      BY <1>2, <2>2, <3>3, TicksAreFinite, FewerStamps
  <2>4. HowMany(SlotsSince(t)') = HowMany(SlotsSince(t)) + 1
    <3>1. /\ Stamped(SlotsSince(t), clock) \in [1..MaxClock -> Nat]
          /\ HowMany(Stamped(SlotsSince(t), clock)) = HowMany(SlotsSince(t)) + 1
      BY <1>1, <2>2, TicksAreFinite, OneStampMore
    <3>2. sentAt' = [Recent EXCEPT ![clock] = @ + 1]
      BY <1>1 DEF Stamped
    <3>3. \A u \in 1..MaxClock : sentAt'[u] = IF u = clock THEN Recent[u] + 1 ELSE Recent[u]
      BY <1>1, <1>2, <3>2
    <3>4. SlotsSince(t)' = [u \in 1..MaxClock |-> IF t < u + 1 THEN sentAt'[u] ELSE 0]
      BY <1>3 DEF SlotsSince, Kept
    <3>5. \A u \in 1..MaxClock :
             SlotsSince(t)'[u] = IF u = clock THEN SlotsSince(t)[u] + 1 ELSE SlotsSince(t)[u]
      <4> SUFFICES ASSUME NEW u \in 1..MaxClock
                   PROVE  SlotsSince(t)'[u] =
                             IF u = clock THEN SlotsSince(t)[u] + 1 ELSE SlotsSince(t)[u]
        OBVIOUS
      <4>1. u \in Nat /\ t \in Nat /\ clock \in Nat /\ (t < u + 1 <=> t <= u)
        BY <1>1, TicksAreFinite
      <4>2. CASE t <= u
        <5>1. SlotsSince(t)'[u] = sentAt'[u] /\ SlotsSince(t)[u] = sentAt[u]
          BY <2>2, <3>4, <4>1, <4>2
        <5>2. clock < u + Hour
          BY <1>5, <4>1, <4>2, TicksAreFinite
        <5> QED
          BY <1>2, <3>3, <5>1, <5>2
      <4>3. CASE ~(t <= u)
        <5>1. SlotsSince(t)'[u] = 0 /\ SlotsSince(t)[u] = 0 /\ u # clock
          BY <1>5, <2>2, <3>4, <4>1, <4>3
        <5> QED
          BY <5>1
      <4> QED
        BY <4>2, <4>3
    <3>6. SlotsSince(t)' = Stamped(SlotsSince(t), clock)
      BY <1>1, <2>2, <3>4, <3>5 DEF Stamped
    <3> QED
      BY <3>1, <3>6
  <2>5. /\ Cardinality(OutSince(t)) <= HowMany(SlotsSince(t))
        /\ Cardinality(OutSince(t)) \in Nat
        /\ Cardinality(OutSince(t)') <= Cardinality(OutSince(t)) + 1
        /\ Cardinality(OutSince(t)') \in Nat
    BY <1>4, <1>5, <2>1 DEF NotifierInv, SlotsCover
  <2>6. /\ Cardinality(OutIn(t)) <= Cardinality(OutSince(t)) /\ Cardinality(OutIn(t)) \in Nat
        /\ Cardinality(OutIn(t)') <= Cardinality(OutIn(t)) + 1
        /\ Cardinality(OutIn(t)') \in Nat
    <3>1. IsFiniteSet(OutSince(t))
      BY <1>1, <2>1, FS_Subset
    <3> QED
      BY <1>4, <2>1, <3>1, FS_Subset
  <2> QED
    BY <1>1, <1>3, <2>2, <2>3, <2>4, <2>5, <2>6, TicksAreFinite
<1>6. ASSUME NEW t \in 1..MaxClock, ~(t <= clock /\ clock < t + Hour)
      PROVE  /\ clock < t + Hour => Cardinality(OutSince(t)') <= HowMany(SlotsSince(t)')
             /\ Cardinality(OutIn(t)') <= HourlyCap
  <2>1. OutIn(t)' = OutIn(t)
    <3>1. x.at = clock /\ clock \notin t..(t + Hour - 1)
      BY <1>1, <1>6, TicksAreFinite
    <3> QED
      BY <3>1 DEF OutIn
  <2>2. Cardinality(OutIn(t)) <= HourlyCap
    BY DEF NotifierInv, SlotsCover
  <2>3. ASSUME clock < t PROVE Cardinality(OutSince(t)') <= HowMany(SlotsSince(t)')
    <3>1. \A y \in Out' : ~(t <= y.at)
      BY <1>1, <2>3, OutIsItems, TicksAreFinite DEF Items
    <3>2. OutSince(t)' = {}
      BY <3>1 DEF OutSince
    <3>3. HowMany(SlotsSince(t)') \in Nat
      <4>1. SlotsSince(t)' \in [1..MaxClock -> Nat]
        BY <1>3, TicksAreFinite, KeptStamps DEF SlotsSince
      <4> QED
        BY <4>1, TicksAreFinite, StampsAreCounted
    <3> QED
      BY <3>2, <3>3, FS_EmptySet
  <2> QED
    BY <1>1, <1>6, <2>1, <2>2, <2>3, TicksAreFinite
<1> QED
  BY <1>1, <1>5, <1>6 DEF SlotsCover

\* A send that fails gives back one slot, its own.
LEMMA FailureIsCovered ==
    ASSUME NotifierInv, NEW f \in flight, Failed(f), Item(f) \in Out, Item(f) \notin Out',
           Out' \subseteq Out
    PROVE  SlotsCover' /\ IsFiniteSet(Out')
<1>1. /\ sentAt' = Unstamped(sentAt, f.at) /\ clock' = clock
      /\ sentAt \in [1..MaxClock -> Nat] /\ clock \in 1..MaxClock /\ clock \in Nat
      /\ IsFiniteSet(Out) /\ f.at \in 1..MaxClock /\ Item(f).at = f.at
  BY TicksAreFinite DEF Failed, NotifierInv, OutTypes, Flights, Item
<1>2. sentAt' \in [1..MaxClock -> Nat]
      /\ \A u \in 1..MaxClock : /\ sentAt'[u] \in Nat /\ sentAt[u] \in Nat
                                /\ u # f.at => sentAt'[u] = sentAt[u]
                                /\ sentAt[u] <= sentAt'[u] + 1
  <2>1. sentAt' = [sentAt EXCEPT ![f.at] = IF sentAt[f.at] = 0 THEN 0 ELSE sentAt[f.at] - 1]
    BY <1>1 DEF Unstamped
  <2>2. (IF sentAt[f.at] = 0 THEN 0 ELSE sentAt[f.at] - 1) \in Nat
        /\ sentAt[f.at] <= (IF sentAt[f.at] = 0 THEN 0 ELSE sentAt[f.at] - 1) + 1
    BY <1>1
  <2> QED
    BY <1>1, <2>1, <2>2
<1>3. ASSUME NEW t \in 1..MaxClock, clock < t + Hour
      PROVE  Cardinality(OutSince(t)') <= HowMany(SlotsSince(t)')
  <2>1. /\ SlotsSince(t) \in [1..MaxClock -> Nat] /\ HowMany(SlotsSince(t)) \in Nat
        /\ SlotsSince(t) = [u \in 1..MaxClock |-> IF t < u + 1 THEN sentAt[u] ELSE 0]
    BY <1>1, SlotsAreCounted DEF NotifierInv, SlotsSince, Kept
  <2>2. /\ SlotsSince(t)' \in [1..MaxClock -> Nat]
        /\ SlotsSince(t)' = [u \in 1..MaxClock |-> IF t < u + 1 THEN sentAt'[u] ELSE 0]
    BY <1>2, TicksAreFinite, KeptStamps DEF SlotsSince, Kept
  <2>3. HowMany(SlotsSince(t)') \in Nat
    BY <2>2, TicksAreFinite, StampsAreCounted
  <2>4. /\ Cardinality(OutSince(t)) <= HowMany(SlotsSince(t))
        /\ OutSince(t) \subseteq Out /\ OutSince(t)' \subseteq OutSince(t)
    BY <1>3 DEF NotifierInv, SlotsCover, OutSince
  <2>5. IsFiniteSet(OutSince(t)) /\ IsFiniteSet(OutSince(t)')
    BY <1>1, <2>4, FS_Subset
  <2>6. Cardinality(OutSince(t)) \in Nat /\ Cardinality(OutSince(t)') \in Nat
    BY <2>5, FS_CardinalityType
  <2>7. CASE t <= f.at
    <3>1. Item(f) \in OutSince(t) /\ OutSince(t)' \subseteq OutSince(t) \ {Item(f)}
      BY <1>1, <2>4, <2>7 DEF OutSince
    <3>2. /\ IsFiniteSet(OutSince(t) \ {Item(f)})
          /\ Cardinality(OutSince(t) \ {Item(f)}) = Cardinality(OutSince(t)) - 1
      BY <2>5, <3>1, FS_RemoveElement
    <3>3. Cardinality(OutSince(t)') <= Cardinality(OutSince(t)) - 1
      BY <3>1, <3>2, FS_Subset
    <3>4. HowMany(SlotsSince(t)) <= HowMany(SlotsSince(t)') + 1
      <4>0. PICK left : left = SlotsSince(t)'
        OBVIOUS
      <4> DEFINE back == Stamped(left, f.at)
      <4>1. back \in [1..MaxClock -> Nat] /\ HowMany(back) = HowMany(left) + 1
        <5>1. left \in [1..MaxClock -> Nat] /\ IsFiniteSet(1..MaxClock) /\ f.at \in 1..MaxClock
          BY <1>1, <2>2, <4>0, TicksAreFinite
        <5> QED
          BY <5>1, OneStampMore
      <4>2. back = [left EXCEPT ![f.at] = @ + 1]
        BY DEF Stamped
      <4> HIDE DEF back
      <4>3. ASSUME NEW u \in 1..MaxClock PROVE SlotsSince(t)[u] <= back[u]
        <5>1. /\ SlotsSince(t)[u] = (IF t < u + 1 THEN sentAt[u] ELSE 0)
              /\ left[u] = (IF t < u + 1 THEN sentAt'[u] ELSE 0)
          BY <2>1, <2>2, <4>0
        <5>2. back[u] = IF u = f.at THEN left[u] + 1 ELSE left[u]
          BY <1>1, <2>2, <4>0, <4>2
        <5>3. t < f.at + 1 /\ left[u] \in Nat
          BY <1>1, <2>2, <2>7, <4>0, TicksAreFinite
        <5> QED
          BY <1>2, <5>1, <5>2, <5>3
      <4>4. HowMany(SlotsSince(t)) <= HowMany(back)
        BY <2>1, <4>1, <4>3, TicksAreFinite, FewerStamps
      <4> QED
        BY <4>0, <4>1, <4>4
    <3> QED
      BY <2>1, <2>3, <2>4, <2>6, <3>3, <3>4
  <2>8. CASE ~(t <= f.at)
    <3>1. \A u \in 1..MaxClock : t < u + 1 => sentAt'[u] = sentAt[u]
      BY <1>1, <1>2, <2>8, TicksAreFinite
    <3>2. SlotsSince(t)' = SlotsSince(t)
      BY <2>1, <2>2, <3>1
    <3>3. Cardinality(OutSince(t)') <= Cardinality(OutSince(t))
      BY <2>4, <2>5, FS_Subset
    <3> QED
      BY <2>1, <2>4, <2>6, <3>2, <3>3
  <2> QED
    BY <2>7, <2>8
<1> QED
  BY <1>1, <1>3, CoverStays

\* Nothing goes out and no recent slot is given back.
LEMMA CoverRests ==
    ASSUME NotifierInv, Out' = Out, clock <= clock', clock' \in Nat,
           sentAt' = sentAt \/ sentAt' = Recent
    PROVE  SlotsCover' /\ IsFiniteSet(Out') /\ sentAt' \in [1..MaxClock -> Nat]
<1>1. /\ sentAt \in [1..MaxClock -> Nat] /\ clock \in 1..MaxClock /\ clock \in Nat
  BY TicksAreFinite DEF NotifierInv, OutTypes
<1>2. sentAt' \in [1..MaxClock -> Nat]
      /\ \A u \in 1..MaxClock : clock < u + Hour => sentAt'[u] = sentAt[u]
  <2>1. Recent \in [1..MaxClock -> Nat]
    BY <1>1, TicksAreFinite, KeptStamps DEF Recent
  <2>2. \A u \in 1..MaxClock : Recent[u] = IF clock < u + Hour THEN sentAt[u] ELSE 0
    BY <1>1 DEF Recent, Kept
  <2> QED
    BY <1>1, <2>1, <2>2
<1>3. ASSUME NEW t \in 1..MaxClock, clock < t + Hour
      PROVE  Cardinality(OutSince(t)') <= HowMany(SlotsSince(t)')
  <2>1. /\ SlotsSince(t) = [u \in 1..MaxClock |-> IF t < u + 1 THEN sentAt[u] ELSE 0]
        /\ SlotsSince(t)' = [u \in 1..MaxClock |-> IF t < u + 1 THEN sentAt'[u] ELSE 0]
    BY <1>1, <1>2 DEF SlotsSince, Kept
  <2>2. \A u \in 1..MaxClock : t < u + 1 => clock < u + Hour
    BY <1>1, <1>3, TicksAreFinite
  <2>3. SlotsSince(t)' = SlotsSince(t)
    BY <1>2, <2>1, <2>2
  <2>4. OutSince(t)' = OutSince(t)
    BY DEF OutSince
  <2> QED
    BY <1>3, <2>3, <2>4 DEF NotifierInv, SlotsCover
<1> QED
  BY <1>2, <1>3, CoverStays

LEMMA RaiseKeeps ==
    ASSUME NotifierInv, NEW k \in Keys, Raise(k), k = LossKey => ~warned
    PROVE  NotifierInv'
<1> DEFINE x == [key |-> k, at |-> clock]
           new == [key |-> k, at |-> clock, before |-> cooldown]
<1>0. OutTypes /\ FlightsAreFresh /\ KeysRemember /\ CooldownStands
  BY DEF NotifierInv
<1>1. /\ ~Seen(k) /\ ~Held(k)
      /\ sentAt' = Stamped(Recent, clock)
      /\ dedupe' = [Pruned EXCEPT ![k] = clock]
      /\ cooldown' = IF k \in Rejections THEN clock + Cooldown ELSE cooldown
      /\ flight' = flight \cup {new}
      /\ clock' = clock /\ warned' = warned /\ delivered' = delivered
  BY DEF Raise
<1>2. /\ clock \in 1..MaxClock /\ clock \in Nat /\ cooldown \in Nat
      /\ dedupe \in [Keys -> 0..MaxClock] /\ sentAt \in [1..MaxClock -> Nat]
      /\ \A d \in delivered : d.key \in Keys /\ d.at \in Nat /\ 1 <= d.at
      /\ \A f \in flight : f.key \in Keys /\ f.at \in Nat /\ 1 <= f.at /\ f.before \in Nat
  BY <1>0, TicksAreFinite DEF OutTypes, Items, Flights
<1>3. new \in Flights /\ Item(new) = x /\ x \in Items
  BY <1>2 DEF Flights, Items, Item
<1>4. new.key = k /\ new.at = clock /\ new.before = cooldown
  OBVIOUS
<1> HIDE DEF x, new
<1>5. Out' = Out \cup {x}
  BY <1>1, <1>3 DEF Out
<1>6. /\ dedupe' \in [Keys -> 0..MaxClock] /\ dedupe'[k] = clock
      /\ \A l \in Keys : l # k => dedupe'[l] = IF Seen(l) THEN dedupe[l] ELSE 0
  <2>1. Pruned \in [Keys -> 0..MaxClock]
    BY <1>2, NotifierConstants DEF Pruned
  <2> QED
    BY <1>1, <1>2, <2>1 DEF Pruned
<1>7. OutTypes'
  <2>1. sentAt' \in [1..MaxClock -> Nat]
    <3>1. Recent \in [1..MaxClock -> Nat]
      BY <1>2, TicksAreFinite, KeptStamps DEF Recent
    <3> QED
      BY <1>1, <1>2, <3>1, TicksAreFinite, OneStampMore
  <2>2. IsFiniteSet(Out')
    BY <1>0, <1>5, FS_AddElement DEF OutTypes
  <2>3. cooldown' \in Nat
    BY <1>1, <1>2, TicksAreFinite
  <2> QED
    BY <1>0, <1>1, <1>3, <1>6, <2>1, <2>2, <2>3 DEF OutTypes
\* Nothing of this key is under way or went out within the hour.
<1>8. /\ \A f \in flight : f.key # k /\ dedupe'[f.key] = f.at /\ clock <= f.at + 1 /\ f.at <= clock
      /\ \A d \in delivered : d.key = k => d.at + Hour <= clock
  <2>1. \A f \in flight : dedupe[f.key] = f.at /\ f.at + Hour > clock /\ f.at # 0
    BY <1>0, <1>2, TicksAreFinite DEF FlightsAreFresh
  <2>2. \A f \in flight : Seen(f.key) /\ f.key # k
    BY <1>1, <2>1 DEF Seen
  <2>3. \A d \in delivered : clock < d.at + Hour => Seen(d.key)
    BY <1>0, <1>2 DEF KeysRemember, Seen
  <2>4. \A d \in delivered : d.at + Hour <= clock \/ clock < d.at + Hour
    BY <1>2, TicksAreFinite
  <2> QED
    BY <1>0, <1>1, <1>2, <1>6, <2>1, <2>2, <2>3, <2>4 DEF FlightsAreFresh
<1>9. FlightsAreFresh'
  <2>1. \A f \in flight' : f \in flight \/ f = new
    BY <1>1
  <2> QED
    BY <1>0, <1>1, <1>2, <1>4, <1>6, <1>8, <2>1 DEF FlightsAreFresh
<1>10. KeysRemember'
  <2>1. \A d \in delivered : clock < d.at + Hour => dedupe'[d.key] = d.at
    <3>1. \A d \in delivered : clock < d.at + Hour => dedupe[d.key] = d.at /\ Seen(d.key)
      BY <1>0, <1>2 DEF KeysRemember, Seen
    <3>2. \A d \in delivered : clock < d.at + Hour => d.key # k
      BY <1>1, <3>1
    <3> QED
      BY <1>2, <1>6, <3>1, <3>2
  <2>2. \A d \in delivered : d.key = k => d.key # LossKey
    BY <1>0 DEF KeysRemember
  <2> QED
    BY <1>0, <1>1, <1>4, <1>8, <2>1, <2>2 DEF KeysRemember
<1>11. CooldownStands'
  <2>1. CASE k \notin Rejections
    BY <1>0, <1>1, <1>4, <2>1 DEF CooldownStands
  <2>2. CASE k \in Rejections
    <3>1. cooldown <= clock /\ cooldown' = clock + Cooldown /\ 2 <= Cooldown /\ Cooldown \in Nat
      BY <1>1, <1>2, <2>2, TicksAreFinite DEF Held
    <3>2. \A f \in flight : f.key \notin Rejections
      BY <1>0, <1>2, <3>1 DEF CooldownStands, FlightsAreFresh
    <3>3. \A d \in delivered : d.key \in Rejections =>
             d.at + Cooldown <= cooldown /\ d.at + Cooldown <= cooldown'
      BY <1>0, <1>2, <3>1 DEF CooldownStands
    <3>4. \A f \in flight' : f.key \in Rejections => f = new
      BY <1>1, <3>2
    <3> QED
      BY <1>0, <1>1, <1>4, <3>1, <3>3, <3>4 DEF CooldownStands
  <2> QED
    BY <2>1, <2>2
<1> QED
  BY <1>5, <1>7, <1>9, <1>10, <1>11, RaiseIsCovered DEF NotifierInv, x

LEMMA HoldBackKeeps ==
    ASSUME NotifierInv, NEW k \in Keys, HoldBack(k)
    PROVE  NotifierInv'
<1>0. OutTypes /\ FlightsAreFresh /\ KeysRemember /\ CooldownStands
  BY DEF NotifierInv
<1>1. /\ sentAt' = Recent /\ dedupe' = Pruned
      /\ warned => warned'
      /\ clock' = clock /\ cooldown' = cooldown /\ flight' = flight /\ delivered' = delivered
  BY DEF HoldBack
<1>2. /\ clock \in 1..MaxClock /\ clock \in Nat
      /\ dedupe \in [Keys -> 0..MaxClock]
      /\ \A d \in delivered : d.key \in Keys /\ d.at \in Nat /\ 1 <= d.at
      /\ \A f \in flight : f.key \in Keys /\ f.at \in Nat /\ 1 <= f.at
  BY <1>0, TicksAreFinite DEF OutTypes, Items, Flights
<1>3. /\ dedupe' \in [Keys -> 0..MaxClock]
      /\ \A l \in Keys : dedupe'[l] = IF Seen(l) THEN dedupe[l] ELSE 0
  BY <1>1, <1>2, NotifierConstants DEF Pruned
<1>4. Out' = Out
  BY <1>1 DEF Out
<1>5. SlotsCover' /\ IsFiniteSet(Out') /\ sentAt' \in [1..MaxClock -> Nat]
  BY <1>1, <1>2, <1>4, CoverRests
<1>6. OutTypes'
  BY <1>0, <1>1, <1>3, <1>5 DEF OutTypes
<1>7. FlightsAreFresh'
  <2>1. \A f \in flight : dedupe[f.key] = f.at /\ f.at + Hour > clock /\ f.at # 0
    BY <1>0, <1>2, TicksAreFinite DEF FlightsAreFresh
  <2> QED
    BY <1>0, <1>1, <1>2, <1>3, <2>1 DEF FlightsAreFresh, Seen
<1>8. KeysRemember'
  <2>1. \A d \in delivered : clock < d.at + Hour => dedupe[d.key] = d.at /\ d.at # 0
    BY <1>0, <1>2 DEF KeysRemember
  <2>2. \A d \in delivered : clock < d.at + Hour => dedupe'[d.key] = d.at
    BY <1>2, <1>3, <2>1 DEF Seen
  <2> QED
    BY <1>0, <1>1, <2>2 DEF KeysRemember
<1>9. CooldownStands'
  BY <1>0, <1>1 DEF CooldownStands
<1> QED
  BY <1>5, <1>6, <1>7, <1>8, <1>9 DEF NotifierInv

LEMMA SentKeeps ==
    ASSUME NotifierInv, NEW f \in flight, Sent(f)
    PROVE  NotifierInv'
<1>0. OutTypes /\ FlightsAreFresh /\ KeysRemember /\ CooldownStands
  BY DEF NotifierInv
<1>1. /\ delivered' = delivered \cup {Item(f)} /\ flight' = flight \ {f}
      /\ warned' = (warned \/ f.key = LossKey)
      /\ clock' = clock /\ sentAt' = sentAt /\ dedupe' = dedupe /\ cooldown' = cooldown
  BY DEF Sent, Item
<1>2. /\ clock \in 1..MaxClock /\ clock \in Nat /\ cooldown \in Nat
      /\ \A d \in delivered : d.key \in Keys /\ d.at \in Nat
      /\ \A g \in flight : g.key \in Keys /\ g.at \in Nat /\ g.before \in Nat
      /\ Hour \in Nat /\ Cooldown \in Nat /\ 2 <= Hour
  BY <1>0, TicksAreFinite DEF OutTypes, Items, Flights
<1>3. Item(f).key = f.key /\ Item(f).at = f.at /\ Item(f) \in Items
  BY <1>0 DEF OutTypes, Flights, Items, Item
<1>4. Out' = Out
  BY <1>1 DEF Out
<1>5. SlotsCover' /\ IsFiniteSet(Out')
  BY <1>1, <1>2, <1>4, CoverRests
<1>6. OutTypes'
  BY <1>0, <1>1, <1>3, <1>5 DEF OutTypes
<1>7. FlightsAreFresh'
  BY <1>0, <1>1 DEF FlightsAreFresh
<1>8. KeysRemember'
  <2> SUFFICES ASSUME NEW d \in delivered'
               PROVE  /\ d.at <= clock
                      /\ clock < d.at + Hour => dedupe[d.key] = d.at
                      /\ d.key = LossKey => warned'
                      /\ \A g \in flight' : g.key = d.key =>
                            d.key # LossKey /\ d.at + Hour <= g.at
                      /\ \A e \in delivered' :
                            d # e /\ d.key = e.key =>
                               d.key # LossKey /\ (d.at + Hour <= e.at \/ e.at + Hour <= d.at)
    BY <1>1 DEF KeysRemember
  <2>1. CASE d \in delivered
    BY <1>0, <1>1, <1>3, <2>1 DEF KeysRemember
  <2>2. CASE d = Item(f)
    BY <1>0, <1>1, <1>2, <1>3, <2>2 DEF KeysRemember, FlightsAreFresh
  <2> QED
    BY <1>1, <2>1, <2>2
<1>9. CooldownStands'
  <2>1. CASE f.key \notin Rejections
    BY <1>0, <1>1, <1>3, <2>1 DEF CooldownStands
  <2>2. CASE f.key \in Rejections
    <3>1. \A g \in flight' : g.key \notin Rejections
      BY <1>0, <1>1, <2>2 DEF CooldownStands
    <3>2. f.at + Cooldown = cooldown
          /\ \A d \in delivered : d.key \in Rejections => d.at + Cooldown <= f.at
      BY <1>0, <1>2, <2>2 DEF CooldownStands
    <3>3. f.at + Cooldown <= cooldown
      BY <1>2, <3>2
    <3> QED
      BY <1>0, <1>1, <1>3, <3>1, <3>2, <3>3 DEF CooldownStands
  <2> QED
    BY <2>1, <2>2
<1> QED
  BY <1>5, <1>6, <1>7, <1>8, <1>9 DEF NotifierInv

LEMMA FailedKeeps ==
    ASSUME NotifierInv, NEW f \in flight, Failed(f)
    PROVE  NotifierInv'
<1>0. OutTypes /\ FlightsAreFresh /\ KeysRemember /\ CooldownStands
  BY DEF NotifierInv
<1>1. /\ flight' = flight \ {f} /\ sentAt' = Unstamped(sentAt, f.at)
      /\ dedupe' = [dedupe EXCEPT ![f.key] = 0]
      /\ cooldown' = IF f.key \in Rejections THEN f.before ELSE cooldown
      /\ warned' = (warned \/ f.key = LossKey) /\ clock' = clock /\ delivered' = delivered
  BY DEF Failed
<1>2. /\ clock \in 1..MaxClock /\ clock \in Nat /\ cooldown \in Nat
      /\ dedupe \in [Keys -> 0..MaxClock] /\ sentAt \in [1..MaxClock -> Nat]
      /\ \A d \in delivered : d.key \in Keys /\ d.at \in Nat
      /\ \A g \in flight : g.key \in Keys /\ g.at \in Nat /\ g.before \in Nat
      /\ Hour \in Nat /\ Cooldown \in Nat /\ 2 <= Hour /\ f.at \in 1..MaxClock
  BY <1>0, TicksAreFinite DEF OutTypes, Items, Flights
<1>3. Item(f) \in Out /\ Item(f) \notin Out' /\ Out' \subseteq Out
  <2>1. Item(f).key = f.key /\ Item(f).at = f.at
    BY DEF Item
  <2>2. Item(f) \notin delivered
    BY <1>0, <1>2, <2>1 DEF KeysRemember
  <2>3. \A g \in flight' : Item(g) # Item(f)
    BY <1>0, <1>1 DEF FlightsAreFresh, Item
  <2> QED
    BY <1>1, <2>2, <2>3 DEF Out
<1>4. SlotsCover' /\ IsFiniteSet(Out')
  BY <1>3, FailureIsCovered
<1>5. OutTypes'
  <2>1. sentAt' \in [1..MaxClock -> Nat]
    BY <1>1, <1>2 DEF Unstamped
  <2>2. dedupe' \in [Keys -> 0..MaxClock]
    BY <1>1, <1>2, NotifierConstants
  <2> QED
    BY <1>0, <1>1, <1>2, <1>4, <2>1, <2>2 DEF OutTypes
<1>6. \A l \in Keys : l # f.key => dedupe'[l] = dedupe[l]
  BY <1>1, <1>2
<1>7. FlightsAreFresh'
  BY <1>0, <1>1, <1>2, <1>6 DEF FlightsAreFresh
<1>8. KeysRemember'
  <2>1. \A d \in delivered : clock < d.at + Hour => d.key # f.key
    BY <1>0, <1>2 DEF KeysRemember, FlightsAreFresh
  <2> QED
    BY <1>0, <1>1, <1>2, <1>6, <2>1 DEF KeysRemember
<1>9. CooldownStands'
  BY <1>0, <1>1, <1>2 DEF CooldownStands
<1> QED
  BY <1>4, <1>5, <1>7, <1>8, <1>9 DEF NotifierInv

LEMMA TickKeeps == ASSUME NotifierInv, Tick PROVE NotifierInv'
<1>0. OutTypes /\ FlightsAreFresh /\ KeysRemember /\ CooldownStands
  BY DEF NotifierInv
<1>1. /\ clock' = clock + 1 /\ clock < MaxClock /\ \A f \in flight : f.at = clock
      /\ UNCHANGED <<sentAt, dedupe, cooldown, flight, warned, delivered>>
  BY DEF Tick
<1>2. /\ clock \in Nat /\ clock' \in Nat /\ clock <= clock' /\ clock' \in 1..MaxClock
      /\ \A d \in delivered : d.at \in Nat
      /\ Hour \in Nat
  BY <1>0, <1>1, TicksAreFinite, NotifierConstants DEF OutTypes, Items
<1>3. Out' = Out
  BY <1>1 DEF Out
<1>4. SlotsCover' /\ IsFiniteSet(Out') /\ sentAt' \in [1..MaxClock -> Nat]
  BY <1>1, <1>2, <1>3, CoverRests
<1>5. OutTypes'
  BY <1>0, <1>1, <1>2, <1>4 DEF OutTypes
<1>6. FlightsAreFresh'
  BY <1>0, <1>1, <1>2 DEF FlightsAreFresh
<1>7. KeysRemember'
  <2>1. \A d \in delivered : /\ d.at <= clock => d.at <= clock'
                             /\ clock' < d.at + Hour => clock < d.at + Hour
    BY <1>1, <1>2
  <2> QED
    BY <1>0, <1>1, <2>1 DEF KeysRemember
<1>8. CooldownStands'
  BY <1>0, <1>1 DEF CooldownStands
<1> QED
  BY <1>4, <1>5, <1>6, <1>7, <1>8 DEF NotifierInv

LEMMA StepKeepsNotifier == NotifierInv /\ [NotifierNext]_notifierVars => NotifierInv'
<1> SUFFICES ASSUME NotifierInv, [NotifierNext]_notifierVars PROVE NotifierInv'
  OBVIOUS
<1>1. ASSUME NEW k \in Keys, Notify(k) PROVE NotifierInv'
  BY <1>1, RaiseKeeps, HoldBackKeeps DEF Notify
<1>2. ASSUME NEW f \in flight, Sent(f) \/ Failed(f) PROVE NotifierInv'
  BY <1>2, SentKeeps, FailedKeeps
<1>3. CASE UNCHANGED notifierVars
  <2>1. UNCHANGED <<clock, sentAt, dedupe, cooldown, flight, warned, delivered>>
    BY <1>3 DEF notifierVars
  <2> QED
    BY <2>1 DEF NotifierInv, OutTypes, FlightsAreFresh, KeysRemember, CooldownStands,
                SlotsCover, Out, OutSince, OutIn, SlotsSince
<1> QED
  BY <1>1, <1>2, <1>3, TickKeeps DEF NotifierNext

\* Sends that fail late give back their own slot, key and cooldown and nobody else's:
\* within any hour no more than the cap goes out and no key twice, rejections keep the
\* cooldown apart, and the daily loss is warned of once (notifications.ts notify and its
\* failure path, DailyLossWatcher.check).
THEOREM FloodIsHeldBack == NotifierSpec => []NoFlood
<1>1. NotifierInv => NoFlood
  <2> SUFFICES ASSUME NotifierInv PROVE NoFlood
    OBVIOUS
  <2>1. ASSUME NEW t \in 1..MaxClock
        PROVE  Cardinality({d \in delivered : d.at \in t..(t + Hour - 1)}) <= HourlyCap
    <3> DEFINE gone == {d \in delivered : d.at \in t..(t + Hour - 1)}
    <3>1. gone \subseteq OutIn(t) /\ OutIn(t) \subseteq Out
      BY DEF OutIn, Out
    <3>2. IsFiniteSet(OutIn(t))
      BY <3>1, FS_Subset DEF NotifierInv, OutTypes
    <3>3. IsFiniteSet(gone) /\ Cardinality(gone) <= Cardinality(OutIn(t))
      BY <3>1, <3>2, FS_Subset
    <3>4. Cardinality(gone) \in Nat /\ Cardinality(OutIn(t)) \in Nat
      BY <3>2, <3>3, FS_CardinalityType
    <3>5. Cardinality(OutIn(t)) <= HourlyCap
      BY DEF NotifierInv, SlotsCover
    <3> HIDE DEF gone
    <3>6. Cardinality(gone) <= HourlyCap
      BY <3>3, <3>4, <3>5, TicksAreFinite
    <3> QED
      BY <3>6 DEF gone
  <2>2. \A d, e \in delivered :
          d # e => /\ d.key = e.key => /\ d.key # LossKey
                                       /\ d.at + Hour <= e.at \/ e.at + Hour <= d.at
                   /\ {d.key, e.key} \subseteq Rejections =>
                         d.at + Cooldown <= e.at \/ e.at + Cooldown <= d.at
    BY DEF NotifierInv, KeysRemember, CooldownStands
  <2> QED
    BY <2>1, <2>2 DEF NoFlood
<1> QED
  BY <1>1, InitNotifier, StepKeepsNotifier, PTL DEF NotifierSpec
=============================================================================
