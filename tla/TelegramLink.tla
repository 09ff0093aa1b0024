------------------------------ MODULE TelegramLink ------------------------------
(* The gateway transport: the runtime's socket (telegram/transport.ts,             *)
(* GatewayTransport), the hub that holds the other end (gateway hub.ts), the        *)
(* webhook that Telegram calls (webhook.ts) and the rows both of them keep in D1    *)
(* (pairing.ts). Every await of a handler is a place where other handlers run, so a *)
(* handler is a task with one action per stretch between two awaits.                *)
(*                                                                                  *)
(* Each write of tg_links counts as one version of the row. Frames carry the        *)
(* version they were made from, which the code does not.                            *)
EXTENDS TelegramRuntime

CONSTANTS MaxSockets,   \* bound: connections of the runtime
          MaxFaults     \* bound: handlers that fail, calls and connections lost

ASSUME LinkConstants == MaxSockets \in Nat /\ MaxFaults \in Nat

VARIABLES gwLink,       \* tg_links: the account of this installation, or NoUser
          version,      \* history: how often tg_links was written
          offers,       \* pair_codes, per code
          hook,         \* the webhook's handler of each update
          elsewhere,    \* the linked account pairs another installation, once
          cur,          \* the runtime's socket, 0 before the first
          opened,       \* how many sockets there were
          gwOpen,       \* the sockets the hub has open
          hello,        \* those that said hello
          welcomed,     \* the runtime's #welcomed
          up,           \* frames under way to the hub, per socket
          down,         \* frames under way to the runtime, on socket cur
          tasks,        \* frame handlers of the hub that wait for D1
          faults,       \* how many things went wrong
          told          \* history: the version the runtime last heard of, 0 when
                        \* the hub has since failed to do what a frame asked

rowVars == <<gwLink, version, offers>>
socketVars == <<cur, opened, gwOpen, hello, welcomed, up>>
linkVars == <<rowVars, socketVars, hook, elsewhere, down, tasks, faults,
              told>>

Sockets == 1..MaxSockets

Fault == faults < MaxFaults /\ faults' = faults + 1

LinkTypes ==
    /\ gwLink \in Users \cup {NoUser} /\ version \in Nat
    /\ offers \in [Codes -> {"none", "live", "used"}]
    /\ \A i \in DOMAIN hook :
          hook[i].at \in {"telegram", "consumed", "checked", "linked", "forward", "done"}
    /\ elsewhere \in {"no", "unlinked", "told"}
    /\ welcomed \in BOOLEAN
    /\ cur \in 0..MaxSockets /\ opened \in 0..MaxSockets
    /\ gwOpen \subseteq Sockets /\ hello \subseteq Sockets
    /\ faults \in 0..MaxFaults /\ told \in 0..version

LinkInit ==
    /\ gwLink = NoUser /\ version = 0
    /\ offers = [c \in Codes |-> "none"]
    /\ hook = [i \in 1..MaxUpdates |-> [at |-> "telegram", of |-> 0]]
    /\ elsewhere = "no"
    /\ cur = 0 /\ opened = 0 /\ gwOpen = {} /\ hello = {} /\ welcomed = FALSE
    /\ up = [s \in Sockets |-> <<>>] /\ down = <<>>
    /\ tasks = {} /\ faults = 0 /\ told = 0

-----------------------------------------------------------------------------
(* The rows in D1. Each batch is one transaction.                               *)

\* storePairOffer: one live code per installation; a row that was used, or whose
\* time is over, is taken again and is live again.
StorePairOffer(c) ==
    /\ offers' = [d \in Codes |-> IF d = c THEN "live"
                                  ELSE IF offers[d] = "live" THEN "none" ELSE offers[d]]
    /\ UNCHANGED <<gwLink, version>>

\* consumePairCode, where it finds a row.
Redeemable(c) == offers[c] = "live" /\ c \notin expired

ConsumePairCode(c) ==
    /\ Redeemable(c)
    /\ offers' = [offers EXCEPT ![c] = "used"]
    /\ UNCHANGED <<gwLink, version>>

\* linkTelegram, whatever the row says by now.
LinkTelegram(u) ==
    /\ gwLink' = u
    /\ version' = version + 1
    /\ UNCHANGED offers

UnlinkInstall ==
    /\ gwLink' = NoUser
    /\ version' = version + 1
    /\ offers' = [c \in Codes |-> IF offers[c] = "live" THEN "none" ELSE offers[c]]

\* The cron: used codes and codes long over.
PurgeStale ==
    /\ \E c \in Codes : offers[c] = "used" \/ (offers[c] = "live" /\ c \in expired)
    /\ offers' = [c \in Codes |-> IF offers[c] = "used" \/ c \in expired
                                  THEN "none" ELSE offers[c]]
    /\ UNCHANGED <<gwLink, version>>
    /\ UNCHANGED <<socketVars, hook, elsewhere,
                   down, tasks, told, faults>>
    /\ UNCHANGED runtimeVars

-----------------------------------------------------------------------------
(* The hub. A frame to a socket that is not the runtime's is lost, like one to a   *)
(* socket the hub has closed.                                                      *)

\* send and broadcast.
Send(s, f) == down' = IF s = cur /\ s \in gwOpen THEN Append(down, f) ELSE down

\* liveSocket: open and past hello. Older sockets were closed when it came.
LiveSocket(s) == s \in gwOpen \cap hello

\* webSocketMessage, up to the first await. An offer over its time is refused, and so
\* is anything before hello.
HubReceives(s) ==
    /\ up[s] # <<>>
    /\ up' = [up EXCEPT ![s] = Tail(@)]
    /\ LET f == Head(up[s]) IN
          \/ /\ f.type = "hello"
             /\ hello' = hello \cup {s}
             /\ tasks' = tasks \cup {[type |-> "hello", sock |-> s]}
          \/ /\ f.type \in {"offer", "revoke"} /\ s \in hello
             /\ ~(f.type = "offer" /\ f.code \in expired)
             /\ tasks' = tasks \cup {[type |-> f.type, sock |-> s, code |-> f.code]}
             /\ UNCHANGED hello
          \/ /\ f.type \in {"offer", "revoke"}
             /\ s \notin hello \/ (f.type = "offer" /\ f.code \in expired)
             /\ UNCHANGED <<tasks, hello>>
    /\ UNCHANGED <<rowVars, cur, opened, gwOpen, welcomed, hook, elsewhere,
                   down, told, faults>>
    /\ UNCHANGED runtimeVars

\* The query of a handler has run; what it sends comes next.
HubQuery(t) ==
    /\ \/ /\ t.type = "hello"
          /\ tasks' = (tasks \ {t}) \cup
                {[type |-> "welcome", sock |-> t.sock, user |-> gwLink, of |-> version]}
          /\ UNCHANGED rowVars
       \/ /\ t.type = "offer"
          /\ tasks' = tasks \ {t}
          /\ StorePairOffer(t.code)
       \/ /\ t.type = "revoke"
          /\ UnlinkInstall
          /\ tasks' = (tasks \ {t}) \cup
                {[type |-> "unpaired", sock |-> t.sock, of |-> version + 1]}
    /\ UNCHANGED <<socketVars, hook, elsewhere, down, told, faults>>
    /\ UNCHANGED runtimeVars

HubSends(t) ==
    /\ t.type \in {"welcome", "unpaired"}
    /\ tasks' = tasks \ {t}
    /\ Send(t.sock, IF t.type = "welcome"
                    THEN [type |-> "welcome", user |-> t.user, of |-> t.of]
                    ELSE [type |-> "unpaired", user |-> NoUser, of |-> t.of])
    /\ UNCHANGED <<rowVars, socketVars, hook, elsewhere, told, faults>>
    /\ UNCHANGED runtimeVars

\* A handler throws: the runtime reads an error and does nothing about it.
HubFails(t) ==
    /\ Fault
    /\ t.type \in {"hello", "offer", "revoke"}
    /\ tasks' = tasks \ {t}
    /\ told' = 0
    /\ UNCHANGED <<rowVars, socketVars, hook, elsewhere, down>>
    /\ UNCHANGED runtimeVars

\* The sweep of alarm, a rate limit: the hub ends a connection.
HubCloses(s) ==
    /\ Fault
    /\ s \in gwOpen
    /\ gwOpen' = gwOpen \ {s}
    /\ UNCHANGED <<rowVars, cur, opened, hello, welcomed, up, hook, elsewhere,
                   down, tasks, told>>
    /\ UNCHANGED runtimeVars

-----------------------------------------------------------------------------
(* The webhook. Telegram delivers an update until it is answered; the first         *)
(* delivery inserts it into tg_updates and the others change nothing. No other step  *)
(* reads tg_updates, so the insert is one with the query after it.                   *)

User(i) == updates[i].user

\* A rate limit, a query that fails, the worker dies: the rest is not done, and a
\* later delivery does not do it.
WebhookEnds(i) ==
    /\ Fault
    /\ hook[i].at \in {"telegram", "consumed", "checked"}
    /\ hook' = [hook EXCEPT ![i].at = "done"]
    /\ UNCHANGED <<rowVars, down>>

\* /pair: the code is consumed, or it is not valid.
PairConsumes(i) ==
    /\ hook[i].at = "telegram" /\ updates[i].word = "pair"
    /\ \/ /\ ConsumePairCode(updates[i].code)
          /\ hook' = [hook EXCEPT ![i].at = "consumed"]
       \/ /\ ~Redeemable(updates[i].code)
          /\ hook' = [hook EXCEPT ![i].at = "done"]
          /\ UNCHANGED rowVars
    /\ UNCHANGED <<down, faults>>

\* The installation must not be linked to somebody else.
PairChecks(i) ==
    /\ hook[i].at = "consumed"
    /\ hook' = [hook EXCEPT ![i].at = IF gwLink \in {NoUser, User(i)} THEN "checked"
                                      ELSE "done"]
    /\ UNCHANGED <<rowVars, down, faults>>

PairLinks(i) ==
    /\ hook[i].at = "checked"
    /\ LinkTelegram(User(i))
    /\ hook' = [hook EXCEPT ![i] = [at |-> "linked", of |-> version + 1]]
    /\ UNCHANGED <<down, faults>>

\* announcePaired, or the call to the hub fails and is forgotten.
PairAnnounces(i) ==
    /\ hook[i].at = "linked"
    /\ hook' = [hook EXCEPT ![i].at = "done"]
    /\ \/ /\ Send(cur, [type |-> "paired", user |-> User(i), of |-> hook[i].of])
          /\ UNCHANGED faults
       \/ UNCHANGED down /\ Fault
    /\ UNCHANGED rowVars

\* Any other word: forwarded when the account is the linked one.
CommandLooksUp(i) ==
    /\ hook[i].at = "telegram" /\ updates[i].word # "pair"
    /\ hook' = [hook EXCEPT ![i].at = IF gwLink = User(i) THEN "forward" ELSE "done"]
    /\ UNCHANGED <<rowVars, down, faults>>

\* dispatchCommand. Whether the reply comes in time changes what the user reads only.
CommandForwards(i) ==
    /\ hook[i].at = "forward"
    /\ hook' = [hook EXCEPT ![i].at = "done"]
    /\ IF LiveSocket(cur) THEN Send(cur, [type |-> "command", update |-> i])
                          ELSE UNCHANGED down
    /\ UNCHANGED <<rowVars, faults>>

HookStep ==
    /\ \E i \in 1..Len(updates) :
          \/ WebhookEnds(i) \/ PairConsumes(i) \/ PairChecks(i) \/ PairLinks(i)
          \/ PairAnnounces(i) \/ CommandLooksUp(i) \/ CommandForwards(i)
    /\ UNCHANGED <<socketVars, elsewhere, tasks, told>>
    /\ UNCHANGED runtimeVars

\* The linked account redeems a code of another installation: this one's row goes
\* in the same batch, and the hub is told afterwards or not at all.
PairsElsewhere ==
    /\ \/ /\ elsewhere = "no" /\ gwLink # NoUser
          /\ elsewhere' = "unlinked"
          /\ gwLink' = NoUser /\ version' = version + 1
          /\ tasks' = tasks \cup {[type |-> "displaced", of |-> version + 1]}
          /\ UNCHANGED <<offers, down, faults>>
       \/ /\ elsewhere = "unlinked"
          /\ elsewhere' = "told"
          /\ \E t \in tasks :
                /\ t.type = "displaced"
                /\ tasks' = tasks \ {t}
                /\ \/ /\ Send(cur, [type |-> "unpaired", user |-> NoUser, of |-> t.of])
                      /\ UNCHANGED faults
                   \/ UNCHANGED down /\ Fault
          /\ UNCHANGED rowVars
    /\ UNCHANGED <<socketVars, hook, told>>
    /\ UNCHANGED runtimeVars

-----------------------------------------------------------------------------
(* The runtime's end of the socket.                                             *)

\* #send wants a welcomed socket; the code that called it does not wait.
Push(frames) == up' = IF welcomed THEN [up EXCEPT ![cur] = @ \o frames] ELSE up

OfferFrame(c) == [type |-> "offer", code |-> c]
RevokeFrame == [type |-> "revoke", code |-> 0]

\* #connect: the hub accepts it, closing the others, and hello is on its way.
Connect ==
    /\ cur = 0 /\ opened < MaxSockets
    /\ opened' = opened + 1 /\ cur' = opened + 1
    /\ gwOpen' = {opened + 1}
    /\ up' = [up EXCEPT ![opened + 1] = <<[type |-> "hello"]>>]
    /\ UNCHANGED <<rowVars, hello, welcomed, hook, elsewhere,
                   down, tasks, told, faults>>
    /\ UNCHANGED runtimeVars

\* #onClose: a close of the hub arrives, the heartbeat is lost, the connect times out.
\* What was under way down is lost; the hub may not notice for a while.
Disconnect ==
    /\ Fault
    /\ cur # 0
    /\ cur' = 0 /\ welcomed' = FALSE /\ down' = <<>>
    /\ UNCHANGED <<rowVars, opened, gwOpen, hello, up, hook, elsewhere, tasks, told>>
    /\ UNCHANGED runtimeVars

\* What was under way up when a connection ended is lost.
LoseUp(s) ==
    /\ up[s] # <<>> /\ (s # cur \/ s \notin gwOpen)
    /\ up' = [up EXCEPT ![s] = <<>>]
    /\ UNCHANGED <<rowVars, cur, opened, gwOpen, hello, welcomed, hook, elsewhere,
                   down, tasks, told, faults>>
    /\ UNCHANGED runtimeVars

\* Mutant: a link only the gateway knows of is left alone.
ReconcileOwnLink(u) ==
    /\ IF link \notin {NoUser, u} THEN Unpair ELSE UNCHANGED <<link, pending>>
    /\ up' = [up EXCEPT ![cur] = @ \o (IF link # NoUser /\ u \notin {NoUser, link}
                                        THEN <<RevokeFrame>> ELSE <<>>)]

\* #reconcile: make the two sides agree, on the side of no link. A code still pending
\* is offered again.
Reconcile(u) ==
    LET revoke == IF u \notin {NoUser, link} THEN <<RevokeFrame>> ELSE <<>>
        offer == IF link = NoUser /\ Pending # 0 THEN <<OfferFrame(Pending)>> ELSE <<>>
    IN  /\ IF link \notin {NoUser, u} THEN Unpair ELSE UNCHANGED <<link, pending>>
        /\ up' = [up EXCEPT ![cur] = @ \o revoke \o offer]

\* #onMessage.
RuntimeReceives ==
    /\ cur # 0 /\ down # <<>>
    /\ down' = Tail(down)
    /\ LET f == Head(down) IN
          \/ /\ f.type = "welcome"
             /\ welcomed' = TRUE /\ told' = f.of
             /\ Reconcile(f.user)
             /\ UNCHANGED <<updates, issued, expired, cursor>> /\ NoEffect
          \/ /\ f.type \in {"paired", "unpaired"}
             /\ told' = f.of
             /\ IF f.type = "paired" THEN ConfirmFromGateway(f.user) ELSE Unpair
             /\ UNCHANGED <<welcomed, up, updates, issued, expired, cursor>> /\ NoEffect
          \/ /\ f.type = "command"
             /\ Handle(f.update, FALSE)
             /\ UNCHANGED <<welcomed, up, told>>
    /\ UNCHANGED <<rowVars, cur, opened, gwOpen, hello, hook, elsewhere, tasks, faults>>

\* issuePairCode and unpair, from the dashboard.
Operator ==
    /\ \/ Issue /\ Push(<<OfferFrame(issued + 1)>>)
       \/ link # NoUser /\ Unpair /\ UNCHANGED issued /\ Push(<<RevokeFrame>>)
    /\ UNCHANGED <<updates, expired, cursor>> /\ NoEffect
    /\ UNCHANGED <<rowVars, cur, opened, gwOpen, hello, welcomed, hook, elsewhere,
                   down, tasks, told, faults>>

LinkNext ==
    \/ \E s \in Sockets : HubReceives(s) \/ HubCloses(s) \/ LoseUp(s)
    \/ \E t \in tasks : HubQuery(t) \/ HubSends(t) \/ HubFails(t)
    \/ HookStep \/ PairsElsewhere \/ PurgeStale
    \/ Connect \/ Disconnect \/ RuntimeReceives \/ Operator
    \/ (UserSends \/ CodeExpires \/ ClearStop \/ ForgetChallenge) /\ UNCHANGED linkVars

LinkSpec == RuntimeInit /\ LinkInit /\ [][LinkNext]_<<runtimeVars, linkVars>>

-----------------------------------------------------------------------------
\* Nothing is under way and the connection stands.
Settled ==
    /\ welcomed /\ cur \in gwOpen
    /\ down = <<>> /\ up[cur] = <<>> /\ tasks = {}

(* When nothing is under way and the last frame the runtime handled was made from   *)
(* the row as it is, the runtime has a link exactly when the gateway has one.        *)
(* (service.ts #reconcile, onPaired, onUnpaired; hub.ts pair.revoke.)                *)
SidesAgree ==
    Settled /\ told = version => ((link = NoUser) <=> (gwLink = NoUser))
=============================================================================
