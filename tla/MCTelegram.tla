------------------------------- MODULE MCTelegram -------------------------------
(* Telegram and the gateway in one run of scenes: pairing over the gateway, commands  *)
(* over the gateway from a settled link, the direct transport, the notifier; then the *)
(* gateway's proxies, its sockets with a revocation, and its quotas over midnight.    *)
(* A scene is chosen at the start and the variables of the others rest.               *)
EXTENDS TLC, TelegramLink, TelegramDirect, TelegramNotifier, Gateway

CONSTANTS u1, u2, t1, t2,
          MaxRedeemers,     \* bound: messages of the pairing scene
          MaxCommandFaults  \* bound: faults of the command scene

VARIABLE scene

telegramVars == <<runtimeVars, linkVars, directVars, notifierVars>>
vars == <<scene, telegramVars, gatewayVars>>

MCUsers == {u1, u2}
MCKeys == {"fill", "loss", "code.a", "code.b"}
MCRejections == {"code.a", "code.b"}
UserSymmetry == Permutations(MCUsers)

MCInstallOf == [t \in {t1, t2} |-> "install"]
MCCap == [k \in RequestKinds |-> IF k = "inference" THEN 1 ELSE 2]

\* One call that is cached, one that is not, one that is refused.
MCTtl == [c \in {"head", "nonce", "send"} |-> IF c = "head" THEN 1 ELSE 0]

Call(id, c) == [id |-> id, call |-> c]
Single(id, c) == [batch |-> FALSE, calls |-> << Call(id, c) >>]
Batch(calls) == [batch |-> TRUE, calls |-> calls]

MCRpcBodies ==
    { Absent, Batch(<< >>), Single(1, "head"), Single(2, "send"),
      Batch(<< Call(1, "head"), Call(1, "nonce") >>),
      Batch(<< Call(1, "head"), Call(1, "nonce"), Call(3, "nonce") >>) }

\* A pool and a price by one name, and that name in another case.
MCMarketQueries ==
    {Absent, [route |-> "pool", name |-> "So1"], [route |-> "pool", name |-> "so1"],
     [route |-> "price", name |-> "so1"]}
MCFolded == [name \in {"So1", "so1"} |-> "so1"]

\* Paired by code 1, over the first socket, with nothing under way.
SettledInit ==
    /\ updates = <<>> /\ link \in Users /\ pending = 0 /\ issued = 1 /\ expired = {}
    /\ cursor = [u \in Users |-> 0] /\ challenge = NoUser
    /\ stop = FALSE /\ paused = FALSE
    /\ effects = [i \in 1..MaxUpdates |-> 0] /\ engaged = {}
    /\ gwLink = link /\ version = 1 /\ told = 1
    /\ offers = [c \in Codes |-> IF c = 1 THEN "used" ELSE "none"]
    /\ hook = [i \in 1..MaxUpdates |-> [at |-> "telegram", of |-> 0]]
    /\ elsewhere = "no"
    /\ cur = 1 /\ opened = 1 /\ gwOpen = {1} /\ hello = {1} /\ welcomed = TRUE
    /\ up = [s \in Sockets |-> <<>>] /\ down = <<>> /\ tasks = {} /\ faults = 0

\* The first token is minted for all the scopes and for good.
OneTokenInit ==
    /\ day = 0 /\ req = [r \in Requests |-> NoRequest]
    /\ tokenRow = [t \in Tokens |->
          IF t = t1 THEN [revoked |-> FALSE, expires |-> MaxDay + 1,
                          scopes |-> Scopes]
          ELSE Absent]
    /\ usage = << >> /\ cache = << >> /\ puts = {}
    /\ sock = {} /\ revoke = [at |-> "idle", install |-> Absent]

MCInit ==
    /\ \/ /\ scene \in {"pairing", "direct", "notify", "proxies", "sockets", "days"}
          /\ RuntimeInit /\ LinkInit
       \/ scene = "commands" /\ SettledInit
    /\ DirectInit /\ NotifierInit
    /\ IF scene \in {"proxies", "sockets", "days"} THEN OneTokenInit ELSE GatewayInit

PairingScene ==
    /\ scene = "pairing"
    /\ LinkNext
    /\ Len(updates') <= MaxRedeemers
    /\ \A i \in DOMAIN updates' : updates'[i].word = "pair"
    /\ UNCHANGED <<scene, directVars, notifierVars, gatewayVars>>

CommandScene ==
    /\ scene = "commands"
    /\ LinkNext
    /\ \A i \in DOMAIN updates' :
          updates'[i].word # "pair" /\ updates'[i].user = updates'[1].user
    /\ faults' <= MaxCommandFaults
    /\ UNCHANGED <<offers, elsewhere, issued, opened>>
    /\ UNCHANGED <<scene, directVars, notifierVars, gatewayVars>>

DirectScene ==
    /\ scene = "direct"
    /\ DirectNext
    /\ UNCHANGED <<scene, linkVars, notifierVars, gatewayVars>>

NotifyScene ==
    /\ scene = "notify"
    /\ NotifierNext
    /\ UNCHANGED <<scene, runtimeVars, linkVars, directVars, gatewayVars>>

Arriving(kinds) == \A r \in Requests : req'[r].kind \in kinds \cup {Absent}

\* Two requests, with one token.
ProxyScene ==
    /\ scene = "proxies"
    /\ GatewayNext
    /\ Arriving({"rpc", "market"})
    /\ \A r \in Requests : req'[r].token # t2 /\ (r = 3 => req'[r].at = "idle")
    /\ UNCHANGED <<scene, telegramVars, tokenRow, revoke, day>>

SocketScene ==
    /\ scene = "sockets"
    /\ GatewayNext
    /\ Arriving({"ws"})
    /\ UNCHANGED <<scene, telegramVars, day>>

DayScene ==
    /\ scene = "days"
    /\ GatewayNext
    /\ Arriving({"inference"})
    /\ UNCHANGED <<scene, telegramVars, revoke>>

MCNext ==
    \/ PairingScene \/ CommandScene \/ DirectScene \/ NotifyScene
    \/ ProxyScene \/ SocketScene \/ DayScene

MCSpec == MCInit /\ [][MCNext]_vars
=============================================================================
