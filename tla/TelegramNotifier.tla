---------------------------- MODULE TelegramNotifier ----------------------------
(* The notifier (telegram/notifications.ts): what it keeps in memory to hold back   *)
(* repeats, and the sends that are under way while other events are raised.         *)
(*                                                                                  *)
(* Time is counted in ticks. A send ends in the tick it began in or the next: the    *)
(* direct transport gives it fifteen seconds, the gateway transport does not wait.   *)
(* The cooldown is longer than that, and an hour longer still.                       *)
EXTENDS Naturals, FiniteSets, Stamps

CONSTANTS Keys,         \* dedupe keys of events
          Rejections,   \* those of rejected trades, all with one rejection code
          LossKey,      \* that of the daily loss warning
          HourlyCap,
          Cooldown,     \* rejectionCooldownMs, in ticks
          Hour,         \* dedupeMs, an hour, in ticks
          MaxClock      \* bound: ticks

ASSUME NotifierConstants ==
    /\ Rejections \subseteq Keys /\ LossKey \in Keys \ Rejections
    /\ HourlyCap \in Nat /\ MaxClock \in Nat \ {0}
    /\ Cooldown \in Nat /\ Hour \in Nat /\ 2 <= Cooldown /\ Cooldown <= Hour

VARIABLES clock,
          sentAt,       \* the slots of the hourly cap
          dedupe,       \* when each key was last let through, 0 for never
          cooldown,     \* until when rejections are held back
          flight,       \* sends under way, with what a failure gives back
          warned,       \* daily_loss_warned_day_ms is today
          delivered     \* history: what went out, and when its slot was taken

notifierVars == <<clock, sentAt, dedupe, cooldown, flight, warned, delivered>>

NotifierTypes ==
    /\ clock \in 1..MaxClock
    /\ sentAt \in [1..MaxClock -> Nat]
    /\ dedupe \in [Keys -> 0..MaxClock]
    /\ cooldown \in 0..(MaxClock + Cooldown)
    /\ warned \in BOOLEAN
    /\ \A d \in delivered : d.key \in Keys /\ d.at \in 1..MaxClock

NotifierInit ==
    /\ clock = 1 /\ sentAt = NoStamps(1..MaxClock) /\ dedupe = [k \in Keys |-> 0]
    /\ cooldown = 0 /\ flight = {} /\ warned = FALSE /\ delivered = {}

\* What #prune leaves at this time.
Recent == Kept(sentAt, clock, Hour)
Seen(k) == dedupe[k] # 0 /\ dedupe[k] + Hour > clock
Pruned == [k \in Keys |-> IF Seen(k) THEN dedupe[k] ELSE 0]

Held(k) == k \in Rejections /\ cooldown > clock

\* The event passes every gate: its slots are taken before the send begins.
Raise(k) ==
    /\ ~Seen(k) /\ ~Held(k)
    /\ HowMany(Recent) < HourlyCap
    /\ sentAt' = Stamped(Recent, clock)
    /\ dedupe' = [Pruned EXCEPT ![k] = clock]
    /\ cooldown' = IF k \in Rejections THEN clock + Cooldown ELSE cooldown
    /\ flight' = flight \cup {[key |-> k, at |-> clock, before |-> cooldown]}
    /\ UNCHANGED <<clock, warned, delivered>>

\* A gate holds the event back: not paired, switched off, a repeat, the cooldown or
\* the cap. A daily loss warning held back, but for want of a link, counts as given.
HoldBack(k) ==
    /\ sentAt' = Recent
    /\ dedupe' = Pruned
    /\ warned' \in {warned, warned \/ k = LossKey}
    /\ UNCHANGED <<clock, cooldown, flight, delivered>>

\* DailyLossWatcher.check asks first whether today was warned of.
Notify(k) ==
    /\ k = LossKey => ~warned
    /\ Raise(k) \/ HoldBack(k)

Sent(f) ==
    /\ delivered' = delivered \cup {[key |-> f.key, at |-> f.at]}
    /\ flight' = flight \ {f}
    /\ warned' = (warned \/ f.key = LossKey)
    /\ UNCHANGED <<clock, sentAt, dedupe, cooldown>>

\* Mutant: the newest slot is given back, whoever took it.
FailedTakesNewest(f) ==
    /\ flight' = flight \ {f}
    /\ sentAt' = LET taken == {t \in 1..MaxClock : sentAt[t] > 0}
                 IN  IF taken = {} THEN sentAt ELSE Unstamped(sentAt, Max(taken))
    /\ dedupe' = [dedupe EXCEPT ![f.key] = 0]
    /\ cooldown' = IF f.key \in Rejections THEN f.before ELSE cooldown
    /\ warned' = (warned \/ f.key = LossKey)
    /\ UNCHANGED <<clock, delivered>>

\* A failed send gives back its slot, its key and the cooldown it replaced.
Failed(f) ==
    /\ flight' = flight \ {f}
    /\ sentAt' = Unstamped(sentAt, f.at)
    /\ dedupe' = [dedupe EXCEPT ![f.key] = 0]
    /\ cooldown' = IF f.key \in Rejections THEN f.before ELSE cooldown
    /\ warned' = (warned \/ f.key = LossKey)
    /\ UNCHANGED <<clock, delivered>>

Tick ==
    /\ clock < MaxClock
    /\ \A f \in flight : f.at = clock
    /\ clock' = clock + 1
    /\ UNCHANGED <<sentAt, dedupe, cooldown, flight, warned, delivered>>

NotifierNext ==
    \/ \E k \in Keys : Notify(k)
    \/ \E f \in flight : Sent(f) \/ Failed(f)
    \/ Tick

NotifierSpec == NotifierInit /\ [][NotifierNext]_notifierVars

-----------------------------------------------------------------------------
(* Within any hour no more than the cap goes out, and no key twice; rejections keep  *)
(* the cooldown apart; the daily loss is warned of once. Sends that fail late give    *)
(* back their own slots and nobody else's. (Notifier.notify, DailyLossWatcher.check.) *)
NoFlood ==
    /\ \A t \in 1..MaxClock :
          Cardinality({d \in delivered : d.at \in t..(t + Hour - 1)}) <= HourlyCap
    /\ \A d, e \in delivered :
          d # e => /\ d.key = e.key => /\ d.key # LossKey
                                       /\ d.at + Hour <= e.at \/ e.at + Hour <= d.at
                   /\ {d.key, e.key} \subseteq Rejections =>
                         d.at + Cooldown <= e.at \/ e.at + Cooldown <= d.at
=============================================================================
