-------------------------------- MODULE Stamps --------------------------------
(***************************************************************************)
(* Times kept to be counted: the failures of the two throttles, the slots  *)
(* of the notifier's hour.  The code keeps an array that it filters by     *)
(* age, appends to, takes one value out of and counts; the order says      *)
(* nothing more, so it is a bag: how many there are of each time.          *)
(***************************************************************************)
EXTENDS Naturals, FiniteSetsExt

NoStamps(times) == [t \in times |-> 0]

\* failures.push(now)
Stamped(stamps, now) == [stamps EXCEPT ![now] = @ + 1]

\* One of the times is taken out, if there is one.
Unstamped(stamps, at) == [stamps EXCEPT ![at] = IF @ = 0 THEN 0 ELSE @ - 1]

\* failures.filter((at) => now - at < period)
Kept(stamps, now, period) ==
    [at \in DOMAIN stamps |-> IF now < at + period THEN stamps[at] ELSE 0]

HowMany(stamps) == MapThenSumSet(LAMBDA at : stamps[at], DOMAIN stamps)
=============================================================================
