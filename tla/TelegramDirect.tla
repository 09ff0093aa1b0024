----------------------------- MODULE TelegramDirect -----------------------------
(* The direct transport (telegram/transport.ts, DirectBotTransport): the runtime    *)
(* polls Telegram itself. Updates are handled one after the other and the offset is *)
(* saved after each, so a process that dies in between is given the update again.   *)
EXTENDS TelegramRuntime

CONSTANT MaxDeaths      \* bound: deaths of the process

VARIABLES offset,       \* poll_offset: the next update asked for
          handled,      \* the update was handled, its offset is not saved yet
          deaths

directVars == <<offset, handled, deaths>>

DirectTypes ==
    /\ offset \in 1..(MaxUpdates + 1)
    /\ handled \in BOOLEAN
    /\ deaths \in 0..MaxDeaths

DirectInit == offset = 1 /\ handled = FALSE /\ deaths = 0

\* One update of the batch.
HandleUpdate ==
    /\ ~handled /\ offset <= Len(updates)
    /\ Handle(offset, TRUE)
    /\ handled' = TRUE
    /\ UNCHANGED <<offset, deaths>>

SaveOffset ==
    /\ handled
    /\ handled' = FALSE
    /\ offset' = offset + 1
    /\ UNCHANGED deaths
    /\ UNCHANGED runtimeVars

\* offerPairCode and revokePairing do nothing here.
OperatorDirect ==
    /\ Issue \/ (Unpair /\ link # NoUser /\ UNCHANGED issued)
    /\ UNCHANGED <<updates, expired, cursor, challenge, stop, paused, effects, engaged>>
    /\ UNCHANGED directVars

Die ==
    /\ deaths < MaxDeaths
    /\ deaths' = deaths + 1
    /\ handled' = FALSE
    /\ challenge' = NoUser
    /\ UNCHANGED offset
    /\ UNCHANGED <<updates, link, pending, issued, expired, cursor, stop, paused,
                   effects, engaged>>

DirectNext ==
    \/ HandleUpdate \/ SaveOffset \/ OperatorDirect \/ Die
    \/ (UserSends \/ CodeExpires \/ ClearStop \/ ForgetChallenge) /\ UNCHANGED directVars

DirectSpec == RuntimeInit /\ DirectInit /\ [][DirectNext]_<<runtimeVars, directVars>>
=============================================================================
