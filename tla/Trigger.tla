------------------------------ MODULE Trigger ------------------------------
(***************************************************************************)
(* The evaluator of internal/trigger: the state machine that turns one     *)
(* watch's noisy readings into rare alerts.  One behaviour is one watch    *)
(* polled for ever; a poll hands the evaluator one reading (ObserveRead),  *)
(* one pixel difference (ObservePixel) or nothing (Idle, a gated poll).    *)
(*                                                                         *)
(* Readings are abstract.  What the code asks of a text is given by the    *)
(* constants: does it hold a '?' (Partial), a letter (Lettered), a number  *)
(* (Numeric), one past the threshold (Beyond), does the pattern match it   *)
(* (Matching), may two texts be one display (Fit).  Time is in ticks; an   *)
(* instant is kept as its age, which stops counting where the code no      *)
(* longer tells two ages apart.                                            *)
(***************************************************************************)
EXTENDS Integers

CONSTANTS
    Text,        \* the readings the engine can hand over
    Blank,       \* the reading "" (also Go's zero string)
    Partial,     \* readings with a '?' in them
    Lettered,    \* readings with a letter in them
    Matching,    \* readings the watch's pattern matches
    Numeric,     \* readings extract() finds a number in
    Beyond,      \* those whose number is past the threshold
    Fit,         \* pairs of readings of one length that differ only at a '?'
    Percent,     \* pixel differences
    Threshold,   \* pixel_change's threshold
    Confirm,     \* readings in a row it takes to believe one
    Cooldown,    \* ticks between two alerts
    StaleAfter,  \* ticks of skipped readings that forget the settled state
    PixelSettleEvery, \* ticks pixel_change's settled reading is held
    Configs      \* the watches checked: [type, sevenSeg, counter]

condMet   == "cond:true"
condUnmet == "cond:false"
ConditionTypes == {"ocr_match", "numeric"}
Types == ConditionTypes \cup {"ocr_changed", "value", "pixel_change"}

leaveFactor == 2
CountCap == leaveFactor * Confirm   \* bound: counts above it are not told apart
Never    == -1                      \* Go's zero time

ASSUME TextAssumption ==
    /\ Blank \in Text
    /\ Partial \subseteq Text /\ Lettered \subseteq Text
    /\ Matching \subseteq Text /\ Numeric \subseteq Text
    /\ Beyond \subseteq Numeric
    /\ condMet \notin Text /\ condUnmet \notin Text
    /\ Percent \subseteq Nat /\ Threshold \in Nat

ASSUME NumberAssumption ==
    /\ Confirm \in Nat \ {0}          \* New makes 0 a 1
    /\ Cooldown \in Nat /\ StaleAfter \in Nat /\ PixelSettleEvery \in Nat

ASSUME ConfigAssumption ==
    Configs \subseteq [type : Types, sevenSeg : BOOLEAN, counter : BOOLEAN]

Key == Text \cup {condMet, condUnmet}

VARIABLES
    cfg,         \* the watch, fixed when the evaluator is made
    stable, hasStable, numCond,       \* the settled state
    candidate, candCount,             \* the Confirm count in progress
    sinceFired,  \* age of lastFired; Cooldown when it no longer cools
    sinceRead,   \* age of lastRead, Never when that is zero
    lastText, textRun,                \* settleText's run
    pix,         \* settlePixel's held reading
    ev           \* the Event the last poll returned

\* History variables: what the display really said, kept apart from what the
\* evaluator remembers of it.  No action reads them.
VARIABLES
    said,        \* what the last counted reading said
    agree,       \* counted readings in a row that said so
    unmetRun,    \* counted readings in a row that do not meet the condition
    silence,     \* ticks since a reading counted
    alertAge,    \* ticks since the last alert, Cooldown at most
    armed,       \* may the condition be news again?
    promised,    \* an alert was reported confirmed and held, and nothing since
                 \* said otherwise
    told,        \* the condition settled on was alerted
    lastPct,     \* the last pixel difference
    step         \* what the last step was

settledVars == <<stable, hasStable, numCond>>
countVars   == <<candidate, candCount>>
textVars    == <<lastText, textRun>>
historyVars == <<said, agree, unmetRun, silence, alertAge, armed, promised,
                 told, lastPct, step>>
vars == <<cfg, settledVars, countVars, sinceFired, sinceRead, textVars, pix,
          ev, historyVars>>

NoEvent == [fired |-> FALSE, pending |-> 0, waits |-> FALSE,
            hasSettled |-> FALSE, settled |-> Blank]
Event == [fired : BOOLEAN, pending : 0..Confirm, waits : BOOLEAN,
          hasSettled : BOOLEAN, settled : Text]

Pixel == [has : BOOLEAN, above : BOOLEAN, text : Nat, age : 0..PixelSettleEvery]
NoPixel == [has |-> FALSE, above |-> FALSE, text |-> 0, age |-> 0]

Capped(n, cap) == IF n < cap THEN n ELSE cap

-----------------------------------------------------------------------------
(* What the code asks of a reading.                                        *)

condKey(met) == IF met THEN condMet ELSE condUnmet

unread(s)   == cfg.sevenSeg /\ (s = Blank \/ s \in Partial)
lettered(s) == cfg.sevenSeg /\ s \in Lettered
fits(a, b)  == cfg.sevenSeg /\ <<a, b>> \in Fit

\* The text an ocr_changed watch settled on, read partly.
partlyRead(s) == hasStable /\ s # stable /\ s \in Partial /\ fits(s, stable)

Matches(s, unsure) == s \in Matching /\ ~unsure

\* A reading the watch skips.  held is counterGate.holds (module Meter).
Skips(s, unsure, held) ==
    \/ /\ cfg.type = "ocr_match"
       /\ ~Matches(s, unsure) /\ (unsure \/ unread(s))
    \/ cfg.type = "value" /\ unread(s)
    \/ /\ cfg.type = "numeric"
       /\ unread(s) \/ lettered(s) \/ (s \in Numeric /\ held)

\* A numeric reading with no number in it says nothing either way.
NoNumber(s) == cfg.type = "numeric" /\ s \notin Numeric

\* Does a counted reading meet the condition?
Met(s, unsure) ==
    \/ cfg.type = "ocr_match" /\ Matches(s, unsure)
    \/ cfg.type = "numeric" /\ s \in Beyond

\* The candidate key a counted reading stands for.
KeyOf(s, unsure) ==
    IF cfg.type = "ocr_changed"
    THEN IF partlyRead(s) THEN stable ELSE s
    ELSE condKey(Met(s, unsure))

need_NoHysteresis(key) == Confirm
need(key) == IF key = condUnmet /\ hasStable /\ stable = condMet
             THEN leaveFactor * Confirm ELSE Confirm

coolingDown_TooShort == sinceFired + 1 < Cooldown
coolingDown == sinceFired < Cooldown

\* Would a reading with candidate key fire once confirmed, cooldown aside?
edge(key, met) ==
    \/ /\ cfg.type = "ocr_changed"
       /\ hasStable /\ stable # key /\ ~fits(stable, key)
    \/ cfg.type = "ocr_match" /\ met /\ ~(hasStable /\ stable = condMet)
    \/ cfg.type = "numeric" /\ met /\ ~numCond

-----------------------------------------------------------------------------
(* Idle: a poll the evaluator does not see, or skips.  Once nothing has    *)
(* been read for longer than StaleAfter the settled state is forgotten.    *)

ReadAge == IF sinceRead = Never THEN 0 ELSE sinceRead

Forgets == StaleAfter > 0 /\ ReadAge > StaleAfter

Forget_KeepsCond ==
    /\ stable' = Blank /\ hasStable' = FALSE /\ numCond' = numCond
    /\ candidate' = Blank /\ candCount' = 0
    /\ sinceRead' = Never
Forget ==
    /\ stable' = Blank /\ hasStable' = FALSE /\ numCond' = FALSE
    /\ candidate' = Blank /\ candCount' = 0
    /\ sinceRead' = Never

idle ==
    \/ Forgets /\ Forget
    \/ ~Forgets /\ sinceRead' = ReadAge /\ UNCHANGED <<settledVars, countVars>>

\* The text run as Idle leaves it.
RunAfterIdle == IF Forgets THEN [text |-> Blank, run |-> 0]
                ELSE [text |-> lastText, run |-> textRun]

\* History of a poll that counted nothing: a long silence re-arms.
SilentHistory ==
    LET long == StaleAfter > 0 /\ silence > StaleAfter
    IN  /\ armed' = (armed \/ long)
        /\ promised' = (promised /\ ~long)
        /\ agree' = IF long THEN 0 ELSE agree
        /\ told' = (told /\ hasStable')
        /\ step' = "silent"
        /\ UNCHANGED <<said, unmetRun, silence, alertAge, lastPct>>

\* Idle called by the runner for a poll whose gate was closed.
Idle ==
    /\ cfg.type # "pixel_change"
    /\ idle
    /\ lastText' = RunAfterIdle.text /\ textRun' = RunAfterIdle.run
    /\ ev' = NoEvent
    /\ SilentHistory
    /\ UNCHANGED <<cfg, sinceFired, pix>>

-----------------------------------------------------------------------------
(* ObserveRead = observeText, then what the reading settles.               *)

\* settleText from the run r: ev is e with the text settled once it has been
\* read Confirm times in a row.
settleText(s, r, e) ==
    LET n == IF r.run > 0 /\ s = r.text THEN Capped(r.run + 1, Confirm) ELSE 1
    IN  /\ lastText' = s /\ textRun' = n
        /\ ev' = [e EXCEPT !.hasSettled = (n >= Confirm),
                           !.settled = IF n >= Confirm THEN s ELSE Blank]

\* settleNumber as far as text goes (the number is module Meter's): words
\* settle like text, numbers and readings that say nothing break the run.
settleNumber(s, r, e) ==
    IF unread(s) \/ lettered(s) \/ s \in Numeric \/ s = Blank
    THEN lastText' = r.text /\ textRun' = 0 /\ ev' = e
    ELSE settleText(s, r, e)

Settle(s, quiet, r, e) ==
    \/ cfg.type \in {"numeric", "value"} /\ settleNumber(s, r, e)
    \/ /\ cfg.type \notin {"numeric", "value"} /\ quiet
       /\ lastText' = r.text /\ textRun' = r.run /\ ev' = e
    \/ cfg.type \notin {"numeric", "value"} /\ ~quiet /\ settleText(s, r, e)

Run == [text |-> lastText, run |-> textRun]

\* The progress a skipped frame must not drop.
SkippedEvent_AllCounted ==
    LET ahead == /\ ~Forgets /\ candCount > 0
                 /\ edge(candidate, candidate = condMet)
    IN  [NoEvent EXCEPT !.pending = IF ahead THEN candCount ELSE 0,
                        !.waits = ahead /\ coolingDown]
SkippedEvent ==
    LET ahead == /\ ~Forgets /\ candCount > 0
                 /\ edge(candidate, candidate = condMet)
    IN  [NoEvent EXCEPT
           !.pending = IF ahead /\ (candCount < Confirm \/ coolingDown)
                       THEN Capped(candCount, Confirm) ELSE 0,
           !.waits = ahead /\ coolingDown]

\* skipped
SkipRead(s, unsure, held) ==
    /\ Skips(s, unsure, held)
    /\ idle
    /\ Settle(s, cfg.sevenSeg /\ s \in Partial, RunAfterIdle, SkippedEvent)
    /\ SilentHistory
    /\ UNCHANGED <<cfg, sinceFired, pix>>

\* A number a value watch records, or a numeric reading without a number.
PlainRead(s) ==
    /\ ~Skips(s, FALSE, FALSE)
    /\ \/ cfg.type = "value" /\ UNCHANGED countVars
       \/ NoNumber(s) /\ candidate' = Blank /\ candCount' = 0
    /\ sinceRead' = 0
    /\ Settle(s, FALSE, Run, NoEvent)
    /\ agree' = 0 /\ unmetRun' = 0 /\ silence' = 0
    /\ promised' = FALSE /\ step' = "plain"
    /\ UNCHANGED <<cfg, settledVars, sinceFired, pix, said, alertAge, armed,
                   told, lastPct>>

\* A reading that counts toward Confirm.
Counts(s, unsure, held) ==
    /\ cfg.type \in {"ocr_changed", "ocr_match", "numeric"}
    /\ ~Skips(s, unsure, held) /\ ~NoNumber(s)

CountOf_NeverResets(key) == Capped(candCount + 1, CountCap)
CountOf(key) == IF candCount > 0 /\ key = candidate
                THEN Capped(candCount + 1, CountCap) ELSE 1

\* What the display said, in its own words: the text, or the condition.
Says(s, unsure) == IF cfg.type = "ocr_changed" THEN s ELSE condKey(Met(s, unsure))

CountHistory(now) ==
    LET unmets == IF now = condUnmet THEN Capped(unmetRun + 1, CountCap) ELSE 0
    IN  /\ said' = now
        /\ agree' = IF agree > 0 /\ now = said THEN Capped(agree + 1, CountCap)
                    ELSE 1
        /\ unmetRun' = unmets
        /\ silence' = 0
        /\ armed' = (~ev'.fired /\ (armed \/ unmets >= leaveFactor * Confirm))
        /\ alertAge' = IF ev'.fired THEN 0 ELSE alertAge
        /\ promised' = (\/ promised /\ now = said /\ ~ev'.fired
                        \/ ev'.pending = Confirm /\ ev'.waits)
        /\ told' = (ev'.fired \/ (told /\ stable' = condMet))
        /\ step' = "counted"
        /\ UNCHANGED lastPct

Commit(key, met) ==
    /\ stable' = key /\ hasStable' = TRUE
    /\ numCond' = IF cfg.type = "numeric" THEN met ELSE numCond

\* A confirmed edge inside the cooldown commits nothing, so that it is still an
\* edge when the cooldown ends.
Hold_Commits(key, met) == Commit(key, met)
Hold(key, met) == UNCHANGED settledVars

CountRead(s, unsure, held) ==
    LET key   == KeyOf(s, unsure)
        met   == Met(s, unsure)
        n     == CountOf(key)
        quiet == cfg.type = "ocr_changed" /\ partlyRead(s)
        early == n < need(key)
        same  == hasStable /\ stable = key
    IN  /\ Counts(s, unsure, held)
        /\ sinceRead' = 0
        /\ candidate' = key /\ candCount' = n
        /\ \/ \* not confirmed yet
              /\ early
              /\ Settle(s, quiet, Run,
                   [NoEvent EXCEPT !.pending = IF edge(key, met) THEN n ELSE 0,
                      !.waits = edge(key, met) /\ coolingDown])
              /\ UNCHANGED <<settledVars, sinceFired>>
           \/ \* no transition
              /\ ~early /\ same
              /\ Settle(s, quiet, Run, NoEvent)
              /\ UNCHANGED <<settledVars, sinceFired>>
           \/ \* confirmed, and held by the cooldown
              /\ ~early /\ ~same /\ edge(key, met) /\ coolingDown
              /\ Hold(key, met)
              /\ Settle(s, quiet, Run,
                   [NoEvent EXCEPT !.pending = Confirm, !.waits = TRUE])
              /\ UNCHANGED sinceFired
           \/ \* a transition that is no news
              /\ ~early /\ ~same /\ ~edge(key, met)
              /\ Commit(key, met)
              /\ Settle(s, quiet, Run, NoEvent)
              /\ UNCHANGED sinceFired
           \/ \* fire
              /\ ~early /\ ~same /\ edge(key, met) /\ ~coolingDown
              /\ Commit(key, met)
              /\ sinceFired' = 0
              /\ Settle(s, quiet, Run, [NoEvent EXCEPT !.fired = TRUE])
        /\ CountHistory(Says(s, unsure))
        /\ UNCHANGED <<cfg, pix>>

ObserveRead ==
    /\ cfg.type # "pixel_change"
    /\ \E s \in Text,
          unsure \in (IF cfg.sevenSeg THEN BOOLEAN ELSE {FALSE}),
          held \in (IF cfg.counter THEN BOOLEAN ELSE {FALSE}) :
          /\ unsure => s \in Partial
          /\ \/ SkipRead(s, unsure, held)
             \/ PlainRead(s)
             \/ CountRead(s, unsure, held)

-----------------------------------------------------------------------------
(* pixel_change: threshold and cooldown only.                              *)

settlePixel_OnlyTimed(pct) ==
    pix' = IF ~pix.has \/ (pct # pix.text /\ pix.age >= PixelSettleEvery)
           THEN [has |-> TRUE, above |-> pct >= Threshold, text |-> pct, age |-> 0]
           ELSE pix
settlePixel(pct) ==
    LET above == pct >= Threshold
    IN  pix' = IF \/ ~pix.has \/ above # pix.above
                  \/ pct # pix.text /\ pix.age >= PixelSettleEvery
               THEN [has |-> TRUE, above |-> above, text |-> pct, age |-> 0]
               ELSE pix

ObservePixel(pct) ==
    LET fires == pct >= Threshold /\ ~coolingDown
    IN  /\ cfg.type = "pixel_change"
        /\ sinceFired' = IF fires THEN 0 ELSE sinceFired
        /\ alertAge' = IF fires THEN 0 ELSE alertAge
        /\ settlePixel(pct)
        /\ ev' = [NoEvent EXCEPT !.fired = fires]
        /\ lastPct' = pct /\ step' = "pixel"
        /\ UNCHANGED <<cfg, settledVars, countVars, sinceRead, textVars,
                       said, agree, unmetRun, silence, armed, promised,
                       told>>

-----------------------------------------------------------------------------
(* Time, and a restart of the watch.                                       *)

Tick ==
    /\ sinceFired' = Capped(sinceFired + 1, Cooldown)
    /\ sinceRead' = IF sinceRead = Never THEN Never
                    ELSE Capped(sinceRead + 1, StaleAfter + 1)
    /\ pix' = [pix EXCEPT !.age = IF pix.has THEN Capped(@ + 1, PixelSettleEvery)
                                  ELSE @]
    /\ silence' = Capped(silence + 1, StaleAfter + 1)
    /\ alertAge' = Capped(alertAge + 1, Cooldown)
    /\ ev' = NoEvent
    /\ step' = "tick"
    /\ UNCHANGED <<cfg, settledVars, countVars, textVars, said, agree, unmetRun,
                   armed, promised, told, lastPct>>

\* New, SetCounter and Restore of what the runner kept: the whole State, the
\* fire time alone (a settled state too old to trust), or nothing (another
\* trigger, or a fire nobody was told about).
Restart(kept) ==
    /\ sinceFired' = IF kept = "nothing" THEN Cooldown ELSE sinceFired
    /\ alertAge' = IF kept = "nothing" THEN Cooldown ELSE alertAge
    /\ LET keep == kept = "state" /\ hasStable /\ cfg.type # "value"
       IN  /\ hasStable' = keep
           /\ stable' = IF keep THEN stable ELSE Blank
           /\ numCond' = (keep /\ cfg.type = "numeric" /\ stable = condMet)
           /\ armed' = (armed \/ ~keep)
    /\ candidate' = Blank /\ candCount' = 0
    /\ sinceRead' = Never
    /\ lastText' = Blank /\ textRun' = 0
    /\ pix' = NoPixel
    /\ ev' = NoEvent
    /\ agree' = 0 /\ unmetRun' = 0
    /\ promised' = FALSE /\ told' = (told /\ hasStable') /\ step' = "restart"
    /\ UNCHANGED <<cfg, said, silence, lastPct>>

Init ==
    /\ cfg \in Configs
    /\ stable = Blank /\ hasStable = FALSE /\ numCond = FALSE
    /\ candidate = Blank /\ candCount = 0
    /\ sinceFired = Cooldown /\ sinceRead = Never
    /\ lastText = Blank /\ textRun = 0
    /\ pix = NoPixel
    /\ ev = NoEvent
    /\ said = Blank /\ agree = 0 /\ unmetRun = 0 /\ silence = 0
    /\ alertAge = Cooldown /\ armed = TRUE
    /\ promised = FALSE /\ told = FALSE /\ lastPct = 0 /\ step = "start"

Poll == Idle \/ ObserveRead \/ \E pct \in Percent : ObservePixel(pct)

Next ==
    \/ Poll
    \/ Tick
    \/ \E kept \in {"state", "fired", "nothing"} : Restart(kept)

\* The runner polls for ever and the clock runs; restarts are never forced.
Fairness == WF_vars(ObserveRead) /\ WF_vars(Tick)

Spec == Init /\ [][Next]_vars
FairSpec == Spec /\ Fairness

-----------------------------------------------------------------------------
(* Properties.                                                             *)

\* Every variable keeps its type: the settled and candidate keys are readings
\* or condition keys, the counts and ages stay below the bounds that name them.
SettledType ==
    /\ cfg \in Configs
    /\ stable \in Key
    /\ candidate \in Key /\ candCount \in 0..CountCap
FlagType ==
    /\ hasStable \in BOOLEAN /\ numCond \in BOOLEAN
    /\ armed \in BOOLEAN /\ promised \in BOOLEAN /\ told \in BOOLEAN
AgeType ==
    /\ sinceFired \in 0..Cooldown
    /\ sinceRead \in 0..(StaleAfter + 1) \cup {Never}
OutputType ==
    /\ lastText \in Text /\ textRun \in 0..Confirm
    /\ pix \in Pixel /\ ev \in Event
HistoryType ==
    /\ said \in Key /\ agree \in 0..CountCap /\ unmetRun \in 0..CountCap
    /\ silence \in 0..(StaleAfter + 1) /\ alertAge \in 0..Cooldown
    /\ lastPct \in Nat
    /\ step \in {"start", "silent", "plain", "counted", "pixel", "tick", "restart"}
TypeOK == SettledType /\ FlagType /\ AgeType /\ OutputType /\ HistoryType

\* One condition, one alert: between two alerts of an ocr_match or numeric
\* watch the display left the condition (2*Confirm counted readings in a row
\* without it), or nothing was read for longer than StaleAfter, or the watch
\* restarted without its settled state.  A misread frame, a '?', a blank frame
\* or a restart that kept the state never repeats an alert.
NoRepeatedAlert ==
    [][ev'.fired /\ cfg.type \in ConditionTypes => armed]_vars

\* Nothing fires on fewer than Confirm counted readings in a row that say the
\* same thing; for ocr_changed that is the same text, as read, every time.
FireIsConfirmed ==
    [][ev'.fired /\ cfg.type # "pixel_change" => agree' >= Confirm]_vars

\* Two alerts are at least Cooldown apart, restarts that kept the fire time
\* and settled states forgotten in between included.
CooldownSpacing == [][ev'.fired => alertAge >= Cooldown]_vars

\* A cooldown delays an alert, it never drops it: once a poll reported the
\* alert confirmed and held (Pending = Need, CooldownEnds set), the first
\* counted reading after the cooldown that still says the same fires.
HeldAlertFires ==
    [][promised /\ step' = "counted" /\ said' = said /\ ~coolingDown
          => ev'.fired]_vars

\* pixel_change's settled reading is on the side of the threshold the last
\* reading was on: a crossing shows at once, whatever the hold.
PixelSideShown == pix.has => (pix.text >= Threshold <=> lastPct >= Threshold)

\* A condition that is read from some point on, and never read away again, is
\* settled on and alerted in the end, cooldown or not.
SteadyConditionAlerts ==
    (cfg.type \in ConditionTypes /\ <>[](agree > 0 /\ said = condMet))
        => <>[](stable = condMet /\ told)

=============================================================================
