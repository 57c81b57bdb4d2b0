--------------------------- MODULE TriggerProofs ---------------------------
(* Type correctness and the safety properties of Trigger, for every set of  *)
(* readings, every Confirm, Cooldown and StaleAfter.                        *)
EXTENDS Trigger, TLAPS

\* What the type invariant does not say and the properties need: the Confirm
\* count in progress is backed by readings the display really gave, it is
\* never older than the evaluator's last reading, and only a met condition
\* that has not been left is disarmed.
CountBacked ==
    /\ cfg.type \in {"value", "pixel_change"} => candCount = 0
    /\ candCount > 0 => sinceRead = silence
    /\ candCount > 0 /\ candidate # said
          => cfg.type = "ocr_changed" /\ hasStable /\ candidate = stable
    /\ candCount > 0 /\ candidate = said
          => candCount <= agree
             \/ (cfg.type = "ocr_changed" /\ hasStable /\ candidate = stable)
    /\ candCount > 0 /\ candidate = condUnmet /\ cfg.type \in ConditionTypes
          => candCount <= unmetRun

Disarmed ==
    /\ sinceRead # Never => sinceRead <= silence
    /\ cfg.type = "numeric" => (numCond <=> hasStable /\ stable = condMet)
    /\ cfg.type \in ConditionTypes /\ ~armed => hasStable /\ stable = condMet

AgesAgree == alertAge = sinceFired

IInv == TypeOK /\ CountBacked /\ Disarmed /\ AgesAgree

-----------------------------------------------------------------------------

USE NumberAssumption

LEMMA CappedType ==
    ASSUME NEW n \in Nat, NEW cap \in Nat
    PROVE  /\ Capped(n, cap) \in 0..cap
           /\ Capped(n, cap) <= n
           /\ n < cap => Capped(n, cap) = n
           /\ n >= cap => Capped(n, cap) = cap
BY DEF Capped

LEMMA EventTypes == NoEvent \in Event /\ NoPixel \in Pixel
BY TextAssumption DEF NoEvent, Event, NoPixel, Pixel

LEMMA CountCapType ==
    CountCap \in Nat /\ Confirm \in Nat /\ 1 <= Confirm /\ Confirm < CountCap
BY DEF CountCap, leaveFactor

LEMMA KeyTypes ==
    /\ Blank \in Key /\ Blank \in Text /\ condMet \in Key /\ condUnmet \in Key
    /\ Text \subseteq Key /\ condMet # condUnmet
BY TextAssumption DEF condMet, condUnmet, Key

LEMMA InitIInv == Init => IInv
<1> SUFFICES ASSUME Init PROVE IInv
    OBVIOUS
<1> USE DEF Init
<1>1. SettledType
    BY CountCapType, KeyTypes DEF SettledType
<1>flags. FlagType
    BY DEF FlagType
<1>2. AgeType
    BY DEF AgeType
<1>3. OutputType
    BY EventTypes, KeyTypes DEF OutputType
<1>4. HistoryType
    BY CountCapType, KeyTypes DEF HistoryType
<1>5. CountBacked
    BY DEF CountBacked
<1>6. Disarmed
    BY DEF Disarmed
<1> QED BY <1>1, <1>flags, <1>2, <1>3, <1>4, <1>5, <1>6 DEF IInv, TypeOK, AgesAgree

LEMMA TickIInv == IInv /\ Tick => IInv'
<1> SUFFICES ASSUME IInv, Tick PROVE IInv'
    OBVIOUS
<1> USE DEF IInv, TypeOK, Tick, settledVars, countVars, textVars
<1>1. SettledType'
    BY DEF SettledType
<1>flags. FlagType'
    BY DEF FlagType
<1>2. AgeType'
    BY DEF AgeType, Capped, Never
<1>3. OutputType'
    BY EventTypes DEF OutputType, Capped, Pixel
<1>4. HistoryType'
    BY DEF HistoryType, Capped
<1>5. CountBacked'
    BY DEF CountBacked, SettledType, AgeType, HistoryType, Capped, Never
<1>6. Disarmed'
    BY DEF Disarmed, AgeType, HistoryType, Capped, Never
<1> QED BY <1>1, <1>flags, <1>2, <1>3, <1>4, <1>5, <1>6 DEF AgesAgree

LEMMA RestartIInv ==
    ASSUME IInv, NEW kept \in {"state", "fired", "nothing"}, Restart(kept)
    PROVE  IInv'
<1> USE DEF IInv, TypeOK, Restart
<1>1. SettledType'
    BY CountCapType, KeyTypes DEF SettledType
<1>flags. FlagType'
    BY DEF FlagType
<1>2. AgeType'
    BY DEF AgeType
<1>3. OutputType'
    BY EventTypes, KeyTypes DEF OutputType
<1>4. HistoryType'
    BY CountCapType DEF HistoryType
<1>5. CountBacked'
    BY DEF CountBacked
<1>6. Disarmed'
    BY DEF Disarmed, SettledType, ConditionTypes
<1> QED BY <1>1, <1>flags, <1>2, <1>3, <1>4, <1>5, <1>6 DEF AgesAgree

LEMMA PixelIInv ==
    ASSUME IInv, NEW pct \in Percent, ObservePixel(pct)
    PROVE  IInv'
<1> USE DEF IInv, TypeOK, ObservePixel, settledVars, countVars, textVars
<1>1. SettledType'
    BY DEF SettledType
<1>flags. FlagType'
    BY DEF FlagType
<1>2. AgeType'
    BY DEF AgeType
<1>3. pix' \in Pixel
    BY TextAssumption DEF OutputType, settlePixel, Pixel
<1>4. ev' \in Event
    BY EventTypes DEF Event
<1>5. OutputType'
    BY <1>3, <1>4 DEF OutputType
<1>6. HistoryType'
    BY TextAssumption DEF HistoryType
<1>7. CountBacked'
    BY DEF CountBacked
<1>8. Disarmed'
    BY DEF Disarmed
<1> QED BY <1>1, <1>flags, <1>2, <1>5, <1>6, <1>7, <1>8 DEF AgesAgree

-----------------------------------------------------------------------------
\* What settling a reading may do to the outputs: it never makes an event
\* fire, and never changes the progress the event reports.
RunType == [text : Text, run : 0..Confirm]

LEMMA SettleTextType ==
    ASSUME NEW s \in Text, NEW r \in RunType, NEW e \in Event,
           settleText(s, r, e)
    PROVE  /\ lastText' \in Text /\ textRun' \in 0..Confirm /\ ev' \in Event
           /\ ev'.fired = e.fired /\ ev'.pending = e.pending
<1> DEFINE n == IF r.run > 0 /\ s = r.text THEN Capped(r.run + 1, Confirm) ELSE 1
<1>1. n \in 0..Confirm
    BY DEF RunType, Capped
<1>2. lastText' = s /\ textRun' = n
    BY DEF settleText
<1>3. ev' = [e EXCEPT !.hasSettled = (n >= Confirm),
                      !.settled = IF n >= Confirm THEN s ELSE Blank]
    BY DEF settleText
<1>4. (n >= Confirm) \in BOOLEAN
    OBVIOUS
<1>5. ev' \in Event /\ ev'.fired = e.fired /\ ev'.pending = e.pending
    BY <1>3, <1>4, KeyTypes DEF Event
<1> QED BY <1>1, <1>2, <1>5

LEMMA SettleType ==
    ASSUME NEW s \in Text, NEW quiet, NEW r \in RunType, NEW e \in Event,
           Settle(s, quiet, r, e)
    PROVE  /\ lastText' \in Text /\ textRun' \in 0..Confirm /\ ev' \in Event
           /\ ev'.fired = e.fired /\ ev'.pending = e.pending
<1>1. CASE settleText(s, r, e)
    BY <1>1, SettleTextType
<1>2. CASE lastText' = r.text /\ textRun' \in {0, r.run} /\ ev' = e
    BY <1>2 DEF RunType
<1> QED BY <1>1, <1>2 DEF Settle, settleNumber

LEMMA RunTypes ==
    ASSUME OutputType
    PROVE  Run \in RunType /\ RunAfterIdle \in RunType
BY KeyTypes DEF OutputType, Run, RunAfterIdle, RunType

LEMMA SkippedEventType ==
    ASSUME SettledType
    PROVE  SkippedEvent \in Event /\ SkippedEvent.fired = FALSE
<1> DEFINE ahead == /\ ~Forgets /\ candCount > 0
                    /\ edge(candidate, candidate = condMet)
           p == IF ahead /\ (candCount < Confirm \/ coolingDown)
                THEN Capped(candCount, Confirm) ELSE 0
           w == ahead /\ coolingDown
<1>1. SkippedEvent = [NoEvent EXCEPT !.pending = p, !.waits = w]
    BY DEF SkippedEvent
<1>2. p \in 0..Confirm
    BY CountCapType DEF SettledType, Capped
<1>3. w \in BOOLEAN
    OBVIOUS
<1> HIDE DEF p, w
<1> QED BY <1>1, <1>2, <1>3, EventTypes DEF Event, NoEvent

\* A poll that counted nothing, seen (skipped) or not (a closed gate).
LEMMA SilentIInv ==
    ASSUME IInv, cfg.type # "pixel_change",
           idle, SilentHistory, UNCHANGED <<cfg, sinceFired, pix>>,
           lastText' \in Text, textRun' \in 0..Confirm, ev' \in Event
    PROVE  IInv'
<1> USE DEF IInv, TypeOK, SilentHistory
<1>1. ReadAge \in 0..(StaleAfter + 1) /\ (sinceRead # Never => ReadAge = sinceRead)
    BY DEF AgeType, ReadAge, Never
<1>2. SettledType'
    BY CountCapType, KeyTypes DEF SettledType, idle, Forget, settledVars, countVars
<1>flags. FlagType'
    BY DEF FlagType, idle, Forget, settledVars
<1>3. AgeType'
    BY <1>1 DEF AgeType, idle, Forget
<1>4. OutputType'
    BY DEF OutputType
<1>5. HistoryType'
    BY CountCapType DEF HistoryType
<1>6. CASE Forgets
  <2>1. /\ StaleAfter > 0 /\ silence > StaleAfter
        /\ hasStable' = FALSE /\ numCond' = FALSE /\ candCount' = 0
        /\ sinceRead' = Never
    BY <1>1, <1>6 DEF Forgets, Disarmed, idle, Forget, ReadAge, AgeType,
       HistoryType, Never
  <2>2. armed' = TRUE
    BY <2>1
  <2>3. CountBacked' /\ Disarmed'
    BY <2>1, <2>2 DEF CountBacked, Disarmed
  <2> QED BY <1>2, <1>flags, <1>3, <1>4, <1>5, <2>3 DEF AgesAgree
<1>7. CASE ~Forgets
  <2>1. /\ UNCHANGED <<settledVars, countVars>>
        /\ sinceRead' = ReadAge /\ silence' = silence
    BY <1>7 DEF idle
  <2>2. candCount > 0 => agree' = agree /\ sinceRead' = silence
    <3> SUFFICES ASSUME candCount > 0
                 PROVE  agree' = agree /\ sinceRead' = silence
        OBVIOUS
    <3>1. sinceRead = silence /\ silence \in 0..(StaleAfter + 1)
        BY DEF CountBacked, HistoryType
    <3>2. ReadAge = silence
        BY <1>1, <3>1 DEF Never
    <3>3. ~(StaleAfter > 0 /\ silence > StaleAfter)
        BY <1>7, <3>2 DEF Forgets
    <3> QED BY <2>1, <3>2, <3>3
  <2>3. CountBacked'
    <3>1. /\ cfg' = cfg /\ candCount' = candCount /\ candidate' = candidate
          /\ said' = said /\ unmetRun' = unmetRun /\ stable' = stable
          /\ hasStable' = hasStable
        BY <2>1 DEF settledVars, countVars
    <3>2. CASE candCount > 0
        BY <3>1, <3>2, <2>2 DEF CountBacked
    <3>3. CASE ~(candCount > 0)
        BY <3>1, <3>3 DEF CountBacked
    <3> QED BY <3>2, <3>3
  <2>4. Disarmed'
    <3>1. ReadAge <= silence
        BY DEF Disarmed, HistoryType, ReadAge
    <3>2. ~armed' => ~armed
        OBVIOUS
    <3>3. /\ cfg' = cfg /\ stable' = stable /\ hasStable' = hasStable
          /\ numCond' = numCond
        BY <2>1 DEF settledVars
    <3> QED BY <2>1, <3>1, <3>2, <3>3 DEF Disarmed
  <2> QED BY <1>2, <1>flags, <1>3, <1>4, <1>5, <2>3, <2>4 DEF AgesAgree
<1> QED BY <1>6, <1>7

LEMMA IdleIInv == IInv /\ Idle => IInv'
<1> SUFFICES ASSUME IInv, Idle PROVE IInv'
    OBVIOUS
<1>1. lastText' \in Text /\ textRun' \in 0..Confirm /\ ev' \in Event
    BY RunTypes, EventTypes DEF IInv, TypeOK, Idle, RunType
<1> QED BY <1>1, SilentIInv DEF Idle

LEMMA SkipReadIInv ==
    ASSUME IInv, cfg.type # "pixel_change",
           NEW s \in Text, NEW unsure, NEW held, SkipRead(s, unsure, held)
    PROVE  IInv' /\ ev'.fired = FALSE
<1>1. /\ lastText' \in Text /\ textRun' \in 0..Confirm /\ ev' \in Event
      /\ ev'.fired = FALSE
    BY RunTypes, SkippedEventType, SettleType DEF IInv, TypeOK, SkipRead
<1> QED BY <1>1, SilentIInv DEF SkipRead

LEMMA PlainReadIInv ==
    ASSUME IInv, cfg.type # "pixel_change", NEW s \in Text, PlainRead(s)
    PROVE  IInv' /\ ev'.fired = FALSE
<1> USE DEF IInv, TypeOK, PlainRead, settledVars, countVars
<1>1. /\ lastText' \in Text /\ textRun' \in 0..Confirm /\ ev' \in Event
      /\ ev'.fired = FALSE
    BY RunTypes, EventTypes, SettleType DEF NoEvent
<1>2. candCount' = 0
    <2>1. CASE cfg.type = "value" /\ UNCHANGED countVars
        BY <2>1 DEF CountBacked, countVars
    <2> QED BY <2>1
<1>3. SettledType'
    BY <1>2, CountCapType, KeyTypes DEF SettledType
<1>flags. FlagType'
    BY DEF FlagType
<1>4. AgeType'
    BY DEF AgeType
<1>5. OutputType'
    BY <1>1 DEF OutputType
<1>6. HistoryType'
    BY CountCapType DEF HistoryType
<1>7. CountBacked'
    BY <1>2 DEF CountBacked
<1>8. Disarmed'
    BY DEF Disarmed
<1> QED BY <1>1, <1>3, <1>flags, <1>4, <1>5, <1>6, <1>7, <1>8 DEF AgesAgree

-----------------------------------------------------------------------------
(* A reading that counts: the heart of the evaluator.                      *)

\* The candidate key is what the reading says, unless an ocr_changed watch
\* takes a partly read text as the one it has settled on.
LEMMA KeyOfIs ==
    ASSUME NEW s \in Text, NEW unsure \in BOOLEAN, SettledType
    PROVE  /\ KeyOf(s, unsure) \in Key /\ Says(s, unsure) \in Key
           /\ \/ KeyOf(s, unsure) = Says(s, unsure)
              \/ cfg.type = "ocr_changed" /\ hasStable /\ KeyOf(s, unsure) = stable
           /\ cfg.type \in ConditionTypes =>
                  /\ KeyOf(s, unsure) = Says(s, unsure)
                  /\ KeyOf(s, unsure) = condKey(Met(s, unsure))
<1>1. condKey(Met(s, unsure)) \in Key
    BY KeyTypes DEF condKey
<1> QED BY <1>1, KeyTypes DEF KeyOf, Says, partlyRead, SettledType, ConditionTypes

\* One more reading with candidate key k, in a run of the display's own.
LEMMA CountOfIs ==
    ASSUME SettledType, HistoryType, NEW k
    PROVE  /\ CountOf(k) \in 0..CountCap /\ CountOf(k) >= 1
           /\ candCount > 0 /\ k = candidate
                 => CountOf(k) <= candCount + 1
           /\ ~(candCount > 0 /\ k = candidate) => CountOf(k) = 1
BY CountCapType DEF CountOf, Capped, SettledType

LEMMA CountReadIInv ==
    ASSUME IInv, NEW s \in Text, NEW unsure \in BOOLEAN, NEW held,
           CountRead(s, unsure, held)
    PROVE  /\ IInv'
           /\ ev'.fired /\ cfg.type \in ConditionTypes => armed
           /\ ev'.fired => agree' >= Confirm
           /\ ev'.fired => ~coolingDown
<1> DEFINE key == KeyOf(s, unsure)
           met == Met(s, unsure)
           now == Says(s, unsure)
           n == CountOf(key)
           unmets == IF now = condUnmet THEN Capped(unmetRun + 1, CountCap) ELSE 0
           quiet == cfg.type = "ocr_changed" /\ partlyRead(s)
           ahead == edge(key, met)
           Outcome(e) ==
             /\ Settle(s, quiet, Run, e)
             /\ \/ UNCHANGED settledVars /\ UNCHANGED sinceFired /\ e.fired = FALSE
                \/ /\ n >= need(key) /\ ~(hasStable /\ stable = key)
                   /\ Commit(key, met)
                   /\ \/ UNCHANGED sinceFired /\ e.fired = FALSE /\ ~ahead
                      \/ sinceFired' = 0 /\ e.fired = TRUE /\ ahead /\ ~coolingDown
<1>1. /\ sinceRead' = 0 /\ candidate' = key /\ candCount' = n
      /\ CountHistory(now) /\ UNCHANGED <<cfg, pix>>
      /\ cfg.type \in {"ocr_changed", "ocr_match", "numeric"}
    BY DEF CountRead, Counts
<1>2. SettledType /\ FlagType /\ AgeType /\ OutputType /\ HistoryType
    BY DEF IInv, TypeOK
<1>key. /\ key \in Key /\ now \in Key
        /\ key = now \/ (cfg.type = "ocr_changed" /\ hasStable /\ key = stable)
        /\ cfg.type \in ConditionTypes => key = now /\ key = condKey(met)
    BY <1>2, KeyOfIs
<1>n. /\ n \in 0..CountCap /\ n >= 1
      /\ candCount > 0 /\ key = candidate => n <= candCount + 1
      /\ ~(candCount > 0 /\ key = candidate) => n = 1
    BY <1>2, CountOfIs
<1>ahead. ahead /\ n < need(key) => n <= Confirm
    <2>1. CASE key # condUnmet
        BY <2>1, <1>n DEF need
    <2>2. CASE key = condUnmet /\ cfg.type \in ConditionTypes
        BY <2>2, <1>key, KeyTypes DEF edge, condKey, ConditionTypes
    <2>3. CASE key = condUnmet /\ cfg.type = "ocr_changed"
        BY <2>3, <1>key, TextAssumption DEF edge, Says
    <2> QED BY <1>1, <2>1, <2>2, <2>3 DEF ConditionTypes
\* The five outcomes, as what they change and the event they report.
<1>3. \E e \in Event : Outcome(e)
  <2> DEFINE e1 == [NoEvent EXCEPT !.pending = IF ahead THEN n ELSE 0,
                                   !.waits = ahead /\ coolingDown]
             e2 == [NoEvent EXCEPT !.pending = Confirm, !.waits = TRUE]
             e3 == [NoEvent EXCEPT !.fired = TRUE]
  <2>1. NoEvent \in Event /\ NoEvent.fired = FALSE
      BY EventTypes DEF NoEvent
  <2>2. e2 \in Event /\ e2.fired = FALSE /\ e3 \in Event /\ e3.fired = TRUE
      <3>0. Confirm \in 0..Confirm
          BY CountCapType
      <3>1. e2 \in Event /\ e2.fired = FALSE
          BY <3>0, EventTypes, Zenon DEF NoEvent, Event
      <3>2. e3 \in Event /\ e3.fired = TRUE
          BY EventTypes DEF NoEvent, Event
      <3> QED BY <3>1, <3>2
  <2>3. n < need(key) => e1 \in Event /\ e1.fired = FALSE
      <3> SUFFICES ASSUME n < need(key) PROVE e1 \in Event /\ e1.fired = FALSE
          OBVIOUS
      <3>1. (IF ahead THEN n ELSE 0) \in 0..Confirm
          BY <1>n, <1>ahead
      <3>2. (ahead /\ coolingDown) \in BOOLEAN
          OBVIOUS
      <3> HIDE DEF n, ahead
      <3> QED BY <3>1, <3>2, EventTypes DEF NoEvent, Event
  <2>4. \/ n < need(key) /\ Outcome(e1)
        \/ Outcome(NoEvent)
        \/ Outcome(e2)
        \/ Outcome(e3)
      <3>1. \/ /\ n < need(key) /\ Settle(s, quiet, Run, e1)
               /\ UNCHANGED <<settledVars, sinceFired>>
            \/ Settle(s, quiet, Run, NoEvent) /\ UNCHANGED <<settledVars, sinceFired>>
            \/ /\ Settle(s, quiet, Run, e2) /\ Hold(key, met)
               /\ UNCHANGED sinceFired
            \/ /\ ~(n < need(key)) /\ ~(hasStable /\ stable = key)
               /\ ~ahead /\ Commit(key, met)
               /\ Settle(s, quiet, Run, NoEvent) /\ UNCHANGED sinceFired
            \/ /\ ~(n < need(key)) /\ ~(hasStable /\ stable = key)
               /\ ahead /\ ~coolingDown /\ Commit(key, met) /\ sinceFired' = 0
               /\ Settle(s, quiet, Run, e3)
          BY DEF CountRead
      <3>2. ~(n < need(key)) => n >= need(key)
          BY <1>n, CountCapType DEF need, leaveFactor
      <3> HIDE DEF n, key, met, ahead, quiet, e1, e2, e3
      <3> QED BY <2>1, <2>2, <2>3, <3>1, <3>2 DEF Hold
  <2> QED BY <2>1, <2>2, <2>3, <2>4
<1>4. PICK e \in Event : Outcome(e)
    BY <1>3
<1>5. /\ lastText' \in Text /\ textRun' \in 0..Confirm /\ ev' \in Event
      /\ ev'.fired = e.fired
    BY <1>2, <1>4, RunTypes, SettleType
<1>6. /\ said' = now /\ silence' = 0 /\ unmetRun' = unmets
      /\ agree' = (IF agree > 0 /\ now = said THEN Capped(agree + 1, CountCap) ELSE 1)
      /\ armed' = (~ev'.fired /\ (armed \/ unmets >= leaveFactor * Confirm))
      /\ alertAge' = IF ev'.fired THEN 0 ELSE alertAge
    BY <1>1 DEF CountHistory
\* The display itself said it as often as the evaluator counted.
<1>backed. ~(cfg.type = "ocr_changed" /\ hasStable /\ key = stable)
              => key = now /\ n <= agree'
  <2> SUFFICES ASSUME ~(cfg.type = "ocr_changed" /\ hasStable /\ key = stable)
               PROVE  key = now /\ n <= agree'
      OBVIOUS
  <2>1. key = now
      BY <1>key
  <2>2. CASE candCount > 0 /\ key = candidate
    <3>1. said = now /\ candCount <= agree
        BY <2>1, <2>2 DEF IInv, CountBacked
    <3>2. agree' = Capped(agree + 1, CountCap) /\ n = Capped(candCount + 1, CountCap)
        BY <1>2, <1>6, <2>2, <3>1 DEF CountOf, HistoryType, SettledType
    <3> QED BY <1>2, <2>1, <3>1, <3>2, CountCapType
            DEF Capped, HistoryType, SettledType
  <2>3. CASE ~(candCount > 0 /\ key = candidate)
    <3>1. agree' >= 1
        BY <1>2, <1>6, CountCapType DEF Capped, HistoryType
    <3>2. n = 1
        BY <1>n, <2>3
    <3> QED BY <2>1, <3>1, <3>2
  <2> QED BY <2>2, <2>3
<1>unmet. cfg.type \in ConditionTypes /\ key = condUnmet => n <= unmets
  <2> SUFFICES ASSUME cfg.type \in ConditionTypes, key = condUnmet
               PROVE  n <= unmets
      OBVIOUS
  <2>1. unmets = Capped(unmetRun + 1, CountCap)
      BY <1>key
  <2>2. CASE candCount > 0 /\ key = candidate
    <3>1. candCount <= unmetRun
        BY <2>2 DEF IInv, CountBacked
    <3>2. n = Capped(candCount + 1, CountCap)
        BY <2>2 DEF CountOf
    <3> QED BY <1>2, <2>1, <3>1, <3>2, CountCapType
            DEF Capped, HistoryType, SettledType
  <2>3. CASE ~(candCount > 0 /\ key = candidate)
      BY <1>2, <1>n, <2>1, <2>3, CountCapType DEF Capped, HistoryType
  <2> QED BY <2>2, <2>3
<1> HIDE DEF key, met, now, n, unmets, quiet, ahead
<1>7. SettledType'
    BY <1>1, <1>2, <1>4, <1>key, <1>n DEF SettledType, Commit, settledVars
<1>flags. FlagType'
  <2>1. met \in BOOLEAN
      BY DEF met, Met
  <2>2. hasStable' \in BOOLEAN /\ numCond' \in BOOLEAN
      BY <1>2, <1>4, <2>1 DEF FlagType, Commit, settledVars
  <2>3. armed' \in BOOLEAN
      BY <1>6
  <2>4. promised' \in BOOLEAN /\ told' \in BOOLEAN
      BY <1>1 DEF CountHistory
  <2> QED BY <2>2, <2>3, <2>4 DEF FlagType
<1>8. AgeType'
    BY <1>1, <1>2, <1>4 DEF AgeType
<1>9. OutputType'
    BY <1>1, <1>2, <1>5 DEF OutputType
<1>10. HistoryType'
  <2>1. agree' \in 0..CountCap /\ unmetRun' \in 0..CountCap
      BY <1>2, <1>6, CountCapType DEF unmets, Capped, HistoryType
  <2>2. lastPct' = lastPct /\ step' = "counted"
      BY <1>1 DEF CountHistory
  <2> QED BY <1>2, <1>6, <1>key, <2>1, <2>2 DEF HistoryType
<1>11. CountBacked'
  <2>1. cfg' = cfg /\ candCount' = n /\ candidate' = key /\ said' = now
        /\ sinceRead' = silence' /\ unmetRun' = unmets
      BY <1>1, <1>6
  <2>2. cfg.type \notin {"value", "pixel_change"}
      BY <1>1
  <2>3. cfg.type = "ocr_changed" /\ hasStable /\ key = stable
           => hasStable' /\ key = stable'
      BY <1>4 DEF settledVars
  <2>4. key # now => cfg.type = "ocr_changed" /\ hasStable' /\ key = stable'
      BY <1>backed, <2>3
  <2>5. n <= agree' \/ (cfg.type = "ocr_changed" /\ hasStable' /\ key = stable')
      BY <1>backed, <2>3
  <2>6. key = condUnmet /\ cfg.type \in ConditionTypes => n <= unmets
      BY <1>unmet
  <2> QED BY <2>1, <2>2, <2>4, <2>5, <2>6 DEF CountBacked
<1>12. ahead /\ cfg.type \in ConditionTypes
          => met /\ key = condMet /\ ~(hasStable /\ stable = condMet)
    BY <1>key DEF ahead, edge, condKey, ConditionTypes, IInv, Disarmed
<1>13. Disarmed'
  <2>1. sinceRead' # Never => sinceRead' <= silence'
      BY <1>1, <1>6
  <2>2. cfg.type = "numeric" => (numCond' <=> hasStable' /\ stable' = condMet)
    <3>1. CASE UNCHANGED settledVars
        BY <3>1 DEF IInv, Disarmed, settledVars
    <3>2. CASE Commit(key, met)
        BY <3>2, <1>key, KeyTypes DEF Commit, condKey, ConditionTypes
    <3> QED BY <1>4, <3>1, <3>2
  <2>3. ASSUME cfg.type \in ConditionTypes, ~armed'
        PROVE  hasStable' /\ stable' = condMet
    <3>1. CASE e.fired = TRUE
        BY <1>4, <1>12, <2>3, <3>1 DEF Commit
    <3>2. CASE e.fired = FALSE
      <4>1. hasStable /\ stable = condMet /\ ~(unmets >= leaveFactor * Confirm)
          BY <1>5, <1>6, <2>3, <3>2 DEF IInv, Disarmed
      <4>2. CASE n >= need(key) /\ ~(hasStable /\ stable = key)
        <5>1. key = condUnmet
            BY <1>key, <2>3, <4>1, <4>2 DEF condKey
        <5>2. n >= leaveFactor * Confirm
            BY <4>1, <4>2, <5>1 DEF need
        <5>3. n <= unmets /\ unmets \in Nat /\ n \in Nat
            BY <1>unmet, <2>3, <5>1, <1>2, <1>n, CountCapType
            DEF unmets, Capped, HistoryType
        <5> QED BY <4>1, <5>2, <5>3, NumberAssumption DEF leaveFactor
      <4>3. CASE UNCHANGED settledVars
          BY <4>1, <4>3 DEF settledVars
      <4> QED BY <1>4, <3>2, <4>2, <4>3
    <3> QED BY <1>4, <3>1, <3>2
  <2> QED BY <1>1, <2>1, <2>2, <2>3 DEF Disarmed
<1>14. AgesAgree'
    BY <1>4, <1>5, <1>6 DEF AgesAgree, IInv
<1>15. ASSUME ev'.fired PROVE ahead /\ ~coolingDown /\ n >= need(key)
    BY <1>4, <1>5, <1>15
<1>16. ev'.fired /\ cfg.type \in ConditionTypes => armed
    BY <1>12, <1>15 DEF IInv, Disarmed
<1>17. ev'.fired => agree' >= Confirm
  <2> SUFFICES ASSUME ev'.fired PROVE agree' >= Confirm
      OBVIOUS
  <2>1. need(key) >= Confirm /\ need(key) \in Nat
      BY CountCapType DEF need, leaveFactor
  <2>2. ~(cfg.type = "ocr_changed" /\ hasStable /\ key = stable)
      BY <1>15 DEF ahead, edge
  <2>3. n <= agree' /\ n \in Nat /\ agree' \in Nat
      BY <1>backed, <2>2, <1>10, <1>n, CountCapType DEF HistoryType
  <2> QED BY <1>15, <2>1, <2>3, CountCapType
<1> QED BY <1>7, <1>flags, <1>8, <1>9, <1>10, <1>11, <1>13, <1>14, <1>15, <1>16,
           <1>17 DEF IInv, TypeOK

-----------------------------------------------------------------------------
\* What a step may fire, given the inductive invariant.
FireRule ==
    /\ ev'.fired /\ cfg.type \in ConditionTypes => armed
    /\ ev'.fired /\ cfg.type # "pixel_change" => agree' >= Confirm
    /\ ev'.fired => ~coolingDown

LEMMA NextStep == IInv /\ Next => IInv' /\ FireRule
<1> SUFFICES ASSUME IInv, Next PROVE IInv' /\ FireRule
    OBVIOUS
<1>1. CASE Idle
    BY <1>1, IdleIInv DEF Idle, NoEvent, FireRule
<1>2. CASE ObserveRead
  <2>1. PICK s \in Text, unsure \in BOOLEAN, held \in BOOLEAN :
            SkipRead(s, unsure, held) \/ PlainRead(s) \/ CountRead(s, unsure, held)
      BY <1>2 DEF ObserveRead
  <2>2. cfg.type # "pixel_change"
      BY <1>2 DEF ObserveRead
  <2> QED BY <2>1, <2>2, SkipReadIInv, PlainReadIInv, CountReadIInv DEF FireRule
<1>3. CASE \E pct \in Percent : ObservePixel(pct)
  <2>1. PICK pct \in Percent : ObservePixel(pct)
      BY <1>3
  <2>2. cfg.type = "pixel_change" /\ (ev'.fired => ~coolingDown)
      BY <2>1 DEF ObservePixel, NoEvent
  <2> QED BY <2>1, <2>2, PixelIInv DEF FireRule, ConditionTypes
<1>4. CASE Tick
    BY <1>4, TickIInv DEF Tick, NoEvent, FireRule
<1>5. CASE \E kept \in {"state", "fired", "nothing"} : Restart(kept)
  <2>1. PICK kept \in {"state", "fired", "nothing"} : Restart(kept)
      BY <1>5
  <2>2. ev'.fired = FALSE
      BY <2>1 DEF Restart, NoEvent
  <2> QED BY <2>1, <2>2, RestartIInv DEF FireRule
<1> QED BY <1>1, <1>2, <1>3, <1>4, <1>5 DEF Next, Poll

LEMMA StutterIInv == IInv /\ UNCHANGED vars => IInv'
<1> SUFFICES ASSUME IInv, UNCHANGED vars PROVE IInv'
    OBVIOUS
<1> USE DEF vars, settledVars, countVars, textVars, historyVars
<1>1. TypeOK'
    BY DEF IInv, TypeOK, SettledType, FlagType, AgeType, OutputType, HistoryType
<1>2. CountBacked' /\ Disarmed' /\ AgesAgree'
    BY DEF IInv, CountBacked, Disarmed, AgesAgree
<1> QED BY <1>1, <1>2 DEF IInv

THEOREM InductiveInvariant == Spec => []IInv
<1>1. IInv /\ [Next]_vars => IInv'
    BY NextStep, StutterIInv
<1> QED BY InitIInv, <1>1, PTL DEF Spec

\* The evaluator's state is well typed in every reachable state.
THEOREM TypeCorrect == Spec => []TypeOK
<1>1. IInv => TypeOK
    BY DEF IInv
<1> QED BY InductiveInvariant, <1>1, PTL

\* An ocr_match or numeric watch alerts once per condition: Trigger's
\* hysteresis, for every Confirm, whatever the display is misread as.
THEOREM NoRepeatedAlertHolds == Spec => NoRepeatedAlert
<1>1. IInv /\ [Next]_vars =>
         [ev'.fired /\ cfg.type \in ConditionTypes => armed]_vars
    BY NextStep DEF FireRule
<1> QED BY InductiveInvariant, <1>1, PTL DEF Spec, NoRepeatedAlert

\* Every alert but pixel_change's was read Confirm times in a row.
THEOREM FireIsConfirmedHolds == Spec => FireIsConfirmed
<1>1. IInv /\ [Next]_vars =>
         [ev'.fired /\ cfg.type # "pixel_change" => agree' >= Confirm]_vars
    BY NextStep DEF FireRule
<1> QED BY InductiveInvariant, <1>1, PTL DEF Spec, FireIsConfirmed

\* Alerts are a cooldown apart, forgetting and restarts included.
THEOREM CooldownSpacingHolds == Spec => CooldownSpacing
<1>1. IInv /\ ~coolingDown => alertAge >= Cooldown
    BY DEF IInv, TypeOK, AgeType, AgesAgree, coolingDown
<1>2. IInv /\ [Next]_vars => [ev'.fired => alertAge >= Cooldown]_vars
    BY <1>1, NextStep DEF FireRule
<1> QED BY InductiveInvariant, <1>2, PTL DEF Spec, CooldownSpacing

\* The held reading's remembered side, its percentage and the last difference
\* agree: settlePixel compares sides through pix.above, so the property on
\* texts is not inductive without it.
PixelSides ==
    pix.has => /\ pix.above <=> lastPct >= Threshold
               /\ pix.above <=> pix.text >= Threshold

\* A step that is not a pixel poll, the clock or a restart leaves pix alone.
LEMMA ReadsLeavePixels ==
    ASSUME Idle \/ ObserveRead
    PROVE  pix' = pix /\ lastPct' = lastPct
<1>1. CASE Idle
    BY <1>1 DEF Idle, SilentHistory
<1>2. CASE ObserveRead
  <2>1. PICK s \in Text, unsure \in BOOLEAN, held \in BOOLEAN :
              SkipRead(s, unsure, held) \/ PlainRead(s) \/ CountRead(s, unsure, held)
      BY <1>2 DEF ObserveRead
  <2>2. CASE SkipRead(s, unsure, held)
      BY <2>2 DEF SkipRead, SilentHistory
  <2>3. CASE PlainRead(s)
      BY <2>3 DEF PlainRead
  <2>4. CASE CountRead(s, unsure, held)
      BY <2>4 DEF CountRead, CountHistory
  <2> QED BY <2>1, <2>2, <2>3, <2>4
<1> QED BY <1>1, <1>2

LEMMA NextPixelSides ==
    ASSUME TypeOK, PixelSides, [Next]_vars
    PROVE  PixelSides'
<1>1. pix \in Pixel
    BY DEF TypeOK, OutputType
<1>2. CASE Idle \/ ObserveRead
    BY <1>2, ReadsLeavePixels DEF PixelSides
<1>3. CASE \E pct \in Percent : ObservePixel(pct)
  <2>1. PICK pct \in Percent : ObservePixel(pct)
      BY <1>3
  <2>2. lastPct' = pct /\ settlePixel(pct)
      BY <2>1 DEF ObservePixel
  <2>3. CASE pix' = [has |-> TRUE, above |-> pct >= Threshold,
                     text |-> pct, age |-> 0]
      BY <2>2, <2>3 DEF PixelSides
  <2>4. CASE /\ pix' = pix /\ pix.has
             /\ pix.above = (pct >= Threshold)
      BY <2>2, <2>4 DEF PixelSides
  <2> QED BY <1>1, <2>2, <2>3, <2>4 DEF settlePixel, Pixel
<1>4. CASE Tick
  <2>1. lastPct' = lastPct /\ pix'.has = pix.has
        /\ pix'.above = pix.above /\ pix'.text = pix.text
      BY <1>1, <1>4 DEF Tick, Pixel
  <2> QED BY <2>1 DEF PixelSides
<1>5. CASE \E kept \in {"state", "fired", "nothing"} : Restart(kept)
    BY <1>5 DEF Restart, NoPixel, PixelSides
<1>6. CASE UNCHANGED vars
    BY <1>6 DEF vars, historyVars, PixelSides
<1> QED BY <1>2, <1>3, <1>4, <1>5, <1>6 DEF Next, Poll

\* A pixel_change watch shows the side of the threshold its last reading was on,
\* whatever PixelSettleEvery, the threshold and the differences are.
THEOREM PixelSideIsShown == Spec => []PixelSideShown
<1>1. Init => PixelSides
    BY DEF Init, NoPixel, PixelSides
<1>2. TypeOK /\ PixelSides /\ [Next]_vars => PixelSides'
    BY NextPixelSides
<1>3. PixelSides => PixelSideShown
    BY DEF PixelSides, PixelSideShown
<1> QED BY TypeCorrect, <1>1, <1>2, <1>3, PTL DEF Spec

-----------------------------------------------------------------------------
(* A held alert is owed.  What HeldAlertFires needs of the state once an    *)
(* alert was reported confirmed and held: the count that confirmed it still *)
(* stands, for the very words the display said last, and they are still an  *)
(* edge of the settled state, read whole.                                   *)

\* The candidate is an alert: the edge the code asks for, spelled out.
StillNews ==
    \/ /\ cfg.type = "ocr_changed"
       /\ candidate \in Text /\ hasStable /\ stable # candidate
       /\ cfg.sevenSeg => <<stable, candidate>> \notin Fit
       /\ candidate \in Partial /\ cfg.sevenSeg => <<candidate, stable>> \notin Fit
    \/ /\ cfg.type \in ConditionTypes
       /\ candidate = condMet /\ ~(hasStable /\ stable = condMet)

Owed == promised => candCount >= Confirm /\ candidate = said /\ StillNews

\* What settling a reading leaves of the event, whatever progress it reports.
Report == [fired : BOOLEAN, pending : Int, waits : BOOLEAN,
           hasSettled : BOOLEAN, settled : Text]

LEMMA SettleKeepsReport ==
    ASSUME NEW s, NEW quiet, NEW r, NEW e \in Report, Settle(s, quiet, r, e)
    PROVE  ev'.fired = e.fired /\ ev'.pending = e.pending /\ ev'.waits = e.waits
<1>1. CASE settleText(s, r, e)
  <2> DEFINE n == IF r.run > 0 /\ s = r.text THEN Capped(r.run + 1, Confirm) ELSE 1
             settled == IF n >= Confirm THEN s ELSE Blank
  <2>1. ev' = [e EXCEPT !.hasSettled = (n >= Confirm), !.settled = settled]
      BY <1>1 DEF settleText
  <2> HIDE DEF n, settled
  <2> QED BY <2>1 DEF Report
<1>2. CASE ev' = e
    BY <1>2
<1> QED BY <1>1, <1>2 DEF Settle, settleNumber

\* A step that leaves the candidate and the settled state alone owes what it
\* owed before.
LEMMA OwedKept ==
    ASSUME Owed, promised' => promised,
           UNCHANGED <<cfg, settledVars, countVars, said>>
    PROVE  Owed'
BY DEF Owed, StillNews, settledVars, countVars

\* A poll that counted nothing: the settled state is forgotten only after a
\* silence that ends the promise too.
LEMMA SilentOwed ==
    ASSUME IInv, Owed, idle, SilentHistory, cfg' = cfg
    PROVE  Owed'
<1>1. CASE Forgets /\ promised
  <2>1. candCount > 0 /\ candCount \in Nat
      BY <1>1, CountCapType DEF Owed, IInv, TypeOK, SettledType
  <2>2. sinceRead = silence /\ silence \in 0..(StaleAfter + 1)
      BY <2>1 DEF IInv, CountBacked, TypeOK, HistoryType
  <2>3. StaleAfter > 0 /\ silence > StaleAfter
      BY <1>1, <2>2 DEF Forgets, ReadAge, Never
  <2>4. promised' = FALSE
      BY <2>3 DEF SilentHistory
  <2> QED BY <2>4 DEF Owed
<1>2. CASE ~Forgets
    BY <1>2, OwedKept DEF idle, SilentHistory
<1>3. CASE ~promised
    BY <1>3 DEF SilentHistory, Owed
<1> QED BY <1>1, <1>2, <1>3

\* A counted reading: it holds, it fires, or the promise is over.
LEMMA CountReadOwed ==
    ASSUME IInv, Owed, NEW s \in Text, NEW unsure \in BOOLEAN, NEW held,
           CountRead(s, unsure, held)
    PROVE  /\ Owed'
           /\ promised /\ said' = said /\ ~coolingDown => ev'.fired
<1> DEFINE key == KeyOf(s, unsure)
           met == Met(s, unsure)
           now == Says(s, unsure)
           n == CountOf(key)
           quiet == cfg.type = "ocr_changed" /\ partlyRead(s)
           ahead == edge(key, met)
           early == n < need(key)
           same == hasStable /\ stable = key
           e1 == [NoEvent EXCEPT !.pending = IF ahead THEN n ELSE 0,
                                 !.waits = ahead /\ coolingDown]
           e2 == [NoEvent EXCEPT !.pending = Confirm, !.waits = TRUE]
           e3 == [NoEvent EXCEPT !.fired = TRUE]
           Holds == /\ ~early /\ ~same /\ ahead /\ coolingDown
                    /\ UNCHANGED settledVars /\ Settle(s, quiet, Run, e2)
           Fires == /\ ~early /\ ~same /\ ahead /\ ~coolingDown
                    /\ Settle(s, quiet, Run, e3)
           Quiet == \/ early /\ Settle(s, quiet, Run, e1)
                    \/ ~early /\ (same \/ ~ahead) /\ Settle(s, quiet, Run, NoEvent)
<1>1. /\ candidate' = key /\ candCount' = n /\ cfg' = cfg
      /\ CountHistory(now)
      /\ cfg.type \in {"ocr_changed", "ocr_match", "numeric"}
    BY DEF CountRead, Counts
<1>2. Holds \/ Fires \/ Quiet
    BY DEF CountRead, Hold
<1>3. SettledType /\ HistoryType
    BY DEF IInv, TypeOK
<1>key. cfg.type \in ConditionTypes => key = now /\ key = condKey(met)
    BY <1>3, KeyOfIs
<1>n. n \in Nat /\ n >= 1
    BY <1>3, CountOfIs, CountCapType
<1>met. met \in BOOLEAN
    BY DEF Met
\* What an edge is, and that only Confirm readings are asked for it.
<1>ahead. ASSUME ahead
          PROVE  /\ key = now /\ key # condUnmet
                 /\ \/ /\ cfg.type = "ocr_changed" /\ key \in Text
                       /\ hasStable /\ stable # key
                       /\ cfg.sevenSeg => <<stable, key>> \notin Fit
                       /\ key \in Partial /\ cfg.sevenSeg
                             => <<key, stable>> \notin Fit
                    \/ cfg.type \in ConditionTypes /\ key = condMet
  <2>1. CASE cfg.type = "ocr_changed"
    <3>1. hasStable /\ stable # key /\ ~fits(stable, key)
        BY <1>ahead, <2>1 DEF edge
    <3>2. ~partlyRead(s) /\ key = s
        BY <2>1, <3>1 DEF KeyOf
    <3>3. s # condUnmet /\ now = s
        BY <2>1, TextAssumption DEF Says
    <3> QED BY <2>1, <3>1, <3>2, <3>3 DEF fits, partlyRead
  <2>2. CASE cfg.type \in ConditionTypes
    <3>1. met
        BY <1>ahead, <2>2 DEF edge, ConditionTypes
    <3> QED BY <1>key, <2>2, <3>1, KeyTypes DEF condKey
  <2> QED BY <1>1, <2>1, <2>2 DEF ConditionTypes
<1>need. ahead => need(key) = Confirm
    BY <1>ahead DEF need
<1> HIDE DEF key, met, now, n, quiet, ahead
<1>e. /\ Holds => ~ev'.fired /\ ev'.pending = Confirm /\ ev'.waits
      /\ Fires => ev'.fired /\ ~ev'.waits
      /\ Quiet => ~ev'.fired /\ (ev'.pending = Confirm /\ ev'.waits => FALSE)
  <2>1. NoEvent \in Report /\ ~NoEvent.fired /\ ~NoEvent.waits
      BY KeyTypes DEF NoEvent, Report
  <2>2. e2 \in Report /\ ~e2.fired /\ e2.pending = Confirm /\ e2.waits
    <3>1. Confirm \in Int
        BY CountCapType
    <3> QED BY <3>1, KeyTypes, Zenon DEF NoEvent, Report
  <2>3. e3 \in Report /\ e3.fired /\ ~e3.waits
    <3>1. e3 \in Report
        BY <2>1 DEF Report
    <3>2. e3.fired
        BY Zenon DEF NoEvent
    <3>3. ~e3.waits
        BY Zenon DEF NoEvent
    <3> QED BY <3>1, <3>2, <3>3
  <2>4. /\ e1 \in Report /\ ~e1.fired
        /\ e1.pending = (IF ahead THEN n ELSE 0)
    <3>1. (IF ahead THEN n ELSE 0) \in Int /\ (ahead /\ coolingDown) \in BOOLEAN
        BY <1>n
    <3> DEFINE p == IF ahead THEN n ELSE 0
               w == ahead /\ coolingDown
    <3> HIDE DEF p, w
    <3>2. p \in Int /\ w \in BOOLEAN
        BY <3>1 DEF p, w
    <3>3. e1 = [NoEvent EXCEPT !.pending = p, !.waits = w]
        BY DEF p, w
    <3>4. e1 \in Report /\ ~e1.fired /\ e1.pending = p
        BY <3>2, <3>3, KeyTypes DEF NoEvent, Report
    <3> QED BY <3>4 DEF p
  <2>5. early => e1.pending # Confirm
      BY <1>n, <1>need, <2>4, CountCapType
  <2> HIDE DEF e1, e2, e3, early, same
  <2>6. Holds => ~ev'.fired /\ ev'.pending = Confirm /\ ev'.waits
      BY <2>2, SettleKeepsReport
  <2>7. Fires => ev'.fired /\ ~ev'.waits
      BY <2>3, SettleKeepsReport
  <2>8. CASE early /\ Settle(s, quiet, Run, e1)
    <3>1. ev'.fired = e1.fired /\ ev'.pending = e1.pending
        BY <2>4, <2>8, SettleKeepsReport
    <3> QED BY <2>4, <2>5, <2>8, <3>1, <2>6, <2>7
  <2>9. CASE Settle(s, quiet, Run, NoEvent)
    <3>1. ev'.fired = NoEvent.fired /\ ev'.waits = NoEvent.waits
        BY <2>1, <2>9, SettleKeepsReport
    <3> QED BY <2>1, <2>6, <2>7, <3>1
  <2> QED BY <2>6, <2>7, <2>8, <2>9
<1>h. /\ said' = now
      /\ promised' = (\/ promised /\ now = said /\ ~ev'.fired
                      \/ ev'.pending = Confirm /\ ev'.waits)
    BY <1>1 DEF CountHistory
\* A display that goes on saying what was promised is never early, always an
\* edge: the cooldown alone decides between holding and firing.
<1>owed. ASSUME promised, now = said
         PROVE  Holds \/ Fires
  <2>1. candCount >= Confirm /\ candidate = said /\ StillNews
      BY <1>owed DEF Owed
  <2>2. key = candidate
    <3>1. CASE cfg.type = "ocr_changed"
      <4>1. now = s /\ ~partlyRead(s)
          BY <1>owed, <2>1, <3>1
             DEF now, Says, StillNews, partlyRead, fits, ConditionTypes
      <4> QED BY <1>owed, <2>1, <3>1, <4>1 DEF key, KeyOf
    <3>2. CASE cfg.type \in ConditionTypes
        BY <1>key, <1>owed, <2>1, <3>2
    <3> QED BY <1>1, <3>1, <3>2 DEF ConditionTypes
  <2>3. ahead /\ ~same
    <3>1. CASE cfg.type = "ocr_changed"
        BY <2>1, <2>2, <3>1 DEF StillNews, ahead, edge, fits, ConditionTypes
    <3>2. CASE cfg.type \in ConditionTypes
      <4>1. candidate = condMet /\ ~(hasStable /\ stable = condMet)
          BY <2>1, <3>2 DEF StillNews, ConditionTypes
      <4>2. met
          BY <1>key, <2>2, <3>2, <4>1, KeyTypes DEF condKey
      <4>3. cfg.type = "numeric" => ~numCond
          BY <4>1 DEF IInv, Disarmed
      <4> QED BY <2>2, <3>2, <4>1, <4>2, <4>3 DEF ahead, edge, ConditionTypes
    <3> QED BY <1>1, <3>1, <3>2 DEF ConditionTypes
  <2>4. ~early
    <3>1. n = Capped(candCount + 1, CountCap) /\ candCount \in Nat
        BY <1>3, <2>1, <2>2, CountCapType DEF n, CountOf, SettledType
    <3> QED BY <1>need, <2>1, <2>3, <3>1, CountCapType DEF Capped
  <2> HIDE DEF early, same
  <2> QED BY <1>2, <2>3, <2>4
<1>4. promised /\ said' = said /\ ~coolingDown => ev'.fired
    BY <1>e, <1>h, <1>owed
<1>5. promised' => Holds
    BY <1>2, <1>e, <1>h, <1>owed
<1>6. ASSUME promised'
      PROVE  candCount' >= Confirm /\ candidate' = said' /\ StillNews'
  <2>1. ahead /\ ~early /\ ~same /\ UNCHANGED settledVars
      BY <1>5, <1>6
  <2>2. candCount' >= Confirm
      BY <1>1, <1>n, <1>need, <2>1, CountCapType
  <2>3. /\ candidate' = key /\ said' = now /\ cfg' = cfg
        /\ stable' = stable /\ hasStable' = hasStable
      BY <1>1, <1>h, <2>1 DEF settledVars
  <2> QED BY <1>ahead, <2>1, <2>2, <2>3 DEF StillNews
<1> QED BY <1>4, <1>6 DEF Owed

LEMMA NextOwed ==
    ASSUME IInv, Owed, [Next]_vars
    PROVE  /\ Owed'
           /\ ~UNCHANGED vars /\ promised /\ step' = "counted" /\ said' = said
                 /\ ~coolingDown => ev'.fired
<1>1. CASE Idle
    BY <1>1, SilentOwed DEF Idle, SilentHistory
<1>2. CASE ObserveRead
  <2>1. PICK s \in Text, unsure \in BOOLEAN, held \in BOOLEAN :
            SkipRead(s, unsure, held) \/ PlainRead(s) \/ CountRead(s, unsure, held)
      BY <1>2 DEF ObserveRead
  <2>2. CASE SkipRead(s, unsure, held)
      BY <2>2, SilentOwed DEF SkipRead, SilentHistory
  <2>3. CASE PlainRead(s)
      BY <2>3 DEF PlainRead, Owed
  <2>4. CASE CountRead(s, unsure, held)
      BY <2>4, CountReadOwed
  <2> QED BY <2>1, <2>2, <2>3, <2>4
<1>3. CASE \E pct \in Percent : ObservePixel(pct)
    BY <1>3, OwedKept DEF ObservePixel
<1>4. CASE Tick
    BY <1>4, OwedKept DEF Tick
<1>5. CASE \E kept \in {"state", "fired", "nothing"} : Restart(kept)
    BY <1>5 DEF Restart, Owed
<1>6. CASE UNCHANGED vars
    BY <1>6, OwedKept DEF vars, historyVars
<1> QED BY <1>1, <1>2, <1>3, <1>4, <1>5, <1>6 DEF Next, Poll

\* A cooldown delays an alert and never drops it, for every Confirm, Cooldown
\* and StaleAfter and every set of readings: the first counted reading after
\* it that still says what was promised fires.
THEOREM HeldAlertFiresHolds == Spec => HeldAlertFires
<1>1. Init => Owed
    BY DEF Init, Owed
<1>2. IInv /\ Owed /\ [Next]_vars => Owed'
    BY NextOwed
<1>3. IInv /\ Owed /\ [Next]_vars =>
         [promised /\ step' = "counted" /\ said' = said /\ ~coolingDown
             => ev'.fired]_vars
    BY NextOwed
<1> QED BY InductiveInvariant, <1>1, <1>2, <1>3, PTL DEF Spec, HeldAlertFires
=============================================================================
