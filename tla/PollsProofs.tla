---------------------------- MODULE PollsProofs -----------------------------
(* Type correctness and the safety properties of Polls, for every set of     *)
(* readings, every health_after, interval and max_interval.                  *)
EXTENDS Polls, TLAPS

MaxWait == IF MaxIvl > Base THEN MaxIvl ELSE Base

\* The clock runs ahead of every poll that was made, and not out of Times.
ClockAhead ==
    /\ now <= MaxTime + MaxIvl + Base + starts
    /\ lastClean < now /\ valueAt < now

\* A verdict is one, wherever it is kept: the row, the page, the runner and,
\* unless its alert was swallowed, what was told agree.
VerdictsAgree ==
    told # "lost" =>
        /\ told = "down" <=> row.down
        /\ pageHealth # NoVerdict => pageHealth.down = row.down
        /\ pageHealth.down => pageHealth = row
        /\ row.down => lastClean < row.since
        /\ running => pageHealth.down = down /\ row.down = down

\* The run of crashes the runner counts is the one on the page, and is over
\* once a poll is clean.
CrashAgrees ==
    running =>
        /\ pageCrash = crashFirst
        /\ crashFirst # Never <=> last.crashed
        /\ crashFirst # Never => lastClean < crashFirst

\* A gate that is closed has kept every poll since from the value.
GateAgrees ==
    running =>
        /\ gate.polls > 0 => watch.gated /\ valueAt < gate.since

\* Failed polls in a row come at the base interval.
FailuresAgree ==
    running /\ ~down =>
        /\ fails < HealthAfter
        /\ failFrom = Never => fails = 0
        /\ failFrom # Never => failFrom + fails * Base = now

\* What Run compares the next reading with is the last one.
LastAgrees ==
    running =>
        /\ lastReading = last.text
        /\ last.kind # "read" => last.text = Blank

PollType == [kind : {"none", "failed", "closed", "read"}, text : Texts,
             fired : BOOLEAN, crashed : BOOLEAN]

HistoryType ==
    /\ lastClean \in Times \cup {Never} /\ valueAt \in Times \cup {Never}
    /\ failFrom \in Times \cup {Never}
    /\ last \in PollType

IInv ==
    /\ TypeOK /\ HistoryType
    /\ ClockAhead /\ VerdictsAgree /\ CrashAgrees /\ GateAgrees /\ FailuresAgree /\ LastAgrees

-----------------------------------------------------------------------------
(* The operators. *)

LEMMA ConstantTypes ==
    /\ HealthAfter \in Nat /\ HealthAfter > 0 /\ Base \in Nat /\ Base > 0
    /\ MaxIvl \in Nat /\ MaxTime \in Nat /\ MaxStarts \in Nat /\ GateLongAfter \in Nat
    /\ MaxWait \in Nat /\ MaxWait >= Base /\ MaxWait <= MaxIvl + Base
    /\ Never = -1
BY PollsAssumption DEF Never, MaxWait

LEMMA TimesType ==
    /\ Blank \in Texts
    /\ Never \notin Times /\ Times \subseteq Nat
BY PollsAssumption DEF Never, Times

LEMMA NextIntervalType ==
    ASSUME NEW changed \in BOOLEAN, interval \in Base..MaxWait
    PROVE  /\ NextInterval(changed) \in Base..MaxWait
           /\ changed => NextInterval(changed) = Base
BY ConstantTypes DEF NextInterval, AtMost, MaxWait

\* A wait ends after now, and within Times while the bound lets polls go on.
LEMMA NowAfterWait ==
    ASSUME IInv, Polls, Lives, NEW p \in PollType, Waits(p)
    PROVE  /\ interval' \in Base..MaxWait /\ now \in Times /\ now' \in Times /\ now' > now
           /\ now' <= MaxTime + MaxIvl + Base + starts'
           /\ pollChanged(p) => now' = now + Base
           /\ now' > now + Base => ~pollChanged(p)
<1>1. pollChanged(p) \in BOOLEAN
    BY DEF pollChanged, tickChanged, PollType
<1>2. interval \in Base..MaxWait /\ now \in Times /\ starts \in 0..MaxStarts
    BY DEF IInv, TypeOK, RunnerType, MaxWait
<1>3. /\ interval' \in Base..MaxWait
      /\ pollChanged(p) => interval' = Base
    BY <1>1, <1>2, NextIntervalType DEF Waits
<1>4. now + interval' = now' /\ now <= MaxTime /\ starts' = starts
    BY DEF Waits, Polls, Lives
<1>5. /\ now \in Nat /\ interval' \in Nat /\ starts \in Nat /\ starts <= MaxStarts
      /\ interval' > 0 /\ interval' <= MaxIvl + Base
    BY <1>2, <1>3, ConstantTypes DEF Times
<1> USE <1>4, <1>5, ConstantTypes
<1>6. now' \in Nat /\ now' > now
    OBVIOUS
<1>7. now' <= MaxTime + MaxIvl + Base
    OBVIOUS
<1>8. now' <= MaxTime + MaxIvl + Base + starts'
    BY <1>6, <1>7
<1>9. now' \in Times
    BY <1>6, <1>8 DEF Times
<1>10. /\ pollChanged(p) => now' = now + Base
       /\ now' > now + Base => ~pollChanged(p)
    BY <1>3
<1> QED
    BY <1>2, <1>3, <1>6, <1>8, <1>9, <1>10

-----------------------------------------------------------------------------
(* The actions. *)

LEMMA ReadsGateType ==
    ASSUME IInv, NEW opens \in BOOLEAN, ReadsGate(opens), running, now \in Times
    PROVE  /\ gate' \in [open : BOOLEAN, lastOpen : Times \cup {Never}, since : Times \cup {Never},
                         polls : 0..HealthAfter, long : BOOLEAN]
           /\ gate'.polls > 0 => watch.gated /\ ~opens /\ valueAt < gate'.since
<1>1. gate \in [open : BOOLEAN, lastOpen : Times \cup {Never}, since : Times \cup {Never},
                polls : 0..HealthAfter, long : BOOLEAN]
    BY DEF IInv, TypeOK, RunnerType
<1>2. gate.polls > 0 => watch.gated /\ valueAt < gate.since
    BY DEF IInv, GateAgrees
<1>3. CASE ~watch.gated
    BY <1>1, <1>2, <1>3 DEF ReadsGate
<1>4. CASE watch.gated /\ opens
    <2>1. gate' = NoteOpen
        BY <1>4 DEF ReadsGate
    <2> QED
        BY <2>1, TimesType, ConstantTypes DEF NoteOpen
<1>5. CASE watch.gated /\ ~opens
    <2>1. gate' = NoteClosed
        BY <1>5 DEF ReadsGate
    <2> DEFINE since == IF gate.polls = 0 THEN now ELSE gate.since
               polls == AtMost(gate.polls + 1, HealthAfter)
    <2>2. since \in Times \cup {Never} /\ gate.polls \in 0..HealthAfter
        BY <1>1
    <2>3. valueAt < since
        BY <1>2, <2>2 DEF IInv, ClockAhead
    <2>4. polls \in 0..HealthAfter
        BY <2>2, ConstantTypes DEF AtMost
    <2>5. (polls >= HealthAfter /\ now - since >= GateLongAfter) \in BOOLEAN
        OBVIOUS
    <2>6. gate' = [open |-> FALSE, lastOpen |-> gate.lastOpen, since |-> since, polls |-> polls,
                   long |-> polls >= HealthAfter /\ now - since >= GateLongAfter]
        BY <2>1 DEF NoteClosed
    <2> QED
        BY <1>1, <1>5, <2>2, <2>3, <2>4, <2>5, <2>6
<1> QED
    BY <1>3, <1>4, <1>5

LEMMA VerdictType ==
    ASSUME NEW v \in Verdict \cup {NoVerdict}
    PROVE  v.down \in BOOLEAN
<1>1. CASE v \in Verdict
    BY <1>1 DEF Verdict
<1>2. CASE v = NoVerdict
    BY <1>2 DEF NoVerdict
<1> QED
    BY <1>1, <1>2

LEMMA VerdictsAgreed ==
    ASSUME IInv, NEW isDown \in BOOLEAN, NEW cut \in Cuts, Verdicts(isDown, cut), now \in Times
    PROVE  /\ row' \in Verdict \cup {NoVerdict} /\ pageHealth' \in Verdict \cup {NoVerdict}
           /\ hook' \in {"nothing", "down", "healthy", "lost"}
           /\ told' \in {"down", "healthy", "lost"}
           /\ cut # "none" => told' = "lost"
           /\ cut = "none" => /\ told' = "down" <=> isDown
                              /\ row'.down = isDown /\ row'.since = now
                              /\ pageHealth' = row' /\ pageHealth' # NoVerdict
<1> DEFINE v == [down |-> isDown, since |-> now]
<1>1. v \in Verdict /\ v # NoVerdict
    BY TimesType DEF Verdict, NoVerdict
<1>2. /\ row \in Verdict \cup {NoVerdict} /\ pageHealth \in Verdict \cup {NoVerdict}
      /\ hook \in {"nothing", "down", "healthy", "lost"}
    BY DEF IInv, TypeOK
<1>3. CASE cut = "none"
    BY <1>1, <1>3 DEF Verdicts
<1>4. CASE cut = "store"
    BY <1>2, <1>4 DEF Verdicts
<1>5. CASE cut = "callback"
    BY <1>1, <1>5 DEF Verdicts
<1> QED
    BY <1>3, <1>4, <1>5 DEF Cuts

LEMMA CrashesAgree ==
    ASSUME IInv, running, NEW crashes \in BOOLEAN, endTick(crashes), now \in Times
    PROVE  /\ crashFirst' \in Times \cup {Never} /\ pageCrash' = crashFirst'
           /\ crashFirst' # Never <=> crashes
           /\ crashFirst' # Never => lastClean < crashFirst'
<1>1. /\ crashFirst \in Times \cup {Never} /\ pageCrash = crashFirst
      /\ crashFirst # Never => lastClean < crashFirst
    BY DEF IInv, TypeOK, RunnerType, CrashAgrees
<1>2. lastClean < now
    BY DEF IInv, ClockAhead
<1> QED
    BY <1>1, <1>2, TimesType DEF endTick

LEMMA OneMore ==
    ASSUME NEW n \in Nat, NEW b \in Nat
    PROVE  (n + 1) * b = n * b + b
OBVIOUS

\* What PollFails leaves behind, cut or not.
LEMMA PollFailsIInv ==
    ASSUME IInv, NEW panics \in BOOLEAN, NEW gateRead \in BOOLEAN, NEW cut \in Cuts,
           PollFails(panics, gateRead, cut)
    PROVE  IInv'
<1> DEFINE p == Failed(panics \/ cut # "none")
<1>1. /\ p \in PollType /\ p.kind = "failed" /\ p.text = Blank
      /\ p.crashed = (panics \/ cut # "none")
    BY TimesType DEF Failed, PollType
<1>2. /\ running /\ running' /\ Polls /\ Lives /\ Waits(p)
      /\ watch' = watch /\ starts' = starts /\ lastClean' = lastClean
    BY DEF PollFails, Polls, Lives
<1>3. /\ interval' \in Base..MaxWait /\ now \in Times /\ now' \in Times /\ now' > now
      /\ now' <= MaxTime + MaxIvl + Base + starts'
    BY <1>1, <1>2, NowAfterWait
<1>4. now + Base = now'
    BY <1>1, <1>2, NowAfterWait DEF pollChanged, tickChanged
<1>5. last' = p /\ lastReading' = Blank
    BY <1>1, <1>2 DEF Waits
<1>6. fails \in 0..HealthAfter /\ down \in BOOLEAN /\ reassertIn \in 0..HealthAfter
    BY DEF IInv, TypeOK, RunnerType
<1>7. fails' = AtMost(fails + 1, HealthAfter) /\ down' = (down \/ FailureGoesDown)
    BY DEF PollFails, pollFailed
<1>8. fails' \in 0..HealthAfter /\ down' \in BOOLEAN
    BY <1>6, <1>7, ConstantTypes DEF AtMost, FailureGoesDown
<1>9. /\ reassertIn' \in 0..HealthAfter
      /\ row' \in Verdict \cup {NoVerdict} /\ pageHealth' \in Verdict \cup {NoVerdict}
      /\ hook' \in {"nothing", "down", "healthy", "lost"} /\ told' \in {"down", "healthy", "lost"}
      /\ VerdictsAgree'
    <2>1. CASE FailureGoesDown
        <3>1. Verdicts(TRUE, cut) /\ reassertIn' = reassertIn
            BY <2>1 DEF PollFails, pollFailed
        <3>2. /\ row' \in Verdict \cup {NoVerdict} /\ pageHealth' \in Verdict \cup {NoVerdict}
              /\ hook' \in {"nothing", "down", "healthy", "lost"}
              /\ told' \in {"down", "healthy", "lost"}
              /\ cut # "none" => told' = "lost"
              /\ cut = "none" => /\ told' = "down" /\ row'.down = TRUE /\ row'.since = now
                                 /\ pageHealth' = row' /\ pageHealth' # NoVerdict
            BY <1>3, <3>1, VerdictsAgreed
        <3>3. down' = TRUE /\ lastClean' < now
            BY <1>2, <1>7, <2>1 DEF IInv, ClockAhead
        <3>4. VerdictsAgree'
            BY <3>2, <3>3 DEF VerdictsAgree
        <3> QED
            BY <1>6, <3>1, <3>2, <3>4
    <2>2. CASE ~FailureGoesDown
        <3>1. /\ row' = row /\ pageHealth' = pageHealth /\ told' = told
              /\ reassertIn' = IF reassertIn = 0 THEN 0 ELSE reassertIn - 1
              /\ hook' = IF reassertIn # 1 THEN hook ELSE IF cut = "none" THEN "down" ELSE "lost"
            BY <2>2 DEF PollFails, pollFailed
        <3>2. down' = down
            BY <1>6, <1>7, <2>2
        <3>3. VerdictsAgree'
            BY <1>2, <3>1, <3>2 DEF IInv, VerdictsAgree
        <3>4. reassertIn' \in 0..HealthAfter
            BY <1>6, <3>1, ConstantTypes
        <3> QED
            BY <3>1, <3>3, <3>4 DEF IInv, TypeOK
    <2> QED
        BY <2>1, <2>2
<1>10. /\ crashFirst' \in Times \cup {Never} /\ pageCrash' = crashFirst' /\ CrashAgrees'
    <2>1. endTick(panics \/ cut # "none") /\ (panics \/ cut # "none") \in BOOLEAN
        BY DEF PollFails
    <2>2. /\ crashFirst' \in Times \cup {Never} /\ pageCrash' = crashFirst'
          /\ crashFirst' # Never <=> (panics \/ cut # "none")
          /\ crashFirst' # Never => lastClean < crashFirst'
        BY <1>2, <1>3, <2>1, CrashesAgree
    <2> QED
        BY <1>1, <1>2, <1>5, <2>2 DEF CrashAgrees
<1>11. /\ valueAt' \in Times \cup {Never} /\ valueAt' <= now
       /\ failFrom' = IF failFrom = Never THEN now ELSE failFrom
    <2>1. valueAt \in Times \cup {Never} /\ valueAt < now
        BY DEF IInv, HistoryType, ClockAhead
    <2> QED
        BY <1>3, <2>1, TimesType, ConstantTypes DEF PollFails
<1>12. /\ gate' \in [open : BOOLEAN, lastOpen : Times \cup {Never}, since : Times \cup {Never},
                     polls : 0..HealthAfter, long : BOOLEAN]
       /\ GateAgrees'
    <2>1. CASE gateRead
        <3>1. ReadsGate(TRUE)
            BY <2>1 DEF PollFails
        <3> QED
            BY <1>2, <1>3, <3>1, ReadsGateType DEF GateAgrees
    <2>2. CASE ~gateRead
        <3>1. gate' = gate /\ (watch.gated => valueAt' = valueAt)
            BY <2>2 DEF PollFails
        <3> QED
            BY <1>2, <3>1 DEF IInv, TypeOK, RunnerType, GateAgrees
    <2> QED
        BY <2>1, <2>2
<1>13. FailuresAgree'
    <2> SUFFICES ASSUME ~down'
                 PROVE  /\ fails' < HealthAfter /\ failFrom' # Never
                        /\ failFrom' + fails' * Base = now'
        BY DEF FailuresAgree
    <2>1. ~down /\ fails + 1 < HealthAfter
        <3>1. ~down /\ ~FailureGoesDown
            BY <1>7
        <3> QED
            BY <1>6, <3>1, ConstantTypes DEF FailureGoesDown
    <2>2. fails' = fails + 1
        BY <1>6, <1>7, <2>1, ConstantTypes DEF AtMost
    <2>3. fails \in Nat /\ now \in Nat
        BY <1>3, <1>6, TimesType, ConstantTypes
    <2>4. (fails + 1) * Base = fails * Base + Base /\ fails * Base \in Nat
        BY <2>3, ConstantTypes, OneMore
    <2>5. CASE failFrom = Never
        <3>1. fails = 0 /\ failFrom' = now
            BY <1>2, <1>11, <2>1, <2>5 DEF IInv, FailuresAgree
        <3>2. fails' * Base = Base
            BY <2>2, <3>1, ConstantTypes
        <3> QED
            BY <1>4, <2>1, <2>2, <2>3, <3>1, <3>2, ConstantTypes
    <2>6. CASE failFrom # Never
        <3>1. failFrom + fails * Base = now /\ failFrom' = failFrom /\ failFrom \in Nat
            BY <1>2, <1>11, <2>1, <2>6, TimesType DEF IInv, FailuresAgree, HistoryType
        <3>2. fails' * Base = fails * Base + Base
            BY <2>2, <2>4
        <3> QED
            BY <1>4, <2>1, <2>2, <2>4, <2>6, <3>1, <3>2, ConstantTypes
    <2> QED
        BY <2>5, <2>6
<1>14. LastAgrees'
    BY <1>1, <1>5 DEF LastAgrees
<1>15. HistoryType'
    <2>1. lastClean' \in Times \cup {Never} /\ failFrom' \in Times \cup {Never}
        BY <1>2, <1>3, <1>11 DEF IInv, HistoryType
    <2> QED
        BY <1>1, <1>5, <1>11, <2>1 DEF HistoryType
<1>16. ClockAhead'
    <2>1. lastClean < now /\ lastClean \in Nat \cup {Never}
        BY TimesType DEF IInv, HistoryType, ClockAhead
    <2>2. now \in Nat /\ now' \in Nat /\ valueAt' \in Nat \cup {Never}
        BY <1>3, <1>11, TimesType
    <2>3. lastClean < now' /\ valueAt' < now'
        BY <1>3, <1>11, <2>1, <2>2, ConstantTypes
    <2> QED
        BY <1>2, <1>3, <2>3 DEF ClockAhead
<1>17. TypeOK'
    <2>1. RunnerType'
        BY <1>3, <1>5, <1>8, <1>9, <1>10, <1>12, TimesType DEF RunnerType, MaxWait
    <2> QED
        BY <1>2, <1>3, <1>9, <1>10, <2>1 DEF IInv, TypeOK
<1> QED
    BY <1>9, <1>10, <1>12, <1>13, <1>14, <1>15, <1>16, <1>17 DEF IInv

\* What Ended leaves behind, whatever the poll read and however it ended.
LEMMA EndedIInv ==
    ASSUME IInv, Polls, NEW p \in PollType, ~p.crashed, p.kind # "read" => p.text = Blank,
           NEW late \in {"none", "consumer", "escapes"}, NEW cut \in Cuts, Ended(p, late, cut),
           gate' \in [open : BOOLEAN, lastOpen : Times \cup {Never}, since : Times \cup {Never},
                      polls : 0..HealthAfter, long : BOOLEAN],
           valueAt' = valueAt \/ valueAt' = now,
           gate'.polls > 0 => watch.gated /\ valueAt' < gate'.since
    PROVE  IInv'
<1> DEFINE escapes == late = "escapes" \/ cut # "none"
           q == IF escapes THEN Failed(TRUE) ELSE [p EXCEPT !.crashed = late = "consumer"]
<1>1. /\ q \in PollType /\ (q.kind # "read" => q.text = Blank) /\ q.text \in Texts
      /\ q.crashed = (escapes \/ late = "consumer")
    <2>1. CASE escapes
        BY <2>1, TimesType DEF Failed, PollType
    <2>2. CASE ~escapes
        BY <2>2 DEF PollType
    <2> QED
        BY <2>1, <2>2
<1>2. /\ running /\ running' /\ Lives /\ Waits(q)
      /\ watch' = watch /\ starts' = starts
      /\ lastClean' = IF late = "none" /\ cut = "none" THEN now ELSE lastClean
      /\ failFrom' = Never /\ fails' = 0 /\ down' = FALSE /\ reassertIn' = 0
      /\ cut # "none" => down
    BY DEF Ended, Polls, Lives, pollSucceeded
<1>3. /\ interval' \in Base..MaxWait /\ now \in Times /\ now' \in Times /\ now' > now
      /\ now' <= MaxTime + MaxIvl + Base + starts'
    BY <1>1, <1>2, NowAfterWait
<1>4. last' = q /\ lastReading' = q.text
    BY <1>2 DEF Waits
<1>5. /\ row' \in Verdict \cup {NoVerdict} /\ pageHealth' \in Verdict \cup {NoVerdict}
      /\ hook' \in {"nothing", "down", "healthy", "lost"} /\ told' \in {"down", "healthy", "lost"}
      /\ VerdictsAgree'
    <2>1. CASE down
        <3>1. Verdicts(FALSE, cut)
            BY <2>1 DEF Ended, pollSucceeded
        <3>2. /\ row' \in Verdict \cup {NoVerdict} /\ pageHealth' \in Verdict \cup {NoVerdict}
              /\ hook' \in {"nothing", "down", "healthy", "lost"}
              /\ told' \in {"down", "healthy", "lost"}
              /\ cut # "none" => told' = "lost"
              /\ cut = "none" => /\ told' # "down" /\ row'.down = FALSE
                                 /\ pageHealth' = row' /\ pageHealth' # NoVerdict
            BY <1>3, <3>1, VerdictsAgreed
        <3> QED
            BY <1>2, <3>2 DEF VerdictsAgree
    <2>2. CASE ~down
        <3>1. row' = row /\ pageHealth' = pageHealth /\ told' = told /\ hook' = hook
            BY <2>2 DEF Ended, pollSucceeded, Unheard
        <3>2. told # "lost" => row.down = FALSE /\ pageHealth.down = FALSE
            BY <1>2, <2>2 DEF IInv, VerdictsAgree, TypeOK, RunnerType
        <3>3. VerdictsAgree'
            BY <1>2, <3>1, <3>2 DEF IInv, VerdictsAgree
        <3> QED
            BY <3>1, <3>3 DEF IInv, TypeOK
    <2> QED
        BY <2>1, <2>2
<1>6. /\ crashFirst' \in Times \cup {Never} /\ pageCrash' = crashFirst' /\ CrashAgrees'
    <2>1. endTick(escapes \/ late = "consumer") /\ (escapes \/ late = "consumer") \in BOOLEAN
        BY DEF Ended
    <2>2. /\ crashFirst' \in Times \cup {Never} /\ pageCrash' = crashFirst'
          /\ crashFirst' # Never <=> (escapes \/ late = "consumer")
          /\ crashFirst' # Never => lastClean < crashFirst'
        BY <1>2, <1>3, <2>1, CrashesAgree
    <2>3. crashFirst' # Never => lastClean' < crashFirst'
        BY <1>2, <2>2
    <2> QED
        BY <1>1, <1>4, <2>2, <2>3 DEF CrashAgrees
<1>7. GateAgrees'
    BY <1>2 DEF GateAgrees
<1>8. FailuresAgree'
    BY <1>2, ConstantTypes DEF FailuresAgree
<1>9. LastAgrees'
    BY <1>1, <1>4 DEF LastAgrees
<1>10. HistoryType'
    <2>1. lastClean' \in Times \cup {Never} /\ valueAt' \in Times \cup {Never}
        BY <1>2, <1>3 DEF IInv, HistoryType
    <2> QED
        BY <1>1, <1>2, <1>4, <2>1 DEF HistoryType
<1>11. ClockAhead'
    <2>1. /\ lastClean < now /\ lastClean \in Nat \cup {Never}
          /\ valueAt < now /\ valueAt \in Nat \cup {Never}
        BY TimesType DEF IInv, HistoryType, ClockAhead
    <2>2. now \in Nat /\ now' \in Nat
        BY <1>3, TimesType
    <2>3. lastClean' < now' /\ valueAt' < now'
        BY <1>2, <1>3, <2>1, <2>2, ConstantTypes
    <2> QED
        BY <1>3, <2>3 DEF ClockAhead
<1>12. TypeOK'
    <2>1. RunnerType'
        <3>1. fails' \in 0..HealthAfter /\ reassertIn' \in 0..HealthAfter /\ down' \in BOOLEAN
            <4>1. 0 \in 0..HealthAfter
                BY ConstantTypes
            <4> QED
                BY <1>2, <4>1
        <3>2. lastReading' \in Texts
            BY <1>1, <1>4
        <3> QED
            BY <1>3, <1>6, <3>1, <3>2 DEF RunnerType, MaxWait
    <2> QED
        BY <1>2, <1>3, <1>5, <1>6, <2>1 DEF IInv, TypeOK
<1> QED
    BY <1>5, <1>6, <1>7, <1>8, <1>9, <1>10, <1>11, <1>12 DEF IInv

LEMMA PollSkipsIInv ==
    ASSUME IInv, NEW late \in {"none", "consumer", "escapes"}, NEW cut \in Cuts,
           PollSkips(late, cut)
    PROVE  IInv'
<1> DEFINE p == [NoPoll EXCEPT !.kind = "closed"]
<1>1. p \in PollType /\ ~p.crashed /\ p.kind = "closed" /\ p.text = Blank
    BY TimesType DEF NoPoll, PollType
<1>2. Polls /\ ReadsGate(FALSE) /\ Ended(p, late, cut) /\ valueAt' = valueAt
    BY DEF PollSkips
<1>3. now \in Times /\ running
    BY <1>2 DEF IInv, TypeOK, Polls
<1>4. /\ gate' \in [open : BOOLEAN, lastOpen : Times \cup {Never}, since : Times \cup {Never},
                    polls : 0..HealthAfter, long : BOOLEAN]
      /\ gate'.polls > 0 => watch.gated /\ valueAt < gate'.since
    BY <1>2, <1>3, ReadsGateType
<1> HIDE DEF p
<1> QED
    BY <1>1, <1>2, <1>4, EndedIInv

LEMMA PollReadsIInv ==
    ASSUME IInv, NEW text \in Texts, NEW fired \in BOOLEAN,
           NEW late \in {"none", "consumer", "escapes"}, NEW cut \in Cuts,
           PollReads(text, fired, late, cut)
    PROVE  IInv'
<1> DEFINE p == [kind |-> "read", text |-> text, fired |-> fired, crashed |-> FALSE]
<1>1. p \in PollType /\ ~p.crashed /\ p.kind = "read"
    BY DEF PollType
<1>2. Polls /\ ReadsGate(TRUE) /\ Ended(p, late, cut) /\ valueAt' = now
    BY DEF PollReads
<1>3. now \in Times /\ running
    BY <1>2 DEF IInv, TypeOK, Polls
<1>4. /\ gate' \in [open : BOOLEAN, lastOpen : Times \cup {Never}, since : Times \cup {Never},
                    polls : 0..HealthAfter, long : BOOLEAN]
      /\ ~(gate'.polls > 0)
    BY <1>2, <1>3, ReadsGateType
<1> HIDE DEF p
<1> QED
    BY <1>1, <1>2, <1>4, EndedIInv

\* Stop, and what a process that dies leaves.
LEMMA StopIInv == ASSUME IInv, Stop PROVE IInv'
<1>1. running' = FALSE
    BY DEF Stop
<1>2. /\ <<watch, now, starts>>' = <<watch, now, starts>>
      /\ runner' = runner /\ page' = page /\ row' = row /\ hook' = hook /\ history' = history
    BY DEF Stop
<1>4. RunnerType'
    BY <1>2 DEF IInv, TypeOK, RunnerType, runner
<1>5. TypeOK'
    BY <1>1, <1>2, <1>4 DEF IInv, TypeOK, page, history
<1>6. HistoryType' /\ ClockAhead'
    BY <1>2 DEF IInv, HistoryType, ClockAhead, history
<1>3. VerdictsAgree'
    BY <1>1, <1>2 DEF IInv, VerdictsAgree, page, history
<1> QED
    BY <1>1, <1>3, <1>5, <1>6 DEF IInv, CrashAgrees, GateAgrees, FailuresAgree, LastAgrees

LEMMA DiesIInv == ASSUME IInv, Dies PROVE IInv'
<1>1. running' = FALSE /\ pageHealth' = NoVerdict /\ pageCrash' = Never /\ hook' = "nothing"
    BY DEF Dies, Forgotten
<1>2. /\ <<watch, now, starts>>' = <<watch, now, starts>>
      /\ runner' = runner /\ row' = row /\ history' = history
    BY DEF Dies
<1>3. VerdictsAgree'
    BY <1>1, <1>2 DEF IInv, VerdictsAgree, NoVerdict, history
<1>4. RunnerType'
    BY <1>2 DEF IInv, TypeOK, RunnerType, runner
<1>5. TypeOK'
    BY <1>1, <1>2, <1>4 DEF IInv, TypeOK, history
<1>6. HistoryType' /\ ClockAhead'
    BY <1>2 DEF IInv, HistoryType, ClockAhead, history
<1> QED
    BY <1>1, <1>3, <1>5, <1>6 DEF IInv, CrashAgrees, GateAgrees, FailuresAgree, LastAgrees

LEMMA DiesReportingIInv ==
    ASSUME IInv, NEW isDown \in BOOLEAN, NEW saved \in BOOLEAN, DiesReporting(isDown, saved)
    PROVE  IInv'
<1>1. running' = FALSE /\ pageHealth' = NoVerdict /\ pageCrash' = Never /\ hook' = "nothing"
    BY DEF DiesReporting, Forgotten
<1>2. now \in Times /\ row \in Verdict \cup {NoVerdict} /\ told \in {"down", "healthy", "lost"}
    BY DEF IInv, TypeOK
<1>3. /\ row' \in Verdict \cup {NoVerdict} /\ told' \in {"down", "healthy", "lost"}
      /\ saved => told' = "lost"
      /\ ~saved => row' = row /\ told' = told
    BY <1>2 DEF DiesReporting, Verdict
<1>4. TypeOK' /\ HistoryType' /\ ClockAhead'
    BY <1>1, <1>3
       DEF DiesReporting, IInv, TypeOK, RunnerType, HistoryType, ClockAhead, runner
<1>5. VerdictsAgree'
    BY <1>1, <1>3 DEF DiesReporting, IInv, VerdictsAgree, NoVerdict
<1> QED
    BY <1>1, <1>4, <1>5 DEF IInv, CrashAgrees, GateAgrees, FailuresAgree, LastAgrees

LEMMA RoomForRest ==
    ASSUME NEW k \in Nat, NEW n \in Nat, NEW s \in Nat, NEW r \in {0, 1}, n <= k + s
    PROVE  n + r <= k + (s + 1)
OBVIOUS

LEMMA RoomForStarts ==
    ASSUME NEW k \in Nat, NEW n \in Nat, NEW s \in Nat, NEW m \in Nat, n <= k + s, s <= m
    PROVE  n <= k + m
OBVIOUS

LEMMA StartIInv ==
    ASSUME IInv, NEW rest \in {0, 1}, Start(rest)
    PROVE  IInv'
<1>1. /\ ~running /\ running' = TRUE /\ starts < MaxStarts /\ starts + 1 = starts'
      /\ now + rest = now' /\ pageCrash' = Never /\ crashFirst' = Never /\ gate' = NoGate
      /\ interval' = Base /\ lastReading' = Blank /\ valueAt' = Never /\ failFrom' = Never
      /\ last' = NoPoll /\ watch' = watch /\ row' = row /\ hook' = hook /\ told' = told
      /\ lastClean' = lastClean
    BY DEF Start
<1>2. /\ now \in Nat /\ starts \in Nat /\ lastClean \in Nat \cup {Never} /\ lastClean < now
      /\ now <= MaxTime + MaxIvl + Base + starts
    BY TimesType DEF IInv, TypeOK, HistoryType, ClockAhead
<1>3. /\ now' \in Nat /\ now' >= now /\ starts' \in 0..MaxStarts
      /\ now' <= MaxTime + MaxIvl + Base + starts'
    <2>1. starts' \in Nat /\ starts' <= MaxStarts
        BY <1>1, <1>2, ConstantTypes
    <2>2. now' \in Nat /\ now' >= now /\ now' <= now + 1
        BY <1>1, <1>2
    <2> DEFINE most == MaxTime + MaxIvl + Base
    <2>3. most \in Nat /\ now <= most + starts
        BY <1>2, ConstantTypes
    <2> HIDE DEF most
    <2>4. now' <= most + starts'
        <3>1. now + rest <= most + (starts + 1)
            BY <1>2, <2>3, RoomForRest
        <3>2. now + rest = now' /\ starts + 1 = starts'
            BY <1>1
        <3> QED
            BY <3>1, <3>2
    <2> USE DEF most
    <2> QED
        BY <2>1, <2>2, <2>4
<1>4. now' \in Times
    <2>1. starts' \in Nat /\ starts' <= MaxStarts
        BY <1>3
    <2> DEFINE most == MaxTime + MaxIvl + Base
    <2>2. most \in Nat /\ Times = 0..(most + MaxStarts)
        BY ConstantTypes DEF Times
    <2>3. now' \in Nat /\ now' <= most + starts' /\ MaxStarts \in Nat
        BY <1>3, ConstantTypes
    <2> HIDE DEF most
    <2>4. now' <= most + MaxStarts
        BY <2>1, <2>2, <2>3, RoomForStarts
    <2> QED
        BY <2>2, <2>3, <2>4
<1>5. ClockAhead'
    <2>1. lastClean < now' /\ Never < now'
        BY <1>2, <1>3, ConstantTypes
    <2> QED
        BY <1>1, <1>3, <2>1 DEF ClockAhead
<1>6. row \in Verdict \cup {NoVerdict} /\ pageHealth \in Verdict \cup {NoVerdict}
    BY DEF IInv, TypeOK
<1>7. /\ pageHealth' = IF Restored THEN row ELSE pageHealth
      /\ down' = IF Known THEN pageHealth.down ELSE Restored
      /\ fails' = IF down' THEN HealthAfter ELSE 0
      /\ reassertIn' = IF Restored THEN HealthAfter ELSE 0
    BY DEF Start
<1>8. /\ pageHealth' \in Verdict \cup {NoVerdict} /\ down' \in BOOLEAN
      /\ fails' \in 0..HealthAfter /\ reassertIn' \in 0..HealthAfter
    <2>1. row.down \in BOOLEAN /\ pageHealth.down \in BOOLEAN
        BY <1>6, VerdictType
    <2> QED
        BY <1>6, <1>7, <2>1, ConstantTypes DEF Restored, Known
<1>9. VerdictsAgree'
    <2> SUFFICES ASSUME told # "lost" PROVE VerdictsAgree'
        BY <1>1 DEF VerdictsAgree
    <2>1. /\ told = "down" <=> row.down
          /\ pageHealth # NoVerdict => pageHealth.down = row.down
          /\ pageHealth.down => pageHealth = row
          /\ row.down => lastClean < row.since
        BY DEF IInv, VerdictsAgree
    <2>2. CASE Known
        <3>1. pageHealth' = pageHealth /\ down' = pageHealth.down
            BY <1>7, <2>2 DEF Restored
        <3> QED
            BY <1>1, <2>1, <2>2, <3>1 DEF VerdictsAgree, Known
    <2>3. CASE ~Known /\ row.down
        <3>1. pageHealth' = row /\ down' = TRUE
            BY <1>7, <2>3 DEF Restored
        <3>2. row # NoVerdict /\ row.down = TRUE
            BY <1>6, <2>3 DEF NoVerdict, Verdict
        <3> QED
            BY <1>1, <2>1, <3>1, <3>2 DEF VerdictsAgree
    <2>4. CASE ~Known /\ ~row.down
        <3>1. pageHealth' = NoVerdict /\ down' = FALSE
            BY <1>7, <2>4 DEF Restored, Known
        <3>2. row.down = FALSE /\ NoVerdict.down = FALSE
            BY <1>6, <2>4 DEF NoVerdict, Verdict
        <3> QED
            BY <1>1, <2>1, <3>1, <3>2 DEF VerdictsAgree
    <2> QED
        BY <2>2, <2>3, <2>4
<1>10. TypeOK'
    <2>1. NoGate \in [open : BOOLEAN, lastOpen : Times \cup {Never},
                      since : Times \cup {Never}, polls : 0..HealthAfter, long : BOOLEAN]
        BY ConstantTypes DEF NoGate
    <2>2. RunnerType'
        BY <1>1, <1>8, <2>1, TimesType, ConstantTypes DEF RunnerType, MaxWait
    <2> QED
        BY <1>1, <1>3, <1>4, <1>8, <2>2 DEF IInv, TypeOK
<1>11. NoPoll \in PollType /\ NoPoll.text = Blank /\ NoPoll.crashed = FALSE
    BY TimesType DEF NoPoll, PollType
<1>12. HistoryType'
    BY <1>1, <1>11 DEF IInv, HistoryType
<1>13. CrashAgrees' /\ GateAgrees' /\ LastAgrees'
    BY <1>1, <1>11 DEF CrashAgrees, GateAgrees, LastAgrees, NoGate
<1>14. FailuresAgree'
    BY <1>1, <1>7, ConstantTypes DEF FailuresAgree
<1> QED
    BY <1>5, <1>9, <1>10, <1>12, <1>13, <1>14 DEF IInv

LEMMA InitIInv == Init => IInv
<1> SUFFICES ASSUME Init PROVE IInv
    OBVIOUS
<1> USE DEF Init
<1>1. NoPoll \in PollType /\ NoVerdict.down = FALSE
    BY TimesType DEF NoPoll, PollType, NoVerdict
<1>2. 0 \in Times /\ Base \in Base..MaxWait
    BY ConstantTypes DEF Times
<1>3. RunnerType
    <2>1. NoGate \in [open : BOOLEAN, lastOpen : Times \cup {Never},
                      since : Times \cup {Never}, polls : 0..HealthAfter, long : BOOLEAN]
        BY ConstantTypes DEF NoGate
    <2>2. 0 \in 0..HealthAfter
        BY ConstantTypes
    <2> QED
        BY <1>2, <2>1, <2>2, TimesType DEF RunnerType, MaxWait
<1>4. TypeOK
    <2>1. 0 \in 0..MaxStarts
        BY ConstantTypes
    <2> QED
        BY <1>2, <1>3, <2>1 DEF TypeOK
<1>5. HistoryType
    BY <1>1 DEF HistoryType
<1>6. ClockAhead
    BY ConstantTypes DEF ClockAhead
<1>7. VerdictsAgree
    BY <1>1 DEF VerdictsAgree
<1> QED
    BY <1>4, <1>5, <1>6, <1>7 DEF IInv, CrashAgrees, GateAgrees, FailuresAgree, LastAgrees

LEMMA NextIInv == ASSUME IInv, [Next]_vars PROVE IInv'
<1>1. ASSUME NEW panics \in BOOLEAN, NEW gateRead \in BOOLEAN, NEW cut \in Cuts,
             PollFails(panics, gateRead, cut)
      PROVE  IInv'
    BY <1>1, PollFailsIInv
<1>2. ASSUME NEW late \in {"none", "consumer", "escapes"}, NEW cut \in Cuts, PollSkips(late, cut)
      PROVE  IInv'
    BY <1>2, PollSkipsIInv
<1>3. ASSUME NEW text \in Texts, NEW fired \in BOOLEAN,
             NEW late \in {"none", "consumer", "escapes"}, NEW cut \in Cuts,
             PollReads(text, fired, late, cut)
      PROVE  IInv'
    BY <1>3, PollReadsIInv
<1>4. CASE Stop
    BY <1>4, StopIInv
<1>5. CASE Dies
    BY <1>5, DiesIInv
<1>6. ASSUME NEW isDown \in BOOLEAN, NEW saved \in BOOLEAN, DiesReporting(isDown, saved)
      PROVE  IInv'
    BY <1>6, DiesReportingIInv
<1>7. ASSUME NEW rest \in {0, 1}, Start(rest) PROVE IInv'
    BY <1>7, StartIInv
<1>8. CASE UNCHANGED vars
    BY <1>8 DEF vars, runner, page, history, IInv, TypeOK, RunnerType, HistoryType, ClockAhead,
                VerdictsAgree, CrashAgrees, GateAgrees, FailuresAgree, LastAgrees
<1> QED
    BY <1>1, <1>2, <1>3, <1>4, <1>5, <1>6, <1>7, <1>8 DEF Next

-----------------------------------------------------------------------------
(* The theorems. *)

\* The strengthened invariant holds in every reachable state.
THEOREM InductiveInvariant == Spec => []IInv
BY InitIInv, NextIInv, PTL DEF Spec

\* The runner's counts, the verdicts kept and shown, and the clock stay in
\* their ranges, whatever the settings of the watch (New, notifyHealth).
THEOREM TypeCorrect == Spec => []TypeOK
<1>1. IInv => TypeOK
    BY DEF IInv
<1> QED
    BY <1>1, InductiveInvariant, PTL

\* What the page says of a running watch is so: down exactly when the runner
\* takes it for down, crashed exactly when the last poll crashed, and closed
\* only while no value was tried (SetHealth, endTick, noteGate).
THEOREM PageIsTruthful == Spec => []Inv
<1>1. IInv => Inv
    <2> SUFFICES ASSUME IInv, running PROVE PageTruthful
        BY DEF IInv, Inv, PageTruthful
    <2>1. told # "lost" => pageHealth.down = down
        BY DEF IInv, VerdictsAgree
    <2>2. ASSUME told # "lost", pageHealth.down PROVE lastClean < ShownSince
        <3>1. pageHealth = row /\ lastClean < row.since
            BY <2>2 DEF IInv, VerdictsAgree
        <3>2. pageCrash # Never => lastClean < pageCrash
            BY DEF IInv, CrashAgrees
        <3> QED
            BY <3>1, <3>2 DEF ShownSince
    <2>3. (pageCrash # Never <=> last.crashed) /\ (gate.polls > 0 => valueAt < gate.since)
        BY DEF IInv, CrashAgrees, GateAgrees
    <2> QED
        BY <2>1, <2>2, <2>3 DEF PageTruthful
<1> QED
    BY <1>1, InductiveInvariant, PTL

LEMMA LessTimes ==
    ASSUME NEW n \in Nat, NEW m \in Nat, NEW b \in Nat \ {0}, n < m
    PROVE  n * b < m * b
<1>1. PICK k \in Nat : m = n + 1 + k
    <2>1. m - n - 1 \in Nat /\ m = n + 1 + (m - n - 1)
        OBVIOUS
    <2> QED
        BY <2>1
<1>2. m * b = n * b + b + k * b
    BY <1>1
<1>3. n * b \in Nat /\ k * b \in Nat
    OBVIOUS
<1> QED
    BY <1>2, <1>3

\* A stream that stops answering is reported down within health_after polls
\* at the base interval, for every health_after and every interval, however
\* far the polls had backed off (Failure, tickChanged, NextInterval).
THEOREM DownIsPrompt == Spec => []PromptDown
<1>1. IInv => PromptDown
    <2> SUFFICES ASSUME IInv, running, failFrom # Never, ~down
                 PROVE  now - failFrom < HealthAfter * Base
        BY DEF PromptDown
    <2>1. fails < HealthAfter /\ failFrom + fails * Base = now
        BY DEF IInv, FailuresAgree
    <2>2. fails \in Nat /\ failFrom \in Nat
        BY TimesType, ConstantTypes DEF IInv, TypeOK, RunnerType, HistoryType
    <2>3. fails * Base < HealthAfter * Base /\ fails * Base \in Nat /\ HealthAfter * Base \in Nat
        BY <2>1, <2>2, ConstantTypes, LessTimes
    <2> QED
        BY <2>1, <2>2, <2>3
<1> QED
    BY <1>1, InductiveInvariant, PTL

\* Down and recovered take turns, across Save & restart and the death of the
\* process; only an alert that a panic or the process's end swallowed breaks
\* the turn (Tracker, SeedDown, restoreHealth).
THEOREM NewsTakesTurns == Spec => NewsAlternates
<1> DEFINE Step == \A isDown \in BOOLEAN :
                       LET says == IF isDown THEN "down" ELSE "healthy"
                       IN  pageHealth' # pageHealth /\ pageHealth'.down = isDown
                           /\ running /\ running' => told # says
<1>1. ASSUME IInv, [Next]_vars PROVE Step
    <2> SUFFICES ASSUME pageHealth' # pageHealth, running, running'
                 PROVE  /\ pageHealth'.down = TRUE => told # "down"
                        /\ pageHealth'.down = FALSE => told # "healthy"
        OBVIOUS
    <2>1. /\ told # "lost" => (told = "down" <=> row.down) /\ row.down = down
          /\ down \in BOOLEAN
        BY <1>1 DEF IInv, VerdictsAgree, TypeOK, RunnerType
    <2>2. ASSUME NEW cut \in Cuts, NEW isDown \in BOOLEAN, Verdicts(isDown, cut), down = ~isDown
          PROVE  /\ pageHealth'.down = TRUE => told # "down"
                 /\ pageHealth'.down = FALSE => told # "healthy"
        <3>1. pageHealth'.down = isDown
            BY <2>2 DEF Verdicts
        <3> QED
            BY <2>1, <2>2, <3>1
    <2>3. ASSUME NEW panics \in BOOLEAN, NEW gateRead \in BOOLEAN, NEW cut \in Cuts,
                 PollFails(panics, gateRead, cut)
          PROVE  /\ pageHealth'.down = TRUE => told # "down"
                 /\ pageHealth'.down = FALSE => told # "healthy"
        <3>1. FailureGoesDown /\ Verdicts(TRUE, cut)
            BY <2>3 DEF PollFails, pollFailed
        <3>2. down = ~TRUE
            BY <2>1, <3>1 DEF FailureGoesDown
        <3> QED
            BY <2>2, <3>1, <3>2
    <2>4. ASSUME NEW p, NEW late, NEW cut \in Cuts, Ended(p, late, cut)
          PROVE  /\ pageHealth'.down = TRUE => told # "down"
                 /\ pageHealth'.down = FALSE => told # "healthy"
        <3>1. down /\ Verdicts(FALSE, cut)
            BY <2>4 DEF Ended, pollSucceeded, Unheard
        <3>2. down = ~FALSE
            BY <2>1, <3>1
        <3> QED
            BY <2>2, <3>1, <3>2
    <2>5. ~Stop /\ ~Dies /\ ~(\E isDown, saved \in BOOLEAN : DiesReporting(isDown, saved))
        BY DEF Stop, Dies, DiesReporting, Forgotten
    <2>6. ~(\E rest \in {0, 1} : Start(rest)) /\ ~(UNCHANGED vars)
        BY DEF Start, vars, page
    <2> QED
        BY <1>1, <2>3, <2>4, <2>5, <2>6 DEF Next, PollSkips, PollReads
<1> HIDE DEF Step
<1>2. Spec => [][Step]_vars
    BY <1>1, InductiveInvariant, PTL DEF Spec
<1> QED
    BY <1>2 DEF Step, NewsAlternates

LEMMA WaitGrowsOnSame ==
    ASSUME IInv, Polls, Lives, NEW p \in PollType, p.kind # "none", Waits(p), now' > now + Base
    PROVE  /\ last'.kind = "read" /\ ~last'.fired
           /\ watch.pixel \/ SameAgain
<1>1. last' = p
    BY DEF Waits
<1>2. ~pollChanged(p)
    BY NowAfterWait
<1>3. p.kind = "read" /\ ~p.fired /\ (watch.pixel \/ p.text = lastReading)
    BY <1>2 DEF pollChanged, tickChanged, PollType
<1>4. lastReading = last.text /\ (last.kind # "read" => last.text = Blank)
    BY DEF IInv, LastAgrees, Polls
<1> QED
    BY <1>1, <1>3, <1>4 DEF SameAgain

\* For every interval and max_interval, a watch backs off only after a poll that
\* read what the one before it read, or nothing after one that read nothing:
\* never after a failed or a closed one (pollChanged, NextInterval).
THEOREM BacksOffOnlyOnSame == Spec => BacksOffOnSame
<1> DEFINE Step ==
        last' # NoPoll /\ now' > now + Base /\ starts' = starts =>
          /\ last'.kind = "read" /\ ~last'.fired
          /\ watch.pixel \/ SameAgain
<1>1. ASSUME IInv, [Next]_vars PROVE Step
    <2> SUFFICES ASSUME now' > now + Base, starts' = starts
                 PROVE  /\ last'.kind = "read" /\ ~last'.fired
                        /\ watch.pixel \/ SameAgain
        OBVIOUS
    <2> USE <1>1
    <2>1. now \in Nat /\ starts \in Nat /\ now' # now /\ starts' # starts + 1
        BY TimesType, ConstantTypes DEF IInv, TypeOK
    <2>2. ASSUME NEW panics \in BOOLEAN, NEW gateRead \in BOOLEAN, NEW cut \in Cuts,
                 PollFails(panics, gateRead, cut)
          PROVE  /\ last'.kind = "read" /\ ~last'.fired
                 /\ watch.pixel \/ SameAgain
        <3> DEFINE p == Failed(panics \/ cut # "none")
        <3>1. p \in PollType /\ p.kind # "none"
            BY TimesType DEF Failed, PollType
        <3>2. Polls /\ Lives /\ Waits(p)
            BY <2>2 DEF PollFails
        <3> HIDE DEF p
        <3> QED
            BY <3>1, <3>2, WaitGrowsOnSame
    <2>3. ASSUME NEW p \in PollType, p.kind # "none", Polls, NEW late, NEW cut \in Cuts,
                 Ended(p, late, cut)
          PROVE  /\ last'.kind = "read" /\ ~last'.fired
                 /\ watch.pixel \/ SameAgain
        <3> DEFINE escapes == late = "escapes" \/ cut # "none"
                   q == IF escapes THEN Failed(TRUE)
                        ELSE [p EXCEPT !.crashed = late = "consumer"]
        <3>1. q \in PollType /\ q.kind # "none"
            BY <2>3, TimesType DEF Failed, PollType
        <3>2. Lives /\ Waits(q)
            BY <2>3 DEF Ended
        <3> HIDE DEF q
        <3> QED
            BY <2>3, <3>1, <3>2, WaitGrowsOnSame
    <2>4. ASSUME NEW late, NEW cut \in Cuts, PollSkips(late, cut)
          PROVE  /\ last'.kind = "read" /\ ~last'.fired
                 /\ watch.pixel \/ SameAgain
        <3> DEFINE p == [NoPoll EXCEPT !.kind = "closed"]
        <3>1. p \in PollType /\ p.kind # "none"
            BY TimesType DEF NoPoll, PollType
        <3>2. Polls /\ Ended(p, late, cut)
            BY <2>4 DEF PollSkips
        <3> HIDE DEF p
        <3> QED
            BY <2>3, <3>1, <3>2
    <2>5. ASSUME NEW text \in Texts, NEW fired \in BOOLEAN, NEW late, NEW cut \in Cuts,
                 PollReads(text, fired, late, cut)
          PROVE  /\ last'.kind = "read" /\ ~last'.fired
                 /\ watch.pixel \/ SameAgain
        <3> DEFINE p == [kind |-> "read", text |-> text, fired |-> fired, crashed |-> FALSE]
        <3>1. p \in PollType /\ p.kind # "none"
            BY DEF PollType
        <3>2. Polls /\ Ended(p, late, cut)
            BY <2>5 DEF PollReads
        <3> HIDE DEF p
        <3> QED
            BY <2>3, <3>1, <3>2
    <2>6. ~Stop /\ ~Dies /\ ~(\E isDown, saved \in BOOLEAN : DiesReporting(isDown, saved))
        BY <2>1 DEF Stop, Dies, DiesReporting
    <2>7. ~(\E rest \in {0, 1} : Start(rest)) /\ ~(UNCHANGED vars)
        BY <2>1 DEF Start, vars
    <2> QED
        BY <2>2, <2>4, <2>5, <2>6, <2>7 DEF Next
<1> HIDE DEF Step
<1>2. Spec => [][Step]_vars
    BY <1>1, InductiveInvariant, PTL DEF Spec
<1> QED
    BY <1>2 DEF Step, BacksOffOnSame

=============================================================================
