------------------------------- MODULE Polls --------------------------------
(***************************************************************************)
(* The poll loop of one watch (internal/runner): what a poll that fails,   *)
(* crashes, finds the gate closed or reads does to the stream's health     *)
(* (internal/health), to the run of crashes, to the gate's status and to   *)
(* the wait for the next poll; and what of it the page shows (the state    *)
(* registry), the history database keeps and the Home Assistant hook       *)
(* hears, across Save & restart and a process that dies.                   *)
(*                                                                         *)
(* A poll is one step, taken at the time now; the step ends with the wait  *)
(* for the next one.  It may be cut short: by a panic Run contains, or by  *)
(* the process dying, before a health transition is saved ("store") or     *)
(* after it is on the page, in the hook ("callback").  What is read is a   *)
(* member of Texts, what becomes of it is Trigger's.                       *)
(***************************************************************************)
EXTENDS Integers

CONSTANTS
    Texts, Blank,  \* what a box can read, and the empty reading
    Watches,       \* the watches checked: of WatchType
    HealthAfter,   \* health_after: failed polls in a row until down
    Base, MaxIvl,  \* interval and max_interval
    GateLongAfter, \* how long a closed gate goes unmentioned
    MaxTime,       \* bound: the clock
    MaxStarts      \* bound: starts of the watch

WatchType == [pixel : BOOLEAN, gated : BOOLEAN]

\* checkGate: pixel_change has no gate.  health.New clamps its threshold.
ASSUME PollsAssumption ==
    /\ Blank \in Texts
    /\ Watches \subseteq WatchType /\ \A w \in Watches : ~(w.pixel /\ w.gated)
    /\ HealthAfter \in Nat \ {0} /\ Base \in Nat \ {0} /\ MaxIvl \in Nat
    /\ GateLongAfter \in Nat /\ MaxTime \in Nat /\ MaxStarts \in Nat

Never == -1
Times == 0..(MaxTime + MaxIvl + Base + MaxStarts)

Verdict   == [down : BOOLEAN, since : Times]
NoVerdict == [down |-> FALSE, since |-> Never]
NoGate    == [open |-> FALSE, lastOpen |-> Never, since |-> Never, polls |-> 0, long |-> FALSE]

\* Where a poll may be cut short by a panic.
Cuts  == {"none", "store", "callback"}

VARIABLES
    watch,          \* its settings, of Watches
    now,            \* the time of the next poll
    starts,         \* starts so far
    running,        \* it runs
    fails, down,    \* health.Tracker (fails counts up to HealthAfter)
    crashFirst,     \* crashRun.first: this run of crashes began, or Never
    gate,           \* GateStatus
    interval,       \* the wait Run is in, or was before this poll
    lastReading,    \* ... and what the poll before it read
    reassertIn,     \* failed polls until the hook hears a restored verdict
    pageHealth,     \* Registry: the verdict, or NoVerdict
    pageCrash,      \* Registry: since when it crashes, or Never
    row,            \* watch_health: the saved verdict, or NoVerdict
    hook            \* what OnHealth's hook heard last from this process, lost in a panic

VARIABLES           \* history, read by the properties only
    told,           \* the last alert about the stream: down or healthy, or lost
    lastClean,      \* the last poll that read and crashed nowhere, or Never
    valueAt,        \* the last poll of this run that tried the value, or Never
    failFrom,       \* first of the failed polls in a row of this run, or Never
    last            \* the last poll of this run

runner  == <<fails, down, crashFirst, gate, interval, lastReading, reassertIn>>
page    == <<pageHealth, pageCrash>>
history == <<told, lastClean, valueAt, failFrom, last>>
vars == <<watch, now, starts, running, runner, page, row, hook, history>>

NoPoll == [kind |-> "none", text |-> Blank, fired |-> FALSE, crashed |-> FALSE]

Init ==
    /\ watch \in Watches /\ now = 0 /\ starts = 0 /\ running = FALSE
    /\ fails = 0 /\ down = FALSE /\ crashFirst = Never /\ gate = NoGate
    /\ interval = Base /\ lastReading = Blank /\ reassertIn = 0
    /\ pageHealth = NoVerdict /\ pageCrash = Never /\ row = NoVerdict /\ hook = "nothing"
    /\ told = "healthy" /\ lastClean = Never /\ valueAt = Never
    /\ failFrom = Never /\ last = NoPoll

-----------------------------------------------------------------------------
(* The stream's health: Tracker, and notifyHealth on a transition. *)

AtMost(n, m) == IF n < m THEN n ELSE m

\* Tracker.Failure: whether this one is the transition.
FailureGoesDown == ~down /\ fails + 1 >= HealthAfter

\* notifyHealth: the row first, then page and hook (OnHealth), then the
\* alert.  A cut in the store loses them all, one in the hook the alert.
Verdicts(isDown, cut) ==
    LET v == [down |-> isDown, since |-> now]
        says == IF isDown THEN "down" ELSE "healthy"
    IN  /\ row' = IF cut = "store" THEN row ELSE v
        /\ pageHealth' = IF cut = "store" THEN pageHealth ELSE v
        /\ hook' = CASE cut = "none" -> says [] cut = "callback" -> "lost" [] OTHER -> hook
        /\ told' = IF cut = "none" THEN says ELSE "lost"

Unheard == UNCHANGED <<row, pageHealth, hook, told>>

\* pollFailed: Failure, and the restored verdict the hook has not heard.
pollFailed(cut) ==
    /\ fails' = AtMost(fails + 1, HealthAfter)
    /\ down' = (down \/ FailureGoesDown)
    /\ IF FailureGoesDown
       THEN Verdicts(TRUE, cut) /\ UNCHANGED reassertIn
       ELSE /\ reassertIn' = IF reassertIn = 0 THEN 0 ELSE reassertIn - 1
            /\ hook' = IF reassertIn # 1 THEN hook ELSE IF cut = "none" THEN "down" ELSE "lost"
            /\ UNCHANGED <<row, pageHealth, told>>

\* pollSucceeded.
pollSucceeded(cut) ==
    /\ fails' = 0 /\ down' = FALSE /\ reassertIn' = 0
    /\ IF down THEN Verdicts(FALSE, cut) ELSE Unheard

-----------------------------------------------------------------------------
(* The run of crashes: crashed and endTick. *)

endTick_NeverEnds(crashes) ==
    IF crashes
    THEN crashFirst' = (IF crashFirst = Never THEN now ELSE crashFirst) /\ pageCrash' = crashFirst'
    ELSE UNCHANGED <<crashFirst, pageCrash>>

endTick(crashes) ==
    IF crashes
    THEN crashFirst' = (IF crashFirst = Never THEN now ELSE crashFirst) /\ pageCrash' = crashFirst'
    ELSE crashFirst' = Never /\ pageCrash' = IF crashFirst = Never THEN pageCrash ELSE Never

-----------------------------------------------------------------------------
(* The gate, and the wait for the next poll. *)

\* noteGate.
NoteOpen == [open |-> TRUE, lastOpen |-> now, since |-> Never, polls |-> 0, long |-> FALSE]

NoteClosed ==
    LET since == IF gate.polls = 0 THEN now ELSE gate.since
        polls == AtMost(gate.polls + 1, HealthAfter)
    IN  [open |-> FALSE, lastOpen |-> gate.lastOpen, since |-> since, polls |-> polls,
         long |-> polls >= HealthAfter /\ now - since >= GateLongAfter]

\* gateClosed: a watch with a gate reads it first, from the same frame.
ReadsGate(opens) ==
    gate' = IF ~watch.gated THEN gate ELSE IF opens THEN NoteOpen ELSE NoteClosed

tickChanged_IgnoresFailures(p) == p.fired \/ (~watch.pixel /\ p.text # lastReading)

tickChanged(p) == p.kind = "failed" \/ p.fired \/ (~watch.pixel /\ p.text # lastReading)

pollChanged_IgnoresGate(p) == tickChanged(p)

pollChanged(p) == tickChanged(p) \/ p.kind = "closed"

NextInterval(changed) ==
    IF changed \/ MaxIvl <= Base THEN Base ELSE AtMost(2 * interval, MaxIvl)

\* Run after Tick: p is the poll as Run sees it.
Waits(p) ==
    /\ interval' = NextInterval(pollChanged(p))
    /\ lastReading' = p.text
    /\ now' = now + interval'
    /\ last' = p

-----------------------------------------------------------------------------
(* A poll: tick, and what Run does after it. *)

Polls == running /\ now <= MaxTime

Lives == UNCHANGED <<watch, starts, running>>

\* As Run sees a poll that failed, or whose panic escaped Tick.
Failed(crashes) == [kind |-> "failed", text |-> Blank, fired |-> FALSE, crashed |-> crashes]

\* No frame, or one that could not be read, its gate or its value: an error
\* or a panic (StepGrab, StepRead).  gateRead: the gate was read and open.
PollFails(panics, gateRead, cut) ==
    /\ Polls
    /\ cut # "none" => FailureGoesDown \/ (cut = "callback" /\ reassertIn = 1)
    /\ pollFailed(cut)
    /\ endTick(panics \/ cut # "none")
    /\ IF gateRead THEN watch.gated /\ ReadsGate(TRUE) ELSE UNCHANGED gate
    /\ Waits(Failed(panics \/ cut # "none"))
    /\ failFrom' = IF failFrom = Never THEN now ELSE failFrom
    /\ valueAt' = IF gateRead \/ ~watch.gated THEN now ELSE valueAt
    /\ UNCHANGED lastClean /\ Lives

\* late: a panic after the reading, in a consumer of it ("consumer", which
\* tick contains) or anywhere else in tick ("escapes", which Run contains).
Ended(p, late, cut) ==
    LET escapes == late = "escapes" \/ cut # "none"
    IN  /\ cut # "none" => down /\ late = "none"
        /\ pollSucceeded(cut)
        /\ endTick(escapes \/ late = "consumer")
        /\ Waits(IF escapes THEN Failed(TRUE) ELSE [p EXCEPT !.crashed = late = "consumer"])
        /\ failFrom' = Never
        /\ lastClean' = IF late = "none" /\ cut = "none" THEN now ELSE lastClean
        /\ Lives

\* The gate is read and closed: gateSkip.
PollSkips(late, cut) ==
    /\ Polls /\ watch.gated
    /\ ReadsGate(FALSE)
    /\ Ended([NoPoll EXCEPT !.kind = "closed"], late, cut)
    /\ UNCHANGED valueAt

PollReads(text, fired, late, cut) ==
    /\ Polls
    /\ ReadsGate(TRUE)
    /\ Ended([kind |-> "read", text |-> text, fired |-> fired, crashed |-> FALSE], late, cut)
    /\ valueAt' = now

-----------------------------------------------------------------------------
(* The supervisor, and the process. *)

\* Stop.  A poll it cuts short counts for nothing (pollFailed, ctx.Err).
Stop ==
    /\ running /\ running' = FALSE
    /\ UNCHANGED <<watch, now, starts, runner, page, row, hook, history>>

\* What dies with the process.
Forgotten ==
    /\ running' = FALSE /\ pageHealth' = NoVerdict /\ pageCrash' = Never /\ hook' = "nothing"

\* The process dies between two polls, or stops and is started again.
Dies ==
    /\ starts > 0 /\ Forgotten
    /\ UNCHANGED <<watch, now, starts, runner, row, history>>

\* The process dies in a poll, as a health transition is reported: before
\* it is saved, or after, its alert unsent either way.
DiesReporting(isDown, saved) ==
    /\ Polls /\ IF isDown THEN FailureGoesDown ELSE down
    /\ Forgotten
    /\ row' = IF saved THEN [down |-> isDown, since |-> now] ELSE row
    /\ told' = IF saved THEN "lost" ELSE told
    /\ UNCHANGED <<watch, now, starts, runner, lastClean, valueAt, failFrom, last>>

\* The page has a verdict of an earlier run in this process ...
Known == pageHealth # NoVerdict

Restored_PageOnly == FALSE

\* ... or else the row's is taken over, when it is down (restoreHealth).
Restored == ~Known /\ row.down

\* Start: New, then the verdict carried over.  rest: how long it was stopped.
Start(rest) ==
    /\ ~running /\ starts < MaxStarts
    /\ running' = TRUE /\ starts' = starts + 1 /\ now' = now + rest
    /\ pageCrash' = Never
    /\ pageHealth' = IF Restored THEN row ELSE pageHealth
    /\ down' = IF Known THEN pageHealth.down ELSE Restored
    /\ fails' = IF down' THEN HealthAfter ELSE 0
    /\ reassertIn' = IF Restored THEN HealthAfter ELSE 0
    /\ crashFirst' = Never /\ gate' = NoGate /\ interval' = Base /\ lastReading' = Blank
    /\ valueAt' = Never /\ failFrom' = Never /\ last' = NoPoll
    /\ UNCHANGED <<watch, row, hook, told, lastClean>>

Next ==
    \/ \E panics, gateRead \in BOOLEAN, cut \in Cuts : PollFails(panics, gateRead, cut)
    \/ \E late \in {"none", "consumer", "escapes"}, cut \in Cuts :
          \/ PollSkips(late, cut)
          \/ \E text \in Texts, fired \in BOOLEAN : PollReads(text, fired, late, cut)
    \/ Stop \/ Dies
    \/ \E isDown, saved \in BOOLEAN : DiesReporting(isDown, saved)
    \/ \E rest \in {0, 1} : Start(rest)

Spec == Init /\ [][Next]_vars

-----------------------------------------------------------------------------
(* Properties. *)

RunnerType ==
    /\ fails \in 0..HealthAfter /\ down \in BOOLEAN
    /\ crashFirst \in Times \cup {Never}
    /\ gate \in [open : BOOLEAN, lastOpen : Times \cup {Never}, since : Times \cup {Never},
                 polls : 0..HealthAfter, long : BOOLEAN]
    /\ interval \in Base..(IF MaxIvl > Base THEN MaxIvl ELSE Base)
    /\ lastReading \in Texts /\ reassertIn \in 0..HealthAfter

TypeOK ==
    /\ watch \in Watches /\ now \in Times /\ starts \in 0..MaxStarts /\ running \in BOOLEAN
    /\ RunnerType
    /\ pageHealth \in Verdict \cup {NoVerdict} /\ row \in Verdict \cup {NoVerdict}
    /\ pageCrash \in Times \cup {Never}
    /\ hook \in {"nothing", "down", "healthy", "lost"} /\ told \in {"down", "healthy", "lost"}

\* statusFor: since when the page says a running watch fails.
ShownSince ==
    IF pageCrash # Never /\ pageCrash < pageHealth.since THEN pageCrash ELSE pageHealth.since

\* What the page says of a running watch is so, whatever was restarted, died
\* or panicked before.  It is down exactly when the runner takes it for
\* down, and no poll since then was clean; it is marked crashed exactly
\* when its last poll crashed; and while it says the gate is closed since a
\* time, no value has been tried since (statusFor, endTick, noteGate).  A
\* transition whose report was cut short is made up for by the next one.
PageTruthful ==
    running =>
        /\ told # "lost" => pageHealth.down = down
        /\ told # "lost" /\ pageHealth.down => lastClean < ShownSince
        /\ pageCrash # Never <=> last.crashed
        /\ gate.polls > 0 => valueAt < gate.since

Inv == TypeOK /\ PageTruthful

\* "recovery is reported exactly once, ... no matter how many restarts
\* happened in between": down and recovered take turns, across Save &
\* restart and the death of the process, from the verdict the page or the
\* database kept.  Only an alert a panic or the process's end swallowed
\* breaks the turn (Tracker, SeedDown, restoreHealth).
NewsAlternates ==
    [][\A isDown \in BOOLEAN :
          LET says == IF isDown THEN "down" ELSE "healthy"
          IN  pageHealth' # pageHealth /\ pageHealth'.down = isDown /\ running /\ running'
              => told # says]_vars

\* A stream that stops answering is reported down within health_after polls
\* at the base interval, however far the polls had backed off before
\* ("health-detected at ... health_after x interval", tickChanged).
PromptDown == running /\ failFrom # Never /\ ~down => now - failFrom < HealthAfter * Base

\* The wait grows past the base only after a poll that read the same as the
\* poll before it, so never after a failure, a closed gate or a change; a
\* pixel_change watch only has to be still (pollChanged, NextInterval).  What
\* a poll that read nothing (the first, a failed or a closed one) leaves to
\* compare with is the empty reading, so a blank after it counts as the same.
SameAgain ==
    IF last.kind = "read" THEN last'.text = last.text ELSE last'.text = Blank
BacksOffOnSame ==
    [][last' # NoPoll /\ now' > now + Base /\ starts' = starts =>
          /\ last'.kind = "read" /\ ~last'.fired
          /\ watch.pixel \/ SameAgain]_vars

\* "a gated watch backs off only while its gate stays open on the same
\* value": a blank after a closed gate breaks it (MCPollsGated).
GateStaysOpen ==
    [][watch.gated /\ last' # NoPoll /\ now' > now + Base /\ starts' = starts
       => last.kind # "closed"]_vars

\* "once health_after polls have failed in a row in this run ... reassert
\* hears the down verdict once": by then the hook knows the stream is down.
HookHearsDown ==
    running /\ failFrom # Never /\ now - failFrom >= HealthAfter * Base /\ told # "lost"
    => hook \in {"down", "lost"}
=============================================================================
