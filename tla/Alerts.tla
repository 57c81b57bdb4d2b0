------------------------------- MODULE Alerts -------------------------------
(***************************************************************************)
(* One watch's alerts on their way out (internal/runner), across stops,    *)
(* Save & restarts and crashes of the process.                             *)
(*                                                                         *)
(* Three actors share the state: the poll goroutine of the current run,    *)
(* which decides and raises alerts; the sender goroutine of every run that *)
(* has not finished sending (Stop does not wait for it); and the           *)
(* supervisor, which stops and starts runs.  They meet in the outbox (a    *)
(* channel), the noted condition (under condMu), the wake signal and the   *)
(* watch's row of the history database.                                    *)
(*                                                                         *)
(* A fire time is the number of the fire, 0 Go's zero time.  A notify URL  *)
(* (a line) answers a try with "ok", "soft" (an outage: worth another try) *)
(* or "hard" (it won't take the alert).  When a retry is due is left open. *)
(***************************************************************************)
EXTENDS Integers, Sequences

CONSTANTS
    Lines,       \* the watch's notify URLs
    Types,       \* the trigger types checked, of TriggerTypes
    OutboxSize,  \* outboxSize: alerts that may wait for the sender
    MayCrash,    \* whether the process may die at any step
    MaxFires,    \* bound: fires in a behaviour
    MaxRuns,     \* bound: starts of the watch
    MaxDowns,    \* bound: times the stream goes down
    MaxMoves,    \* bound: times the camera is found moved
    MaxBlips     \* bound: the two together

\* ocr_match and numeric; ocr_changed; pixel_change
TriggerTypes == {"match", "change", "pixel"}

ASSUME AlertsAssumption ==
    /\ Lines # {} /\ Types \subseteq TriggerTypes
    /\ OutboxSize \in Nat \ {0} /\ MayCrash \in BOOLEAN
    /\ MaxFires \in Nat /\ MaxRuns \in Nat
    /\ MaxDowns \in Nat /\ MaxMoves \in Nat /\ MaxBlips \in Nat

Runs  == 1..MaxRuns
Times == 0..MaxFires

\* The settled states a trigger can have: condMet and condUnmet, or two texts.
Keys(t)  == CASE t = "match" -> {"met", "unmet"} [] t = "change" -> {"a", "b"} [] OTHER -> {}
Stables  == {"unset", "met", "unmet", "a", "b"}
Answers  == {"ok", "soft", "hard"}

Alert     == [kind : {"fired", "down", "recovered", "moved"}, fired : Times, skip : SUBSET Lines]
Condition == [fire : BOOLEAN, down : BOOLEAN, moved : BOOLEAN]
SlotNames == {"fire", "stream", "move"}

\* slots: the first of S in the order they are gone through.
First(S) == IF "fire" \in S THEN "fire" ELSE IF "stream" \in S THEN "stream" ELSE "move"

slotFor_OneForAll(kind) == "fire"

slotFor(kind) == CASE kind = "fired" -> "fire" [] kind = "moved" -> "move" [] OTHER -> "stream"

NoAlert == [kind |-> "none", fired |-> 0, skip |-> {}]
EmptySlot == [cur |-> NoAlert, owed |-> {}, failed |-> {}, taken |-> {}, dropped |-> {}]
NoRow   == [fired |-> 0, stable |-> "unset", delivered |-> FALSE, taken |-> {}]

VARIABLES
    type,        \* the watch's trigger type
    run,         \* the number of its newest run, 0 before the first
    poll,        \* where that run's poll goroutine is
    stable,      \* the evaluator's settled state ...
    lastFired,   \* ... and its last fire
    down, moved, \* Runner.isDown, isMoved
    resendTaken, \* lines that took the alert the next fire tells again
    row,         \* the trigger_state row
    life,        \* per run: its sender goroutine
    ctxDone,     \* per run: its context is cancelled
    box,         \* per run: the outbox
    cond, wake,  \* per run: the noted condition, and the wake signal
    slot,        \* per run: the sender's slots
    trying,      \* per run: the attempt under way
    visit        \* per run: the slots the retry under way has still to see

VARIABLES        \* history, read by the properties only
    fires, downs, moves, \* fires, down verdicts and moves so far
    again,       \* the next fire tells the last alert again, after a restart
    root,        \* per fire: the fire whose alert it tells
    told,        \* per line: the fires whose alert it took
    overflowed,  \* fires whose alert met a full outbox
    early        \* lines let off the last fire before its poll had noted it

watcher == <<type, run, poll, stable, lastFired, down, moved, resendTaken>>
sending == <<life, ctxDone, box, cond, wake, slot, trying, visit>>
history == <<fires, downs, moves, again, root, told, overflowed, early>>
vars == <<watcher, row, sending, history>>

Idle == [slot |-> "none", first |-> FALSE, asked |-> {}, ok |-> {}, soft |-> {}, hard |-> {}]

Init ==
    /\ type \in Types /\ run = 0 /\ poll = "off"
    /\ stable = "unset" /\ lastFired = 0 /\ down = FALSE /\ moved = FALSE /\ resendTaken = {}
    /\ row = NoRow
    /\ life = [r \in Runs |-> "none"] /\ ctxDone = [r \in Runs |-> FALSE]
    /\ box = [r \in Runs |-> <<>>]
    /\ cond = [r \in Runs |-> [fire |-> FALSE, down |-> FALSE, moved |-> FALSE]]
    /\ wake = [r \in Runs |-> FALSE]
    /\ slot = [r \in Runs |-> [s \in SlotNames |-> EmptySlot]]
    /\ trying = [r \in Runs |-> Idle] /\ visit = [r \in Runs |-> {}]
    /\ fires = 0 /\ downs = 0 /\ moves = 0 /\ again = FALSE
    /\ root = [f \in Times |-> f] /\ told = [l \in Lines |-> {}]
    /\ overflowed = {} /\ early = {}

-----------------------------------------------------------------------------
(* The history database. *)

\* SaveTriggerState with Delivered false, as persist calls it: a fire time
\* the row already has keeps what the sender marked.
Saved(f, s) ==
    [fired |-> f, stable |-> s,
     delivered |-> row.fired = f /\ row.delivered,
     taken |-> IF row.fired = f THEN row.taken ELSE {}]

AboutFire_AnyFire(f) == f # 0

\* MarkDelivered and MarkTaken touch the row only while it is about that fire.
AboutFire(f) == f # 0 /\ row.fired = f

-----------------------------------------------------------------------------
(* The poll goroutine.  A poll that changes nothing here is not a step.    *)

fireHolds(s) == type = "match" => s = "met"

\* raise: onto the outbox, unless it is full.
Raised(a) ==
    IF Len(box[run]) < OutboxSize
    THEN box' = [box EXCEPT ![run] = Append(@, a)] /\ UNCHANGED overflowed
    ELSE overflowed' = overflowed \cup {a.fired} /\ UNCHANGED box

StreamAlert(kind) == [kind |-> kind, fired |-> 0, skip |-> {}]

\* A tick may begin: the goroutine waits on its timer and is not stopped.
Begins == poll = "idle" /\ ~ctxDone[run]

\* pollFailed, at the failure that makes the stream down.
GoesDown ==
    /\ Begins /\ ~down /\ downs < MaxDowns /\ downs + moves < MaxBlips
    /\ down' = TRUE /\ downs' = downs + 1 /\ poll' = "note"
    /\ Raised(StreamAlert("down"))
    /\ UNCHANGED <<type, run, stable, lastFired, moved, resendTaken, row, life, ctxDone,
                   cond, wake, slot, trying, visit, fires, moves, again, root, told, early>>

\* pollSucceeded, on a stream that was down.
Recovers ==
    /\ Begins /\ down
    /\ down' = FALSE /\ poll' = "drift"
    /\ Raised(StreamAlert("recovered"))
    /\ UNCHANGED <<type, run, stable, lastFired, moved, resendTaken, row, life, ctxDone,
                   cond, wake, slot, trying, visit, fires, downs, moves, again, root, told, early>>

ReadWell == poll = "drift" \/ (Begins /\ ~down)

\* observeDrift: the check finds the picture moved, as news or not (after a
\* restart it already was), or back.
Moves(isNews) ==
    /\ ReadWell /\ ~moved /\ moves < MaxMoves /\ downs + moves < MaxBlips
    /\ moved' = TRUE /\ moves' = moves + 1 /\ poll' = "eval"
    /\ IF isNews THEN Raised(StreamAlert("moved")) ELSE UNCHANGED <<box, overflowed>>
    /\ UNCHANGED <<type, run, stable, lastFired, down, resendTaken, row, life, ctxDone,
                   cond, wake, slot, trying, visit, fires, downs, again, root, told, early>>

MovesBack ==
    /\ ReadWell /\ moved
    /\ moved' = FALSE /\ poll' = "eval"
    /\ UNCHANGED <<type, run, stable, lastFired, down, resendTaken, row, sending, history>>

Reads == poll = "eval" \/ ReadWell

\* The evaluator settles on k.  A condition fires when it becomes met, a
\* changed text when there was one before; a fire the cooldown holds back
\* commits nothing (Trigger), so that poll is no step.  saveState follows.
Settles(k) ==
    LET isFire == IF type = "match" THEN k = "met" ELSE stable # "unset"
    IN  /\ Reads /\ k # stable
        /\ stable' = k
        /\ IF isFire
           THEN /\ fires < MaxFires
                /\ fires' = fires + 1 /\ lastFired' = fires + 1 /\ poll' = "raise"
                /\ root' = [root EXCEPT ![fires + 1] = IF again THEN root[fires] ELSE @]
                /\ early' = {}
           ELSE poll' = "note" /\ UNCHANGED <<fires, lastFired, root, early>>
        /\ again' = FALSE
        /\ row' = Saved(lastFired', k)
        /\ UNCHANGED <<type, run, down, moved, resendTaken, sending, downs, moves, told, overflowed>>

\* pixel_change fires and settles on nothing.
PixelFires ==
    /\ Reads /\ type = "pixel" /\ fires < MaxFires
    /\ fires' = fires + 1 /\ lastFired' = fires + 1 /\ poll' = "raise"
    /\ row' = Saved(fires + 1, stable) /\ early' = {}
    /\ UNCHANGED <<type, run, stable, down, moved, resendTaken, sending,
                   downs, moves, again, root, told, overflowed>>

\* A display unread for StaleAfter: the settled state is forgotten.
Forgets ==
    /\ Reads /\ stable # "unset"
    /\ stable' = "unset" /\ poll' = "note"
    /\ row' = Saved(lastFired, "unset")
    /\ UNCHANGED <<type, run, lastFired, down, moved, resendTaken, sending, history>>

\* The tick that changed nothing more than the drift check or the health.
ReadsNothingNew ==
    /\ poll \in {"drift", "eval"} /\ poll' = "note"
    /\ UNCHANGED <<type, run, stable, lastFired, down, moved, resendTaken, row, sending, history>>

\* tick's last step on a fire: raise.
RaisesFire ==
    /\ poll = "raise" /\ poll' = "note"
    /\ Raised([kind |-> "fired", fired |-> lastFired, skip |-> resendTaken])
    /\ resendTaken' = {}
    /\ UNCHANGED <<type, run, stable, lastFired, down, moved, row, life, ctxDone,
                   cond, wake, slot, trying, visit, fires, downs, moves, again, root, told, early>>

Noted(s, d, m) == [fire |-> fireHolds(s), down |-> d, moved |-> m]

\* Tick: the condition was not seen clear since the restart.
StillTheSame(s) == s \in {"unset", "met"}

\* Tick after tick: noteCondition, and the end of a re-send nobody needs.
noteCondition ==
    /\ poll = "note" /\ poll' = "idle"
    /\ cond' = [cond EXCEPT ![run] = Noted(stable, down, moved)]
    /\ wake' = [wake EXCEPT ![run] = @ \/ cond'[run] # cond[run]]
    /\ resendTaken' = IF StillTheSame(stable) THEN resendTaken ELSE {}
    /\ UNCHANGED <<type, run, stable, lastFired, down, moved, row, life, ctxDone,
                   box, slot, trying, visit, history>>

RunReturns ==
    /\ poll = "idle" /\ ctxDone[run] /\ poll' = "off"
    /\ UNCHANGED <<type, run, stable, lastFired, down, moved, resendTaken, row, sending, history>>

-----------------------------------------------------------------------------
(* The supervisor: Stop, and Start once the poll goroutine has returned.   *)

\* Stop, or watchglass shutting down (StopAll).
Stop ==
    /\ poll # "off" /\ ~ctxDone[run]
    /\ ctxDone' = [ctxDone EXCEPT ![run] = TRUE]
    /\ UNCHANGED <<watcher, row, life, box, cond, wake, slot, trying, visit, history>>

\* The process dies, or exits when sendGrace is over: every goroutine ends.
Crash ==
    /\ MayCrash /\ run > 0 /\ poll' = "off"
    /\ life' = [r \in Runs |-> IF life[r] = "none" THEN "none" ELSE "gone"]
    /\ box' = [r \in Runs |-> <<>>]
    /\ slot' = [r \in Runs |-> [s \in SlotNames |-> EmptySlot]]
    /\ trying' = [r \in Runs |-> Idle] /\ visit' = [r \in Runs |-> {}]
    /\ wake' = [r \in Runs |-> FALSE]
    /\ UNCHANGED <<type, run, stable, lastFired, down, moved, resendTaken, row,
                   ctxDone, cond, history>>

\* restoreState: the last fire's alert may not have gone out.
Unsent == row.fired # 0 /\ ~row.delivered

CarriesOn_Unsent == TRUE

CarriesOn == ~Unsent

\* The next run: New (restoreState, restoreHealth, noteCondition), SeedDown, Run.
\* same: the row's fingerprint is the watch's; recent: restoreWindow holds.
Start(same, recent) ==
    /\ poll = "off" /\ run < MaxRuns
    /\ run' = run + 1 /\ poll' = "idle"
    /\ stable' = IF same /\ recent /\ CarriesOn THEN row.stable ELSE "unset"
    /\ lastFired' = IF same /\ CarriesOn THEN row.fired ELSE 0
    /\ resendTaken' = IF same /\ Unsent /\ row.stable = "met" THEN row.taken ELSE {}
    /\ again' = (same /\ (again \/ (Unsent /\ row.stable = "met")))
    /\ moved' = FALSE
    /\ row' = Saved(lastFired', stable')
    /\ life' = [life EXCEPT ![run + 1] = "loop"]
    /\ cond' = [cond EXCEPT ![run + 1] = Noted(stable', down, FALSE)]
    /\ wake' = [wake EXCEPT ![run + 1] = cond'[run + 1] # cond[run + 1]]
    /\ UNCHANGED <<type, down, ctxDone, box, slot, trying, visit,
                   fires, downs, moves, root, told, overflowed, early>>

-----------------------------------------------------------------------------
(* The sender goroutine of run r: sendLoop. *)

condHolds_StreamOnly(r, kind) ==
    CASE kind = "down" -> cond[r].down
      [] kind = "recovered" -> ~cond[r].down
      [] OTHER -> TRUE

condHolds(r, kind) ==
    CASE kind = "down" -> cond[r].down
      [] kind = "recovered" -> ~cond[r].down
      [] kind = "moved" -> cond[r].moved
      [] OTHER -> cond[r].fire

retrying(r, s) == slot[r][s].owed # {}

done(sl) == sl.owed = {} /\ sl.failed = {} /\ sl.dropped = {}

\* report: what the sender leaves in the row about sl's alert.
Reported(sl) ==
    IF ~AboutFire(sl.cur.fired) THEN row
    ELSE IF done(sl) THEN [row EXCEPT !.delivered = TRUE]
    ELSE IF sl.taken # {} /\ sl.owed # {} THEN [row EXCEPT !.taken = sl.taken]
    ELSE row

\* At its select, between two steps.
Waiting(r) == trying[r] = Idle /\ visit[r] = {}

Tries(r, s, lines, first) ==
    trying' = [trying EXCEPT ![r] = [Idle EXCEPT !.slot = s, !.first = first, !.asked = lines]]

\* take: the newest alert replaces the one in its slot.
Take(r) ==
    LET a    == Head(box[r])
        todo == Lines \ a.skip
        new  == [EmptySlot EXCEPT !.cur = a, !.taken = a.skip]
    IN  /\ life[r] \in {"loop", "drain"} /\ Waiting(r) /\ box[r] # <<>>
        /\ box' = [box EXCEPT ![r] = Tail(@)]
        /\ slot' = [slot EXCEPT ![r][slotFor(a.kind)] = new]
        /\ IF todo = {}
           THEN row' = Reported(new) /\ UNCHANGED trying
           ELSE Tries(r, slotFor(a.kind), todo, TRUE) /\ UNCHANGED row
        /\ UNCHANGED <<watcher, life, ctxDone, cond, wake, visit, history>>

\* What l's answer adds to the attempt t.
Answered(t, l, how) ==
    [t EXCEPT !.asked = @ \ {l},
              !.ok   = IF how = "ok"   THEN @ \cup {l} ELSE @,
              !.soft = IF how = "soft" THEN @ \cup {l} ELSE @,
              !.hard = IF how = "hard" THEN @ \cup {l} ELSE @]

\* attempt: one line's answer to sendLine, on a goroutine of its own.
Answer(r, l, how) ==
    /\ l \in trying[r].asked
    /\ trying' = [trying EXCEPT ![r] = Answered(@, l, how)]
    /\ told' = IF how = "ok" /\ slot[r][trying[r].slot].cur.fired # 0
               THEN [told EXCEPT ![l] = @ \cup {slot[r][trying[r].slot].cur.fired}] ELSE told
    /\ UNCHANGED <<watcher, row, life, ctxDone, box, cond, wake, slot, visit,
                   fires, downs, moves, again, root, overflowed, early>>

StillOwed_KeepsTakers(sl, ok, soft, hard) == (sl.owed \ hard) \cup soft

StillOwed(sl, ok, soft, hard) == (sl.owed \ (ok \cup hard)) \cup soft

\* attempt, once every line asked has answered.  A retry cut short by the
\* stop is no try; after it, in the drain, no new try may be owed.
Sort(r) ==
    LET t    == trying[r]
        sl   == slot[r][t.slot]
        cut  == ~t.first /\ ctxDone[r]
        soft == IF cut \/ life[r] = "drain" THEN {} ELSE t.soft
        hard == IF cut THEN {} ELSE t.hard \cup (t.soft \ soft)
        new  == [sl EXCEPT !.owed = StillOwed(sl, t.ok, soft, hard),
                           !.failed = @ \cup hard, !.taken = @ \cup t.ok]
    IN  /\ t.slot # "none" /\ t.asked = {}
        /\ slot' = [slot EXCEPT ![r][t.slot] = new]
        /\ row' = Reported(new)
        /\ trying' = [trying EXCEPT ![r] = Idle]
        /\ UNCHANGED <<watcher, life, ctxDone, box, cond, wake, visit, history>>

\* prune: every line is let off an alert whose reason is gone.
Pruned(r) ==
    [s \in SlotNames |->
        IF retrying(r, s) /\ ~condHolds(r, slot[r][s].cur.kind)
        THEN [slot[r][s] EXCEPT !.dropped = slot[r][s].owed, !.owed = {}]
        ELSE slot[r][s]]

\* The condition of the fire in the current run's slot has held ever since.
FireStands == fireHolds(stable) /\ slot[run]["fire"].cur.fired = lastFired

\* The poll under way settled on the condition and has not noted it yet.
Unnoted == poll = "note" /\ ~cond[run].fire

Prunes(r) ==
    /\ slot' = [slot EXCEPT ![r] = Pruned(r)]
    /\ early' = IF r = run /\ FireStands /\ Unnoted
                THEN early \cup (slot[r]["fire"].owed \cap Pruned(r)["fire"].dropped) ELSE early

Wakes(r) ==
    /\ life[r] = "loop" /\ Waiting(r) /\ wake[r]
    /\ wake' = [wake EXCEPT ![r] = FALSE]
    /\ Prunes(r)
    /\ UNCHANGED <<watcher, row, life, ctxDone, box, cond, trying, visit,
                   fires, downs, moves, again, root, told, overflowed>>

AnyDue_FiresOnly(r) == retrying(r, "fire")

\* nextDue: there is a timer to wait for.
AnyDue(r) == \E s \in SlotNames : retrying(r, s)

\* The earliest wait is over: retry goes through the slots in order.
Due(r) ==
    /\ life[r] = "loop" /\ Waiting(r) /\ AnyDue(r)
    /\ visit' = [visit EXCEPT ![r] = {s \in SlotNames : retrying(r, s)}]
    /\ UNCHANGED <<watcher, row, life, ctxDone, box, cond, wake, slot, trying, history>>

\* retry at the next slot: due are the lines whose wait is over.
Retry(r, due) ==
    LET s == First(visit[r])
    IN  /\ trying[r] = Idle /\ visit[r] # {}
        /\ due \subseteq slot[r][s].owed
        /\ visit' = [visit EXCEPT ![r] = @ \ {s}]
        /\ IF retrying(r, s) /\ ~condHolds(r, slot[r][s].cur.kind)
           THEN due = {} /\ Prunes(r) /\ UNCHANGED trying
           ELSE /\ IF due = {} THEN UNCHANGED trying ELSE Tries(r, s, due, FALSE)
                /\ UNCHANGED <<slot, early>>
        /\ UNCHANGED <<watcher, row, life, ctxDone, box, cond, wake,
                       fires, downs, moves, again, root, told, overflowed>>

\* stop: nothing is owed any more; what is left is the restart's.
LetGo(r) == [s \in SlotNames |-> [slot[r][s] EXCEPT !.owed = {}]]

StopsTrying(r) ==
    /\ life[r] = "loop" /\ Waiting(r) /\ ctxDone[r]
    /\ life' = [life EXCEPT ![r] = "drain"]
    /\ slot' = [slot EXCEPT ![r] = LetGo(r)]
    /\ UNCHANGED <<watcher, row, ctxDone, box, cond, wake, trying, visit, history>>

RunOver(r) == r < run \/ poll = "off"

BoxClosed_LeftOpen(r) == FALSE

\* Run closed the box when it returned: it is read empty, then left.
BoxClosed(r) == RunOver(r)

Ends(r) ==
    /\ life[r] \in {"loop", "drain"} /\ Waiting(r) /\ box[r] = <<>> /\ BoxClosed(r)
    /\ life' = [life EXCEPT ![r] = "gone"]
    /\ slot' = [slot EXCEPT ![r] = [s \in SlotNames |-> EmptySlot]]
    /\ wake' = [wake EXCEPT ![r] = FALSE]
    /\ UNCHANGED <<watcher, row, ctxDone, box, cond, trying, visit, history>>

-----------------------------------------------------------------------------
Poll ==
    \/ GoesDown \/ Recovers \/ MovesBack
    \/ \E isNews \in BOOLEAN : Moves(isNews)
    \/ \E k \in Keys(type) : Settles(k)
    \/ PixelFires \/ Forgets \/ ReadsNothingNew
    \/ RaisesFire \/ noteCondition \/ RunReturns

Sender(r) ==
    \/ Take(r) \/ Sort(r) \/ Wakes(r) \/ Due(r) \/ StopsTrying(r) \/ Ends(r)
    \/ \E l \in Lines, how \in Answers : Answer(r, l, how)
    \/ \E due \in SUBSET Lines : Retry(r, due)

Next ==
    \/ Poll \/ Stop \/ Crash
    \/ \E same, recent \in BOOLEAN : Start(same, recent)
    \/ \E r \in Runs : Sender(r)

Spec == Init /\ [][Next]_vars

-----------------------------------------------------------------------------
(* Properties. *)

SlotType == [cur : Alert \cup {NoAlert}, owed : SUBSET Lines, failed : SUBSET Lines,
             taken : SUBSET Lines, dropped : SUBSET Lines]

WatcherType ==
    /\ type \in Types /\ run \in 0..MaxRuns
    /\ poll \in {"off", "idle", "drift", "eval", "raise", "note"}
    /\ stable \in Stables /\ lastFired \in Times
    /\ down \in BOOLEAN /\ moved \in BOOLEAN /\ resendTaken \subseteq Lines

SenderType ==
    /\ life \in [Runs -> {"none", "loop", "drain", "gone"}]
    /\ ctxDone \in [Runs -> BOOLEAN] /\ wake \in [Runs -> BOOLEAN]
    /\ box \in [Runs -> Seq(Alert)] /\ \A r \in Runs : Len(box[r]) <= OutboxSize
    /\ cond \in [Runs -> Condition]
    /\ slot \in [Runs -> [SlotNames -> SlotType]]
    /\ trying \in [Runs -> [slot : SlotNames \cup {"none"}, first : BOOLEAN, asked : SUBSET Lines,
                            ok : SUBSET Lines, soft : SUBSET Lines, hard : SUBSET Lines]]
    /\ visit \in [Runs -> SUBSET SlotNames]

HistoryType ==
    /\ fires \in Times /\ downs \in 0..MaxDowns /\ moves \in 0..MaxMoves /\ again \in BOOLEAN
    /\ root \in [Times -> Times] /\ told \in [Lines -> SUBSET Times]
    /\ overflowed \subseteq Times /\ early \subseteq Lines

\* Types, and the bound of the outbox.
TypeOK ==
    /\ WatcherType /\ SenderType /\ HistoryType
    /\ row \in [fired : Times, stable : Stables, delivered : BOOLEAN, taken : SUBSET Lines]

\* l took the alert of fire f, or that of a fire before a restart f tells again.
Heard(l, f) == \E g \in told[l] : root[g] = root[f]

\* What the row says of the last alert is so, whatever stopped or crashed in
\* between and whichever run's sender wrote it: marked delivered, every URL
\* took it; listed as taken, that URL did (report, MarkDelivered, MarkTaken).
StoreTruthful ==
    row.fired # 0 =>
        \A l \in Lines : row.delivered \/ l \in row.taken => Heard(l, row.fired)

Inv == TypeOK /\ StoreTruthful

Queued(l, f) == \E i \in DOMAIN box[run] : box[run][i].fired = f /\ l \notin box[run][i].skip

Standing(l, f) ==
    LET sl == slot[run]["fire"]
    IN  sl.cur.fired = f /\
        \/ l \in sl.owed \cup sl.failed
        \/ trying[run].slot = "fire" /\ l \in trying[run].asked \cup trying[run].soft \cup trying[run].hard

\* While a watch's condition stands as met, no URL has been forgotten or let
\* off: it took the alert, or refused it for good, or it is queued or owed in
\* the running sender, or its alert met a full outbox, or the sender is
\* stopping and the row still says undelivered, so the next start sends it
\* again.  Nothing lets a URL off in between (retry.go:19-22), but for what
\* the code does in the poll that raises the fire, until that poll notes what
\* it read (early; the finding alerts_stale_prune).
NothingLost ==
    type = "match" /\ stable = "met" /\ poll = "idle" =>
        \A l \in Lines :
            \/ Heard(l, lastFired) \/ lastFired \in overflowed
            \/ Queued(l, lastFired) \/ Standing(l, lastFired)
            \/ l \in early
            \/ ctxDone[run] /\ row.fired = lastFired /\ ~row.delivered

\* The current run never asks a URL to take a fire it took already, nor one
\* older than one it took (take, retry).  What a start sends again is a fire of
\* its own here: whom it skips is RestartKnowsTakers.
OnlyNews ==
    [][\A l \in Lines, s \in SlotNames :
          LET f == slot'[run'][s].cur.fired
          IN  trying'[run'].slot = s /\ l \in trying'[run'].asked \ trying[run'].asked /\ f # 0
              => \A g \in told[l] : g < f]_vars

\* "a camera that blips while a fire alert waits doesn't push that alert
\* out": a URL stops owing a fire only by taking or refusing it, by its
\* condition having cleared as the evaluator has it, whatever was noted, for
\* a newer fire, or when the watch stops; and, as the code does, when it is
\* let off before the poll that raised it noted that (alerts_stale_prune).
BlipKeepsFire ==
    [][\A r \in Runs : \A l \in slot[r]["fire"].owed :
          LET new == slot'[r]["fire"]
          IN  \/ l \in new.owed \cup new.taken \cup new.failed
              \/ l \in new.dropped /\ r = run /\ (~FireStands \/ Unnoted)
              \/ new.cur.fired > slot[r]["fire"].cur.fired
              \/ ctxDone[r]]_vars

\* The same without what the code does early: violated (MCAlertsLetOff).
NoneLetOff ==
    [][\A r \in Runs : \A l \in slot[r]["fire"].owed :
          r = run /\ l \in slot'[r]["fire"].dropped => ~FireStands]_vars

\* The reason of an alert of the current run, as the watch itself knows it.
ReasonHolds(kind) ==
    CASE kind = "down" -> down
      [] kind = "recovered" -> ~down
      [] kind = "moved" -> moved
      [] OTHER -> fireHolds(stable)

\* "prune lets every URL off an alert whose reason is gone": a wake signal
\* lets no URL off an alert whose reason still holds.
DropsOnlyWhenGone ==
    [][\A r \in Runs, s \in SlotNames :
          /\ r = run /\ wake[r] /\ ~wake'[r]
          /\ slot'[r][s].dropped # {} /\ slot[r][s].dropped = {}
          => ~ReasonHolds(slot[r][s].cur.kind)]_vars

\* "goes out again, to the URLs that hadn't taken it": a start that will send
\* the last alert again, with no sender of an earlier run left, knows every
\* URL that took it.
RestartKnowsTakers ==
    [][run' # run /\ Unsent /\ again' /\ (\A r \in Runs : life[r] \in {"none", "gone"})
       => \A l \in Lines : Heard(l, row.fired) => l \in resendTaken']_vars

\* "pressing Save & restart watch doesn't send the same alert again": no URL
\* takes two fires that tell one alert, the second being the restart's re-send.
NeverToldTwice ==
    \A l \in Lines : \A f, g \in told[l] : f # g => root[f] # root[g]

-----------------------------------------------------------------------------
(* Liveness.  A tick that began ends, since every step of it is bounded by *)
(* a timeout; a service answers, by its timeout at the latest; a select    *)
(* with several cases ready picks one at random, so none that is ready     *)
(* again and again is passed over for ever; and the clock brings every     *)
(* owed line's next try due, at most five minutes later (retryDelay).      *)

Fairness ==
    /\ WF_vars(poll \in {"drift", "eval", "raise", "note"} /\ Poll)
    /\ WF_vars(RunReturns)
    /\ \A r \in Runs :
        /\ SF_vars(Take(r)) /\ SF_vars(Wakes(r)) /\ SF_vars(StopsTrying(r)) /\ SF_vars(Ends(r))
        /\ WF_vars(Sort(r)) /\ SF_vars(Due(r))
        /\ WF_vars(\E due \in SUBSET Lines : Retry(r, due))
        /\ SF_vars(\E due \in SUBSET Lines \ {{}} : Retry(r, due))
        /\ \A l \in Lines : WF_vars(\E how \in Answers : Answer(r, l, how))

FairSpec == Spec /\ Fairness

\* An alert whose reason is gone is not kept waiting for the service: its
\* URLs are let off it, also when the wake signal came before the alert was
\* taken from the outbox (noteCondition, prune, retry).
LetGoWhenGone ==
    \A r \in Runs, s \in SlotNames :
        retrying(r, s) /\ r = run /\ ~ReasonHolds(slot[r][s].cur.kind)
        ~> ~retrying(r, s) \/ r # run \/ ReasonHolds(slot[r][s].cur.kind)

\* While a URL owes an alert its next try comes, or it is let off: none is
\* left waiting with no timer set for it (nextDue, retry, stop).
Owes(r) == \E s \in SlotNames : slot[r][s].owed # {}
Retrying(r) == trying[r].slot # "none" /\ ~trying[r].first
OwedIsTried == \A r \in Runs : Owes(r) ~> ~Owes(r) \/ Retrying(r)

\* Once a run is over its sender sends what was queued and ends (WaitSent).
SenderEnds ==
    \A r \in Runs : life[r] \in {"loop", "drain"} /\ RunOver(r) ~> life[r] = "gone"
=============================================================================
