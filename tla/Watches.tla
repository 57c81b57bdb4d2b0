------------------------------ MODULE Watches ------------------------------
(***************************************************************************)
(* Changing a watch while it runs: the handlers of the web UI that save,   *)
(* create, delete or move the box of a watch (web.go, web/drift.go), the   *)
(* supervisor that stops and starts its run (supervisor.go), the runs      *)
(* themselves, each with a poll goroutine and a sender goroutine, and the  *)
(* registry the pages read (state.go), down to the stop of the process and *)
(* the next boot.                                                          *)
(*                                                                         *)
(* Handlers run concurrently.  applyMu keeps the change and what follows   *)
(* from it together, but what a handler read before it took the lock may   *)
(* be out of date by then.  The supervisor's mutex is held for one step at *)
(* a time.                                                                 *)
(***************************************************************************)
EXTENDS Integers, Sequences, SequencesExt, FiniteSets

CONSTANTS
    Names,        \* names of watches
    Handlers,     \* requests under way at a time
    Settings,     \* what a watch can be set to: [reads, notify, starts]
    Fresh,        \* the setting a created watch has
    SamplesKept,  \* samples the registry keeps of a watch (10 in the code)
    Bounds        \* the bounds checked: [requests, runs, alerts, boots]

Nothing == [reads |-> 0, notify |-> 0, starts |-> FALSE]
None == 0

ASSUME SettingAssumption ==
    /\ Settings \subseteq [reads : Nat \ {0}, notify : Nat \ {0}, starts : BOOLEAN]
    /\ Fresh \in Settings
    /\ SamplesKept \in Nat \ {0}
    /\ Bounds \subseteq [requests : Nat, runs : Nat, alerts : Nat, boots : Nat]

\* None is no handler.
ASSUME HandlerAssumption == None \notin Handlers

VARIABLES
    cfg,        \* the config: each name's setting, in config.yaml and in memory
    told,       \* the watch list OnConfigChanged was last given
    lock,       \* the handler that holds applyMu
    req,        \* each handler's request
    booting,    \* watches the boot has yet to start
    running,    \* the supervisor's running: each name's run
    runs,       \* the runs started since the boot
    ended,      \* the supervisor's ended
    reg,        \* the registry
    row,        \* trigger_state and watch_health of each name
    phase,      \* "up", in StopAll "joining" and "sends", "down"
    ctxOver,    \* the signal context has ended
    joined      \* the runs StopAll waits for

\* History variables and the counters of the bounds.
VARIABLES
    stale,      \* a save compared with a setting that was changed since it was read
    graceOver,  \* StopAll gave up waiting for a sender
    cut,        \* the latest run started when StopAll took the runs
    bound,      \* the bounds of this behaviour
    requests, started, alerts, boots

webVars  == <<cfg, told, lock, req, stale, requests>>
supVars  == <<running, runs, ended, booting, started>>
stopVars == <<phase, ctxOver, joined, graceOver, cut, boots>>
vars == <<webVars, supVars, reg, row, stopVars, alerts, bound>>

NoDelivery == [ts |-> 0, list |-> 0, state |-> "none"]
Blank == [samples |-> <<>>, fired |-> 0, sending |-> 0, delivery |-> NoDelivery,
          down |-> FALSE]
NoRow == [ts |-> 0, reads |-> 0, down |-> FALSE]
NoRequest == [pc |-> "idle", op |-> "none", name |-> None, base |-> Nothing,
              updated |-> Nothing, old |-> None]
NoRun == [pc |-> "none", name |-> None, set |-> Nothing, ts |-> 0, down |-> FALSE,
          cancelled |-> FALSE, box |-> <<>>, owed |-> 0]

RunIds == 1..bound.runs

-----------------------------------------------------------------------------
(* The registry.                                                           *)

Add(g, sample, ts) ==
    [g EXCEPT !.samples = SubSeq(<<sample>> \o @, 1,
                                 IF Len(@) < SamplesKept THEN Len(@) + 1 ELSE SamplesKept),
              !.fired = IF ts > @ THEN ts ELSE @]
SeedFired(g, ts)  == [g EXCEPT !.fired = IF ts > @ THEN ts ELSE @]
DropSamples(g)    == [g EXCEPT !.samples = <<>>]
SetSending(g, ts) == [g EXCEPT !.sending = IF ts > @ THEN ts ELSE @]
ClearSending(g)   == [g EXCEPT !.sending = 0]
ClearDelivery(g)  == [g EXCEPT !.delivery = NoDelivery, !.sending = 0]
SetHealth(g, down) == [g EXCEPT !.down = down]
EndRetrying(g) ==
    IF g.delivery.state = "retrying" THEN [g EXCEPT !.delivery.state = "dropped"] ELSE g

\* An older alert's outcome never replaces a newer one's, except while either
\* is still being tried.
SetDelivery(g, d) ==
    [g EXCEPT !.delivery = IF d.ts >= @.ts \/ "retrying" \in {d.state, @.state}
                           THEN d ELSE @,
              !.sending = IF @ > d.ts THEN @ ELSE 0]

-----------------------------------------------------------------------------
(* The supervisor.                                                         *)

\* KeepTriggerState: the rows of watches not in the list go.
ForgetExcept(rows, list) ==
    [w \in Names |-> IF list[w] = Nothing THEN NoRow ELSE rows[w]]

\* What a new run takes over of the saved fire: nothing when the watch now
\* asks something else.  keep: the fire's alert is known to have gone out.
Applies(w) == row[w].reads = cfg[w].reads
RestoredFire(w) == IF Applies(w) THEN row[w].ts ELSE 0
RestoredRow(w, keep) ==
    IF row[w].reads = 0 THEN row[w]
    ELSE [row[w] EXCEPT !.ts = IF Applies(w) /\ keep THEN @ ELSE 0,
                        !.reads = cfg[w].reads]

\* The verdict a run starts with: the registry's, else the database's.
SeededDown(w) == reg[w].down \/ row[w].down

\* Start of w as it is set, under the supervisor's mutex.
StartFails(w) ==
    /\ running[w] # None \/ ~cfg[w].starts
    /\ reg' = IF running[w] # None THEN reg
              ELSE [reg EXCEPT ![w] = ClearSending(@)]
    /\ UNCHANGED <<running, runs, started, row>>

StartLaunches(w) ==
    /\ running[w] = None /\ cfg[w].starts /\ started < bound.runs
    /\ started' = started + 1
    /\ running' = [running EXCEPT ![w] = started']
    /\ runs' = [runs EXCEPT ![started'] =
                  [NoRun EXCEPT !.pc = "idle", !.name = w, !.set = cfg[w],
                                !.down = SeededDown(w)]]
    /\ reg' = [reg EXCEPT ![w] = SetHealth(SeedFired(ClearSending(@), RestoredFire(w)),
                                           reg[w].down \/ row[w].down)]
    /\ \E keep \in BOOLEAN : row' = [row EXCEPT ![w] = RestoredRow(w, keep)]

\* The first half of Stop: the run is no longer the watch's, and is cancelled.
StopTakes(w) ==
    IF running[w] = None THEN UNCHANGED <<running, runs, reg>>
    ELSE /\ running' = [running EXCEPT ![w] = None]
         /\ runs' = [runs EXCEPT ![running[w]].cancelled = TRUE]
         /\ reg' = [reg EXCEPT ![w] = EndRetrying(ClearSending(@))]

Over(r) == runs[r].pc \in {"none", "over"}
Cancelled(r) == runs[r].cancelled \/ r \in joined \/ ctxOver

-----------------------------------------------------------------------------
(* A run: its poll goroutine.                                              *)

Polls(r) ==
    /\ UNCHANGED <<webVars, running, ended, booting, started, stopVars>>

To(r, pc) == runs' = [runs EXCEPT ![r].pc = pc]

\* A poll that fails: after enough of them the stream is down.  A cancelled
\* run counts none.
Fails(r) ==
    /\ runs[r].pc = "idle" /\ ~runs[r].down
    /\ ~Cancelled(r)
    /\ runs' = [runs EXCEPT ![r].down = TRUE]
    /\ reg' = [reg EXCEPT ![runs[r].name] = SetHealth(@, TRUE)]
    /\ row' = [row EXCEPT ![runs[r].name].down = TRUE]
    /\ UNCHANGED alerts /\ Polls(r)

\* A poll that reads: the stream is up, and a fire (ts) is saved before
\* anyone hears of it.
Reads(r, fires) ==
    LET w == runs[r].name IN
    /\ runs[r].pc = "idle"
    /\ fires => alerts < bound.alerts
    /\ alerts' = IF fires THEN alerts + 1 ELSE alerts
    /\ runs' = [runs EXCEPT ![r].pc = "read", ![r].down = FALSE,
                            ![r].ts = IF fires THEN alerts' ELSE 0]
    /\ reg' = [reg EXCEPT ![w] = IF runs[r].down THEN SetHealth(@, FALSE) ELSE @]
    /\ row' = [row EXCEPT ![w] =
                 [reads |-> IF fires THEN runs[r].set.reads ELSE @.reads,
                  ts    |-> IF fires THEN alerts' ELSE @.ts,
                  down  |-> IF runs[r].down THEN FALSE ELSE @.down]]
    /\ Polls(r)

\* OnReading.
Shows(r) ==
    /\ runs[r].pc = "read"
    /\ To(r, IF runs[r].ts = 0 THEN "idle" ELSE "shown")
    /\ reg' = [reg EXCEPT ![runs[r].name] = Add(@, runs[r].set.reads, runs[r].ts)]
    /\ UNCHANGED <<row, alerts>> /\ Polls(r)

\* OnDelivery: only the watch's current run reports.
Current_Anyone(r) == TRUE
Current(r) == running[runs[r].name] = r
Report(r, d) ==
    reg' = [reg EXCEPT ![runs[r].name] = IF Current(r) THEN SetDelivery(@, d) ELSE @]
Outcome(r, ts, state) ==
    [ts |-> ts, list |-> runs[r].set.notify, state |-> state]

\* raise: the alert is queued for the sender.
Raises(r) ==
    /\ runs[r].pc = "shown"
    /\ runs' = [runs EXCEPT ![r].pc = "idle", ![r].ts = 0,
                            ![r].box = Append(@, runs[r].ts)]
    /\ reg' = [reg EXCEPT ![runs[r].name] =
                 IF Current(r) THEN SetSending(@, runs[r].ts) ELSE @]
    /\ UNCHANGED <<row, alerts>> /\ Polls(r)

\* Run returns.
Returns(r) ==
    /\ runs[r].pc = "idle" /\ Cancelled(r)
    /\ To(r, "returned")
    /\ UNCHANGED <<reg, row, alerts>> /\ Polls(r)

\* The run takes itself out, when it is still the watch's, and closes done.
RemovesItself(r) ==
    LET w == runs[r].name IN
    /\ runs[r].pc = "returned"
    /\ runs' = [runs EXCEPT ![r].pc = "over", ![r].down = FALSE]
    /\ IF running[w] = r
       THEN /\ running' = [running EXCEPT ![w] = None]
            /\ ended' = ended \cup {r}
       ELSE UNCHANGED <<running, ended>>
    /\ UNCHANGED <<webVars, booting, started, reg, row, stopVars, alerts>>

-----------------------------------------------------------------------------
(* A run: its sender goroutine.                                            *)

\* The first tries of the oldest queued alert are through.  It replaces one
\* still being tried.
Sends(r, state) ==
    /\ runs[r].box # <<>>
    /\ state \in {"settled", "retrying"}
    /\ state = "retrying" => ~Cancelled(r)
    /\ runs' = [runs EXCEPT ![r].box = Tail(@),
                            ![r].owed = IF state = "retrying" THEN Head(runs[r].box) ELSE 0]
    /\ Report(r, Outcome(r, Head(runs[r].box), state))
    /\ UNCHANGED <<row, alerts>> /\ Polls(r)

\* An alert still being tried is taken, or given up on.
Settles(r, state) ==
    /\ runs[r].owed # 0 /\ state \in {"settled", "dropped"}
    /\ runs' = [runs EXCEPT ![r].owed = 0]
    /\ Report(r, Outcome(r, runs[r].owed, state))
    /\ UNCHANGED <<row, alerts>> /\ Polls(r)

Sent(r) == runs[r].box = <<>> /\ runs[r].owed = 0

Run(r) ==
    \/ Fails(r) \/ \E fires \in BOOLEAN : Reads(r, fires)
    \/ Shows(r) \/ Raises(r) \/ Returns(r) \/ RemovesItself(r)
    \/ \E state \in {"settled", "retrying", "dropped"} : Sends(r, state) \/ Settles(r, state)

-----------------------------------------------------------------------------
(* The handlers.                                                           *)

Go(h, pc) == req' = [req EXCEPT ![h].pc = pc]
Done(h) == req' = [req EXCEPT ![h] = NoRequest] /\ lock' = None
Keeps == UNCHANGED <<ended, booting, stopVars, alerts, requests>>

\* A request is read and checked before the lock is taken.
Asks(h, op, w, s) ==
    /\ phase = "up" /\ ~ctxOver
    /\ req[h] = NoRequest /\ requests < bound.requests
    /\ (op = "create") = (cfg[w] = Nothing)
    /\ requests' = requests + 1
    /\ req' = [req EXCEPT ![h] = [NoRequest EXCEPT !.pc = "asked", !.op = op, !.name = w,
                                    !.base = IF op = "save" THEN cfg[w] ELSE Nothing,
                                    !.updated = s]]
    /\ UNCHANGED <<cfg, told, lock, stale, supVars, reg, row, stopVars, alerts>>

Saves(h)   == \E w \in Names, s \in Settings : Asks(h, "save", w, s)
Creates(h) == \E w \in Names : Asks(h, "create", w, Fresh)
Removes(h) == \E w \in Names : Asks(h, "remove", w, Nothing)
MovesBox(h) == \E w \in Names : Asks(h, "move", w, Nothing)

\* mutateConfig, under applyMu.  A box is moved from where it is by then.
Moved(s) == CHOOSE t \in Settings : t.reads # s.reads /\ t.notify = s.notify /\ t.starts = s.starts
CanMove(s) == \E t \in Settings : t.reads # s.reads /\ t.notify = s.notify /\ t.starts = s.starts

Applicable(h) ==
    LET q == req[h] IN
    CASE q.op = "save"   -> cfg[q.name] # Nothing
      [] q.op = "create" -> cfg[q.name] = Nothing
      [] q.op = "move"   -> cfg[q.name] # Nothing /\ CanMove(cfg[q.name])
      [] q.op = "remove" -> TRUE

Free_NoLock(h) == req[h].pc = "asked"
Free(h) == req[h].pc = "asked" /\ lock = None

Persists(h) ==
    LET q == req[h] IN
    /\ Free(h) /\ Applicable(h)
    /\ lock' = h
    /\ cfg' = [cfg EXCEPT ![q.name] = IF q.op = "move" THEN Moved(@) ELSE q.updated]
    /\ stale' = (stale \/ (q.op = "save" /\ q.base # cfg[q.name]))
    /\ req' = [req EXCEPT ![h].pc = IF q.op = "create" THEN "start" ELSE "stop",
                          ![h].updated = Nothing]
    /\ UNCHANGED <<told, running, runs, started, reg, row>> /\ Keeps

\* The change is refused, or config.yaml cannot be written: nothing happens.
Refused(h) ==
    /\ Free(h)
    /\ Done(h)
    /\ UNCHANGED <<cfg, told, stale, running, runs, started, reg, row>> /\ Keeps

Stops(h) ==
    LET w == req[h].name IN
    /\ req[h].pc = "stop"
    /\ StopTakes(w)
    /\ req' = [req EXCEPT ![h].pc = "wait", ![h].old = running[w]]
    /\ UNCHANGED <<cfg, told, lock, stale, started, row>> /\ Keeps

\* Stop returns once the run is over.
Waits_Not(h) ==
    /\ req[h].pc = "wait"
    /\ req' = [req EXCEPT ![h].pc = "drop", ![h].old = None]
    /\ UNCHANGED <<cfg, told, lock, stale, running, runs, started, reg, row>> /\ Keeps
Waits(h) ==
    /\ req[h].pc = "wait"
    /\ req[h].old # None => Over(req[h].old)
    /\ req' = [req EXCEPT ![h].pc = "drop", ![h].old = None]
    /\ UNCHANGED <<cfg, told, lock, stale, running, runs, started, reg, row>> /\ Keeps

readsDifferently(a, b) == a.reads # b.reads

\* What the registry has to forget: all of a deleted watch, the crops of one
\* that now reads something else.
Forgets(h) ==
    LET q == req[h] IN
    CASE q.op = "remove" -> Blank
      [] q.op = "move" \/ (q.op = "save" /\ readsDifferently(q.base, cfg[q.name])) ->
             DropSamples(reg[q.name])
      [] OTHER -> reg[q.name]

Drops(h) ==
    /\ req[h].pc = "drop"
    /\ reg' = [reg EXCEPT ![req[h].name] = Forgets(h)]
    /\ Go(h, IF req[h].op = "remove" THEN "tell" ELSE "start")
    /\ UNCHANGED <<cfg, told, lock, stale, running, runs, started, row>> /\ Keeps

Starts(h) ==
    /\ req[h].pc = "start"
    /\ StartLaunches(req[h].name)
    /\ Go(h, IF req[h].op = "save" THEN "clear" ELSE "tell")
    /\ UNCHANGED <<cfg, told, lock, stale>> /\ Keeps

\* A create goes on when its watch does not start; a save and a move end there.
StartFailed(h) ==
    LET q == req[h] IN
    /\ q.pc = "start"
    /\ StartFails(q.name)
    /\ CASE q.op = "save"   -> Go(h, "fail") /\ UNCHANGED lock
         [] q.op = "create" -> Go(h, "tell") /\ UNCHANGED lock
         [] q.op = "move"   -> Done(h)
    /\ UNCHANGED <<cfg, told, stale>> /\ Keeps

\* The delivery record of a save that changes the notify list goes, whether
\* or not the watch has started.
ClearsDelivery(h) ==
    LET q == req[h] IN
    IF q.base.notify = cfg[q.name].notify THEN reg
    ELSE [reg EXCEPT ![q.name] = ClearDelivery(@)]

Clears(h) ==
    /\ req[h].pc \in {"clear", "fail"}
    /\ reg' = ClearsDelivery(h)
    /\ IF req[h].pc = "clear" THEN Go(h, "tell") /\ UNCHANGED lock ELSE Done(h)
    /\ UNCHANGED <<cfg, told, stale, running, runs, started, row>> /\ Keeps

\* OnConfigChanged: saved state of deleted watches goes, Home Assistant is told.
Tells(h) ==
    /\ req[h].pc = "tell"
    /\ told' = cfg
    /\ row' = ForgetExcept(row, cfg)
    /\ Done(h)
    /\ UNCHANGED <<cfg, stale, running, runs, started, reg>> /\ Keeps

Handle(h) ==
    \/ Saves(h) \/ Creates(h) \/ Removes(h) \/ MovesBox(h)
    \/ Persists(h) \/ Refused(h) \/ Stops(h) \/ Waits(h) \/ Drops(h)
    \/ Starts(h) \/ StartFailed(h) \/ Clears(h) \/ Tells(h)

-----------------------------------------------------------------------------
(* The process.                                                            *)

Init ==
    /\ bound \in Bounds
    /\ cfg \in [Names -> {Fresh, Nothing}]
    /\ told = cfg /\ lock = None
    /\ req = [h \in Handlers |-> NoRequest]
    /\ booting = {w \in Names : cfg[w] # Nothing}
    /\ running = [w \in Names |-> None]
    /\ runs = [r \in RunIds |-> NoRun] /\ ended = {}
    /\ reg = [w \in Names |-> Blank]
    /\ row = [w \in Names |-> NoRow]
    /\ phase = "boot" /\ ctxOver = FALSE /\ joined = {}
    /\ stale = FALSE /\ graceOver = FALSE /\ cut = 0
    /\ requests = 0 /\ started = 0 /\ alerts = 0 /\ boots = 0

\* bootWatches starts the watches; then the pages are served.
BootStarts(w) ==
    /\ phase = "boot" /\ w \in booting
    /\ booting' = booting \ {w}
    /\ StartLaunches(w) \/ StartFails(w)
    /\ UNCHANGED <<webVars, ended, stopVars, alerts>>

Serves ==
    /\ phase = "boot" /\ booting = {} /\ phase' = "up"
    /\ UNCHANGED <<webVars, supVars, reg, row, ctxOver, joined, graceOver, cut, boots, alerts>>

\* A signal.
Signal ==
    /\ phase = "up" /\ ~ctxOver /\ ctxOver' = TRUE
    /\ UNCHANGED <<webVars, supVars, reg, row, phase, joined, graceOver, cut, boots, alerts>>

\* StopAll, after a signal or when the server fails: it takes every run there
\* is, waits for their polls, then for their senders, for a while.
StopAllTakes_Running ==
    /\ phase = "up" /\ phase' = "joining"
    /\ joined' = {running[w] : w \in Names} \ {None}
    /\ ended' = ended
    /\ running' = [w \in Names |-> None]
    /\ reg' = [w \in Names |-> IF running[w] = None THEN reg[w] ELSE ClearSending(reg[w])]
    /\ cut' = started
    /\ UNCHANGED <<webVars, runs, booting, started, row, ctxOver, graceOver, boots, alerts>>
StopAllTakes ==
    /\ phase = "up" /\ phase' = "joining"
    /\ joined' = ended \cup ({running[w] : w \in Names} \ {None})
    /\ ended' = {}
    /\ running' = [w \in Names |-> None]
    /\ reg' = [w \in Names |-> IF running[w] = None THEN reg[w] ELSE ClearSending(reg[w])]
    /\ cut' = started
    /\ UNCHANGED <<webVars, runs, booting, started, row, ctxOver, graceOver, boots, alerts>>

StopAllJoins ==
    /\ phase = "joining" /\ \A r \in joined : Over(r)
    /\ phase' = "sends"
    /\ UNCHANGED <<webVars, supVars, reg, row, ctxOver, joined, graceOver, cut, boots, alerts>>

StopAllReturns ==
    /\ phase = "sends" /\ phase' = "down"
    /\ graceOver' = (\E r \in joined : ~Sent(r))
    /\ UNCHANGED <<webVars, supVars, reg, row, ctxOver, joined, cut, boots, alerts>>

\* The process ends, at any time, and is started again: what is in memory
\* is gone, and the rows of watches not in config.yaml go.
Reboot ==
    /\ boots < bound.boots /\ boots' = boots + 1 /\ started < bound.runs
    /\ lock' = None /\ req' = [h \in Handlers |-> NoRequest]
    /\ running' = [w \in Names |-> None]
    /\ runs' = [r \in RunIds |-> NoRun] /\ ended' = {}
    /\ reg' = [w \in Names |-> Blank]
    /\ row' = ForgetExcept(row, cfg) /\ told' = cfg
    /\ booting' = {w \in Names : cfg[w] # Nothing}
    /\ phase' = "boot" /\ ctxOver' = FALSE /\ joined' = {}
    /\ stale' = FALSE /\ graceOver' = FALSE /\ cut' = 0
    /\ UNCHANGED <<cfg, requests, started, alerts>>

Process ==
    \/ \E w \in Names : BootStarts(w)
    \/ Serves \/ Signal \/ StopAllTakes \/ StopAllJoins \/ StopAllReturns \/ Reboot

\* Once StopAll has returned, main returns.
Next ==
    /\ UNCHANGED bound
    /\ \/ Process
       \/ phase # "down" /\ \E h \in Handlers : Handle(h)
       \/ phase # "down" /\ \E r \in RunIds : Run(r)

Spec == Init /\ [][Next]_vars

-----------------------------------------------------------------------------
(* What must hold.                                                         *)

TypeOK ==
    /\ \A w \in Names : {cfg[w], told[w]} \subseteq Settings \cup {Nothing}
    /\ lock \in Handlers \cup {None}
    /\ \A h \in Handlers :
          /\ req[h].pc \in {"idle", "asked", "stop", "wait", "drop", "start",
                            "clear", "fail", "tell"}
          /\ lock = h <=> req[h].pc \notin {"idle", "asked"}
          /\ req[h].old \in 0..started
    /\ \A w \in Names : running[w] \in 0..started
    /\ \A r \in RunIds :
          /\ runs[r].pc \in {"none", "idle", "read", "shown", "returned", "over"}
          /\ r > started => runs[r].pc = "none"
          /\ runs[r].box \in Seq(1..alerts) /\ runs[r].owed \in 0..alerts
    /\ \A w \in Names : Len(reg[w].samples) <= SamplesKept
    /\ joined \cup ended \subseteq 1..started
    /\ phase \in {"boot", "up", "joining", "sends", "down"}

\* Between two changes, every watch that runs runs with the setting in
\* config.yaml, every watch that can run does, and Home Assistant was told of
\* every watch as it runs and of none that is gone: two requests never persist
\* in one order and apply in the other (web.go, applyMu).
RunsWhatIsSaved ==
    phase = "up" /\ lock = None => \A w \in Names :
        /\ running[w] # None => cfg[w] = runs[running[w]].set /\ told[w] = cfg[w]
        /\ cfg[w].starts /\ ~ctxOver => running[w] # None
        /\ cfg[w] = Nothing => told[w] = Nothing

SendingIsTrue(w) ==
    reg[w].sending # 0 =>
        running[w] # None /\ Contains(runs[running[w]].box, reg[w].sending)
RetryingIsTrue(w) ==
    reg[w].delivery.state = "retrying" =>
        running[w] # None /\ runs[running[w]].owed = reg[w].delivery.ts
DownIsTrue(w) ==
    running[w] # None =>
        reg[w].down = runs[running[w]].down /\ row[w].down = runs[running[w]].down
AboutThisWatch(w) ==
    /\ \A i \in 1..Len(reg[w].samples) : reg[w].samples[i] = cfg[w].reads
    /\ reg[w].delivery.ts # 0 => reg[w].delivery.list = cfg[w].notify

\* What the page says of a watch is so of the run it has now.  An alert said to
\* be sending is with its sender and one said to be retried is being retried: a
\* report of a stopped run leaves neither behind (supervisor.go, OnDelivery and
\* Stop).  And run, page and database agree on whether the stream is down,
\* through every restart of the watch or the process: a dead camera never turns
\* healthy because something was saved (supervisor.go, Start).
\* Between two changes, the crops kept of a watch are all of what it reads now,
\* and the delivery record is about the notify list it has now (web.go, save),
\* as long as no save was compared with a setting that had changed since it was
\* read.
PageTruthful ==
    phase = "up" => \A w \in Names :
        /\ ~ctxOver => SendingIsTrue(w) /\ RetryingIsTrue(w)
        /\ DownIsTrue(w)
        /\ lock = None /\ ~stale /\ cfg[w] # Nothing => AboutThisWatch(w)

\* Nothing of a deleted watch is left, in the registry or in the database, when
\* its deletion is done or a watch of the same name is about to start, even
\* when the process ended halfway (web.go, remove; main.go, configChanged and
\* bootWatches).  The readings it recorded stay (KeepTriggerState).
NothingLeft ==
    phase = "up" => \A w \in Names :
        \/ cfg[w] = Nothing /\ lock = None
        \/ \E h \in Handlers : req[h].op = "create" /\ req[h].name = w /\ req[h].pc = "start"
        => reg[w] = Blank /\ row[w] = NoRow

Inv == TypeOK /\ NothingLeft

\* No run is ever out of reach while its poll goroutine lives: the watch has it,
\* or a Stop or StopAll waits for it.  And when StopAll returns in time, every
\* run there was when it was called has sent what it had, those that ended
\* before it with the signal included; a stopped run's sender is not waited for
\* (supervisor.go, Start's goroutine, ended and StopAll).
InReach(r) ==
    \/ Over(r) \/ r \in joined
    \/ \E w \in Names : running[w] = r
    \/ \E h \in Handlers : req[h].pc = "wait" /\ req[h].old = r
AllSent ==
    \A r \in 1..cut : ~runs[r].cancelled => Over(r) /\ Sent(r)
NoRunForgotten ==
    /\ \A r \in RunIds : InReach(r)
    /\ phase = "down" /\ ~graceOver => AllSent
=============================================================================
