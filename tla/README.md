# A TLA+ model of watchglass

watchglass polls cameras, reads a region of each picture and sends an alert
when what it reads meets a condition. This directory holds TLA+ modules that
model its control, TLC configurations that check them on small instances, and
theorems checked by TLAPS. Every definition is translated from the Go source;
`PROJECT.json` names the lines.

## The system

| component | state it keeps | operations | talks to |
|---|---|---|---|
| Trigger evaluator (`internal/trigger/trigger.go`) | settled state, count of confirming readings, last fire, last read, held pixel reading | `ObserveRead`, `ObservePixel`, `Idle`, `State`/`Restore` | called by the runner on its poll goroutine |
| Counter gate and meter (`trigger/counter.go`, `runner/meter.go`, `history/meter.go`, `web/meter.go`) | last value published, jump being confirmed, accepted lower value waiting, saved row | `observe`, `check`, `holds`, `AcceptLower`, `takeAccept`, `noteValue`, `restoreCounter` | poll goroutine and web handlers, under the meter's mutex; history store |
| Runner (`runner/runner.go`, `persist.go`, `crash.go`) | evaluator, health tracker, drift tracker, outbox, run of crashes, interval, what the saved row says | `Tick`, `raise`, `restoreState`, `saveState`, `noteCondition` | source, evaluator, sender, history, supervisor hooks |
| Sender (`runner/retry.go`) | three slots (fire, stream, move) with the URLs that owe, took, failed or were let off | `take`, `attempt`, `retry`, `prune`, `stop`, `report` | outbox (channel), noted condition (mutex), wake signal, notify services, history |
| Stream health (`health/health.go`) | failures in a row, down | `Failure`, `Success`, `SeedDown` | runner |
| Reading gate (`runner/gate.go`) | last gate reading, open or closed | `gateClosed`, `noteGate` | runner; a closed gate makes the poll an `Idle` |
| Position check (`drift/tracker.go`, board) | reference picture, rest position, window of checks, state | `Observe`, `take`, `judge`, `Retake`, `Tracker` (restore) | poll goroutine; web handlers through the board |
| Login gate (`source/logingate.go`) | per refused login: count, wait, who is asking, last forced try | `admit`, `refused`, `accepted`, `done` | every grab: polls, snapshots, Test |
| Sources (`source/source.go`, `ffmpeg.go`, `digest.go`), frame slots (`web/frameslot.go`) | Digest challenge and nonce count, one slot per local device, slots for the pages' frames | `Grab`, `digestRetry`, `grabSlot` | cameras, ffmpeg |
| Supervisor (`supervisor/supervisor.go`) | running runs by name, runs that ended on their own | `Start`, `Stop`, `StopAll`, `ForgetExcept` | runner, registry, history, publisher hooks |
| State registry (`state/state.go`) | samples, health, crash, delivery and "sending" per watch | setters and getters | supervisor hooks, web pages |
| Web handlers (`web/web.go`) | current config, two locks | create, save, delete, Test, accept lower, move box | config file, supervisor, registry, publisher |
| Config (`config/config.go`, `merge.go`) | the file | `Load`, `Validate`, `Save` (merge that keeps comments) | web handlers, main |
| Home Assistant publisher (`hass/`) | wanted and sent states, slugs, clears pending, owner records, five channels | `Sync`, `resync`, `OnEvent`, `OnHealth`, `sweepStrays`, `haChanged`, `Close` | MQTT broker, Home Assistant, supervisor hooks |
| History store (`history/`) | SQLite tables | save and load per watch | runner, drift, web |
| Notify services (`notify/`) | none | `SendLine`, `Transient` | services outside |
| Main (`cmd/watchglass`) | none | boot, shutdown order | all |

### What is hard

*Concurrency.* Each watch has a poll goroutine and, while it has notify URLs,
a sender goroutine per run; a stopped run's sender may still be sending while
the next run polls. Web handlers reach into running watches (meter, board,
registry). The publisher has one worker fed by every watch, by paho's
callbacks and by config changes. The login gate is shared by every grab.

*Failure.* Services and cameras fail for a while or for good, the process may
stop or die at any step, the config file may not be writable, a start may fail
after the stop before it.

*Ordering and staleness.* The condition an alert is judged by is noted once a
poll; slugs are looked up when an event happens and used later; a page posts
about what it showed a while ago.

*Time.* Cooldown, idle limits, retry delays, waits after a refused login,
grace periods at shutdown.

### What makes it correct

* Evaluator: an alert is confirmed by consecutive readings, told once per
  occurrence, spaced by the cooldown, and never lost to the cooldown.
* Alerts: every URL hears of a condition that stands, or the system still
  knows it must try; the saved row tells the truth whatever crashes between
  steps; no URL is left with an alert whose reason is gone; senders end.
* Login gate: one asker after a wait, forced tries spaced, no login shut out
  for good.
* Counter: the published value never goes down unless a person said so, also
  across restarts and a page posting late.
* Sources: a slot taken is given back, a grab ends in its own time, a right
  password is taken and a wrong one costs one failed login.
* Config file: the file reads as what runs, and a save touches nothing but the
  change.
* Supervisor, registry, web: at most one poll loop per name; the page never
  says "sending" or "retrying" of a run that cannot; config file and running
  watches agree after every handler, or the page says otherwise.
* Publisher: once the broker is up and nothing changes, retained topics equal
  what the current watches queued last, nothing is left under a slug no watch
  has, and a watch's readings are taken up only while it is listed.
* Position check: a move is news once, also across restarts; who asks for a
  new reference gets one unless the process ends or the watch is deleted.

`PROJECT.json` lists under "hazards" the lines where these bite.

## Modules

| module | lines of the system it models | checked by |
|---|---|---|
| `Trigger` | the evaluator of one watch | run `trigger` |
| `Meter` | counter gate, the page that accepts a lower value, counter row | run `meter` |
| `Alerts` | one watch's alerts: poll goroutine, senders of overlapping runs, supervisor, saved row | runs `alerts_restart`, `alerts_live`, `alerts_stale_prune` |
| `Polls` | the poll loop: failing, crashing, gated polls, verdicts, backing off | run `polls` |
| `Watches` | web handlers, supervisor, runs, registry, boot and shutdown | run `watches` |
| `Publisher` | the Home Assistant publisher with its broker | run `publisher` |
| `Mirror` | abstract: what Home Assistant is promised of a reading | implemented by `Publisher` (property `Mirrors`) |
| `Drift` | position check: tracker, board, saved row | run `drift` |
| `ConfigFile` | the merge of a save into `config.yaml` | run `config_file` |
| `LoginGate` | the memory of refused logins and the grabs under way | run `login_gate` |
| `Grabs` | frame slots, device slot, Digest memory | run `grabs` |
| `TriggerProofs`, `LoginGateProofs`, `PollsProofs`, `PublisherProofs`, `WatchesProofs`, `AlertsProofs`, `GrabsProofs`, `MeterProofs` | theorems | TLAPS |

An `MC` module gives each its instances. The modules meet where the code does,
each taking the other's part as a free choice: what `Trigger` decides about a
reading is an outcome in `Alerts` and a `fired` in `Polls`; the verdicts of
`Polls` are what `Alerts` raises its stream alerts from and what `Watches` and
`Publisher` are told; a grab of `Grabs` is between `Admit` and `Answered` of
`LoginGate`. `Watches` composes handlers, supervisor, runs, registry, database
and what Home Assistant was told; `Publisher` composes worker, client, broker,
Home Assistant and a second watchglass.

History variables, in each module declared apart, record what really happened
(what a display said, when a camera refused); no action's guard reads them.

### Trigger

One behaviour is one watch polled for ever. Variables are the fields of
`Evaluator`; `ObserveRead`, `ObservePixel`, `Idle` and `Restart` (`New`,
`SetCounter`, `Restore`) are its methods, `Tick` is the clock. A reading is a
value of the set `Text`; what the code asks of its characters (is there a
`?`, a letter, a number past the threshold, does the pattern match, do two
texts fit one display) is given by constants, so the properties hold for any
answers. Instants are ages that stop counting where the code no longer tells
them apart (`Cooldown`, `StaleAfter + 1`), so time needs no bound. Counts stop
at `CountCap`, twice Confirm, the largest number a comparison uses.

Bounds: Confirm 2, Cooldown 3, StaleAfter 2 and a display that reads "25",
"18", partly "?5", a word or nothing, for each trigger type with and without
the seven-segment decoder. Two readings to confirm and four to leave are the
smallest numbers at which entering and leaving differ; a cooldown longer than
the idle limit and longer than Confirm lets each run out first.

Fairness: the runner polls for ever and the clock advances (`WF` of
`ObserveRead` and `Tick`); restarts are never assumed.

### Meter

A poll is cut at the meter's mutex and at each write to the store: `TakeAccept`,
`TakeSaved`, `TakeShown`, `Reads`, `SavesLast`, `Publishes`. The page's handler
is `PostAccept` (what it showed), `SavesAccept`, `AcceptLower`, on the run it
found, which may be over (`post.alive`; then it answers from what the run left:
its status, and whether it was a counter). `Stop`, `Crash` and `Start` are the
run's life; the row survives.

Which accept a drop is owed to is history: `licence` keeps the accepts that no
drop has used up, each with its number, so that two of the same value are two; a
published drop uses up the highest that allows it (`Backing`, `Highest`), which
leaves the lower ones, good for more drops, to the others.

Bounds (`MCMeter`): a meter that confirms two readings and limits rises to 1 over
the numbers 0 to 4, where the window is three; one that confirms one reading, with
an accept and a restart; and one without a limit, with two accepts and two
restarts over 0 to 2. Two paces of the code's four are kept: enough for the pace
to be the larger of two steps.

### Alerts

The poll goroutine is cut where another goroutine can come between: a poll
that raises an alert (`GoesDown`, `Recovers`, `Moves`, `RaisesFire`), settles
(`Settles`, `PixelFires`, `Forgets`, each with the save that follows) and
notes the condition (`noteCondition`). The sender of run `r` is `Take`,
`Answer` (one line's reply), `Sort` (what `attempt` makes of the replies and
`report` records), `Wakes` (prune), `Due` and `Retry`, `StopsTrying` and
`Ends`. The supervisor is `Stop` and `Start`; `Crash` ends every goroutine at
any step and leaves only the row. `Start` chooses freely whether the row is of
this configuration (`same`) and fresh enough (`recent`); it notes a condition,
so the new sender begins with a wake signal pending.

Whether an alert may be let go is judged by what the evaluator itself has at
that moment (`FireStands`), never by the noted condition `prune` looks at. The
history variable `early` keeps the URLs let off although the condition stood,
and only those let off in the poll that raised the fire, before it noted what it
read (`Unnoted`): that is the one case `NothingLost` and `BlipKeepsFire` except,
because the code has it (see Findings; `MCAlertsLetOff.cfg`).

Bounds: two URLs, two fires and two runs are what it takes for one URL to take
an alert the other refuses, for two senders to overlap, and for a newer fire to
replace an older one while the row is about the older; a third of any adds no
new order of these events. The outbox of the code holds 16; one place makes
"full" happen. `alerts_live` has one URL, one fire, one down, one move and one
blip.

Fairness (`FairSpec`): a tick that began ends, as each of its steps has a
timeout; a service answers by its timeout (`WF` of `Answer`, `Sort`); a
`select` picks at random among ready cases, so one that is ready again and
again is taken (`SF` of `Take`, `Wakes`, `Due`, `StopsTrying`, `Ends`); the
clock brings a retry due (`SF` of `Retry` with a line due). Nothing is assumed
of polls, stops or starts.

### Polls

A poll is one step at the time `now` and ends with the wait for the next:
`PollFails` (no frame, or one that could not be read, by an error or a panic),
`PollSkips` (gate closed), `PollReads`; it may be cut short by a panic in the
store or in a callback (`cut`), or escape `Tick` (`late`). `Stop`, `Start`,
`Dies` (between polls) and `DiesReporting` (in the middle of a transition) are
the supervisor and the process.

`BacksOffOnSame` says after which polls the wait may grow: one that read what the
one before read, or a blank after a poll that read nothing. The latter is the
code's, and for a gated watch not what is written of it (`GateStaysOpen`,
`MCPollsGated.cfg`).

Bounds: health_after 2, interval 1, max_interval 3, a gate "long" closed after
2, the clock up to 6, three starts; a gated, a plain and a `pixel_change`
watch; two readings and the blank. Two failed polls tell the first from the
one that goes down; max_interval 3 makes a wait that doubles meet its cap.

### Watches

A handler is a program counter per request: begins, the lock, the comparison
with what it read before, the write that may fail, stop, start that may fail,
forgetting, telling Home Assistant. The supervisor's `Start`, `Stop` and
`StopAll` are cut at its mutex. A run has a poll goroutine and a sender, whose
reports arrive as late as they like. `Boot` clears what a process that ended
halfway left.

Bounds (`MCBounds`): two requests at once over three runs with one alert; the
same with a reboot; two alerts with one request and a reboot. One name: names
share only the locks and the list, and two requests of one name meet at both.
Settings: two cameras, two notify lists, one setting that cannot start here.

### Publisher and Mirror

The worker is `PickSync`, `PickConn`, `PickStray`, `PickHA`, `PickJob`,
`PickQuit` and the steps they lead to (`Begins`, `Announce`, `Flush`, `Swap`,
`Resend`, `Follow`, `Sweep`, `SweepClears`, `publishOwners`, the drain); a step
is cut where another goroutine's effect on it can differ, and the connection
can be lost after any of its publishes. `Callers` are the runs' hooks and the
save; `Network` is the broker, Home Assistant, another watchglass and a twin
that takes over the client_id.

Bounds: twelve scenarios (`MCScenarios`), each with the events it is about:
`Crossing` (readings, lists and the end), `Renamed` (a slug changes hands or is
fought over), `Reclaimed` (a slug given up and claimed by another watch before
or after its clear went out), `Retyped`, `Health`, `Away` (a device removed
while Home Assistant is away), `LeftOver` and `OldName` (an earlier run's configs, under no record or
an old one), `FirstEmpty` (the old record, and a first list without its watches),
`Other` (another watchglass), `Twin` and `TwinLost` (a second process with this
client_id, beside a save and beside another lost connection). All events in one scenario
are beyond TLC; each pair that shares state in the code shares a scenario. The
queue of the code holds many jobs; two places make it full. A list has no two
watches of one name (config.go:465 refuses them); two names may share a slug.

`haChanged` sends a clear again as the code does, the config, not retained, and
then the retained empty one, so the broker ends with no config of it. The history variable
`spared` holds what a sweep passed over because a record lists it: that is all
`Converged` lets stay of an earlier run once the sweep could be done.

`Converged` speaks in both directions: what is retained under the slug of a listed
watch is the last state queued for it, and what is retained there is its own
(`OnlyItsOwn`). Two history variables name what the code lets stay instead:
`passed`, the slugs claimed by another watch than the one before, or before the
clear of that one went out, and `late`, the slugs where a number was published
after the value entity was cleared. A state a full queue turned away is not
queued (`Accepted`). For each of the three a configuration shows that the
statement without the exception fails (see Disagreements).

A sweep may lose the connection at each publish; a record that could not be
deleted is kept and looked at again (`retireOwner`). `TwinComes` leaves configs
and record in one step, though the code's record goes out seconds after its
configs (discovery.go:923): what `OthersLeftAlone` says is of devices whose record
is on the broker.

Refinement: `Mirror` says of each watch's reading that it is taken up only while
the watch itself is in the list the publisher works from, each newer than the
last, that what is shown is the one last taken up and only moves forward, and
that of a watch that has left the list nothing more is taken up: what is shown
of it stays, goes, or becomes the last one taken up (a slug that passed on is
published again with it, see Disagreements). `Watched == INSTANCE Mirror` maps
`p.slugs`, the watches of the worker's list by name, to the members, the wanted
reading to what is taken up and the retained reading to what is shown; property
`Mirrors` is its `Spec`. A slug another watch took over does not keep its former
owner a member.

### Drift

`Frame` and `Check` are a poll's part (learn, take the reference, judge), cut at
the take of the reference and at the news; `KeepReads`/`KeepAsks` and
`MoveReads`/`MoveRestarts` are the page's two actions, each cut between what it
read and what it did; `SaveBox`, `Delete`, `Create` are the web's saves.

Bounds: places 0, 2 and 8 with thresholds 3 and 6 (near, unclear, far), two
frame sizes, a window of two, and four scenarios (`Bumps`, `Asks`, `Saves`,
`Turns`). The lengths of the code (15 and more checks) are 2 to 4 here, each
above the next smaller, so that every order of running out occurs.

### ConfigFile

The file is its watches in order, each key spelled out, left out, aliased or
inherited through a merge key. `merge` is the code's merge, then `settleInherited`
and `fix` for what lost its anchor; `mergeFile` is `parseFile`, merge and
`loadsBack`. `SaveReads` computes the new text, `SaveWrites` puts it in place,
with a stop or an edit by hand possible in between. The write beside the file and
the rename are that one step: nothing reads the file beside.

A save drops a zero that is spelled out where leaving the key out means the same
(`NeedlessZero`: `mergeMapping` of an omitempty key). `SaveKeepsTheRest` says so, and
that such a zero is all that a save that changes nothing may take out; that it
takes nothing out is `NothingNewNothingWritten`, which fails.

Bounds (`MCConfigFile`): every file of two watches and a template that a person could
have written with a merge key and an alias, over three known keys that differ in
what a zero means and one the program does not know; a third name to rename or
copy to; two saves and one edit by hand (a copied watch, a half-written one, a
moved template, a file that is broken or gone). Two watches are what it takes
for one to inherit from the other and be moved, changed or deleted beside it.

### LoginGate

The state is the gate's map (`byID`, a refusal per login and per login and
path) and a ticket for each grab under way. `Admit` is a poll or snapshot at
the gate, `AdmitForced` a Test; both are one step, as the code holds the
gate's mutex. The camera is asked with the gate unlocked, so any other step
may come before the answer: `refused` with 401 (kept under the login) or 403
(under the path), `accepted`, or `done` when it said nothing of the login.
An answer of a grab whose entry was deleted meanwhile works on the pointer
its ticket kept; the model takes such a claim away when the entry goes.
Instants are ages and ticks left; `Tick` is the clock.

Bounds: two channels, one login, two grabs, two waits (1 and 2 ticks), Tests one
tick apart, refusals forgotten after 2. Two grabs let one be under way while the
other claims, is refused or accepted; two channels and the login give the three
entries that one pass touches in part; two waits tell a wait from the next.
Liveness is checked of the entries in `Followed`: the login and one of its two
channels, which are interchangeable.

Fairness: a grab ends by its timeout (`WF` of `Answered`), the clock runs (`WF`
of `Tick`), and every channel is polled again and again (`SF` of `Admit`: the
model has only so many grabs, and a poll that finds them all under way comes
again at the next interval).

### Grabs

A caller goes from the page's frame slot (`TakesSlot`, `Busy`) to the device's
(`TakesDevice`, `DeviceTooLate`) and ffmpeg (`FFmpegExits`, `GrabFails`), or to
the camera (`Begins`, `CameraAnswers`, `digestRetry`, `Refused`, `Accepted`); a
Test of `pixel_change` grabs again. `CalledOff` is the page going away or the
watch stopping. The camera (`Offers`, `Taken`, `Retires`, `GoesBasic`) is
outside the repository: it offers one nonce to all, one per session or one per
answer, may count the answers to a nonce, and may lose what it offered.

Bounds: one frame slot, one tick to wait for it, two for a page's grab, four for
ffmpeg's, three nonces, three answers; a webcam that a poll, a snapshot and a
two-frame Test want, and cameras asked by three callers with right and wrong
passwords. An HTTP grab queues for nothing, so those scenes have no clock.

## Runs

| run | shows |
|---|---|
| `trigger` | every alert is confirmed by readings in a row, spaced by the cooldown, told once per occurrence and, if held back, told in the end |
| `meter` | Home Assistant sees a drop only because a person accepted one; a rise is held as long as it may be a misread and no longer; the store says what the run would |
| `alerts_restart` | what the row says is so at every crash; no URL is forgotten or let off while the condition stands, the raising poll apart; none is asked again about what it took |
| `alerts_live` | slots do not disturb each other; an alert whose reason is gone is let go, one that is owed is tried, a sender ends |
| `polls` | what the page says of a running watch is so; a dead stream is down in health_after polls; down and recovered alternate; only a quiet watch backs off |
| `watches` | what runs is what is saved; the page is truthful; nothing of a deleted watch is left; no run escapes the stop |
| `publisher` | retained topics converge to what was queued last, and to nothing else; no ghost device; another watchglass's devices are left alone; `Mirror` is implemented |
| `drift` | the position line follows the picture; a new reference asked for is taken; a move is told once |
| `config_file` | the file is what runs, at any moment of a save; a save changes only what was changed and needless zeros |
| `login_gate` | one asker after a wait, waits kept, Tests spaced, no login left unasked for ever |
| `grabs` | slots come back, grabs end in time, a right password is taken, a wrong one costs one failed login |
| `alerts_stale_prune` | see Findings |

Deadlock is not checked in runs whose bounds end behaviours, or where a watch
may be stopped for good. Properties that hold in every instance are conjoined
as `Inv` where one run checks them together; each part has a name and a
comment of its own.

## Proofs

`TriggerProofs` proves, for all values of the constants that satisfy the
assumptions named in `Trigger` (in particular any Confirm above zero and any
Cooldown, StaleAfter), `TypeCorrect`, `NoRepeatedAlertHolds`,
`FireIsConfirmedHolds`, `CooldownSpacingHolds`, `HeldAlertFiresHolds` and
`PixelSideIsShown`. The last rests on an invariant of its own, `PixelSides`: the
side `settlePixel` remembers is that of both the held percentage and the last
difference. None of the others is inductive.
The invariant is `IInv == TypeOK /\ CountBacked /\ Disarmed /\ AgesAgree`:

* `CountBacked`: the count in progress is at most the run of readings the
  display really gave (`agree`, `unmetRun`), and is as fresh as the last
  counted reading, so that `Idle` forgets it in time;
* `Disarmed`: a condition type that has fired and not left its condition
  still has it settled, so `edge` is false;
* `AgesAgree`: the evaluator's fire age is the real one.

There is a lemma per action, and `NextStep` joins them with the rule every fire
obeys (`FireRule`). `HeldAlertFires` needs one part more, `Owed`: while an alert
is promised its count still stands, the candidate is what the display said last,
and it is still an edge of the settled state, read whole (`StillNews`). A counted
reading that goes on saying so is never early and never "no transition", so the
cooldown alone decides (`CountReadOwed`); and the settled state is forgotten
only after a silence that ends the promise as well (`SilentOwed`).

`LoginGateProofs` proves, for every set of logins, channels and grabs and
every list of growing waits that forgetting outlasts, `TypeCorrect`,
`OneGrabAsks`, `PollsKeepTheWait` and `TestsAreSpaced`. `OneAsks` is needed for
types: that a swept entry had no claim left is what keeps a ticket from naming
an entry that is gone. `IInv` adds, per id, `WaitAgrees` (an entry is as old as
the last refusal, its remaining wait is the one its count calls for less that
age, and the count is at least the refusals in a row), and, per login,
`TestAgrees` (the entry's last Test is no older than the real one).

`PollsProofs` proves, for every set of readings and every health_after,
interval, max_interval, gate limit and bound, `PageIsTruthful` (`Inv`),
`DownIsPrompt`, `NewsTakesTurns` and `BacksOffOnlyOnSame`. `IInv` is `TypeOK` and

* `VerdictsAgree`: row, page, runner and the last alert say the same, and the
  row's "down" is later than the last clean poll; it holds across restarts and
  deaths because one of page and row always has what was told last;
* `CrashAgrees`, `GateAgrees`, `LastAgrees`: the runner's run of crashes, its
  gate and the reading it compares with are what the page and the history say;
* `FailuresAgree`: the failed polls in a row are as many intervals old as they
  are many, which makes `PromptDown` a matter of `fails < HealthAfter`;
* `ClockAhead`: every poll made is in the past.

`PublisherProofs` proves `ImplementsMirror` (every step of the worker, the
broker and Home Assistant is a step of `Mirror` or a stutter, through the
mapping in `Publisher`) and `TypeCorrect`, for every assignment of slugs, every
queue length and every scenario within `ScenarioAssumption` (a scenario's lists
are lists of watches, no two of one name, its devices slugs) and `PayloadAssumption` (the words "old",
"online" and "offline" of the model name no watch). Types need `SlugsOnce`,
`ListSwapped` and `ClearsKnown`: a claimed slug is one watch's, so a clear
remembered is not of a config the worker has. The refinement needs what a reading
has to be on its whole way, `WantIsNews`, `JobsAreNews`, `JobsInOrder`,
`WantBeforeJobs` and what the broker retains: no older than what is shown, in
the order it was read, and of its own watch. A member is a watch of the list by name, so each
step that wants or sends something has to name a listed watch; of one that left,
the wanted state can only be forgotten.

`ConvergesAtRest` is the run's invariant `Inv`: `Converged` and `NoGhost`, which
say nothing of the states between. What makes a state at rest right is what each
thing that still waits promises the broker, so `RestInv` says, of every state,
what is out already and what is waiting to put the rest right:

* `HasList`: the newest list was handed over, waits in `syncCh`, or is the one
  the worker works from;
* `CfgsOut`, `StatesOut`: on a connection the worker was told of (`Told`) the
  configs of its list are retained, and what it counts as sent is what is
  there; what it wants and has not sent is ahead in the resync it is doing. A
  connection it was not told of has a `connCh` signal pending, so nothing is
  claimed of it;
* `DueInv`: the last state queued for a watch is in the queue with nothing
  after it that replaces it, or is what the worker wants for that watch's slug.
  A save forgets what is due of a watch it drops, and a job dropped by a full
  queue was never due;
* `CleanOrPending`: a slug no watch has is bare, waits in `pendingClear`, or is
  as an earlier run left it, with no clear of it remembered;
* `SweepInv`, `RecordOut`: what an earlier run left is still arriving, among the
  strays, passed over, or to be cleared, and if a stray waits so does what wakes
  the sweep; the owner record is out or a step ahead sends it;
* `GhostInv`: each device Home Assistant has is claimed, to be cleared, to be
  cleared again (`cleared`), unknowably missed, or still retained; and a Home
  Assistant that says it is there has seen every config retained.

That nothing else is retained under a listed watch's slug is `OwnInv`: a job, a
wanted and a retained reading are of the watch that has the slug, unless the slug
is in `passed` (`JobsOwn`, `StatesOwn`); what lies under a slug nobody has is an
earlier run's or is to be cleared (`UnclaimedOld`); and a cleared value entity has no
value unless the slug is in `late` (`ValuesGone`, `TextCleared`).

It needs `TypeInv` (a slug is one watch's) and, for what another watchglass left,
`OthersInv`. There is a lemma per action, joined by `NextRest`; the
step `announce` to `swap`, where the configs of the new list are out but the
claimed slugs are still the old ones, is why `BeingListed` and the exceptions for
`Resyncing` are there. At rest every waiting case is excluded (`AtRest`), and
what is left of each part is a conjunct of `Converged` or `NoGhost`.

`LeavesOthersAlone` is `OthersLeftAlone` for every scenario `OthersAssumption`
admits: the other watchglass has published its record, and none of this one's
lists claims a slug in it. Its invariant `OthersInv` says that every list the
worker has or is handed is one of the scenario's (`KnownLists`), that while the
record stands a worker that may sweep has it, or it is still coming in and the
subscriptions are not settled (`RecordStands`), and that no config of the other
one waits to be cleared (`NonePending`): every clear `sweepStrays` or a changed
list asks for passes one of these. `OthersAssumption` also excludes that a
second process takes over the client_id and the broker forgets what it
retained in the same run: with the record gone from both, nothing in the code
tells whose the configs are that come back.

`WatchesProofs` proves the four properties of `MCWatches`, `NothingIsLeft`
(`Inv`), `RunsAsSaved`, `PagesAreTruthful` and `RunsStayInReach`, for any number
of handlers, names, settings and kept samples (`HandlerAssumption`: a handler is
not the model's "nobody"). `IInv` is `Types`, `Control` and `WatchesOk`:

* `Control`: the two locks are held by exactly the handler whose program counter
  says so, and each phase of the process by those it started;
* `WatchesOk`, per watch name: its run, its page, its rows and what the config
  says of it agree, up to what the one handler under the locks still has to do.

The second is where the work is: `RunsWhatIsSaved` says nothing while a handler
is under way, so the invariant says for every step of it what is already done,
and a lemma per action shows the next step takes it on.

`AlertsProofs` proves `StoreIsTruthful` (`Inv`), `NoUrlForgotten`
(`NothingLost`), `AsksOnlyNews` (`OnlyNews`) and, where the process does not
die, `BlipsKeepFires` (`BlipKeepsFire`; a crash empties the slots, so what was
owed is then the row's to remember), for any URLs, trigger types, outbox size
and bounds. None of them speaks of what is on its way, and that is what `IInv`
adds:

* `LivesOk`, `WatchOk`: a run that is over or has not begun holds no mail, a
  stopped poll goroutine and a sender that drains have a cancelled context, and
  the row is about the evaluator's last fire, which is the last there was;
* `Mail`: whatever an alert in an outbox, a slot or an attempt lists as a taker
  did take that fire, or the one it tells again. `StoreTruthful` is what `report`
  writes of it;
* `Counts`: every URL of an alert being sent is owed, taken, given up on, let
  off or asked right now, so "nothing owed, failed or dropped" means all took
  it; while a sender's loop runs this holds between attempts too, which gives
  `NothingLost`;
* `Order`: fires are in order along an outbox and its slot, and from run to
  run, so a late answer from an old run's sender is of an older fire;
* `BoxIsNews`, `SlotIsNews`, `Resend`: what the current run may yet ask a URL
  is newer than all that URL took, and what a restart skips was taken;
* `Kept`: the alert of a condition that stands is told, queued, in the slot or
  lost to a full outbox;
* `EInv`: outside the poll that raises a fire, the noted condition is the one the
  evaluator has, so a URL that `prune` lets off while the condition stands is in
  `early`, and none is let off between two polls.

`GrabsProofs` proves `SlotsComeBack` (`Inv`), `OneFailure` (`OneFailureAGrab`)
and `RightPasswordIsTaken` (`RightIsTaken`), for any callers, slots, timeouts and
cameras; the last for the cameras `RightIsTaken` is about, named `Counted`: not
those that count the answers to one nonce they give everyone
(`MCGrabsShared.cfg`). A lemma per action says what it does to slots and clocks;
for the passwords, `StepIs` sorts all steps into five kinds (a caller lets go,
asks, retries, hears the camera; nobody moves). The invariants are

* `IInv`: the holders of a page's slot are as many as are taken, at most one
  ffmpeg has the device, a grab under way has lasted as long as its context, and
  only an HTTP request is on the wire;
* `MissInv`: a grab that missed shows why it will not retry, because a camera
  that still takes a nonce offers no other to who shows it (`LiveOk`);
* `RightInv`: a nonce just given is one caller's and has no answers yet
  (`FreshOk`), the answers under way carry counts of their own, which the memory
  has counted and the camera has not seen (`AskOk`, `PairOk`, `MemOk`), and no
  nonce is known to grabs of two passwords (`KnownOk`).

`MeterProofs` proves `MeterAgrees` (`Inv`), `RisesAreJudged` (`RisesJudged`) and
`DropsAreBacked` (`DropBacked`), for any watches: readings to confirm, limit of a
rise, numbers, accepts and restarts. The invariants are

* `RInv`: what run, row and page hold of one another at each step of a poll
  (`RowWhole`, `Saved`, `Shown`, `Waits`), and of the readings (`Judged`): the
  gate's count is of the latest readings of the history variable `recent`, none
  missed (`Counted`, `SteadyCounted`), and the median's window is its end
  (`InWindow`). The gate lets a rise through once its count is `Need`, and
  `Counted` says which readings those were; equal readings bring the count to
  `Need`, and the median of a window of them is their value (`SteadyCounted`,
  `MedianOfSame`);
* `AllBacked`: an accept each can be named for the drop the run still owes,
  for the accept being taken, for the one that waits, for the row's and for the
  row's last value, and where two of these may still end as two drops, they are
  different accepts (`Backed`). Which ones is not fixed: a drop uses up the
  highest accept that allows it, and if that one was named for something else,
  the accept named for the drop, which is no higher, takes its place
  (`PublishesBacked`);
* `Numbered`: a new accept is none of those (this is why they are numbered);
* `Freshness`: while the run is not restarted, what may still drop is to a
  value accepted since the display was last back up.

Model-checked only:

* `Drift`, whose judgement rests on the median of a sorted sequence (`SortSeq`):
  that it lies within its window is again induction over data;
* `ConfigFile`, which folds over lists of watches, and whose general case needs
  induction over data, out of the prover's reach;
* liveness under fairness, out of the prover's reach as well:
  `SteadyConditionAlerts`, `LetGoWhenGone`, `OwedIsTried`, `SenderEnds`,
  `AskedAgain`.

## Findings

`alerts_stale_prune`. `prune` (retry.go:375) judges an alert by the condition
noted at the end of the last poll, but a poll raises alerts before its end. A
"recovered" alert taken and refused within the poll that raised it is dropped
by a wake signal left from the poll before ("the camera went down again"),
while the camera is up. A fire alert is let off in the same way, between the poll
raising it and noting that its condition is met: `NoneLetOff` in
`MCAlertsLetOff.cfg`, against retry.go:19-22 and :27.

### Disagreements with a comment or a document that no listed run checks

Each can be reproduced with the configuration named.

* `MCAlertsTwice.cfg`, `NeverToldTwice`: Stop does not wait for the sender
  (persist.go:154 runs beside it), so a Save & restart while an alert is queued
  sends it from both runs (docs/configuration.md:78).
* `MCAlertsTakers.cfg`, `RestartKnowsTakers`: `report` (retry.go:460) saves who
  took a fire only while another URL still owes it. If the other refuses for
  good, or fails after the stop, the re-send after a restart reaches the taker
  again (docs/notifications.md:38).
* `MCPollsHook.cfg`, `HookHearsDown`: a verdict restored at boot is told to the
  hook after health_after failed polls (supervisor.go:185). A Save & restart
  before that starts a run that takes the verdict from the page, and the hook is
  never told "down" until the stream recovers.
* `MCConfigFileTemplate.cfg`, `NeverTurnedDown`: a watch b with `<<: *a`; clearing,
  on a's page, a key b inherits drops it from a, `settleInherited` (merge.go:875)
  compares with what a said before, and `loadsBack` refuses the save (HTTP 500).
  The file is safe; the change is turned down.
* `MCGrabsShared.cfg`, `CountsApart`: two grabs offered the same nonce each start
  it at count 1 (`digestRetry`, source.go:308), although source.go:122 says the
  count is of requests made with it. A camera that checks the count refuses the
  second.
* `MCPublisherRetired.cfg`, `RetiredShieldsNothing`: `sweepStrays` forgets the
  devices it found (discovery.go:723) whatever it decides about them. A record of
  the install's old client_id that lists none of the slugs claimed at the first
  sweep is taken for another watchglass's and shields its devices; when a save
  later claims one of its slugs the record is deleted, but the devices it
  shielded stay until the next subscription, although discovery.go:804 says that
  the sweep treats its other slugs like any earlier run's.
* `MCPublisherRenamed.cfg`, `VanishedAreCleared`: `sync`'s comment
  (discovery.go:377-380) says that vanished watches' retained state is cleared. A
  slug another watch takes over is not: what was wanted for the previous owner is
  sent again at the next resync (discovery.go:437-449, 900-905), as the new one's.
* `MCPublisherValue.cfg`, `NoValueLeft`: `publishDiscovery` says that it clears an
  entity a watch no longer has "with its retained state" (discovery.go:819-823). A
  reading queued before the type changed is published after that, and the entity
  is not cleared twice.
* `MCPublisherDrop.cfg`, `DropsAreSafe`: `enqueue` says that a dropped job is safe
  (syncqueue.go:74-76). A health word a full queue turned away is not said again
  until the stream's next transition.
* `MCPollsGated.cfg`, `GateStaysOpen`: "a gated watch backs off only while its gate
  stays open on the same value" (gate.go:203-204, docs/configuration.md:179).
  `tickChanged` compares with the reading of a closed poll as a blank, so a blank
  read after it backs off.
* `MCConfigFileZero.cfg`, `NothingNewNothingWritten`: "a save that changes nothing
  doesn't touch the file" (docs/configuration.md:313, merge.go:181-182). One that
  changes nothing drops a spelled-out zero of an omitempty key.
* `MCAlertsLetOff.cfg`, `NoneLetOff`: see Findings.

Seen while reading, and in no property:

* A camera that renews its nonce at every 401 costs two failed logins for a
  wrong password; one that has gone back to Basic refuses once more.
* A Test let through during a wait whose refusal comes after its end counts as
  a new refusal and makes the next wait longer, as does any late refusal.
* A run of crashes that mixes contained and escaping panics keeps its first
  time; `statusFor` then says "with no reading since" though one was read.
  A panic in `saveHealth` during a recovery leaves the page "down" until the
  next transition.
* After a restart, `DropFresh` has no memory of values above (runner/meter.go:118,
  :157), so a page shown before the display came back up may still be accepted.
* A counter that climbs steadily over max_rise at each poll is held back longer
  than docs/configuration.md:133 says.
* `OnConfigChanged` is not called when the restart after a save fails
  (web.go:50); two saves that race compare with a `base` that was read before.
* Publisher: the value of a watch removed and made again while the broker is away
  stays. A watchglass that starts publishes its configs at once and its record two
  seconds later (discovery.go:923, :767): another one that sweeps in between takes
  its devices for leftovers (docs/home-assistant.md:18 says never).
* Drift: asking for a new reference and forgetting the box can cross; a box moved
  away and back before a new reference settled restores the old status.
* Config: `shadows` (merge.go:477) is never true of a spelled-out key; a file that
  parses but does not validate is merged over (config.go:621).

## Not modelled

* Out of reach of this kind of model: the text reading engines (`ocr/`,
  `imgproc/`), the picture comparison (`drift/measure.go`, `gray.go`) and their
  results for a frame; page rendering, error wording (`web/errtext.go`), the
  demo, the checks of the docs.
* `Alerts`: store writes that fail, contained panics, what the page shows of a
  delivery, the length of retry delays, a clock set back.
* `Meter`: the readings table and its CSV, store writes that fail.
* `Polls`: store writes that fail without a panic, the text kept for the page
  (`Saw`), the pixel baseline, a poll cut short by Stop other than as one that
  counts for nothing, a panic while an accept is taken.
* `Watches`: the recorded readings, which a deletion leaves (history.go:426), the
  restored-fire line, crash marks, a full outbox, the handlers of
  the MQTT and login settings.
* `Publisher`: publishes that time out on an open connection, configs of another
  watchglass whose record is not out yet, the payloads,
  Home Assistant's retained status, snapshot and motion as topics of their own,
  `Status`.
* `Drift`: the second axis, shake and the finer means that refine an offset,
  store writes that fail.
* `ConfigFile`: layout, the notify lists' comments, keys outside the watches,
  several merge keys in one mapping, an anchor defined twice, aliases of
  scalars, a trigger taken through a merge key.
* `LoginGate`: a panic inside a grab, whose ticket is then never released
  (source.go:197), and the wait a page shows (`LoginRetryIn` only reads).
* `Grabs`: hashing, redirects, MJPEG, TLS.

## Plan

The MQTT and login settings in `Watches`, with the publisher they replace; a record
that goes out after its configs in `Publisher`; grabs that panic in `LoginGate`.
