------------------------------ MODULE Publisher ------------------------------
(***************************************************************************)
(* What watchglass says over MQTT (internal/hass): Home Assistant          *)
(* discovery configs for the watch list and each watch's retained state.   *)
(* One worker publishes.  Saves hand it the newest list (syncCh), polls    *)
(* queue jobs, the client's goroutines tell it of connections, of configs  *)
(* and owner records the broker still holds, and of Home Assistant coming  *)
(* and going; a select picks among them in any order.  Around it: the      *)
(* broker, which may lose what it retains; Home Assistant, which only      *)
(* drops a device on an empty config for one it has a config for; and      *)
(* another watchglass on the same base_topic.                              *)
(*                                                                         *)
(* A slug's entities are one config plus the optional value entity's; its  *)
(* topics are reading, value and health (the snapshot is one more of the   *)
(* same, motion is not retained).  A worker step is cut where other        *)
(* goroutines' effects on it can differ; the connection can be lost after  *)
(* any part of a step's publishes.  Every publish on an open connection is *)
(* taken by the broker.                                                    *)
(***************************************************************************)
EXTENDS Naturals, Sequences, FiniteSetsExt, Functions, SequencesExt

CONSTANTS
    Names,      \* watch names
    SlugOf,     \* a name's slug
    NoSlug,     \* a name without one
    QueueCap,   \* jobs outstanding (32 in the code)
    Scenarios   \* what is there at the start, and bounds on what happens:
                \* [lists, leftover, others, record, sweeps, ha, bounds]

Slugs == {SlugOf[n] : n \in Names} \ {NoSlug}

ASSUME NameAssumption == QueueCap \in Nat \ {0} /\ DOMAIN SlugOf = Names

\* An entry of a list is a watch, and no two have one name (Validate); what the
\* scenarios leave with the broker is of slugs that exist.
Lists == Seq([name : Names, number : BOOLEAN])
Bounded == {"saves", "ticks", "healths", "losses", "restarts", "trips", "births",
            "twins", "closes"}
ASSUME ScenarioAssumption ==
    \A sc \in Scenarios :
        /\ sc.lists \subseteq Lists
        /\ \A list \in sc.lists : \A i, j \in DOMAIN list :
              list[i].name = list[j].name => i = j
        /\ sc.leftover \cup sc.others \cup sc.record \subseteq Slugs
        /\ sc.sweeps \subseteq BOOLEAN /\ sc.ha \subseteq BOOLEAN
        /\ sc.bounds \in [Bounded -> Nat]

\* Words a payload says that are not of a watch, and names of the records.
ASSUME PayloadAssumption == Names \cap {"old", "online", "offline"} = {}
ASSUME RecordAssumption == {"record", "ours"} \cap Slugs = {}

VARIABLES
    scene,      \* the scenario
    left,       \* bounds: how much may still happen
    saved,      \* the watch list of the config, and of the running watches
    handed,     \* SyncAsync was called with it
    syncCh, connCh, strayCh, haCh, jobs, quit,   \* what the select waits on
    p,          \* the worker's own fields
    w,          \* what the worker is doing
    strays, owners, dupClient, ownSent,          \* guarded by strayMu
    haState,    \* Home Assistant's last word
    conn, subs, settled, arriving, haMsgs,       \* the connection, and what
                                                 \* it is bringing in
    broker, record, ours,                        \* what the broker retains
    ha          \* Home Assistant: there, its devices, and those it has had
                \* a config of since it started

\* History variables.
VARIABLES
    said,       \* readings each watch took
    newest,     \* the newest of them shown
    due,        \* what was last queued for a watch while the list was current
    missed,     \* slugs whose clear went out while Home Assistant was away
                \* and the worker could not know, or on a connection it had
                \* not resynced on yet, or whose config the broker lost
                \* before the worker had seen it
    spared,     \* slugs the sweep of this subscription passed over because a
                \* record with no slug of ours lists them
    passed,     \* slugs claimed by a watch that had another's state under them,
                \* or some not cleared yet, when it got them
    late        \* slugs that were given a value after their value entity was
                \* cleared, or while it was not announced again

chans == <<syncCh, connCh, strayCh, haCh, jobs>>
seenVars == <<strays, owners, dupClient, ownSent>>
net == <<conn, subs, settled, arriving, haMsgs>>
retained == <<broker, record, ours>>
history == <<said, newest, due, missed, spared, passed, late>>
vars == <<scene, left, saved, handed, chans, quit, p, w, seenVars, haState, net,
          retained, ha, history>>

None == <<>>
Topics == {"reading", "value", "health"}
NoState == [t \in Topics |-> None]
Bare == [cfg |-> None, valueCfg |-> FALSE, state |-> NoState]
NoOurs == [run |-> "none", slugs |-> {}]

-----------------------------------------------------------------------------
(* The list.  The first watch with a slug has it, later ones are skipped.  *)

Claims(list) ==
    {i \in DOMAIN list :
        /\ SlugOf[list[i].name] # NoSlug
        /\ \A j \in 1..(i - 1) : SlugOf[list[j].name] # SlugOf[list[i].name]}

Winners(list) == {list[i] : i \in Claims(list)}
NamesOf(list) == {e.name : e \in Winners(list)}
SlugsOf(names) == {SlugOf[n] : n \in names}

\* Another watchglass on the same base_topic: it has published its record, it uses
\* none of this one's slugs, and if a second process may come with this one's
\* client_id, the broker keeps the record (what is left is then all that tells
\* that the configs are another's).
ASSUME OthersAssumption ==
    \A sc \in Scenarios : sc.others # {} =>
        /\ sc.others \subseteq sc.record
        /\ \A list \in sc.lists : SlugsOf(NamesOf(list)) \cap sc.record = {}
        /\ sc.bounds.twins = 0 \/ sc.bounds.restarts = 0

claimedSlugs == SlugsOf(p.slugs)

-----------------------------------------------------------------------------
(* Home Assistant, for what is published while it is there.                *)

Hears(h, S) == IF h.on THEN [h EXCEPT !.has = @ \cup S, !.seen = @ \cup S] ELSE h
Drops(h, S) == IF h.on THEN [h EXCEPT !.has = @ \ (S \cap h.seen), !.seen = @ \ S]
               ELSE h

\* The connection goes.  The broker sends its records before its configs, and
\* what the client has received it still hands over: only configs can be lost.
Drop ==
    /\ conn' = FALSE /\ subs' = FALSE /\ haMsgs' = {}
    /\ arriving' \in {arriving, arriving \ Slugs}

\* What of all is out when the step ends: nothing without a connection,
\* everything with one, or any part of it and the connection is lost.
Goes(all, out) ==
    \/ ~conn /\ out = {} /\ UNCHANGED <<conn, subs, arriving, haMsgs, left>>
    \/ conn /\ out = all /\ UNCHANGED <<conn, subs, arriving, haMsgs, left>>
    \/ /\ conn /\ out \subseteq all /\ out # all /\ left.losses > 0
       /\ left' = [left EXCEPT !.losses = @ - 1]
       /\ Drop

-----------------------------------------------------------------------------
NewP == [watches |-> <<>>, slugs |-> {}, want |-> [s \in Slugs |-> NoState],
         sent |-> [s \in Slugs |-> NoState],
         optCfg |-> [s \in Slugs |-> "unknown"], pendingClear |-> {},
         lastCfg |-> {}, cleared |-> {}, haUp |-> FALSE, listed |-> FALSE,
         followed |-> FALSE, sweepOK |-> FALSE, swept |-> {},
         ownersSent |-> NoOurs]

Idle == [pc |-> "idle", list |-> <<>>, connected |-> FALSE, resync |-> FALSE]

Left(s) == IF s \in scene.others THEN [Bare EXCEPT !.cfg = <<"other">>]
           ELSE IF s \in scene.leftover
                THEN [Bare EXCEPT !.cfg = <<"old">>, !.state.reading = <<"old">>]
                ELSE Bare

Init ==
    /\ scene \in Scenarios
    /\ left = scene.bounds
    /\ saved \in scene.lists /\ handed = FALSE
    /\ syncCh = <<>> /\ connCh = FALSE /\ strayCh = FALSE /\ haCh = FALSE
    /\ jobs = <<>> /\ quit = "no"
    /\ p = NewP /\ w = Idle
    /\ strays = {} /\ owners = {} /\ dupClient = FALSE /\ ownSent = FALSE
    /\ haState = ""
    /\ conn = FALSE /\ subs = FALSE /\ settled = FALSE /\ arriving = {}
    /\ haMsgs = {}
    /\ broker = [s \in Slugs |-> Left(s)]
    /\ record = scene.record /\ ours = NoOurs
    /\ ha \in [on : scene.ha, has : {scene.others \cup scene.leftover}, seen : {{}}]
    /\ said = [n \in Names |-> 0] /\ newest = said
    /\ due = [n \in Names |-> [reading |-> None, health |-> None]]
    /\ missed = {} /\ spared = {} /\ passed = {} /\ late = {}

-----------------------------------------------------------------------------
(* The callers: a save, and the poll goroutines.                           *)

\* The handler saves a list and swaps the runs; a watch's due is only kept
\* where it stays the one that has its slug.
Save(list) ==
    /\ quit = "no" /\ handed /\ left.saves > 0 /\ list # saved
    /\ left' = [left EXCEPT !.saves = @ - 1]
    /\ saved' = list /\ handed' = FALSE
    /\ due' = [n \in Names |->
                 IF \E e \in Winners(saved) \cap Winners(list) : e.name = n
                 THEN due[n] ELSE [reading |-> None, health |-> None]]
    /\ UNCHANGED <<scene, chans, quit, p, w, seenVars, haState, net, retained,
                   ha, said, newest, missed, spared, passed, late>>

\* SyncAsync: only the newest list waits.
SyncAsync ==
    /\ ~handed
    /\ handed' = TRUE /\ syncCh' = <<saved>>
    /\ UNCHANGED <<scene, left, saved, connCh, strayCh, haCh, jobs, quit, p, w,
                   seenVars, haState, net, retained, ha, history>>

Running == {saved[i] : i \in DOMAIN saved}

\* The worker has the list the running watches are of.
Current == handed /\ syncCh = <<>> /\ p.watches = saved /\ w.pc \notin {"announce", "swap"}

enqueue(job) == jobs' = IF Len(jobs) < QueueCap THEN Append(jobs, job) ELSE jobs

Accepted(n, topic, payload) ==
    due' = [due EXCEPT ![n][topic] = IF Len(jobs) < QueueCap
                                     THEN IF Current THEN payload ELSE None
                                     ELSE @]

healthKnown(n) == p.want[SlugOf[n]].health # None

\* One tick of e's poll: its k-th reading settled, or nothing (k = 0: not
\* settled, or a closed gate).
OnEvent(e, k) ==
    LET payload == IF k = 0 THEN None ELSE <<e.name, k>> IN
    /\ quit = "no" /\ left.ticks > 0
    /\ left' = [left EXCEPT !.ticks = @ - 1]
    /\ said' = [said EXCEPT ![e.name] = IF k > @ THEN k ELSE @]
    /\ IF e.name \in p.slugs /\ ~(healthKnown(e.name) /\ k = 0)
       THEN /\ enqueue([name |-> e.name, seed |-> TRUE,
                        set |-> [reading |-> payload, health |-> None,
                                 value |-> IF e.number THEN payload ELSE None]])
            /\ IF k = 0 THEN due' = due ELSE Accepted(e.name, "reading", payload)
       ELSE UNCHANGED <<jobs, due>>
    /\ UNCHANGED <<scene, saved, handed, syncCh, connCh, strayCh, haCh, quit, p,
                   w, seenVars, haState, net, retained, ha, newest, missed, spared, passed,
                   late>>

OnHealth(e, word) ==
    /\ quit = "no" /\ left.healths > 0
    /\ left' = [left EXCEPT !.healths = @ - 1]
    /\ IF e.name \in p.slugs
       THEN /\ enqueue([name |-> e.name, seed |-> FALSE,
                        set |-> [NoState EXCEPT !.health = <<word>>]])
            /\ Accepted(e.name, "health", <<word>>)
       ELSE UNCHANGED <<jobs, due>>
    /\ UNCHANGED <<scene, saved, handed, syncCh, connCh, strayCh, haCh, quit, p,
                   w, seenVars, haState, net, retained, ha, said, newest, missed, spared, passed,
                   late>>

\* Close, after every run has ended.
Close ==
    /\ quit = "no" /\ handed /\ left.closes > 0
    /\ left' = [left EXCEPT !.closes = @ - 1]
    /\ quit' = "asked"
    /\ UNCHANGED <<scene, saved, handed, chans, p, w, seenVars, haState,
                   net, retained, ha, history>>

-----------------------------------------------------------------------------
(* The worker: a job.                                                      *)

\* setState's payload for topic t of slug s; None leaves it.
Sets(job, s, t) ==
    IF job.set[t] # None THEN job.set[t]
    ELSE IF t = "health" /\ job.seed /\ p.want[s].health = None THEN <<"online">>
    ELSE None

Shown(n, b) == IF SlugOf[n] # NoSlug /\ b[SlugOf[n]].state.reading # None
                  /\ b[SlugOf[n]].state.reading[1] = n
               THEN b[SlugOf[n]].state.reading[2] ELSE 0
\* The reading of n the worker holds, to send again after a reconnect.
Taken(n, want) == IF SlugOf[n] # NoSlug /\ want[SlugOf[n]].reading # None
                     /\ want[SlugOf[n]].reading[1] = n
                  THEN want[SlugOf[n]].reading[2] ELSE 0
Newest == newest' = [n \in Names |-> IF Shown(n, broker') > 0 THEN Shown(n, broker')
                                     ELSE newest[n]]

StillNamed_NotAsked(job) == SlugOf[job.name] # NoSlug
StillNamed(job) == job.name \in p.slugs

RunJob(job, out) ==
    LET s == SlugOf[job.name]
        changed == {t \in Topics : Sets(job, s, t) # None}
        want == [t \in Topics |-> IF t \in changed THEN Sets(job, s, t)
                                  ELSE p.want[s][t]]
        going == {t \in changed : p.sent[s][t] # want[t]}
        After(state) == [t \in Topics |-> IF t \in out THEN want[t] ELSE state[t]]
    IN
    /\ IF StillNamed(job)
       THEN /\ Goes(going, out)
            /\ p' = [p EXCEPT !.want[s] = want, !.sent[s] = After(@)]
            /\ broker' = [broker EXCEPT ![s].state = After(@)]
            /\ late' = IF "value" \in changed /\ p.optCfg[s] = "cleared"
                       THEN late \cup {s} ELSE late
       ELSE out = {} /\ UNCHANGED <<p, broker, conn, subs, arriving, haMsgs, left, late>>
    /\ Newest
    /\ UNCHANGED <<scene, saved, handed, syncCh, connCh, strayCh, haCh, seenVars,
                   haState, settled, record, ours, ha, said, due, missed, spared, passed>>

-----------------------------------------------------------------------------
(* The worker: a list (Sync), or everything again (resync).                *)

Begins(list, again) ==
    w' = [pc |-> "announce", list |-> list, connected |-> conn, resync |-> again]

\* publishDiscovery for the watches whose configs get out.  A text watch's
\* value entity is cleared once, with its state.
ClearsValue(e) == ~e.number /\ p.optCfg[SlugOf[e.name]] # "cleared"

Announces(done) ==
    LET out(s) == \E e \in done : SlugOf[e.name] = s
        of(s) == CHOOSE e \in done : SlugOf[e.name] = s
        gone(s) == out(s) /\ ClearsValue(of(s))
        NoValue(state, s) == IF gone(s) THEN [state EXCEPT !.value = None] ELSE state
    IN
    /\ broker' = [s \in Slugs |->
          IF out(s)
          THEN [cfg |-> <<of(s).name>>,
                valueCfg |-> of(s).number \/ (broker[s].valueCfg /\ ~gone(s)),
                state |-> NoValue(broker[s].state, s)]
          ELSE broker[s]]
    /\ ha' = Hears(ha, {SlugOf[e.name] : e \in done})
    /\ p' = [p EXCEPT
          !.watches = w.list,
          !.lastCfg = @ \cup SlugsOf(NamesOf(w.list)),
          !.want = [s \in Slugs |-> NoValue(@[s], s)],
          !.sent = [s \in Slugs |-> NoValue(@[s], s)],
          !.optCfg = [s \in Slugs |->
              IF ~out(s) THEN @[s]
              ELSE IF of(s).number THEN "there" ELSE "cleared"]]
    /\ late' = {s \in late : ~out(s) \/ (~of(s).number /\ ~gone(s))}

Announce ==
    /\ w.pc = "announce"
    /\ IF w.connected
       THEN \E done \in SUBSET Winners(w.list) :
               Goes(Winners(w.list), done) /\ Announces(done)
       ELSE Announces({}) /\ UNCHANGED <<conn, subs, arriving, haMsgs, left>>
    /\ Newest
    /\ w' = [w EXCEPT !.pc = "swap"]
    /\ UNCHANGED <<scene, saved, handed, chans, quit, seenVars, haState, settled,
                   record, ours, said, due, missed, spared, passed>>

\* flushPendingClear of q, a next p: every slug pending and not claimed is
\* cleared, config first; one with both parts out is done with.
Remembers(q, done) == IF q.haUp THEN q.cleared \ done
                      ELSE q.cleared \cup (done \cap q.lastCfg)

Flush(q, claimed, connected) ==
    LET waiting == q.pendingClear \ claimed
        all == waiting \X {"config", "state"}
    IN \E out \in (IF connected THEN SUBSET all ELSE {{}}) :
        LET configs == {s \in waiting : <<s, "config">> \in out}
            states  == {s \in waiting : <<s, "state">> \in out}
            done    == configs \cap states
        IN
        /\ IF connected THEN Goes(all, out)
           ELSE UNCHANGED <<conn, subs, arriving, haMsgs, left>>
        /\ broker' = [s \in Slugs |->
              [cfg |-> IF s \in configs THEN None ELSE broker[s].cfg,
               valueCfg |-> broker[s].valueCfg /\ s \notin configs,
               state |-> IF s \in states THEN NoState ELSE broker[s].state]]
        /\ ha' = Drops(ha, configs)
        /\ p' = [q EXCEPT
              !.pendingClear = waiting \ done,
              !.optCfg = [s \in Slugs |-> IF s \in done THEN "unknown" ELSE @[s]],
              !.cleared = Remembers(q, done),
              !.lastCfg = @ \ done]
        /\ missed' = IF q.haUp /\ (~ha.on \/ connCh) THEN (missed \ claimed) \cup done
                     ELSE missed \ claimed

\* The new list counts from here; what vanished is cleared.
Vanished(next) == SlugsOf(p.slugs) \ SlugsOf(next)

\* A slug that stays claimed keeps its state, whoever claims it.
PassedOn(next) ==
    {s \in SlugsOf(next) : \/ s \in passed \cup p.pendingClear
                           \/ \E n \in p.slugs \ next : SlugOf[n] = s}

Swap ==
    LET next == NamesOf(w.list)
        gone == Vanished(next)
    IN
    /\ w.pc = "swap"
    /\ Flush([p EXCEPT !.slugs = next, !.pendingClear = @ \cup gone,
                       !.want = [s \in Slugs |-> IF s \in gone THEN NoState ELSE @[s]],
                       !.sent = [s \in Slugs |-> IF s \in gone THEN NoState ELSE @[s]]],
             SlugsOf(next), w.connected)
    /\ passed' = PassedOn(next)
    /\ w' = [w EXCEPT !.pc = IF w.resync THEN "states" ELSE "sweep"]
    /\ Newest
    /\ UNCHANGED <<scene, saved, handed, chans, quit, seenVars, haState, settled,
                   record, ours, said, due, spared, late>>

\* resync goes on: every state a watch should have.
Resend ==
    LET all == {x \in claimedSlugs \X Topics :
                   p.want[x[1]][x[2]] \notin {None, p.sent[x[1]][x[2]]}}
    IN
    /\ w.pc = "states"
    /\ \E out \in SUBSET all :
        LET After(s, state) == [t \in Topics |-> IF <<s, t>> \in out
                                                 THEN p.want[s][t] ELSE state[t]]
        IN
        /\ Goes(all, out)
        /\ broker' = [s \in Slugs |-> [broker[s] EXCEPT !.state = After(s, @)]]
        /\ p' = [p EXCEPT !.sent = [s \in Slugs |-> After(s, @[s])]]
    /\ Newest
    /\ w' = [w EXCEPT !.pc = "follow"]
    /\ UNCHANGED <<scene, saved, handed, chans, quit, seenVars, haState, settled,
                   record, ours, ha, said, due, missed, spared, passed, late>>

\* It subscribes, and the broker starts to send what it retains; one that lets
\* it only publish refuses.
Follow ==
    /\ w.pc = "follow"
    /\ \E ok \in scene.sweeps :
        p' = [p EXCEPT !.swept = {}, !.ownersSent = NoOurs,
                       !.followed = conn, !.sweepOK = conn /\ ok]
    /\ subs' = p'.sweepOK
    /\ spared' = {}
    /\ settled' = (settled /\ ~conn)
    /\ arriving' = IF ~subs' THEN {}
                   ELSE {s \in Slugs : broker[s].cfg # None}
                        \cup (IF record # {} THEN {"record"} ELSE {})
                        \cup (IF ours.run = "other" THEN {"ours"} ELSE {})
    /\ w' = [w EXCEPT !.pc = "sweep"]
    /\ UNCHANGED <<scene, left, saved, handed, chans, quit, seenVars, haState,
                   conn, haMsgs, retained, ha, said, newest, due, missed, passed, late>>

\* sweepStrays: an owner record with a slug of ours is our own from before,
\* and goes, unless the connection does first; the rest protects its slugs.
\* Strays become pending clears.
SweepReady_NotSettled == p.listed /\ p.followed /\ conn
SweepReady == p.listed /\ p.followed /\ conn /\ settled

Elsewhere == IF owners \cap claimedSlugs = {} THEN owners ELSE {}

Retires == owners \cap claimedSlugs # {}

Sweep ==
    /\ w.pc = "sweep"
    /\ IF SweepReady
       THEN /\ \/ /\ UNCHANGED <<conn, subs, arriving, haMsgs, left>>
                  /\ record' = IF Retires THEN {} ELSE record
                  /\ owners' = IF Retires THEN {} ELSE owners
               \/ /\ Retires /\ left.losses > 0
                  /\ left' = [left EXCEPT !.losses = @ - 1]
                  /\ Drop
                  /\ UNCHANGED <<record, owners>>
            /\ strays' = {} /\ spared' = spared \cup (strays \cap Elsewhere)
            /\ IF dupClient \/ ~p.sweepOK
               THEN p' = p /\ w' = [w EXCEPT !.pc = "owners"]
               ELSE LET found == strays \ (claimedSlugs \cup Elsewhere
                                           \cup p.pendingClear \cup p.swept)
                    IN /\ p' = [p EXCEPT !.swept = @ \cup found,
                                         !.lastCfg = @ \cup found,
                                         !.pendingClear = @ \cup found]
                       /\ w' = [w EXCEPT !.pc = "clear"]
       ELSE /\ w' = Idle
            /\ UNCHANGED <<p, strays, owners, record, conn, subs, arriving,
                           haMsgs, left, spared>>
    /\ UNCHANGED <<scene, saved, handed, chans, quit, dupClient, ownSent, haState,
                   settled, broker, ours, ha, said, newest, due, missed, passed, late>>

SweepClears ==
    /\ w.pc = "clear"
    /\ Flush(p, claimedSlugs, TRUE)
    /\ Newest
    /\ w' = [w EXCEPT !.pc = "owners"]
    /\ UNCHANGED <<scene, saved, handed, chans, quit, seenVars, haState, settled,
                   record, ours, said, due, spared, passed, late>>

publishOwners ==
    LET rec == [run |-> "this", slugs |-> claimedSlugs] IN
    /\ w.pc = "owners"
    /\ IF conn /\ p.ownersSent # rec
       THEN ours' = rec /\ ownSent' = TRUE /\ p' = [p EXCEPT !.ownersSent = rec]
       ELSE UNCHANGED <<ours, ownSent, p>>
    /\ w' = Idle
    /\ UNCHANGED <<scene, left, saved, handed, chans, quit, strays, owners,
                   dupClient, haState, net, broker, record, ha, history>>

-----------------------------------------------------------------------------
(* The worker: Home Assistant's word.  Each clear it may have missed goes  *)
(* out again, after its config.                                            *)

Replayed(S) == Drops(Hears(ha, S), S)

haChanged ==
    LET up == haState = "online"
        again == p.cleared \ claimedSlugs
    IN \E out \in SUBSET again :
        /\ IF up /\ p.cleared # {} /\ conn
           THEN /\ Goes(again, out)
                /\ ha' = Replayed(out)
                /\ broker' = [s \in Slugs |->
                      IF s \in out THEN [broker[s] EXCEPT !.cfg = None, !.valueCfg = FALSE]
                      ELSE broker[s]]
                /\ p' = [p EXCEPT !.haUp = up, !.cleared = again \ out]
                /\ missed' = IF ha.on THEN missed ELSE missed \cup out
           ELSE /\ out = {} /\ p' = [p EXCEPT !.haUp = up]
                /\ UNCHANGED <<conn, subs, arriving, haMsgs, left, ha, broker, missed>>
        /\ UNCHANGED <<scene, saved, handed, syncCh, connCh, strayCh, jobs, quit,
                       w, seenVars, haState, settled, record, ours, said, newest, due, spared,
                       passed, late>>

-----------------------------------------------------------------------------
(* syncWorker's select, and drainRemaining once quit is closed: a pending  *)
(* list, then a job, until neither is left.                                *)

TakesList(next) ==
    /\ syncCh # <<>>
    /\ syncCh' = <<>> /\ p' = [p EXCEPT !.listed = TRUE]
    /\ Begins(syncCh[1], FALSE)
    /\ quit' = next
    /\ UNCHANGED <<scene, left, saved, handed, connCh, strayCh, haCh, jobs,
                   seenVars, haState, net, retained, ha, history>>

TakesJob(next) ==
    /\ jobs # <<>>
    /\ jobs' = Tail(jobs) /\ w' = w /\ quit' = next
    /\ \E out \in SUBSET Topics : RunJob(Head(jobs), out)

Selecting == w.pc = "idle" /\ quit \in {"no", "asked"}

PickSync == Selecting /\ TakesList(quit)

PickConn_KeepsSent ==
    /\ Selecting /\ connCh
    /\ connCh' = FALSE
    /\ p' = [p EXCEPT !.haUp = FALSE]
    /\ Begins(p.watches, TRUE)
    /\ UNCHANGED <<scene, left, saved, handed, syncCh, strayCh, haCh, jobs, quit,
                   seenVars, haState, net, retained, ha, history>>
PickConn ==
    /\ Selecting /\ connCh
    /\ connCh' = FALSE
    /\ p' = [p EXCEPT !.sent = [s \in Slugs |-> NoState], !.haUp = FALSE]
    /\ Begins(p.watches, TRUE)
    /\ UNCHANGED <<scene, left, saved, handed, syncCh, strayCh, haCh, jobs, quit,
                   seenVars, haState, net, retained, ha, history>>

PickStray ==
    /\ Selecting /\ strayCh
    /\ strayCh' = FALSE /\ w' = [Idle EXCEPT !.pc = "sweep"]
    /\ UNCHANGED <<scene, left, saved, handed, syncCh, connCh, haCh, jobs, quit,
                   p, seenVars, haState, net, retained, ha, history>>

PickHA == Selecting /\ haCh /\ haCh' = FALSE /\ haChanged

PickJob == Selecting /\ TakesJob(quit)

PickQuit ==
    /\ Selecting /\ quit = "asked"
    /\ quit' = "draining"
    /\ UNCHANGED <<scene, left, saved, handed, chans, p, w, seenVars, haState,
                   net, retained, ha, history>>

DrainSync == w.pc = "idle" /\ quit = "draining" /\ TakesList("synced")

DrainJob ==
    /\ w.pc = "idle"
    /\ quit = "synced" \/ (quit = "draining" /\ syncCh = <<>>)
    /\ TakesJob("draining")

DrainRound ==
    /\ w.pc = "idle"
    /\ \/ quit = "draining" /\ syncCh = <<>> /\ jobs = <<>> /\ quit' = "done"
       \/ quit = "synced" /\ jobs = <<>> /\ quit' = "draining"
    /\ UNCHANGED <<scene, left, saved, handed, chans, p, w, seenVars, haState,
                   net, retained, ha, history>>

Worker ==
    \/ PickSync \/ PickConn \/ PickStray \/ PickHA \/ PickJob \/ PickQuit
    \/ Announce \/ Swap \/ Resend \/ Follow \/ Sweep \/ SweepClears \/ publishOwners
    \/ DrainSync \/ DrainJob \/ DrainRound

-----------------------------------------------------------------------------
(* The connection, and what it brings in.                                  *)

Connects ==
    /\ ~conn /\ quit # "done"
    /\ conn' = TRUE /\ connCh' = TRUE
    /\ UNCHANGED <<scene, left, saved, handed, syncCh, strayCh, haCh, jobs, quit,
                   p, w, seenVars, haState, subs, settled, arriving, haMsgs,
                   retained, ha, history>>

ConnectionLost ==
    /\ conn /\ left.losses > 0
    /\ left' = [left EXCEPT !.losses = @ - 1]
    /\ Drop
    /\ UNCHANGED <<scene, saved, handed, chans, quit, p, w, seenVars, haState,
                   settled, retained, ha, history>>

\* The broker restarts, Home Assistant's connection goes too, and what the
\* broker retained may be lost.
BrokerRestarts ==
    /\ conn /\ left.losses > 0 /\ left.restarts > 0
    /\ left' = [left EXCEPT !.losses = @ - 1, !.restarts = @ - 1]
    /\ Drop
    /\ broker' = [s \in Slugs |-> Bare] /\ record' = {} /\ ours' = NoOurs
    /\ \E seen \in {ha.seen, {}} : ha' = [ha EXCEPT !.on = FALSE, !.seen = seen]
    /\ missed' = missed \cup {s \in Slugs : /\ broker[s].cfg # None
                                            /\ s \notin claimedSlugs
                                            /\ s \notin p.pendingClear \cup p.cleared}
    /\ UNCHANGED <<scene, saved, handed, chans, quit, p, w, seenVars, haState,
                   settled, said, newest, due, spared, passed, late>>

\* onRetainedConfig and onOwnerRecord, on the client's goroutines.
Arrives(x) ==
    /\ x \in arriving
    /\ arriving' = arriving \ {x}
    /\ strays' = IF x \in Slugs THEN strays \cup {x} ELSE strays
    /\ owners' = IF x = "record" THEN record ELSE owners
    /\ dupClient' = (dupClient \/ (x = "ours" /\ ownSent))
    /\ strayCh' = TRUE
    /\ UNCHANGED <<scene, left, saved, handed, syncCh, connCh, haCh, jobs, quit,
                   p, w, ownSent, haState, conn, subs, settled, haMsgs, retained,
                   ha, history>>

\* sweepAt is reached.  The records have arrived by then; a config may not.
Settles ==
    /\ p.followed /\ ~settled /\ arriving \cap {"record", "ours"} = {}
    /\ settled' = TRUE /\ strayCh' = TRUE
    /\ UNCHANGED <<scene, left, saved, handed, syncCh, connCh, haCh, jobs, quit,
                   p, w, seenVars, haState, conn, subs, arriving, haMsgs,
                   retained, ha, history>>

\* Home Assistant connects, takes every config the broker has, and says so.
HAComes ==
    /\ ~ha.on /\ left.births > 0
    /\ left' = [left EXCEPT !.births = @ - 1]
    /\ ha' = Hears([ha EXCEPT !.on = TRUE], {s \in Slugs : broker[s].cfg # None})
    /\ haMsgs' = IF subs THEN haMsgs \cup {"online"} ELSE haMsgs
    /\ UNCHANGED <<scene, saved, handed, chans, quit, p, w, seenVars,
                   haState, conn, subs, settled, arriving, retained, history>>

HAGoes ==
    /\ ha.on /\ left.trips > 0
    /\ left' = [left EXCEPT !.trips = @ - 1]
    /\ \E seen \in {ha.seen, {}} : ha' = [ha EXCEPT !.on = FALSE, !.seen = seen]
    /\ haMsgs' = IF subs THEN haMsgs \cup {"offline"} ELSE haMsgs
    /\ UNCHANGED <<scene, saved, handed, chans, quit, p, w, seenVars, haState,
                   conn, subs, settled, arriving, retained, history>>

\* onHAStatus.  Two words may be handed over in either order.
onHAStatus(word) ==
    /\ word \in haMsgs
    /\ haMsgs' = haMsgs \ {word}
    /\ haState' = word /\ haCh' = TRUE
    /\ UNCHANGED <<scene, left, saved, handed, syncCh, connCh, strayCh, jobs,
                   quit, p, w, seenVars, conn, subs, settled, arriving, retained,
                   ha, history>>

\* A second process with this client_id: the broker drops this one, and it
\* leaves its own configs and record.  Its record goes out only when it may
\* sweep itself (sweepAt), seconds after its configs: that time is left out.
TwinComes ==
    /\ conn /\ left.twins > 0
    /\ left' = [left EXCEPT !.twins = @ - 1]
    /\ Drop
    /\ broker' = [s \in Slugs |-> IF s \in scene.others
                                  THEN [Bare EXCEPT !.cfg = <<"other">>] ELSE broker[s]]
    /\ ours' = [run |-> "other", slugs |-> scene.others]
    /\ ha' = Hears(ha, scene.others)
    /\ UNCHANGED <<scene, saved, handed, chans, quit, p, w, seenVars, haState,
                   settled, record, history>>

Network ==
    \/ Connects \/ ConnectionLost \/ BrokerRestarts \/ TwinComes
    \/ \E x \in arriving : Arrives(x)
    \/ Settles \/ HAComes \/ HAGoes
    \/ \E word \in haMsgs : onHAStatus(word)

Callers ==
    \/ \E list \in scene.lists : Save(list)
    \/ SyncAsync
    \/ \E e \in Running : \/ \E k \in {0, said[e.name], said[e.name] + 1} : OnEvent(e, k)
                          \/ \E word \in {"online", "offline"} : OnHealth(e, word)
    \/ Close

Next == Worker \/ Callers \/ Network

Spec == Init /\ [][Next]_vars

-----------------------------------------------------------------------------
(* What must hold.                                                         *)

Payloads == {None, <<"old">>, <<"online">>, <<"offline">>} \cup (Names \X Nat)
States == [Topics -> Payloads]

TypeOK ==
    /\ scene \in Scenarios /\ saved \in scene.lists /\ handed \in BOOLEAN
    /\ Len(jobs) <= QueueCap /\ Len(syncCh) <= 1
    /\ quit \in {"no", "asked", "draining", "synced", "done"}
    /\ w.pc \in {"idle", "announce", "swap", "states", "follow", "sweep", "clear",
                 "owners"}
    /\ p.slugs \subseteq Names
    /\ p.want \in [Slugs -> States] /\ p.sent \in [Slugs -> States]
    /\ p.pendingClear \cup p.lastCfg \cup p.cleared \cup p.swept \subseteq Slugs
    /\ p.cleared \cap p.lastCfg \subseteq claimedSlugs \cup p.pendingClear
                                        \cup SlugsOf(NamesOf(w.list))
    /\ \A n, m \in p.slugs : SlugOf[n] = SlugOf[m] => n = m
    /\ settled \in BOOLEAN /\ (subs => conn)

\* Nothing waits for the worker, or it has drained and ended.
Quiet ==
    /\ w.pc = "idle" /\ ~connCh
    /\ quit = "done" \/ (syncCh = <<>> /\ jobs = <<>> /\ ~strayCh /\ ~haCh)

\* The sweep of what earlier runs left could be done, and was.
Swept == /\ quit # "done" /\ p.sweepOK /\ settled /\ arriving = {} /\ ~dupClient

Published(e) ==
    LET s == SlugOf[e.name] IN
    /\ broker[s].cfg = <<e.name>> /\ broker[s].valueCfg = e.number
    /\ \A t \in Topics : p.want[s][t] # None => broker[s].state[t] = p.want[s][t]
    /\ due[e.name].reading # None =>
          /\ broker[s].state.reading = due[e.name].reading
          /\ e.number => broker[s].state.value = due[e.name].reading
          /\ broker[s].state.health # None
    /\ due[e.name].health # None => broker[s].state.health = due[e.name].health

\* And nothing that is not its own: an earlier run's reading apart, what is
\* shown as e's is of e, and a watch without a number has no value.
Own(x, n) == x # None => x[1] \in {"old", n}
OnlyItsOwn(e) ==
    LET s == SlugOf[e.name] IN
    /\ s \notin passed => Own(broker[s].state.reading, e.name) /\ Own(broker[s].state.value, e.name)
    /\ ~e.number /\ s \notin late => broker[s].state.value = None

\* However saves, connections lost and made, a broker that forgot everything,
\* readings and a shutdown cross, with the broker connected and nothing left
\* to do (Sync, resync, sweepStrays):
\*   - it retains the config of every watch of the saved list that has its
\*     slug, and of each state the last one queued for it while the worker had
\*     that list (one a full queue turned away was not queued);
\*   - what it retains under the slug of a listed watch is of that watch, or
\*     an earlier run's, unless the slug passed to it from another watch, or
\*     from a removed one before that one's clear went out: such a watch shows
\*     what was there until it has its own;
\*   - a watch without a number has no value retained, unless a reading of the
\*     run that had one came after its value entity was cleared;
\*   - under the slug of no listed watch it retains nothing, unless it is
\*     another watchglass's, was taken for another's when it was swept, or the
\*     sweep could not be done;
\*   - and it retains the record that keeps the other's sweep off.
Converged ==
    Quiet /\ conn /\ handed /\ p.listed =>
        /\ p.watches = saved /\ p.slugs = NamesOf(saved)
        /\ \A e \in Winners(saved) : Published(e) /\ OnlyItsOwn(e)
        /\ \A s \in Slugs \ SlugsOf(NamesOf(saved)) :
              \/ broker[s] = Bare
              \/ broker[s] = Left(s) /\ (s \in scene.others \cup spared \/ ~Swept)
        /\ Swept => ours = [run |-> "this", slugs |-> claimedSlugs]

\* Home Assistant keeps no device of a watch that is gone, but one whose clear
\* the worker remembers to send again when Home Assistant next says it is
\* there, or could not know was missed (flushPendingClear, replayClears).
NoGhost ==
    Quiet /\ conn /\ handed /\ p.listed =>
        ha.has \subseteq claimedSlugs \cup p.cleared \cup missed
                       \cup {s \in Slugs : broker[s].cfg # None}

Inv == TypeOK /\ Converged /\ NoGhost

\* A record taken as this watchglass's own from before its client_id changed
\* shields nothing: at rest, what an earlier run left and no watch claims is
\* still there only while a record that may be another's lists it (retireOwner).
RetiredShieldsNothing ==
    Quiet /\ conn /\ handed /\ p.listed /\ Swept =>
        \A s \in Slugs \ SlugsOf(NamesOf(saved)) :
            broker[s].cfg = <<"old">> => s \in Elsewhere

\* The worker never clears a device that another watchglass's record on the
\* broker lists, as long as that one uses none of this one's slugs: not on a
\* reconnect, nor when the record is received after the configs, nor when a
\* second process has taken over its client_id (sweepStrays, onOwnerRecord).
\* Of configs whose record is not out yet it says nothing.
OthersLeftAlone ==
    [][Worker => \A s \in scene.others :
         broker[s].cfg = <<"other">> => broker'[s].cfg # None]_vars

\* What Sync says of itself ("vanished watches get theirs (and their retained
\* state) cleared"): at rest a listed watch shows no reading of one that is not
\* listed any more.  It does not hold: a slug that another watch takes over is
\* never cleared.
VanishedAreCleared ==
    Quiet /\ conn /\ handed /\ p.listed =>
        \A s \in claimedSlugs : LET x == broker[s].state.reading IN
            x \notin {None, <<"old">>} => x[1] \in p.slugs

\* What publishDiscovery says of itself (an entity the watch does not have is
\* cleared "with its retained state"): at rest a watch without a number has no
\* value.  It does not hold: a reading queued before the type changed may come
\* after the clear, and the entity is not cleared twice.
NoValueLeft ==
    Quiet /\ conn /\ handed /\ p.listed =>
        \A e \in Winners(saved) : ~e.number => broker[SlugOf[e.name]].state.value = None

\* What the broker shows of a watch's readings implements Mirror: the members
\* are the watches of the worker's list, by name.
Watched == INSTANCE Mirror WITH member <- p.slugs,
                                taken <- [n \in Names |-> Taken(n, p.want)],
                                shown <- [n \in Names |-> Shown(n, broker)]
Mirrors == Watched!Spec
=============================================================================
