-------------------------- MODULE PublisherProofs ---------------------------
(* Type correctness of Publisher, that it implements Mirror, that it leaves    *)
(* another watchglass's devices alone, and that at rest the broker retains     *)
(* what the saved list asks for and nothing of another watch in its place, for *)
(* every set of watches, every scenario and every bound in it.                 *)
EXTENDS Publisher, TLAPS

Configs == {None, <<"old">>, <<"other">>} \cup {<<n>> : n \in Names}
PType == [watches : Lists, slugs : SUBSET Names, want : [Slugs -> States],
          sent : [Slugs -> States], optCfg : [Slugs -> {"unknown", "there", "cleared"}],
          pendingClear : SUBSET Slugs, lastCfg : SUBSET Slugs, cleared : SUBSET Slugs,
          haUp : BOOLEAN, listed : BOOLEAN, followed : BOOLEAN, sweepOK : BOOLEAN,
          swept : SUBSET Slugs,
          ownersSent : [run : {"none", "this", "other"}, slugs : SUBSET Slugs]]
WType == [pc : {"idle", "announce", "swap", "states", "follow", "sweep", "clear",
                "owners"},
          list : Lists, connected : BOOLEAN, resync : BOOLEAN]
JobType == [name : Names, seed : BOOLEAN, set : States]
BrokerType == [Slugs -> [cfg : Configs, valueCfg : BOOLEAN, state : States]]

\* The worker's fields, its queues and what the broker retains.
WorkerType ==
    /\ p \in PType /\ w \in WType
    /\ syncCh \in Seq(Lists) /\ Len(syncCh) <= 1
    /\ jobs \in Seq(JobType) /\ Len(jobs) <= QueueCap
    /\ quit \in {"no", "asked", "draining", "synced", "done"}
    /\ strays \subseteq Slugs /\ owners \subseteq Slugs
WorldType ==
    /\ scene \in Scenarios /\ saved \in scene.lists /\ handed \in BOOLEAN
    /\ conn \in BOOLEAN /\ subs \in BOOLEAN /\ settled \in BOOLEAN /\ (subs => conn)
    /\ broker \in [Slugs -> [cfg : Configs, valueCfg : BOOLEAN, state : States]]
    /\ record \subseteq Slugs
    /\ said \in [Names -> Nat] /\ newest \in [Names -> Nat]

\* The worker's list has no slug twice, and a swapped one is the list it works
\* from; a cleared slug it has a config of again is still to be swapped, claimed
\* or cleared.
SlugsOnce ==
    \A n, m \in p.slugs : SlugOf[n] # NoSlug /\ (SlugOf[n] = SlugOf[m] => n = m)
ListSwapped == w.pc \notin {"announce", "swap"} => NamesOf(w.list) \subseteq p.slugs
ClearsKnown ==
    p.cleared \cap p.lastCfg \subseteq claimedSlugs \cup p.pendingClear
                                       \cup SlugsOf(NamesOf(w.list))

\* x is a reading of its watch that is no older than the newest one shown.
News(x) ==
    /\ x \in Names \X Nat
    /\ newest[x[1]] <= x[2] /\ x[2] <= said[x[1]] /\ x[2] > 0

\* What the worker has of a watch, and then what is queued for it, is never
\* older than what was shown, and comes in the order it was read.
WantIsNews ==
    \A s \in Slugs : LET x == p.want[s].reading IN
        x # None => News(x) /\ SlugOf[x[1]] = s
JobsAreNews ==
    \A i \in 1..Len(jobs) : LET x == jobs[i].set.reading IN
        x # None => News(x) /\ x[1] = jobs[i].name
JobsInOrder ==
    \A i, j \in 1..Len(jobs) : LET x == jobs[i].set.reading
                                   y == jobs[j].set.reading IN
        i < j /\ x # None /\ y # None /\ x[1] = y[1] => x[2] <= y[2]
WantBeforeJobs ==
    \A s \in Slugs, j \in 1..Len(jobs) : LET x == p.want[s].reading
                                             y == jobs[j].set.reading IN
        x # None /\ y # None /\ x[1] = y[1] => x[2] <= y[2]

\* What the broker shows of a watch is the newest that was shown.
BrokerIsNewest ==
    \A s \in Slugs : LET x == broker[s].state.reading IN
        x \notin {None, <<"old">>} =>
            /\ x \in Names \X Nat /\ SlugOf[x[1]] = s
            /\ x[2] > 0 /\ newest[x[1]] = x[2]
NewestWasSaid == \A n \in Names : newest[n] <= said[n]

TypeInv == WorkerType /\ WorldType /\ SlugsOnce /\ ListSwapped /\ ClearsKnown
ReadingInv ==
    /\ WantIsNews /\ JobsAreNews /\ JobsInOrder /\ WantBeforeJobs
    /\ BrokerIsNewest /\ NewestWasSaid
IInv == TypeInv /\ ReadingInv
-----------------------------------------------------------------------------
(* The operators. *)

LEMMA ElementIs ==
    \A S : \A q \in Seq(S) : \A i \in 1..Len(q) : q[i] \in S
OBVIOUS

LEMMA PayloadTypes ==
    /\ None \in Payloads /\ <<"online">> \in Payloads /\ <<"offline">> \in Payloads
    /\ <<"old">> \in Payloads
    /\ \A n \in Names, k \in Nat : <<n, k>> \in Payloads
    /\ NoState \in States
BY DEF Payloads, States, NoState

LEMMA SlugsType ==
    /\ \A n \in Names : SlugOf[n] # NoSlug => SlugOf[n] \in Slugs
    /\ \A s \in Slugs : s # NoSlug
BY DEF Slugs

LEMMA ListTypes ==
    ASSUME NEW list \in Lists
    PROVE  /\ \A e \in Winners(list) : /\ e \in [name : Names, number : BOOLEAN]
                                       /\ SlugOf[e.name] \in Slugs
           /\ NamesOf(list) \in SUBSET Names
           /\ SlugsOf(NamesOf(list)) \in SUBSET Slugs
           /\ \A n \in NamesOf(list) : SlugOf[n] # NoSlug
<1>1. \A i \in Claims(list) : /\ i \in 1..Len(list) /\ SlugOf[list[i].name] # NoSlug
                              /\ list[i] \in [name : Names, number : BOOLEAN]
  <2>1. list \in Seq([name : Names, number : BOOLEAN])
      BY DEF Lists
  <2>2. \A i \in Claims(list) : i \in 1..Len(list) /\ SlugOf[list[i].name] # NoSlug
      BY <2>1 DEF Claims
  <2> QED BY <2>1, <2>2, ElementIs
<1>2. \A e \in Winners(list) : \E i \in Claims(list) : e = list[i]
    BY DEF Winners
<1>3. \A e \in Winners(list) : /\ e \in [name : Names, number : BOOLEAN]
                               /\ SlugOf[e.name] # NoSlug /\ SlugOf[e.name] \in Slugs
    BY <1>1, <1>2, SlugsType
<1>4. \A n \in NamesOf(list) : n \in Names /\ SlugOf[n] # NoSlug /\ SlugOf[n] \in Slugs
    BY <1>3 DEF NamesOf
<1> QED BY <1>3, <1>4 DEF SlugsOf

\* Of the watches with one slug the first has it, so no two winners share one.
LEMMA WinnersApart ==
    ASSUME NEW list \in Lists
    PROVE  \A n, m \in NamesOf(list) : SlugOf[n] = SlugOf[m] => n = m
<1> SUFFICES ASSUME NEW i \in Claims(list), NEW j \in Claims(list),
                    SlugOf[list[i].name] = SlugOf[list[j].name]
             PROVE  list[i].name = list[j].name
    BY DEF NamesOf, Winners
<1>1. i \in 1..Len(list) /\ j \in 1..Len(list) /\ i \in Nat /\ j \in Nat
    BY DEF Lists, Claims
<1>2. ~(i < j) /\ ~(j < i)
    BY <1>1 DEF Claims
<1> QED BY <1>1, <1>2

LEMMA EmptyList ==
    /\ <<>> \in Lists
    /\ NamesOf(<<>>) = {} /\ SlugsOf(NamesOf(<<>>)) = {}
BY DEF Lists, NamesOf, Winners, Claims, SlugsOf

LEMMA IdleType == Idle \in WType /\ Idle.list = <<>>
BY EmptyList DEF Idle, WType

LEMMA BareType ==
    /\ [Bare EXCEPT !.cfg = <<"other">>] \in [cfg : Configs, valueCfg : BOOLEAN, state : States]
    /\ Bare \in [cfg : Configs, valueCfg : BOOLEAN, state : States]
    /\ Bare.state = NoState /\ NoState.reading = None
    /\ [Bare EXCEPT !.cfg = <<"other">>].state = NoState
BY PayloadTypes DEF Bare, NoState, Configs, Topics

LEMMA InitTypes == Init => TypeInv
<1> SUFFICES ASSUME Init PROVE TypeInv
    OBVIOUS
<1>1. NewP \in PType
    BY EmptyList, PayloadTypes DEF NewP, PType, NoOurs
<1>2. WorkerType
  <2>1. \A S : <<>> \in Seq(S) /\ Len(<<>>) = 0
      OBVIOUS
  <2>2. 0 <= 1 /\ 0 <= QueueCap
      BY NameAssumption
  <2> QED BY <1>1, IdleType, <2>1, <2>2 DEF Init, WorkerType
<1>3. ASSUME NEW s \in Slugs
      PROVE  Left(s) \in [cfg : Configs, valueCfg : BOOLEAN, state : States]
  <2>1. [Bare EXCEPT !.cfg = <<"old">>, !.state.reading = <<"old">>]
           \in [cfg : Configs, valueCfg : BOOLEAN, state : States]
      BY PayloadTypes DEF Bare, NoState, Configs, Topics, States
  <2> QED BY <2>1, BareType DEF Left
<1>4. WorldType
    BY <1>3, ScenarioAssumption DEF Init, WorldType
<1>5. SlugsOnce /\ ListSwapped /\ ClearsKnown
    BY EmptyList DEF Init, SlugsOnce, ListSwapped, ClearsKnown, NewP, Idle
<1> QED BY <1>2, <1>4, <1>5 DEF TypeInv

LEMMA InitReadings == Init => ReadingInv
<1> SUFFICES ASSUME Init PROVE ReadingInv
    OBVIOUS
<1>1. \A s \in Slugs : p.want[s].reading = None
    BY DEF Init, NewP, NoState, Topics
<1>2. Len(jobs) = 0
    BY DEF Init
<1>3. \A s \in Slugs : broker[s].state.reading \in {None, <<"old">>}
    BY DEF Init, Left, Bare, NoState, Topics
<1>4. WantIsNews /\ WantBeforeJobs
    BY <1>1, <1>2 DEF WantIsNews, WantBeforeJobs
<1>5. JobsAreNews /\ JobsInOrder
    BY <1>2 DEF JobsAreNews, JobsInOrder
<1>6. BrokerIsNewest
    BY <1>3 DEF BrokerIsNewest
<1>7. NewestWasSaid
  <2>1. said = [n \in Names |-> 0] /\ newest = said
      BY DEF Init
  <2> QED BY <2>1 DEF NewestWasSaid
<1> QED BY <1>4, <1>5, <1>6, <1>7 DEF ReadingInv

-----------------------------------------------------------------------------
(* Types, action by action. *)

\* What a step publishes is some of what it has to.
LEMMA GoesSome ==
    ASSUME WorldType, NEW all, NEW out, Goes(all, out)
    PROVE  /\ out \subseteq all
           /\ conn' \in BOOLEAN /\ subs' \in BOOLEAN /\ (subs' => conn')
<1>1. out \subseteq all
    BY DEF Goes
<1>2. CASE UNCHANGED <<conn, subs, arriving, haMsgs, left>>
    BY <1>1, <1>2 DEF WorldType
<1>3. CASE Drop
    BY <1>1, <1>3 DEF Drop
<1> QED BY <1>2, <1>3 DEF Goes

LEMMA NoneGoes ==
    ASSUME WorldType, UNCHANGED <<conn, subs>>
    PROVE  conn' \in BOOLEAN /\ subs' \in BOOLEAN /\ (subs' => conn')
BY DEF WorldType

LEMMA ListInScene ==
    ASSUME scene \in Scenarios, NEW list \in scene.lists
    PROVE  list \in Lists
BY ScenarioAssumption

LEMMA CallersTypes ==
    ASSUME TypeInv, (\E list \in scene.lists : Save(list)) \/ SyncAsync \/ Close
    PROVE  TypeInv'
<1> USE DEF TypeInv, seenVars, net, retained, history, chans
<1>1. CASE \E list \in scene.lists : Save(list)
  <2>1. PICK list \in scene.lists : Save(list)
      BY <1>1
  <2>2. WorkerType'
      BY <2>1 DEF Save, WorkerType
  <2>3. WorldType'
      BY <2>1 DEF Save, WorldType
  <2> QED BY <2>1, <2>2, <2>3 DEF Save, SlugsOnce, ListSwapped, ClearsKnown, claimedSlugs
<1>2. CASE SyncAsync
  <2>1. saved \in Lists
      BY ListInScene DEF WorldType
  <2>2. <<saved>> \in Seq(Lists) /\ Len(<<saved>>) <= 1
      BY <2>1
  <2> QED BY <1>2, <2>2 DEF SyncAsync, WorkerType, WorldType, SlugsOnce, ListSwapped,
             ClearsKnown, claimedSlugs
<1>3. CASE Close
    BY <1>3 DEF Close, WorkerType, WorldType, SlugsOnce, ListSwapped, ClearsKnown, claimedSlugs
<1> QED BY <1>1, <1>2, <1>3

LEMMA RunningType ==
    ASSUME TypeInv, NEW e \in Running
    PROVE  e \in [name : Names, number : BOOLEAN]
<1>1. saved \in Seq([name : Names, number : BOOLEAN])
    BY ListInScene DEF TypeInv, WorldType, Lists
<1>2. \A i \in 1..Len(saved) : saved[i] \in [name : Names, number : BOOLEAN]
    BY <1>1, ElementIs
<1>3. DOMAIN saved = 1..Len(saved)
    BY <1>1
<1> QED BY <1>2, <1>3 DEF Running

LEMMA EnqueueType ==
    ASSUME WorkerType, NEW job \in JobType, enqueue(job)
    PROVE  jobs' \in Seq(JobType) /\ Len(jobs') <= QueueCap
<1>1. jobs \in Seq(JobType) /\ Len(jobs) <= QueueCap /\ QueueCap \in Nat
    BY NameAssumption DEF WorkerType
<1> QED BY <1>1 DEF enqueue

LEMMA OnEventJob ==
    ASSUME NEW e \in [name : Names, number : BOOLEAN], NEW x \in Payloads
    PROVE  [name |-> e.name, seed |-> TRUE,
            set |-> [reading |-> x, health |-> None,
                     value |-> IF e.number THEN x ELSE None]] \in JobType
<1>1. [reading |-> x, health |-> None, value |-> IF e.number THEN x ELSE None] \in States
    BY PayloadTypes DEF States, Topics
<1> QED BY <1>1 DEF JobType

LEMMA OnHealthJob ==
    ASSUME NEW e \in [name : Names, number : BOOLEAN], NEW word \in {"online", "offline"}
    PROVE  [name |-> e.name, seed |-> FALSE,
            set |-> [NoState EXCEPT !.health = <<word>>]] \in JobType
<1>1. [NoState EXCEPT !.health = <<word>>] \in States
    BY PayloadTypes DEF States, NoState, Topics
<1> QED BY <1>1 DEF JobType

LEMMA OnEventTypes ==
    ASSUME TypeInv, NEW e \in Running, NEW k \in {0, said[e.name], said[e.name] + 1},
           OnEvent(e, k)
    PROVE  TypeInv' /\ k \in Nat
<1> USE DEF TypeInv, seenVars, net, retained
<1>1. e \in [name : Names, number : BOOLEAN] /\ e.name \in Names
    BY RunningType
<1>2. said \in [Names -> Nat]
    BY DEF WorldType
<1>3. k \in Nat
    BY <1>1, <1>2
<1> DEFINE payload == IF k = 0 THEN None ELSE <<e.name, k>>
<1>4. payload \in Payloads
    BY <1>1, <1>3, PayloadTypes
<1>5. jobs' = jobs \/ (jobs' \in Seq(JobType) /\ Len(jobs') <= QueueCap)
    BY <1>1, <1>4, OnEventJob, EnqueueType DEF OnEvent
<1>6. said' \in [Names -> Nat]
    BY <1>1, <1>2, <1>3 DEF OnEvent
<1>7. WorkerType' /\ WorldType'
    BY <1>5, <1>6 DEF OnEvent, WorkerType, WorldType
<1>8. SlugsOnce' /\ ListSwapped' /\ ClearsKnown'
    BY DEF OnEvent, SlugsOnce, ListSwapped, ClearsKnown, claimedSlugs
<1> QED BY <1>3, <1>7, <1>8

LEMMA OnHealthTypes ==
    ASSUME TypeInv, NEW e \in Running, NEW word \in {"online", "offline"}, OnHealth(e, word)
    PROVE  TypeInv'
<1> USE DEF TypeInv, seenVars, net, retained
<1>1. e \in [name : Names, number : BOOLEAN]
    BY RunningType
<1>5. jobs' = jobs \/ (jobs' \in Seq(JobType) /\ Len(jobs') <= QueueCap)
    BY <1>1, OnHealthJob, EnqueueType DEF OnHealth
<1>7. WorkerType' /\ WorldType'
    BY <1>5 DEF OnHealth, WorkerType, WorldType
<1>8. SlugsOnce' /\ ListSwapped' /\ ClearsKnown'
    BY DEF OnHealth, SlugsOnce, ListSwapped, ClearsKnown, claimedSlugs
<1> QED BY <1>7, <1>8

LEMMA NetworkTypes ==
    ASSUME TypeInv, Network
    PROVE  TypeInv'
<1> USE DEF TypeInv, seenVars, net, retained, history, chans
<1>1. /\ UNCHANGED <<scene, saved, handed, syncCh, jobs, quit, p, w, said, newest>>
    BY DEF Network, Connects, ConnectionLost, BrokerRestarts, TwinComes, Arrives, Settles,
           HAComes, HAGoes, onHAStatus
<1>6. /\ settled' \in BOOLEAN
      /\ \/ UNCHANGED <<conn, subs>>
         \/ conn' = FALSE /\ subs' = FALSE
         \/ conn' = TRUE /\ subs' = subs
    BY DEF Network, Connects, ConnectionLost, BrokerRestarts, TwinComes, Arrives, Settles,
           HAComes, HAGoes, onHAStatus, Drop, WorldType
<1>7. conn' \in BOOLEAN /\ subs' \in BOOLEAN /\ (subs' => conn')
  <2>1. conn \in BOOLEAN /\ subs \in BOOLEAN /\ (subs => conn)
      BY DEF WorldType
  <2>2. CASE UNCHANGED <<conn, subs>>
      BY <2>1, <2>2
  <2>3. CASE conn' = FALSE /\ subs' = FALSE
      BY <2>3
  <2>4. CASE conn' = TRUE /\ subs' = subs
      BY <2>1, <2>4
  <2> QED BY <1>6, <2>2, <2>3, <2>4
<1>2. strays' \subseteq Slugs /\ owners' \subseteq Slugs /\ record' \subseteq Slugs
    BY DEF Network, Connects, ConnectionLost, BrokerRestarts, TwinComes, Arrives, Settles,
           HAComes, HAGoes, onHAStatus, WorldType, WorkerType
<1>3. broker' \in [Slugs -> [cfg : Configs, valueCfg : BOOLEAN, state : States]]
  <2>1. broker \in [Slugs -> [cfg : Configs, valueCfg : BOOLEAN, state : States]]
      BY DEF WorldType
  <2>2. CASE BrokerRestarts
      BY <2>2, BareType DEF BrokerRestarts
  <2>3. CASE TwinComes
      BY <2>1, <2>3, BareType DEF TwinComes
  <2> QED BY <2>1, <2>2, <2>3 DEF Network, Connects, ConnectionLost, Arrives, Settles,
             HAComes, HAGoes, onHAStatus
<1>4. WorkerType' /\ WorldType'
    BY <1>1, <1>2, <1>3, <1>6, <1>7 DEF WorkerType, WorldType
<1>5. SlugsOnce' /\ ListSwapped' /\ ClearsKnown'
    BY <1>1 DEF SlugsOnce, ListSwapped, ClearsKnown, claimedSlugs
<1> QED BY <1>4, <1>5

LEMMA PickTypes ==
    ASSUME TypeInv,
           \/ PickSync \/ DrainSync \/ PickConn \/ PickStray \/ PickQuit \/ DrainRound
    PROVE  TypeInv'
<1> USE DEF TypeInv, seenVars, net, retained, history, chans
<1>1. ASSUME NEW next \in {"no", "asked", "draining", "synced", "done"}, TakesList(next),
             w.pc = "idle"
      PROVE  TypeInv'
  <2>1. syncCh[1] \in Lists /\ <<>> \in Seq(Lists) /\ Len(<<>>) <= 1
      BY <1>1 DEF TakesList, WorkerType
  <2>2. p' = [p EXCEPT !.listed = TRUE] /\ p' \in PType
      BY <1>1 DEF TakesList, WorkerType, PType
  <2>3. w' \in WType /\ w'.pc = "announce"
      BY <1>1, <2>1 DEF TakesList, Begins, WType, WorldType
  <2>4. WorkerType'
      BY <1>1, <2>1, <2>2, <2>3 DEF TakesList, WorkerType
  <2>5. WorldType'
      BY <1>1 DEF TakesList, WorldType
  <2>6. /\ p'.slugs = p.slugs /\ p'.cleared = p.cleared /\ p'.lastCfg = p.lastCfg
        /\ p'.pendingClear = p.pendingClear
      BY <2>2 DEF WorkerType, PType
  <2>7. NamesOf(w.list) \subseteq p.slugs
      BY <1>1 DEF ListSwapped
  <2>8. SlugsOnce' /\ ListSwapped' /\ ClearsKnown'
      BY <2>3, <2>6, <2>7 DEF SlugsOnce, ListSwapped, ClearsKnown, claimedSlugs, SlugsOf
  <2> QED BY <2>4, <2>5, <2>8
<1>2. CASE PickSync \/ DrainSync
  <2>1. quit \in {"no", "asked", "draining", "synced", "done"}
      BY DEF WorkerType
  <2> QED BY <1>1, <1>2, <2>1 DEF PickSync, DrainSync, Selecting
<1>3. CASE PickConn
  <2>1. p' = [p EXCEPT !.sent = [s \in Slugs |-> NoState], !.haUp = FALSE]
      BY <1>3 DEF PickConn
  <2>2. /\ p' \in PType /\ p'.slugs = p.slugs /\ p'.cleared = p.cleared
        /\ p'.lastCfg = p.lastCfg /\ p'.pendingClear = p.pendingClear
      BY <2>1, PayloadTypes DEF WorkerType, PType
  <2>3. w' \in WType /\ w'.pc = "announce"
      BY <1>3 DEF PickConn, Begins, WType, WorldType, WorkerType, PType
  <2>4. WorkerType'
      BY <1>3, <2>2, <2>3 DEF PickConn, WorkerType
  <2>5. WorldType'
      BY <1>3 DEF PickConn, WorldType
  <2>6. NamesOf(w.list) \subseteq p.slugs
      BY <1>3 DEF PickConn, Selecting, ListSwapped
  <2>7. SlugsOnce' /\ ListSwapped' /\ ClearsKnown'
      BY <2>3, <2>2, <2>6 DEF SlugsOnce, ListSwapped, ClearsKnown, claimedSlugs, SlugsOf
  <2> QED BY <2>4, <2>5, <2>7
<1>4. CASE PickStray
  <2>1. w' \in WType /\ w'.list = <<>>
      BY <1>4, IdleType DEF PickStray, WType, Idle
  <2>2. WorkerType' /\ WorldType'
      BY <1>4, <2>1 DEF PickStray, WorkerType, WorldType
  <2>3. NamesOf(w.list) \subseteq p.slugs
      BY <1>4 DEF PickStray, Selecting, ListSwapped
  <2>4. SlugsOnce' /\ ListSwapped' /\ ClearsKnown'
      BY <1>4, <2>1, <2>3, EmptyList DEF PickStray, SlugsOnce, ListSwapped, ClearsKnown,
         claimedSlugs, SlugsOf
  <2> QED BY <2>2, <2>4
<1>5. CASE PickQuit \/ DrainRound
  <2>1. WorkerType' /\ WorldType'
      BY <1>5 DEF PickQuit, DrainRound, WorkerType, WorldType
  <2> QED BY <1>5, <2>1 DEF PickQuit, DrainRound, SlugsOnce, ListSwapped, ClearsKnown,
             claimedSlugs
<1> QED BY <1>2, <1>3, <1>4, <1>5

LEMMA SetsType ==
    ASSUME NEW job \in JobType, p \in PType, NEW s \in Slugs, NEW t \in Topics
    PROVE  Sets(job, s, t) \in Payloads
BY PayloadTypes DEF Sets, JobType, States

\* What is shown of a watch is a count of its readings.
LEMMA ShownType ==
    ASSUME NEW b \in [Slugs -> [cfg : Configs, valueCfg : BOOLEAN, state : States]],
           NEW n \in Names
    PROVE  Shown(n, b) \in Nat
<1>1. CASE ~(SlugOf[n] # NoSlug /\ b[SlugOf[n]].state.reading # None
             /\ b[SlugOf[n]].state.reading[1] = n)
    BY <1>1 DEF Shown
<1>2. CASE /\ SlugOf[n] # NoSlug /\ b[SlugOf[n]].state.reading # None
           /\ b[SlugOf[n]].state.reading[1] = n
  <2> DEFINE x == b[SlugOf[n]].state.reading
  <2>1. x \in Payloads
      BY <1>2, SlugsType DEF States, Topics
  <2>2. x[1] = n /\ x # None
      BY <1>2
  <2>3. Shown(n, b) = x[2]
      BY <1>2 DEF Shown
  <2> HIDE DEF x
  <2>4. x \in Names \X Nat
      BY <2>1, <2>2, PayloadAssumption DEF Payloads
  <2> QED BY <2>3, <2>4
<1> QED BY <1>1, <1>2

LEMMA NewestType ==
    ASSUME newest \in [Names -> Nat], Newest,
           broker' \in [Slugs -> [cfg : Configs, valueCfg : BOOLEAN, state : States]]
    PROVE  newest' \in [Names -> Nat]
<1>1. \A n \in Names : Shown(n, broker') \in Nat
    BY ShownType
<1> QED BY <1>1 DEF Newest

LEMMA RunJobKeeps ==
    ASSUME NEW job, NEW out, RunJob(job, out)
    PROVE  /\ Newest
           /\ UNCHANGED <<scene, saved, handed, syncCh, strays, owners, settled, record,
                          ours, said>>
<1>1. Newest
    BY Zenon DEF RunJob
<1>2. UNCHANGED <<scene, saved, handed, syncCh, connCh, strayCh, haCh, seenVars,
                  haState, settled, record, ours, ha, said, due, missed>>
    BY Zenon DEF RunJob
<1> QED BY <1>1, <1>2 DEF seenVars

\* The worker's list, what it may sweep and what it has still to clear stay.
PlanKept == /\ p'.watches = p.watches /\ p'.slugs = p.slugs
            /\ p'.sweepOK = p.sweepOK /\ p'.pendingClear = p.pendingClear
            /\ p'.cleared \subseteq p.cleared

LEMMA TakesJobTypes ==
    ASSUME TypeInv, NEW next \in {"no", "asked", "draining", "synced", "done"}, TakesJob(next)
    PROVE  /\ TypeInv' /\ PlanKept
           /\ \A x \in Slugs : broker'[x].cfg = broker[x].cfg
<1> USE DEF TypeInv
<1>1. PICK out \in SUBSET Topics : RunJob(Head(jobs), out)
    BY DEF TakesJob
<1>2. Head(jobs) \in JobType /\ jobs' \in Seq(JobType) /\ Len(jobs') <= QueueCap
    BY NameAssumption DEF TakesJob, WorkerType
<1> DEFINE job == Head(jobs)
           s == SlugOf[job.name]
           changed == {t \in Topics : Sets(job, s, t) # None}
           want == [t \in Topics |-> IF t \in changed THEN Sets(job, s, t)
                                     ELSE p.want[s][t]]
           going == {t \in changed : p.sent[s][t] # want[t]}
           After(state) == [t \in Topics |-> IF t \in out THEN want[t] ELSE state[t]]
<1>3. /\ p' \in PType /\ p'.slugs = p.slugs /\ p'.cleared = p.cleared
      /\ p'.lastCfg = p.lastCfg /\ p'.pendingClear = p.pendingClear
      /\ PlanKept /\ \A x \in Slugs : broker'[x].cfg = broker[x].cfg
      /\ broker' \in [Slugs -> [cfg : Configs, valueCfg : BOOLEAN, state : States]]
      /\ conn' \in BOOLEAN /\ subs' \in BOOLEAN /\ (subs' => conn')
  <2>1. CASE StillNamed(job)
    <3>1. s \in Slugs
        BY <1>2, <2>1, SlugsType DEF StillNamed, SlugsOnce, JobType
    <3>2. want \in States
      <4>1. p \in PType
          BY DEF WorkerType
      <4>2. \A t \in Topics : Sets(job, s, t) \in Payloads
          BY <1>2, <3>1, <4>1, SetsType
      <4>3. \A t \in Topics : p.want[s][t] \in Payloads
          BY <3>1, <4>1 DEF PType, States
      <4> HIDE DEF changed, job, s
      <4> QED BY <4>2, <4>3 DEF States
    <3>3. \A state \in States : After(state) \in States
      <4> HIDE DEF want
      <4> QED BY <3>2 DEF States
    <3> HIDE DEF want, After, changed, job, s
    <3>4. /\ Goes(going, out)
          /\ p' = [p EXCEPT !.want[s] = want, !.sent[s] = After(@)]
          /\ broker' = [broker EXCEPT ![s].state = After(@)]
        BY <1>1, <2>1 DEF RunJob, want, After, changed, job, s
    <3>5. /\ p' \in PType /\ p'.slugs = p.slugs /\ p'.cleared = p.cleared
          /\ p'.lastCfg = p.lastCfg /\ p'.pendingClear = p.pendingClear /\ PlanKept
        BY <3>1, <3>2, <3>3, <3>4 DEF WorkerType, PType, PlanKept
    <3>6. /\ broker' \in [Slugs -> [cfg : Configs, valueCfg : BOOLEAN, state : States]]
          /\ \A x \in Slugs : broker'[x].cfg = broker[x].cfg
        BY <3>1, <3>3, <3>4 DEF WorldType
    <3> HIDE DEF going
    <3>7. conn' \in BOOLEAN /\ subs' \in BOOLEAN /\ (subs' => conn')
        BY <3>4, GoesSome
    <3> QED BY <3>5, <3>6, <3>7
  <2>2. CASE ~StillNamed(job)
    <3>1. UNCHANGED <<p, broker, conn, subs>>
        BY <1>1, <2>2 DEF RunJob
    <3>2. conn' \in BOOLEAN /\ subs' \in BOOLEAN /\ (subs' => conn')
        BY <3>1, NoneGoes
    <3> QED BY <3>1, <3>2 DEF WorkerType, WorldType, PlanKept
  <2> QED BY <2>1, <2>2
<1>4. /\ w' = w /\ quit' = next
      /\ UNCHANGED <<syncCh, strays, owners, scene, saved, handed, settled, record, said>>
  <2>1. w' = w /\ quit' = next
      BY DEF TakesJob
  <2>2. UNCHANGED <<syncCh, strays, owners, scene, saved, handed, settled, record, said>>
      BY <1>1, RunJobKeeps
  <2> QED BY <2>1, <2>2
<1>5. WorkerType'
    BY <1>2, <1>3, <1>4 DEF WorkerType
<1>6. WorldType'
  <2>1. newest' \in [Names -> Nat]
    <3>1. Newest
        BY <1>1, RunJobKeeps
    <3>2. newest \in [Names -> Nat]
        BY DEF WorldType
    <3> QED BY <1>3, <3>1, <3>2, NewestType
  <2> QED BY <1>3, <1>4, <2>1 DEF WorldType
<1>7. SlugsOnce' /\ ListSwapped' /\ ClearsKnown'
    BY <1>3, <1>4 DEF SlugsOnce, ListSwapped, ClearsKnown, claimedSlugs
<1> QED BY <1>3, <1>5, <1>6, <1>7

\* A config takes no reading with it.
LEMMA AnnouncesTypes ==
    ASSUME TypeInv, NEW done \in SUBSET Winners(w.list), Announces(done)
    PROVE  /\ p' \in PType /\ p'.slugs = p.slugs /\ p'.cleared = p.cleared
           /\ p'.watches = w.list /\ p'.sweepOK = p.sweepOK
           /\ \A s \in Slugs \ SlugsOf(NamesOf(w.list)) : broker'[s].cfg = broker[s].cfg
           /\ p'.lastCfg = p.lastCfg \cup SlugsOf(NamesOf(w.list))
           /\ p'.pendingClear = p.pendingClear
           /\ broker' \in BrokerType
           /\ \A s \in Slugs : /\ p'.want[s].reading = p.want[s].reading
                               /\ broker'[s].state.reading = broker[s].state.reading
<1> DEFINE out(s) == \E e \in done : SlugOf[e.name] = s
           of(s) == CHOOSE e \in done : SlugOf[e.name] = s
           gone(s) == out(s) /\ ClearsValue(of(s))
           NoValue(state, s) == IF gone(s) THEN [state EXCEPT !.value = None] ELSE state
<1>1. p \in PType /\ w.list \in Lists /\ broker \in BrokerType
    BY DEF TypeInv, WorkerType, WorldType, WType, BrokerType
<1>2. \A e \in done : e \in [name : Names, number : BOOLEAN]
    BY <1>1, ListTypes
<1>3. \A s \in Slugs : out(s) => of(s) \in [name : Names, number : BOOLEAN]
    BY <1>2
<1>4. \A s \in Slugs, state \in States :
        NoValue(state, s) \in States /\ NoValue(state, s).reading = state.reading
  <2> HIDE DEF gone
  <2> QED BY PayloadTypes DEF States, Topics
<1>5. /\ broker' = [s \in Slugs |->
            IF out(s)
            THEN [cfg |-> <<of(s).name>>,
                  valueCfg |-> of(s).number \/ (broker[s].valueCfg /\ ~gone(s)),
                  state |-> NoValue(broker[s].state, s)]
            ELSE broker[s]]
      /\ p' = [p EXCEPT
            !.watches = w.list,
            !.lastCfg = @ \cup SlugsOf(NamesOf(w.list)),
            !.want = [s \in Slugs |-> NoValue(@[s], s)],
            !.sent = [s \in Slugs |-> NoValue(@[s], s)],
            !.optCfg = [s \in Slugs |->
                IF ~out(s) THEN @[s]
                ELSE IF of(s).number THEN "there" ELSE "cleared"]]
    BY DEF Announces
<1> HIDE DEF out, of, gone, NoValue
<1>6. /\ broker' \in BrokerType
      /\ \A s \in Slugs : broker'[s].state.reading = broker[s].state.reading
      /\ \A s \in Slugs : ~out(s) => broker'[s].cfg = broker[s].cfg
  <2>1. ASSUME NEW s \in Slugs, out(s)
        PROVE  /\ broker'[s] \in [cfg : Configs, valueCfg : BOOLEAN, state : States]
               /\ broker'[s].state.reading = broker[s].state.reading
    <3>1. /\ broker'[s].cfg = <<of(s).name>>
          /\ broker'[s].state = NoValue(broker[s].state, s)
          /\ broker'[s] = [cfg |-> <<of(s).name>>,
                  valueCfg |-> of(s).number \/ (broker[s].valueCfg /\ ~gone(s)),
                  state |-> NoValue(broker[s].state, s)]
        BY <1>5, <2>1
    <3>2. <<of(s).name>> \in Configs
        BY <1>3, <2>1 DEF Configs
    <3>3. broker[s].state \in States
        BY <1>1 DEF BrokerType
    <3>4. (of(s).number \/ (broker[s].valueCfg /\ ~gone(s))) \in BOOLEAN
        OBVIOUS
    <3> QED BY <3>1, <3>2, <3>3, <3>4, <1>4
  <2>2. ASSUME NEW s \in Slugs, ~out(s)
        PROVE  broker'[s] = broker[s]
      BY <1>5, <2>2
  <2> QED BY <1>1, <1>5, <2>1, <2>2 DEF BrokerType
<1>7. /\ p' \in PType /\ p'.slugs = p.slugs /\ p'.cleared = p.cleared
      /\ p'.lastCfg = p.lastCfg \cup SlugsOf(NamesOf(w.list))
      /\ p'.pendingClear = p.pendingClear
      /\ p'.watches = w.list /\ p'.sweepOK = p.sweepOK
      /\ \A s \in Slugs : p'.want[s].reading = p.want[s].reading
  <2>1. SlugsOf(NamesOf(w.list)) \in SUBSET Slugs
      BY <1>1, ListTypes
  <2> DEFINE want == [s \in Slugs |-> NoValue(p.want[s], s)]
             sent == [s \in Slugs |-> NoValue(p.sent[s], s)]
             optCfg == [s \in Slugs |-> IF ~out(s) THEN p.optCfg[s]
                                        ELSE IF of(s).number THEN "there" ELSE "cleared"]
             lastCfg == p.lastCfg \cup SlugsOf(NamesOf(w.list))
  <2>2. want \in [Slugs -> States] /\ sent \in [Slugs -> States]
      BY <1>1, <1>4 DEF PType
  <2>3. \A s \in Slugs : want[s].reading = p.want[s].reading
      BY <1>1, <1>4 DEF PType
  <2>4. optCfg \in [Slugs -> {"unknown", "there", "cleared"}]
      BY <1>1 DEF PType
  <2>5. lastCfg \in SUBSET Slugs
      BY <1>1, <2>1 DEF PType
  <2>6. p' = [p EXCEPT !.watches = w.list, !.lastCfg = lastCfg, !.want = want,
                       !.sent = sent, !.optCfg = optCfg]
      BY <1>5
  <2> HIDE DEF want, sent, optCfg
  <2>7. p' \in PType /\ p'.slugs = p.slugs /\ p'.cleared = p.cleared
        /\ p'.lastCfg = lastCfg /\ p'.pendingClear = p.pendingClear /\ p'.want = want
        /\ p'.watches = w.list /\ p'.sweepOK = p.sweepOK
    <3> HIDE DEF lastCfg
    <3> QED BY <1>1, <2>2, <2>4, <2>5, <2>6 DEF PType
  <2> QED BY <2>3, <2>7
<1>8. \A s \in Slugs \ SlugsOf(NamesOf(w.list)) : ~out(s)
    BY DEF out, SlugsOf, NamesOf
<1> QED BY <1>6, <1>7, <1>8

LEMMA AnnounceTypes ==
    ASSUME TypeInv, Announce
    PROVE  /\ TypeInv'
           /\ \A s \in Slugs : /\ p'.want[s].reading = p.want[s].reading
                               /\ broker'[s].state.reading = broker[s].state.reading
<1>1. PICK done \in SUBSET Winners(w.list) :
        /\ Announces(done)
        /\ Goes(Winners(w.list), done) \/ UNCHANGED <<conn, subs>>
    BY DEF Announce
<1>2. /\ p' \in PType /\ p'.slugs = p.slugs /\ p'.cleared = p.cleared
      /\ p'.lastCfg = p.lastCfg \cup SlugsOf(NamesOf(w.list))
      /\ p'.pendingClear = p.pendingClear
      /\ broker' \in BrokerType
      /\ \A s \in Slugs : /\ p'.want[s].reading = p.want[s].reading
                          /\ broker'[s].state.reading = broker[s].state.reading
    BY <1>1, AnnouncesTypes
<1>3. conn' \in BOOLEAN /\ subs' \in BOOLEAN /\ (subs' => conn')
    BY <1>1, GoesSome, NoneGoes DEF TypeInv
<1>4. /\ w' = [w EXCEPT !.pc = "swap"] /\ Newest
      /\ UNCHANGED <<scene, saved, handed, syncCh, jobs, quit, strays, owners, settled,
                     record, said>>
    BY DEF Announce, chans, seenVars
<1>5. w' \in WType /\ w'.pc = "swap" /\ w'.list = w.list
    BY <1>4 DEF TypeInv, WorkerType, WType
<1>6. WorkerType'
    BY <1>2, <1>4, <1>5 DEF TypeInv, WorkerType
<1>7. newest' \in [Names -> Nat]
    BY <1>2, <1>4, NewestType DEF TypeInv, WorldType, BrokerType
<1>8. WorldType'
    BY <1>2, <1>3, <1>4, <1>7 DEF TypeInv, WorldType, BrokerType
<1>9. SlugsOnce' /\ ListSwapped' /\ ClearsKnown'
    BY <1>2, <1>5 DEF TypeInv, SlugsOnce, ListSwapped, ClearsKnown, claimedSlugs
<1> QED BY <1>2, <1>6, <1>8, <1>9 DEF TypeInv

\* What is done with is no longer pending, is in no config sent, and may be cleared
\* again for Home Assistant.
ClearsDone(q, claimed) ==
    \E done : /\ p'.pendingClear = (q.pendingClear \ claimed) \ done
              /\ done \subseteq q.pendingClear
              /\ p'.cleared \subseteq q.cleared \cup done
              /\ p'.lastCfg = q.lastCfg \ done

\* What a flush clears, done: the rest stays pending, and no reading changes but
\* to none.
LEMMA FlushEffect ==
    ASSUME WorldType, NEW q \in PType, NEW claimed \in SUBSET Slugs, NEW connected,
           Flush(q, claimed, connected)
    PROVE  /\ conn' \in BOOLEAN /\ subs' \in BOOLEAN /\ (subs' => conn')
           /\ p' \in PType /\ p'.slugs = q.slugs /\ p'.want = q.want
           /\ p'.watches = q.watches /\ p'.sweepOK = q.sweepOK
           /\ ClearsDone(q, claimed)
           /\ broker' \in BrokerType
           /\ \A s \in Slugs :
                 broker'[s].state.reading \in {None, broker[s].state.reading}
           /\ \A s \in Slugs : broker'[s].cfg \in {None, broker[s].cfg}
           /\ \A s \in Slugs \ q.pendingClear : broker'[s].cfg = broker[s].cfg
<1> DEFINE waiting == q.pendingClear \ claimed
           all == waiting \X {"config", "state"}
<1>1. PICK out \in (IF connected THEN SUBSET all ELSE {{}}) :
        LET configs == {s \in waiting : <<s, "config">> \in out}
            states  == {s \in waiting : <<s, "state">> \in out}
            done    == configs \cap states
        IN
        /\ IF connected THEN Goes(all, out)
           ELSE UNCHANGED <<conn, subs, arriving, haMsgs, left>>
        /\ broker' = [s \in Slugs |->
              [cfg |-> IF s \in configs THEN None ELSE broker[s].cfg,
               valueCfg |-> broker[s].valueCfg /\ s \notin configs,
               state |-> IF s \in states THEN NoState ELSE broker[s].state]]
        /\ p' = [q EXCEPT
              !.pendingClear = waiting \ done,
              !.optCfg = [s \in Slugs |-> IF s \in done THEN "unknown" ELSE @[s]],
              !.cleared = Remembers(q, done),
              !.lastCfg = @ \ done]
    BY Zenon DEF Flush
<1> DEFINE configs == {s \in waiting : <<s, "config">> \in out}
           states  == {s \in waiting : <<s, "state">> \in out}
           done    == configs \cap states
           optCfg  == [s \in Slugs |-> IF s \in done THEN "unknown" ELSE q.optCfg[s]]
<1>2. /\ Goes(all, out) \/ UNCHANGED <<conn, subs>>
      /\ broker' = [s \in Slugs |->
              [cfg |-> IF s \in configs THEN None ELSE broker[s].cfg,
               valueCfg |-> broker[s].valueCfg /\ s \notin configs,
               state |-> IF s \in states THEN NoState ELSE broker[s].state]]
      /\ p' = [q EXCEPT !.pendingClear = waiting \ done, !.optCfg = optCfg,
                        !.cleared = Remembers(q, done), !.lastCfg = q.lastCfg \ done]
    BY <1>1
<1>3. conn' \in BOOLEAN /\ subs' \in BOOLEAN /\ (subs' => conn')
    BY <1>2, GoesSome, NoneGoes
<1>4. waiting \in SUBSET Slugs /\ done \in SUBSET Slugs
    BY DEF PType
<1>5. optCfg \in [Slugs -> {"unknown", "there", "cleared"}]
    BY DEF PType
<1>6. /\ Remembers(q, done) \in SUBSET Slugs
      /\ Remembers(q, done) \subseteq q.cleared \cup done
    BY <1>4 DEF Remembers, PType
<1> HIDE DEF waiting, configs, states, done, optCfg
<1>7. /\ p' \in PType /\ p'.slugs = q.slugs /\ p'.want = q.want
      /\ p'.watches = q.watches /\ p'.sweepOK = q.sweepOK
      /\ p'.pendingClear = waiting \ done
      /\ p'.cleared = Remembers(q, done)
      /\ p'.lastCfg = q.lastCfg \ done
    BY <1>2, <1>4, <1>5, <1>6 DEF PType
<1>8. /\ broker' \in BrokerType
      /\ \A s \in Slugs :
            broker'[s].state.reading \in {None, broker[s].state.reading}
      /\ \A s \in Slugs : broker'[s].cfg = (IF s \in configs THEN None ELSE broker[s].cfg)
  <2>1. broker \in BrokerType
      BY DEF WorldType, BrokerType
  <2>2. ASSUME NEW s \in Slugs
        PROVE  /\ (IF s \in configs THEN None ELSE broker[s].cfg) \in Configs
               /\ (broker[s].valueCfg /\ s \notin configs) \in BOOLEAN
               /\ (IF s \in states THEN NoState ELSE broker[s].state) \in States
               /\ (IF s \in states THEN NoState ELSE broker[s].state).reading
                     \in {None, broker[s].state.reading}
      BY <2>1, PayloadTypes, BareType DEF BrokerType, Configs
  <2> QED BY <1>2, <2>2 DEF BrokerType
<1>9. p'.pendingClear = (q.pendingClear \ claimed) \ done
    BY <1>7 DEF waiting
<1>10. /\ \A s \in Slugs : broker'[s].cfg \in {None, broker[s].cfg}
       /\ \A s \in Slugs \ q.pendingClear : broker'[s].cfg = broker[s].cfg
  <2>1. configs \subseteq q.pendingClear
      BY DEF configs, waiting
  <2> QED BY <1>8, <2>1
<1>11. ClearsDone(q, claimed)
  <2>1. done \subseteq q.pendingClear
      BY DEF done, configs, waiting
  <2> QED BY <1>6, <1>7, <1>9, <2>1 DEF ClearsDone
<1> QED BY <1>3, <1>7, <1>8, <1>10, <1>11

LEMMA FlushTypes ==
    ASSUME WorldType, NEW q \in PType, NEW claimed \in SUBSET Slugs, NEW connected,
           Flush(q, claimed, connected)
    PROVE  /\ conn' \in BOOLEAN /\ subs' \in BOOLEAN /\ (subs' => conn')
           /\ p' \in PType /\ p'.slugs = q.slugs /\ p'.want = q.want
           /\ \E done : /\ p'.pendingClear = (q.pendingClear \ claimed) \ done
                        /\ p'.cleared \subseteq q.cleared \cup done
                        /\ p'.lastCfg = q.lastCfg \ done
           /\ broker' \in BrokerType
           /\ \A s \in Slugs :
                 broker'[s].state.reading \in {None, broker[s].state.reading}
<1>1. \E done : /\ p'.pendingClear = (q.pendingClear \ claimed) \ done
                /\ p'.cleared \subseteq q.cleared \cup done
                /\ p'.lastCfg = q.lastCfg \ done
  <2>1. ClearsDone(q, claimed)
      BY FlushEffect
  <2> QED BY <2>1 DEF ClearsDone
<1>2. /\ conn' \in BOOLEAN /\ subs' \in BOOLEAN /\ (subs' => conn')
      /\ p' \in PType /\ p'.slugs = q.slugs /\ p'.want = q.want
      /\ broker' \in BrokerType
      /\ \A s \in Slugs : broker'[s].state.reading \in {None, broker[s].state.reading}
    BY FlushEffect
<1> QED BY <1>1, <1>2

LEMMA FlushCfgs ==
    ASSUME WorldType, NEW q \in PType, NEW claimed \in SUBSET Slugs, NEW connected,
           Flush(q, claimed, connected)
    PROVE  /\ p'.watches = q.watches /\ p'.slugs = q.slugs /\ p'.sweepOK = q.sweepOK
           /\ p'.pendingClear \cup p'.cleared \subseteq q.pendingClear \cup q.cleared
           /\ \A s \in Slugs : broker'[s].cfg \in {None, broker[s].cfg}
           /\ \A s \in Slugs \ q.pendingClear : broker'[s].cfg = broker[s].cfg
<1>1. \E done : /\ p'.pendingClear = (q.pendingClear \ claimed) \ done
                /\ done \subseteq q.pendingClear
                /\ p'.cleared \subseteq q.cleared \cup done
                /\ p'.lastCfg = q.lastCfg \ done
  <2>1. ClearsDone(q, claimed)
      BY FlushEffect
  <2> QED BY <2>1 DEF ClearsDone
<1>2. /\ p'.watches = q.watches /\ p'.slugs = q.slugs /\ p'.sweepOK = q.sweepOK
      /\ \A s \in Slugs : broker'[s].cfg \in {None, broker[s].cfg}
      /\ \A s \in Slugs \ q.pendingClear : broker'[s].cfg = broker[s].cfg
    BY FlushEffect
<1> QED BY <1>1, <1>2

LEMMA SwapTypes ==
    ASSUME TypeInv, Swap
    PROVE  /\ TypeInv'
           /\ \A s \in Slugs :
                 /\ p'.want[s].reading \in {None, p.want[s].reading}
                 /\ broker'[s].state.reading \in {None, broker[s].state.reading}
<1> DEFINE next == NamesOf(w.list)
           gone == Vanished(next)
           q == [p EXCEPT !.slugs = next, !.pendingClear = @ \cup gone,
                          !.want = [s \in Slugs |-> IF s \in gone THEN NoState ELSE @[s]],
                          !.sent = [s \in Slugs |-> IF s \in gone THEN NoState ELSE @[s]]]
<1>1. p \in PType /\ w.list \in Lists /\ w \in WType
    BY DEF TypeInv, WorkerType, WType
<1>2. /\ next \in SUBSET Names /\ SlugsOf(next) \in SUBSET Slugs
      /\ \A n \in next : SlugOf[n] # NoSlug
      /\ \A n, m \in next : SlugOf[n] = SlugOf[m] => n = m
    BY <1>1, ListTypes, WinnersApart
<1>3. gone = claimedSlugs \ SlugsOf(next) /\ gone \in SUBSET Slugs
  <2>1. gone = claimedSlugs \ SlugsOf(next)
      BY DEF Vanished, claimedSlugs
  <2>2. claimedSlugs \in SUBSET Slugs
      BY <1>1, SlugsType DEF claimedSlugs, SlugsOf, PType, TypeInv, SlugsOnce
  <2> QED BY <2>1, <2>2
<1> HIDE DEF next, gone
<1>4. /\ q \in PType /\ q.slugs = next /\ q.pendingClear = p.pendingClear \cup gone
      /\ q.cleared = p.cleared /\ q.lastCfg = p.lastCfg
      /\ \A s \in Slugs : q.want[s].reading \in {None, p.want[s].reading}
  <2> DEFINE want == [s \in Slugs |-> IF s \in gone THEN NoState ELSE p.want[s]]
             sent == [s \in Slugs |-> IF s \in gone THEN NoState ELSE p.sent[s]]
  <2>1. want \in [Slugs -> States] /\ sent \in [Slugs -> States]
      BY <1>1, PayloadTypes DEF PType
  <2>2. \A s \in Slugs : want[s].reading \in {None, p.want[s].reading}
      BY BareType
  <2>3. q = [p EXCEPT !.slugs = next, !.pendingClear = @ \cup gone,
                      !.want = want, !.sent = sent]
      OBVIOUS
  <2> HIDE DEF want, sent, q
  <2>4. /\ q \in PType /\ q.slugs = next /\ q.pendingClear = p.pendingClear \cup gone
        /\ q.cleared = p.cleared /\ q.lastCfg = p.lastCfg /\ q.want = want
      BY <1>1, <1>2, <1>3, <2>1, <2>3 DEF PType
  <2> QED BY <2>2, <2>4
<1>5. /\ Flush(q, SlugsOf(next), w.connected)
      /\ w' = [w EXCEPT !.pc = IF w.resync THEN "states" ELSE "sweep"] /\ Newest
      /\ UNCHANGED <<scene, saved, handed, syncCh, jobs, quit, strays, owners, settled,
                     record, said>>
    BY DEF Swap, chans, seenVars, next, gone
<1> HIDE DEF q
<1>6. /\ conn' \in BOOLEAN /\ subs' \in BOOLEAN /\ (subs' => conn')
      /\ p' \in PType /\ p'.slugs = next /\ p'.want = q.want
      /\ \E done : /\ p'.pendingClear = ((p.pendingClear \cup gone) \ SlugsOf(next)) \ done
                   /\ p'.cleared \subseteq p.cleared \cup done
                   /\ p'.lastCfg = p.lastCfg \ done
      /\ broker' \in BrokerType
      /\ \A s \in Slugs : broker'[s].state.reading \in {None, broker[s].state.reading}
  <2>1. WorldType
      BY DEF TypeInv
  <2>2. /\ conn' \in BOOLEAN /\ subs' \in BOOLEAN /\ (subs' => conn')
        /\ p' \in PType /\ p'.slugs = q.slugs /\ p'.want = q.want
        /\ \E done : /\ p'.pendingClear = (q.pendingClear \ SlugsOf(next)) \ done
                     /\ p'.cleared \subseteq q.cleared \cup done
                     /\ p'.lastCfg = q.lastCfg \ done
        /\ broker' \in BrokerType
        /\ \A s \in Slugs : broker'[s].state.reading \in {None, broker[s].state.reading}
    <3>1. q \in PType /\ SlugsOf(next) \in SUBSET Slugs
        BY <1>2, <1>4
    <3>2. Flush(q, SlugsOf(next), w.connected)
        BY <1>5
    <3> QED BY <2>1, <3>1, <3>2, FlushTypes
  <2> QED BY <1>4, <2>2
<1>7. w' \in WType /\ w'.list = w.list
    BY <1>1, <1>5 DEF WType
<1>8. WorkerType'
    BY <1>5, <1>6, <1>7 DEF TypeInv, WorkerType
<1>9. WorldType'
  <2>1. newest' \in [Names -> Nat]
      BY <1>5, <1>6, NewestType DEF TypeInv, WorldType, BrokerType
  <2> QED BY <1>5, <1>6, <2>1 DEF TypeInv, WorldType, BrokerType
<1>10. SlugsOnce' /\ ListSwapped'
    BY <1>2, <1>6, <1>7 DEF SlugsOnce, ListSwapped, next
<1>11. ClearsKnown'
  <2>1. p.cleared \cap p.lastCfg \subseteq claimedSlugs \cup p.pendingClear \cup SlugsOf(next)
      BY DEF TypeInv, ClearsKnown, next
  <2>2. claimedSlugs' = SlugsOf(next)
      BY <1>6 DEF claimedSlugs
  <2> QED BY <1>3, <1>6, <2>1, <2>2 DEF ClearsKnown
<1> QED BY <1>4, <1>6, <1>8, <1>9, <1>10, <1>11 DEF TypeInv

LEMMA SweepClearsTypes ==
    ASSUME TypeInv, SweepClears
    PROVE  /\ TypeInv' /\ p'.want = p.want
           /\ \A s \in Slugs :
                 broker'[s].state.reading \in {None, broker[s].state.reading}
<1>1. p \in PType /\ w \in WType
    BY DEF TypeInv, WorkerType
<1>2. claimedSlugs \in SUBSET Slugs
    BY <1>1, SlugsType DEF claimedSlugs, SlugsOf, PType, TypeInv, SlugsOnce
<1>3. /\ Flush(p, claimedSlugs, TRUE) /\ w.pc = "clear"
      /\ w' = [w EXCEPT !.pc = "owners"] /\ Newest
      /\ UNCHANGED <<scene, saved, handed, syncCh, jobs, quit, strays, owners, settled,
                     record, said>>
    BY DEF SweepClears, chans, seenVars
<1>4. /\ conn' \in BOOLEAN /\ subs' \in BOOLEAN /\ (subs' => conn')
      /\ p' \in PType /\ p'.slugs = p.slugs /\ p'.want = p.want
      /\ \E done : /\ p'.pendingClear = (p.pendingClear \ claimedSlugs) \ done
                   /\ p'.cleared \subseteq p.cleared \cup done
                   /\ p'.lastCfg = p.lastCfg \ done
      /\ broker' \in BrokerType
      /\ \A s \in Slugs : broker'[s].state.reading \in {None, broker[s].state.reading}
    BY <1>1, <1>2, <1>3, FlushTypes DEF TypeInv
<1>5. w' \in WType /\ w'.list = w.list /\ w'.pc = "owners"
    BY <1>1, <1>3 DEF WType
<1>6. WorkerType'
    BY <1>3, <1>4, <1>5 DEF TypeInv, WorkerType
<1>7. WorldType'
  <2>1. newest' \in [Names -> Nat]
      BY <1>3, <1>4, NewestType DEF TypeInv, WorldType, BrokerType
  <2> QED BY <1>3, <1>4, <2>1 DEF TypeInv, WorldType, BrokerType
<1>8. SlugsOnce' /\ ListSwapped'
    BY <1>3, <1>4, <1>5 DEF TypeInv, SlugsOnce, ListSwapped
<1>9. ClearsKnown'
  <2>1. claimedSlugs' = claimedSlugs
      BY <1>4 DEF claimedSlugs
  <2> QED BY <1>4, <1>5, <2>1 DEF TypeInv, ClearsKnown
<1> QED BY <1>4, <1>6, <1>7, <1>8, <1>9 DEF TypeInv

\* A resync sends again what the worker has, and nothing else changes.
LEMMA ResendTypes ==
    ASSUME TypeInv, Resend
    PROVE  /\ TypeInv' /\ p'.want = p.want /\ p'.slugs = p.slugs /\ PlanKept
           /\ \A s \in Slugs : broker'[s].cfg = broker[s].cfg
           /\ \A s \in Slugs :
                 \/ broker'[s].state.reading = broker[s].state.reading
                 \/ /\ s \in claimedSlugs /\ broker'[s].state.reading = p.want[s].reading
                    /\ p.want[s].reading # None
<1> DEFINE all == {x \in claimedSlugs \X Topics :
                      p.want[x[1]][x[2]] \notin {None, p.sent[x[1]][x[2]]}}
           Some(out, s, state) == [t \in Topics |-> IF <<s, t>> \in out THEN p.want[s][t]
                                                    ELSE state[t]]
<1>1. PICK out \in SUBSET all :
        /\ Goes(all, out)
        /\ broker' = [s \in Slugs |-> [broker[s] EXCEPT !.state = Some(out, s, @)]]
        /\ p' = [p EXCEPT !.sent = [s \in Slugs |-> Some(out, s, @[s])]]
    BY Zenon DEF Resend
<1>2. /\ w.pc = "states" /\ w' = [w EXCEPT !.pc = "follow"] /\ Newest
      /\ UNCHANGED <<scene, saved, handed, syncCh, jobs, quit, strays, owners, settled,
                     record, said>>
  <2>1. /\ w.pc = "states" /\ w' = [w EXCEPT !.pc = "follow"] /\ Newest
        /\ UNCHANGED <<scene, saved, handed, chans, quit, seenVars, haState, settled,
                       record, ours, ha, said, due, missed>>
      BY Zenon DEF Resend
  <2> QED BY <2>1 DEF chans, seenVars
<1> DEFINE After(s, state) == Some(out, s, state)
<1>3. p \in PType /\ w \in WType /\ broker \in BrokerType
    BY DEF TypeInv, WorkerType, WorldType, BrokerType
<1>4. \A s \in Slugs, state \in States : After(s, state) \in States
    BY <1>3 DEF PType, States
<1>5. \A s \in Slugs, state \in States :
        \/ After(s, state).reading = state.reading
        \/ /\ s \in claimedSlugs /\ After(s, state).reading = p.want[s].reading
           /\ p.want[s].reading # None
  <2>1. out \subseteq all
    <3> HIDE DEF all
    <3> QED OBVIOUS
  <2> QED BY <2>1 DEF Topics
<1> HIDE DEF After, Some, all
<1> DEFINE sent == [s \in Slugs |-> After(s, p.sent[s])]
<1>6. /\ sent \in [Slugs -> States] /\ p' = [p EXCEPT !.sent = sent]
      /\ broker' = [s \in Slugs |-> [broker[s] EXCEPT !.state = After(s, @)]]
  <2>1. sent \in [Slugs -> States]
      BY <1>3, <1>4 DEF PType
  <2>2. p' = [p EXCEPT !.sent = sent]
      BY <1>1 DEF After
  <2>3. broker' = [s \in Slugs |-> [broker[s] EXCEPT !.state = After(s, @)]]
      BY <1>1 DEF After
  <2> QED BY <2>1, <2>2, <2>3
<1> HIDE DEF sent
<1>7. /\ p' \in PType /\ p'.want = p.want /\ p'.slugs = p.slugs /\ p'.cleared = p.cleared
      /\ p'.lastCfg = p.lastCfg /\ p'.pendingClear = p.pendingClear /\ PlanKept
    BY <1>3, <1>6 DEF PType, PlanKept
<1>8. /\ broker' \in BrokerType
      /\ \A s \in Slugs : /\ broker'[s].state = After(s, broker[s].state)
                          /\ broker'[s].cfg = broker[s].cfg
  <2>1. \A s \in Slugs : broker[s] \in [cfg : Configs, valueCfg : BOOLEAN, state : States]
      BY <1>3 DEF BrokerType
  <2>2. \A s \in Slugs : /\ broker'[s] \in [cfg : Configs, valueCfg : BOOLEAN, state : States]
                         /\ broker'[s].state = After(s, broker[s].state)
                         /\ broker'[s].cfg = broker[s].cfg
      BY <1>4, <1>6, <2>1
  <2> QED BY <1>6, <2>2 DEF BrokerType
<1>9. \A s \in Slugs :
          \/ broker'[s].state.reading = broker[s].state.reading
          \/ /\ s \in claimedSlugs /\ broker'[s].state.reading = p.want[s].reading
             /\ p.want[s].reading # None
    BY <1>3, <1>5, <1>8 DEF BrokerType
<1>10. conn' \in BOOLEAN /\ subs' \in BOOLEAN /\ (subs' => conn')
    BY <1>1, GoesSome DEF TypeInv
<1>11. w' \in WType /\ w'.pc = "follow" /\ w'.list = w.list
    BY <1>2, <1>3 DEF WType
<1>12. WorkerType'
    BY <1>2, <1>7, <1>11 DEF TypeInv, WorkerType
<1>13. WorldType'
  <2>1. newest' \in [Names -> Nat]
      BY <1>2, <1>8, NewestType DEF TypeInv, WorldType, BrokerType
  <2> QED BY <1>2, <1>8, <1>10, <2>1 DEF TypeInv, WorldType, BrokerType
<1>14. SlugsOnce' /\ ListSwapped' /\ ClearsKnown'
    BY <1>2, <1>7, <1>11 DEF TypeInv, SlugsOnce, ListSwapped, ClearsKnown, claimedSlugs
<1> QED BY <1>7, <1>8, <1>9, <1>12, <1>13, <1>14 DEF TypeInv

LEMMA FollowTypes ==
    ASSUME TypeInv, Follow
    PROVE  /\ TypeInv' /\ p'.want = p.want /\ p'.slugs = p.slugs
           /\ UNCHANGED <<jobs, broker, said, newest>>
<1>1. PICK ok \in scene.sweeps :
        p' = [p EXCEPT !.swept = {}, !.ownersSent = NoOurs,
                       !.followed = conn, !.sweepOK = conn /\ ok]
    BY Zenon DEF Follow
<1>2. /\ subs' = p'.sweepOK /\ settled' = (settled /\ ~conn)
      /\ w.pc = "follow" /\ w' = [w EXCEPT !.pc = "sweep"]
      /\ UNCHANGED <<scene, saved, handed, syncCh, jobs, quit, strays, owners, conn,
                     broker, record, said, newest>>
    BY DEF Follow, chans, seenVars, retained, history
<1>3. p \in PType /\ w \in WType /\ conn \in BOOLEAN
    BY DEF TypeInv, WorkerType, WorldType
<1>4. /\ p' \in PType /\ p'.want = p.want /\ p'.slugs = p.slugs /\ p'.cleared = p.cleared
      /\ p'.lastCfg = p.lastCfg /\ p'.pendingClear = p.pendingClear
      /\ p'.sweepOK = (conn /\ ok)
    BY <1>1, <1>3 DEF PType, NoOurs
<1>5. w' \in WType /\ w'.list = w.list /\ w'.pc = "sweep"
    BY <1>2, <1>3 DEF WType
<1>6. WorkerType'
    BY <1>2, <1>4, <1>5 DEF TypeInv, WorkerType
<1>7. conn' = conn /\ subs' \in BOOLEAN /\ (subs' => conn') /\ settled' \in BOOLEAN
    BY <1>2, <1>4
<1>8. WorldType'
    BY <1>2, <1>3, <1>7 DEF TypeInv, WorldType
<1>9. SlugsOnce' /\ ListSwapped' /\ ClearsKnown'
    BY <1>2, <1>4, <1>5 DEF TypeInv, SlugsOnce, ListSwapped, ClearsKnown, claimedSlugs
<1> QED BY <1>2, <1>4, <1>6, <1>8, <1>9 DEF TypeInv

\* A stray found is in lastCfg and pending at once.
LEMMA SweepTypes ==
    ASSUME TypeInv, Sweep
    PROVE  /\ TypeInv' /\ p'.want = p.want /\ p'.slugs = p.slugs
           /\ UNCHANGED <<jobs, broker, said, newest>>
<1>1. /\ w.pc = "sweep"
      /\ UNCHANGED <<scene, saved, handed, syncCh, jobs, quit, settled, broker, said, newest>>
      /\ UNCHANGED <<conn, subs>> \/ (conn' = FALSE /\ subs' = FALSE)
    BY DEF Sweep, Drop, chans, history
<1>2. p \in PType /\ w \in WType /\ NamesOf(w.list) \subseteq p.slugs
    BY <1>1 DEF TypeInv, WorkerType, ListSwapped
<1>3. /\ strays' \in {strays, {}} /\ owners' \in {owners, {}} /\ record' \in {record, {}}
    BY Zenon DEF Sweep
<1>4. w' = Idle \/ w' = [w EXCEPT !.pc = "owners"] \/ w' = [w EXCEPT !.pc = "clear"]
    BY DEF Sweep
<1>5. /\ w' \in WType
      /\ w'.list = <<>> \/ w'.list = w.list
    BY <1>2, <1>4, IdleType DEF WType
<1>6. /\ p' \in PType /\ p'.want = p.want /\ p'.slugs = p.slugs /\ p'.cleared = p.cleared
      /\ \E found : /\ p'.lastCfg = p.lastCfg \cup found
                    /\ p'.pendingClear = p.pendingClear \cup found
  <2> DEFINE found == strays \ (claimedSlugs \cup Elsewhere
                                \cup p.pendingClear \cup p.swept)
  <2>1. found \in SUBSET Slugs
      BY DEF TypeInv, WorkerType
  <2>2. \/ p' = p
        \/ p' = [p EXCEPT !.swept = @ \cup found, !.lastCfg = @ \cup found,
                          !.pendingClear = @ \cup found]
      BY DEF Sweep
  <2> HIDE DEF found
  <2>3. CASE p' = p
    <3>1. p'.lastCfg = p.lastCfg \cup {} /\ p'.pendingClear = p.pendingClear \cup {}
        BY <2>3
    <3> QED BY <1>2, <2>3, <3>1
  <2>4. CASE p' = [p EXCEPT !.swept = @ \cup found, !.lastCfg = @ \cup found,
                            !.pendingClear = @ \cup found]
      BY <1>2, <2>1, <2>4 DEF PType
  <2> QED BY <2>2, <2>3, <2>4
<1>7. WorkerType'
    BY <1>1, <1>3, <1>5, <1>6 DEF TypeInv, WorkerType
<1>8. newest' = newest /\ WorldType'
  <2>1. conn' \in BOOLEAN /\ subs' \in BOOLEAN /\ (subs' => conn')
    <3>1. CASE UNCHANGED <<conn, subs>>
        BY <3>1 DEF TypeInv, WorldType
    <3>2. CASE conn' = FALSE /\ subs' = FALSE
        BY <3>2, Zenon
    <3> QED BY <1>1, <3>1, <3>2
  <2> QED BY <1>1, <1>3, <2>1 DEF TypeInv, WorldType
<1>9. SlugsOnce' /\ ListSwapped'
    BY <1>1, <1>2, <1>5, <1>6, EmptyList DEF TypeInv, SlugsOnce, ListSwapped
<1>10. ClearsKnown'
  <2>1. claimedSlugs' = claimedSlugs
      BY <1>6 DEF claimedSlugs
  <2>2. SlugsOf(NamesOf(w.list)) \subseteq claimedSlugs
      BY <1>2 DEF claimedSlugs, SlugsOf
  <2> QED BY <1>6, <2>1, <2>2 DEF TypeInv, ClearsKnown
<1> QED BY <1>1, <1>6, <1>7, <1>8, <1>9, <1>10 DEF TypeInv

LEMMA OwnersTypes ==
    ASSUME TypeInv, publishOwners
    PROVE  /\ TypeInv' /\ p'.want = p.want /\ p'.slugs = p.slugs
           /\ UNCHANGED <<jobs, broker, said, newest>>
<1>1. /\ w.pc = "owners" /\ w' = Idle
      /\ UNCHANGED <<scene, saved, handed, syncCh, jobs, quit, strays, owners, conn, subs,
                     settled, broker, record, said, newest>>
    BY DEF publishOwners, chans, net, history
<1>2. p \in PType /\ NamesOf(w.list) \subseteq p.slugs
    BY <1>1 DEF TypeInv, WorkerType, ListSwapped
<1>3. claimedSlugs \in SUBSET Slugs
    BY <1>2, SlugsType DEF claimedSlugs, SlugsOf, PType, TypeInv, SlugsOnce
<1>4. p' = p \/ p' = [p EXCEPT !.ownersSent = [run |-> "this", slugs |-> claimedSlugs]]
    BY DEF publishOwners
<1>5. /\ p' \in PType /\ p'.want = p.want /\ p'.slugs = p.slugs /\ p'.cleared = p.cleared
      /\ p'.lastCfg = p.lastCfg /\ p'.pendingClear = p.pendingClear
    BY <1>2, <1>3, <1>4 DEF PType
<1>6. WorkerType'
    BY <1>1, <1>5, IdleType DEF TypeInv, WorkerType
<1>7. WorldType'
    BY <1>1 DEF TypeInv, WorldType
<1>8. SlugsOnce' /\ ListSwapped'
    BY <1>1, <1>5, IdleType, EmptyList DEF TypeInv, SlugsOnce, ListSwapped
<1>9. ClearsKnown'
  <2>1. SlugsOf(NamesOf(w.list)) \subseteq claimedSlugs /\ claimedSlugs' = claimedSlugs
      BY <1>2, <1>5 DEF claimedSlugs, SlugsOf
  <2> QED BY <1>5, <2>1 DEF TypeInv, ClearsKnown
<1> QED BY <1>1, <1>5, <1>6, <1>7, <1>8, <1>9 DEF TypeInv

LEMMA PickHATypes ==
    ASSUME TypeInv, PickHA
    PROVE  /\ TypeInv' /\ p'.want = p.want /\ p'.slugs = p.slugs
           /\ UNCHANGED <<jobs, said, newest>>
           /\ \A s \in Slugs : /\ broker'[s].state = broker[s].state
                               /\ \/ broker'[s].cfg = broker[s].cfg
                                  \/ broker'[s].cfg = None /\ s \in p.cleared
<1>1. /\ UNCHANGED <<scene, saved, handed, syncCh, jobs, quit, strays, owners, w, settled,
                     record, said, newest>>
    BY DEF PickHA, haChanged, seenVars
<1>2. p \in PType /\ broker \in BrokerType
    BY DEF TypeInv, WorkerType, WorldType, BrokerType
<1>3. \E out : \/ Goes(p.cleared \ claimedSlugs, out)
               \/ UNCHANGED <<conn, subs>>
    BY DEF PickHA, haChanged
<1>4. conn' \in BOOLEAN /\ subs' \in BOOLEAN /\ (subs' => conn')
    BY <1>3, GoesSome, NoneGoes DEF TypeInv
<1> DEFINE up == haState = "online"
           After(out) == [s \in Slugs |-> IF s \in out
                             THEN [broker[s] EXCEPT !.cfg = None, !.valueCfg = FALSE]
                             ELSE broker[s]]
<1>5. PICK out \in SUBSET (p.cleared \ claimedSlugs) :
              /\ \/ p' = [p EXCEPT !.haUp = up, !.cleared = (p.cleared \ claimedSlugs) \ out]
                 \/ p' = [p EXCEPT !.haUp = up]
              /\ broker' = After(out) \/ broker' = broker
    BY Zenon DEF PickHA, haChanged
<1>6. up \in BOOLEAN
    OBVIOUS
<1> HIDE DEF up
<1>7. /\ p' \in PType /\ p'.want = p.want /\ p'.slugs = p.slugs
      /\ p'.cleared \subseteq p.cleared
      /\ p'.lastCfg = p.lastCfg /\ p'.pendingClear = p.pendingClear
  <2>1. CASE p' = [p EXCEPT !.haUp = up, !.cleared = (p.cleared \ claimedSlugs) \ out]
      BY <1>2, <1>6, <2>1 DEF PType
  <2>2. CASE p' = [p EXCEPT !.haUp = up]
      BY <1>2, <1>6, <2>2 DEF PType
  <2> QED BY <1>5, <2>1, <2>2
<1>8. /\ broker' \in BrokerType
      /\ \A s \in Slugs : /\ broker'[s].state = broker[s].state
                          /\ \/ broker'[s].cfg = broker[s].cfg
                             \/ broker'[s].cfg = None /\ s \in p.cleared
  <2>1. CASE broker' = After(out)
    <3>1. \A s \in Slugs : /\ After(out)[s] \in [cfg : Configs, valueCfg : BOOLEAN, state : States]
                           /\ After(out)[s].state = broker[s].state
                           /\ \/ After(out)[s].cfg = broker[s].cfg
                              \/ After(out)[s].cfg = None /\ s \in p.cleared
        BY <1>2, <1>5 DEF BrokerType, Configs
    <3>2. After(out) \in BrokerType
        BY <3>1 DEF BrokerType
    <3> HIDE DEF After
    <3> QED BY <2>1, <3>1, <3>2
  <2>2. CASE broker' = broker
      BY <1>2, <2>2
  <2> QED BY <1>5, <2>1, <2>2
<1>9. WorkerType'
    BY <1>1, <1>7 DEF TypeInv, WorkerType
<1>10. WorldType'
    BY <1>1, <1>4, <1>8 DEF TypeInv, WorldType, BrokerType
<1>11. SlugsOnce' /\ ListSwapped'
    BY <1>1, <1>7 DEF TypeInv, SlugsOnce, ListSwapped
<1>12. ClearsKnown'
    BY <1>1, <1>7 DEF TypeInv, ClearsKnown, claimedSlugs
<1> QED BY <1>1, <1>7, <1>8, <1>9, <1>10, <1>11, <1>12 DEF TypeInv

LEMMA WorkerTypes ==
    ASSUME TypeInv, Worker
    PROVE  TypeInv'
<1>1. CASE PickSync \/ DrainSync \/ PickConn \/ PickStray \/ PickQuit \/ DrainRound
    BY <1>1, PickTypes
<1>2. CASE PickJob \/ DrainJob
  <2>1. \E next \in {"no", "asked", "draining", "synced", "done"} : TakesJob(next)
      BY <1>2 DEF PickJob, DrainJob, TypeInv, WorkerType
  <2> QED BY <2>1, TakesJobTypes
<1> QED BY <1>1, <1>2, PickHATypes, AnnounceTypes, SwapTypes, ResendTypes, FollowTypes,
           SweepTypes, SweepClearsTypes, OwnersTypes DEF Worker

LEMMA NextTypes ==
    ASSUME TypeInv, [Next]_vars
    PROVE  TypeInv'
<1>1. CASE Worker
    BY <1>1, WorkerTypes
<1>2. CASE Callers
    BY <1>2, CallersTypes, OnEventTypes, OnHealthTypes DEF Callers
<1>3. CASE Network
    BY <1>3, NetworkTypes
<1>4. CASE UNCHANGED vars
  <2>1. UNCHANGED <<p, w, syncCh, jobs, quit, strays, owners>>
      BY <1>4 DEF vars, chans, seenVars
  <2>2. UNCHANGED <<scene, saved, handed, conn, subs, settled, broker, record, said, newest>>
      BY <1>4 DEF vars, net, retained, history
  <2>3. WorkerType'
      BY <2>1 DEF TypeInv, WorkerType
  <2>4. WorldType'
      BY <2>2 DEF TypeInv, WorldType
  <2> QED BY <2>1, <2>3, <2>4 DEF TypeInv, SlugsOnce, ListSwapped, ClearsKnown, claimedSlugs
<1> QED BY <1>1, <1>2, <1>3, <1>4 DEF Next

-----------------------------------------------------------------------------
(* Readings. *)

\* What is shown of n is the count of its slug's reading, when that is of n.
LEMMA ShownIs ==
    ASSUME NEW b \in BrokerType, NEW n \in Names
    PROVE  /\ Shown(n, b) \in Nat
           /\ Shown(n, b) > 0 => /\ SlugOf[n] \in Slugs
                                 /\ b[SlugOf[n]].state.reading \in Names \X Nat
                                 /\ b[SlugOf[n]].state.reading = <<n, Shown(n, b)>>
           /\ \A s \in Slugs :
                 /\ SlugOf[n] = s /\ b[s].state.reading \in Names \X Nat
                 /\ b[s].state.reading[1] = n
                 => Shown(n, b) = b[s].state.reading[2]
<1>1. Shown(n, b) \in Nat
    BY ShownType DEF BrokerType
<1>2. ASSUME Shown(n, b) > 0
      PROVE  /\ SlugOf[n] \in Slugs
             /\ b[SlugOf[n]].state.reading \in Names \X Nat
             /\ b[SlugOf[n]].state.reading = <<n, Shown(n, b)>>
  <2> DEFINE x == b[SlugOf[n]].state.reading
  <2>1. SlugOf[n] # NoSlug /\ x # None /\ x[1] = n /\ Shown(n, b) = x[2]
      BY <1>2 DEF Shown
  <2>2. x \in Payloads /\ SlugOf[n] \in Slugs
      BY <2>1, SlugsType DEF BrokerType, States, Topics
  <2> HIDE DEF x
  <2>3. x \in Names \X Nat
      BY <2>1, <2>2, PayloadAssumption DEF Payloads
  <2>4. x = <<x[1], x[2]>>
      BY <2>3
  <2> QED BY <2>1, <2>2, <2>3, <2>4 DEF x
<1>3. ASSUME NEW s \in Slugs, SlugOf[n] = s, b[s].state.reading \in Names \X Nat,
             b[s].state.reading[1] = n
      PROVE  Shown(n, b) = b[s].state.reading[2]
  <2>1. s # NoSlug /\ b[s].state.reading # None
      BY <1>3, SlugsType DEF None
  <2> QED BY <1>3, <2>1 DEF Shown
<1> QED BY <1>1, <1>2, <1>3

\* A step that takes what the worker has to the broker, or a job to the worker, and
\* else only loses readings.
LEMMA ReadingsStep ==
    ASSUME TypeInv, TypeInv', ReadingInv, said' = said, Newest, NEW d \in {0, 1},
           d = 0 => jobs' = jobs,
           d = 1 => jobs # <<>> /\ jobs' = Tail(jobs),
           \A s \in Slugs :
              \/ p'.want[s].reading \in {None, p.want[s].reading}
              \/ /\ d = 1 /\ p'.want[s].reading = jobs[1].set.reading
                 /\ s = SlugOf[jobs[1].name],
           \A s \in Slugs :
              \/ broker'[s].state.reading \in {None, broker[s].state.reading}
              \/ broker'[s].state.reading = p'.want[s].reading
    PROVE  /\ ReadingInv'
           /\ \A n \in Names :
                 \/ Shown(n, broker') \in {0, Shown(n, broker)} /\ newest'[n] = newest[n]
                 \/ /\ broker'[SlugOf[n]].state.reading # broker[SlugOf[n]].state.reading
                    /\ Shown(n, broker') \in newest[n]..said[n] /\ Shown(n, broker') > 0
                    /\ newest'[n] = Shown(n, broker')
<1>1. /\ jobs \in Seq(JobType) /\ p \in PType /\ p' \in PType
      /\ broker \in BrokerType /\ broker' \in BrokerType
      /\ said \in [Names -> Nat] /\ newest \in [Names -> Nat] /\ newest' \in [Names -> Nat]
    BY DEF TypeInv, WorkerType, WorldType, BrokerType
<1>2. \A i \in 1..Len(jobs') : i + d \in 1..Len(jobs) /\ jobs'[i] = jobs[i + d]
  <2>1. CASE d = 0
      BY <1>1, <2>1
  <2>2. CASE d = 1
    <3>1. jobs' = Tail(jobs) /\ jobs # <<>>
        BY <2>2
    <3>2. Len(Tail(jobs)) = Len(jobs) - 1 /\ Len(jobs) \in Nat
        BY <1>1, <3>1
    <3>3. \A i \in 1..Len(Tail(jobs)) : Tail(jobs)[i] = jobs[i + 1]
        BY <1>1, <3>1
    <3> QED BY <2>2, <3>1, <3>2, <3>3
  <2> QED BY <2>1, <2>2
<1>3. d = 1 => 1 \in 1..Len(jobs)
    BY <1>1
<1>4. ASSUME NEW s \in Slugs, p'.want[s].reading # None
      PROVE  /\ News(p'.want[s].reading) /\ SlugOf[p'.want[s].reading[1]] = s
             /\ \A j \in 1..Len(jobs) :
                   LET y == jobs[j].set.reading IN
                   j > d /\ y # None /\ p'.want[s].reading[1] = y[1]
                     => p'.want[s].reading[2] <= y[2]
  <2>1. CASE p'.want[s].reading = p.want[s].reading
      BY <1>4, <2>1 DEF ReadingInv, WantIsNews, WantBeforeJobs
  <2>2. CASE /\ d = 1 /\ p'.want[s].reading = jobs[1].set.reading
             /\ s = SlugOf[jobs[1].name]
      BY <1>3, <1>4, <2>2 DEF ReadingInv, JobsAreNews, JobsInOrder
  <2> QED BY <1>4, <2>1, <2>2
<1>5. ASSUME NEW s \in Slugs, broker'[s].state.reading \notin {None, <<"old">>}
      PROVE  LET y == broker'[s].state.reading IN
             /\ y \in Names \X Nat /\ SlugOf[y[1]] = s /\ y[2] > 0
             /\ newest[y[1]] <= y[2] /\ y[2] <= said[y[1]]
             /\ \/ y = broker[s].state.reading /\ newest[y[1]] = y[2]
                \/ y = p'.want[s].reading
  <2>1. CASE broker'[s].state.reading = broker[s].state.reading
      BY <1>1, <1>5, <2>1 DEF ReadingInv, BrokerIsNewest, NewestWasSaid
  <2>2. CASE broker'[s].state.reading = p'.want[s].reading
      BY <1>4, <1>5, <2>2 DEF News
  <2> QED BY <1>5, <2>1, <2>2
<1>6. ASSUME NEW n \in Names
      PROVE  /\ Shown(n, broker') \in Nat /\ newest[n] \in Nat /\ said[n] \in Nat
             /\ Shown(n, broker') > 0 =>
                   /\ SlugOf[n] \in Slugs
                   /\ broker'[SlugOf[n]].state.reading = <<n, Shown(n, broker')>>
                   /\ newest'[n] = Shown(n, broker')
                   /\ newest[n] <= newest'[n] /\ newest'[n] <= said[n]
                   /\ \/ newest'[n] = newest[n]
                      \/ /\ broker'[SlugOf[n]].state.reading
                              # broker[SlugOf[n]].state.reading
                         /\ p'.want[SlugOf[n]].reading = <<n, newest'[n]>>
             /\ Shown(n, broker') = 0 => newest'[n] = newest[n]
  <2>1. /\ Shown(n, broker') \in Nat
        /\ Shown(n, broker') > 0 =>
              /\ SlugOf[n] \in Slugs
              /\ broker'[SlugOf[n]].state.reading \in Names \X Nat
              /\ broker'[SlugOf[n]].state.reading = <<n, Shown(n, broker')>>
      BY <1>1, ShownIs
  <2>2. newest'[n] = IF Shown(n, broker') > 0 THEN Shown(n, broker') ELSE newest[n]
      BY DEF Newest
  <2>3. newest[n] \in Nat /\ said[n] \in Nat
      BY <1>1
  <2>4. ASSUME Shown(n, broker') > 0
        PROVE  /\ newest[n] <= newest'[n] /\ newest'[n] <= said[n]
               /\ \/ newest'[n] = newest[n]
                  \/ /\ broker'[SlugOf[n]].state.reading
                          # broker[SlugOf[n]].state.reading
                     /\ p'.want[SlugOf[n]].reading = <<n, newest'[n]>>
    <3> DEFINE y == broker'[SlugOf[n]].state.reading
    <3>1. y = <<n, Shown(n, broker')>> /\ y \in Names \X Nat /\ SlugOf[n] \in Slugs
        BY <2>1, <2>4
    <3>2. y \notin {None, <<"old">>}
        BY <3>1 DEF None
    <3>3. y[1] = n /\ y[2] = Shown(n, broker') /\ newest'[n] = y[2]
        BY <2>2, <2>4, <3>1
    <3>4. /\ newest[y[1]] <= y[2] /\ y[2] <= said[y[1]]
          /\ \/ y = broker[SlugOf[n]].state.reading /\ newest[y[1]] = y[2]
             \/ y = p'.want[SlugOf[n]].reading
        BY <1>5, <3>1, <3>2
    <3>5. y = broker[SlugOf[n]].state.reading => newest[y[1]] = y[2]
        BY <3>1, <3>2 DEF ReadingInv, BrokerIsNewest
    <3> QED BY <3>1, <3>3, <3>4, <3>5
  <2> QED BY <2>1, <2>2, <2>3, <2>4
\* A reading that is news still is, when nothing newer of its watch was shown.
<1> DEFINE Still(x) == /\ x \in Names \X Nat /\ newest'[x[1]] <= x[2]
                       /\ x[2] <= said'[x[1]] /\ x[2] > 0
<1>7. \A x : News(x) /\ newest'[x[1]] <= x[2] => Still(x)
    BY DEF News
<1>8. WantIsNews'
  <2> SUFFICES ASSUME NEW s \in Slugs, p'.want[s].reading # None
               PROVE  Still(p'.want[s].reading) /\ SlugOf[p'.want[s].reading[1]] = s
      BY DEF WantIsNews, News
  <2>1. /\ News(p'.want[s].reading) /\ SlugOf[p'.want[s].reading[1]] = s
        /\ p'.want[s].reading \in Names \X Nat
      BY <1>4 DEF News
  <2>2. newest'[p'.want[s].reading[1]] <= p'.want[s].reading[2]
    <3> DEFINE x == p'.want[s].reading
    <3>1. x \in Names \X Nat /\ newest[x[1]] <= x[2] /\ SlugOf[x[1]] = s
        BY <2>1 DEF News
    <3>2. x = <<x[1], x[2]>> /\ x[1] \in Names /\ x[2] \in Nat
        BY <3>1
    <3>3. \/ newest'[x[1]] = newest[x[1]]
          \/ p'.want[s].reading = <<x[1], newest'[x[1]]>>
      <4>1. x[1] \in Names /\ SlugOf[x[1]] = s
          BY <3>1, <3>2
      <4>2. PICK n \in Names : n = x[1] /\ SlugOf[n] = s
          BY <4>1
      <4>3. \/ newest'[n] = newest[n]
            \/ p'.want[SlugOf[n]].reading = <<n, newest'[n]>>
        <5> HIDE DEF x
        <5>1. \/ Shown(n, broker') > 0
              \/ Shown(n, broker') = 0
            BY <1>6
        <5> QED BY <5>1, <1>6
      <4> QED BY <4>2, <4>3
    <3>4. CASE newest'[x[1]] = newest[x[1]]
        BY <3>1, <3>4
    <3>5. CASE x = <<x[1], newest'[x[1]]>>
        BY <1>1, <3>2, <3>5
    <3> QED BY <3>3, <3>4, <3>5
  <2> QED BY <1>7, <2>1, <2>2
<1>9. ASSUME NEW i \in 1..Len(jobs'), jobs'[i].set.reading # None
      PROVE  Still(jobs'[i].set.reading) /\ jobs'[i].set.reading[1] = jobs'[i].name
  <2> DEFINE x == jobs[i + d].set.reading
  <2>1. i + d \in 1..Len(jobs) /\ jobs'[i] = jobs[i + d] /\ i + d > d
      BY <1>2
  <2>2. News(x) /\ x[1] = jobs[i + d].name /\ x # None
      BY <1>9, <2>1 DEF ReadingInv, JobsAreNews
  <2>3. x \in Names \X Nat /\ x[1] \in Names /\ x[2] \in Nat /\ newest[x[1]] <= x[2]
      BY <2>2 DEF News
  <2>4. newest'[x[1]] <= x[2]
    <3>1. CASE newest'[x[1]] = newest[x[1]]
        BY <2>3, <3>1
    <3>2. CASE newest'[x[1]] # newest[x[1]]
      <4>1. PICK n \in Names : n = x[1]
          BY <2>3
      <4>2. newest'[n] # newest[n]
          BY <3>2, <4>1
      <4>3. Shown(n, broker') > 0
        <5> HIDE DEF x
        <5> QED BY <1>6, <4>2
      <4>4. SlugOf[n] \in Slugs /\ p'.want[SlugOf[n]].reading = <<n, newest'[n]>>
        <5> HIDE DEF x
        <5> QED BY <1>6, <4>2, <4>3
      <4> DEFINE v == p'.want[SlugOf[n]].reading
      <4>5. v # None /\ v[1] = n /\ v[2] = newest'[n]
          BY <4>4 DEF None
      <4>6. v[2] <= x[2]
          BY <1>4, <2>1, <2>2, <4>1, <4>4, <4>5
      <4> HIDE DEF v, x
      <4> QED BY <4>1, <4>5, <4>6
    <3> QED BY <3>1, <3>2
  <2>5. Still(x)
      BY <1>7, <2>2, <2>4
  <2> QED BY <2>1, <2>2, <2>5
<1>10. JobsAreNews'
    BY <1>9 DEF JobsAreNews, News
<1>11. JobsInOrder'
  <2> SUFFICES ASSUME NEW i \in 1..Len(jobs'), NEW j \in 1..Len(jobs'), i < j,
                      jobs'[i].set.reading # None, jobs'[j].set.reading # None,
                      jobs'[i].set.reading[1] = jobs'[j].set.reading[1]
               PROVE  jobs'[i].set.reading[2] <= jobs'[j].set.reading[2]
      BY DEF JobsInOrder
  <2>1. /\ i + d \in 1..Len(jobs) /\ j + d \in 1..Len(jobs) /\ i + d < j + d
        /\ jobs'[i] = jobs[i + d] /\ jobs'[j] = jobs[j + d]
      BY <1>2
  <2> QED BY <2>1 DEF ReadingInv, JobsInOrder
<1>12. WantBeforeJobs'
  <2> SUFFICES ASSUME NEW s \in Slugs, NEW j \in 1..Len(jobs'),
                      p'.want[s].reading # None, jobs'[j].set.reading # None,
                      p'.want[s].reading[1] = jobs'[j].set.reading[1]
               PROVE  p'.want[s].reading[2] <= jobs'[j].set.reading[2]
      BY DEF WantBeforeJobs
  <2>1. j + d \in 1..Len(jobs) /\ jobs'[j] = jobs[j + d] /\ j + d > d
      BY <1>2
  <2> QED BY <1>4, <2>1
<1>13. BrokerIsNewest'
  <2> SUFFICES ASSUME NEW s \in Slugs, broker'[s].state.reading \notin {None, <<"old">>}
               PROVE  LET y == broker'[s].state.reading IN
                      /\ y \in Names \X Nat /\ SlugOf[y[1]] = s
                      /\ y[2] > 0 /\ newest'[y[1]] = y[2]
      BY DEF BrokerIsNewest
  <2> DEFINE y == broker'[s].state.reading
  <2>1. y \in Names \X Nat /\ SlugOf[y[1]] = s /\ y[2] > 0 /\ y[1] \in Names
      BY <1>5
  <2>2. Shown(y[1], broker') = y[2]
      BY <1>1, <2>1, ShownIs
  <2>3. newest'[y[1]] = y[2]
      BY <2>1, <2>2 DEF Newest
  <2> QED BY <2>1, <2>3
<1>14. NewestWasSaid'
  <2> SUFFICES ASSUME NEW n \in Names PROVE newest'[n] <= said[n]
      BY DEF NewestWasSaid
  <2>1. newest[n] <= said[n]
      BY DEF ReadingInv, NewestWasSaid
  <2> QED BY <1>6, <2>1
<1>15. ASSUME NEW n \in Names
       PROVE  \/ Shown(n, broker') \in {0, Shown(n, broker)} /\ newest'[n] = newest[n]
              \/ /\ broker'[SlugOf[n]].state.reading # broker[SlugOf[n]].state.reading
                 /\ Shown(n, broker') \in newest[n]..said[n] /\ Shown(n, broker') > 0
                 /\ newest'[n] = Shown(n, broker')
  <2>1. CASE Shown(n, broker') = 0
      BY <1>6, <2>1
  <2>2. CASE Shown(n, broker') > 0 /\ broker'[SlugOf[n]].state.reading
                                        = broker[SlugOf[n]].state.reading
    <3>1. Shown(n, broker') = Shown(n, broker)
        BY <2>2 DEF Shown
    <3> QED BY <1>6, <2>2, <3>1
  <2>3. CASE Shown(n, broker') > 0 /\ broker'[SlugOf[n]].state.reading
                                        # broker[SlugOf[n]].state.reading
      BY <1>6, <2>3
  <2> QED BY <1>6, <2>1, <2>2, <2>3
<1> QED BY <1>8, <1>10, <1>11, <1>12, <1>13, <1>14, <1>15 DEF ReadingInv

Mirrored == [Watched!Next]_(Watched!vars)

LEMMA PairIs ==
    ASSUME NEW n, NEW k, NEW x, x = <<n, k>>
    PROVE  x # None /\ x[1] = n /\ x[2] = k
BY DEF None

\* What the worker holds of n is the count of its slug's reading, when that is of n.
LEMMA TakenIs ==
    ASSUME NEW want, NEW n \in Names,
           \A s \in Slugs : want[s].reading # None =>
                           want[s].reading \in Names \X Nat /\ want[s].reading[2] > 0
    PROVE  /\ Taken(n, want) \in Nat
           /\ Taken(n, want) > 0 => /\ SlugOf[n] \in Slugs
                                    /\ want[SlugOf[n]].reading = <<n, Taken(n, want)>>
           /\ SlugOf[n] \in Slugs /\ want[SlugOf[n]].reading # None
                 /\ want[SlugOf[n]].reading[1] = n
              => Taken(n, want) = want[SlugOf[n]].reading[2]
<1> DEFINE x == want[SlugOf[n]].reading
<1>1. SlugOf[n] # NoSlug <=> SlugOf[n] \in Slugs
    BY SlugsType DEF Slugs
<1>2. SlugOf[n] \in Slugs /\ x # None => x \in Names \X Nat /\ x[2] > 0
    OBVIOUS
<1>3. Taken(n, want) = IF SlugOf[n] # NoSlug /\ x # None /\ x[1] = n THEN x[2] ELSE 0
    BY DEF Taken
<1> HIDE DEF x
<1>4. x \in Names \X Nat => x = <<x[1], x[2]>> /\ x[2] \in Nat
    OBVIOUS
<1>5. CASE SlugOf[n] # NoSlug /\ x # None /\ x[1] = n
    BY <1>1, <1>2, <1>3, <1>4, <1>5 DEF x
<1>6. CASE ~(SlugOf[n] # NoSlug /\ x # None /\ x[1] = n)
    BY <1>1, <1>3, <1>6 DEF x
<1> QED BY <1>5, <1>6

\* What is taken up, shown, kept, cleared or moved on, as Mirror has it.
LEMMA MirrorStep ==
    ASSUME TypeInv, TypeInv', WantIsNews, WantIsNews', said' = said,
           \A n \in Names :
              \/ Taken(n, p'.want) \in {0, Taken(n, p.want)}
              \/ /\ n \in p.slugs /\ p'.slugs = p.slugs /\ Taken(n, p'.want) \in 1..said[n]
                 /\ Taken(n, p.want) <= Taken(n, p'.want) /\ newest[n] <= Taken(n, p'.want),
           \A n \in Names :
              \/ Shown(n, broker') \in {0, Shown(n, broker)} /\ newest'[n] = newest[n]
              \/ /\ p'.slugs = p.slugs /\ Shown(n, broker') = Taken(n, p'.want)
                 /\ newest[n] <= Shown(n, broker') /\ Shown(n, broker') > 0
                 /\ newest'[n] = Shown(n, broker')
    PROVE  Mirrored
<1> DEFINE taken == [n \in Names |-> Taken(n, p.want)]
           shown == [n \in Names |-> Shown(n, broker)]
<1>1. /\ newest' \in [Names -> Nat] /\ broker' \in BrokerType
      /\ p \in PType /\ p' \in PType /\ p'.slugs \in SUBSET Names
    BY DEF TypeInv, WorldType, WorkerType, BrokerType, PType
<1>2. /\ shown' = [n \in Names |-> Shown(n, broker')]
      /\ shown' \in [Names -> Nat]
  <2>1. \A n \in Names : Shown(n, broker') \in Nat
      BY <1>1, ShownIs
  <2>2. shown' = [n \in Names |-> Shown(n, broker')]
      BY DEF Shown
  <2> QED BY <2>1, <2>2
<1>3. \A n \in Names : shown[n] = Shown(n, broker) /\ shown'[n] = Shown(n, broker')
    BY <1>2
<1>4. taken' \in [Names -> Nat]
  <2>1. \A n \in Names : Taken(n, p'.want) \in Nat
      BY TakenIs DEF WantIsNews, News
  <2>2. taken' = [n \in Names |-> Taken(n, p'.want)]
      BY DEF Taken
  <2> HIDE DEF taken
  <2> QED BY <2>1, <2>2
<1>5. \A n \in Names : taken[n] = Taken(n, p.want) /\ taken'[n] = Taken(n, p'.want)
    BY DEF Taken
<1> HIDE DEF taken, shown
<1>6. CASE p'.slugs = p.slugs
  <2>1. \A n \in Names : Watched!Keeps(n) \/ Watched!TakesUp(n)
      BY <1>5 DEF Watched!Keeps, Watched!TakesUp, taken
  <2>2. \A n \in Names : Watched!Fades(n) \/ Watched!Shows(n)
      BY <1>3, <1>5 DEF Watched!Fades, Watched!Shows, taken, shown
  <2>3. Watched!Publishes
      BY <1>1, <1>2, <1>4, <1>6, <2>1, <2>2 DEF Watched!Publishes, Watched!Typed, taken, shown
  <2> QED BY <2>3 DEF Watched!Next, Mirrored
<1>7. CASE p'.slugs # p.slugs
  <2>1. \A n \in Names : Watched!Keeps(n) /\ Watched!Fades(n)
      BY <1>3, <1>5, <1>7 DEF Watched!Keeps, Watched!Fades, taken, shown
  <2>2. Watched!Lists
      BY <1>1, <1>2, <1>4, <2>1 DEF Watched!Lists, Watched!Typed, taken, shown
  <2> QED BY <2>2 DEF Watched!Next, Mirrored
<1> QED BY <1>6, <1>7

LEMMA WorkerStep ==
    ASSUME TypeInv, TypeInv', ReadingInv, said' = said, Newest, NEW d \in {0, 1},
           d = 0 => jobs' = jobs,
           d = 1 => jobs # <<>> /\ jobs' = Tail(jobs),
           \A s \in Slugs :
              \/ p'.want[s].reading \in {None, p.want[s].reading}
              \/ /\ d = 1 /\ p'.want[s].reading = jobs[1].set.reading
                 /\ s = SlugOf[jobs[1].name]
                 /\ jobs[1].name \in p.slugs /\ p'.slugs = p.slugs,
           \A s \in Slugs :
              \/ broker'[s].state.reading \in {None, broker[s].state.reading}
              \/ broker'[s].state.reading = p'.want[s].reading /\ p'.slugs = p.slugs
    PROVE  ReadingInv' /\ Mirrored
<1>1. /\ ReadingInv'
      /\ \A n \in Names :
            \/ Shown(n, broker') \in {0, Shown(n, broker)} /\ newest'[n] = newest[n]
            \/ /\ broker'[SlugOf[n]].state.reading # broker[SlugOf[n]].state.reading
               /\ Shown(n, broker') \in newest[n]..said[n] /\ Shown(n, broker') > 0
               /\ newest'[n] = Shown(n, broker')
    BY ReadingsStep
<1>2. /\ p \in PType /\ p' \in PType /\ broker' \in BrokerType
      /\ WantIsNews /\ WantIsNews'
      /\ newest \in [Names -> Nat] /\ said \in [Names -> Nat]
    BY <1>1 DEF TypeInv, WorkerType, WorldType, BrokerType, ReadingInv
<1>3. \A x : News(x) => x \in Names \X Nat /\ x[2] > 0 /\ newest[x[1]] <= x[2] /\ x[2] <= said[x[1]]
    BY DEF News
<1>4. /\ \A s \in Slugs : p.want[s].reading # None =>
            p.want[s].reading \in Names \X Nat /\ p.want[s].reading[2] > 0
      /\ \A s \in Slugs : p'.want[s].reading # None =>
            p'.want[s].reading \in Names \X Nat /\ p'.want[s].reading[2] > 0
    BY <1>2 DEF WantIsNews, News
<1>5. ASSUME NEW n \in Names
      PROVE  \/ Taken(n, p'.want) \in {0, Taken(n, p.want)}
             \/ /\ n \in p.slugs /\ p'.slugs = p.slugs /\ Taken(n, p'.want) \in 1..said[n]
                /\ Taken(n, p.want) <= Taken(n, p'.want) /\ newest[n] <= Taken(n, p'.want)
  <2> DEFINE s == SlugOf[n]
             x == p'.want[s].reading
  <2>1. /\ Taken(n, p.want) \in Nat
        /\ Taken(n, p.want) > 0 => s \in Slugs /\ p.want[s].reading = <<n, Taken(n, p.want)>>
      BY <1>4, TakenIs
  <2>2. /\ Taken(n, p'.want) \in Nat
        /\ Taken(n, p'.want) > 0 => s \in Slugs /\ x = <<n, Taken(n, p'.want)>>
      BY <1>4, TakenIs
  <2>3. CASE Taken(n, p'.want) = 0
      BY <2>3
  <2>4. CASE Taken(n, p'.want) > 0 /\ x = p.want[s].reading
      BY <2>2, <2>4 DEF Taken
  <2>5. CASE /\ Taken(n, p'.want) > 0
             /\ d = 1 /\ x = jobs[1].set.reading /\ s = SlugOf[jobs[1].name]
             /\ jobs[1].name \in p.slugs /\ p'.slugs = p.slugs
    <3> DEFINE k == Taken(n, p'.want)
    <3>1. s \in Slugs /\ x = <<n, k>> /\ x # None /\ x[1] = n /\ x[2] = k
      <4>1. s \in Slugs /\ x = <<n, k>>
          BY <2>2, <2>5
      <4> HIDE DEF s, x, k
      <4> QED BY <4>1, PairIs
    <3>2. jobs \in Seq(JobType) /\ 1 \in 1..Len(jobs)
        BY <2>5 DEF TypeInv, WorkerType
    <3>3. News(x) /\ x[1] = jobs[1].name
      <4>1. x = jobs[1].set.reading
          BY <2>5
      <4> HIDE DEF x
      <4> QED BY <3>1, <3>2, <4>1 DEF ReadingInv, JobsAreNews
    <3>4. newest[n] <= k /\ k <= said[n] /\ k \in 1..said[n]
      <4> HIDE DEF x, k
      <4> QED BY <1>2, <1>3, <2>2, <2>5, <3>1, <3>3 DEF k
    <3>5. Taken(n, p.want) <= k
      <4>1. CASE Taken(n, p.want) = 0
          BY <2>2, <4>1
      <4>2. CASE Taken(n, p.want) > 0
        <5>1. p.want[s].reading = <<n, Taken(n, p.want)>>
            BY <2>1, <4>2
        <5>2. p.want[s].reading # None /\ p.want[s].reading[1] = n
              /\ p.want[s].reading[2] = Taken(n, p.want)
            BY <5>1, PairIs
        <5>3. x = jobs[1].set.reading
            BY <2>5
        <5> HIDE DEF s, x, k
        <5>4. p.want[s].reading[2] <= x[2]
            BY <3>1, <3>2, <5>2, <5>3 DEF ReadingInv, WantBeforeJobs
        <5> QED BY <3>1, <5>2, <5>4
      <4> QED BY <2>1, <4>1, <4>2
    <3>6. n \in p.slugs /\ p'.slugs = p.slugs
      <4>1. n = jobs[1].name
        <5> HIDE DEF x
        <5> QED BY <3>1, <3>3
      <4> QED BY <2>5, <4>1
    <3> QED BY <3>4, <3>5, <3>6
  <2>6. Taken(n, p'.want) > 0 => s \in Slugs /\ x # None
    <3> HIDE DEF s, x
    <3> QED BY <2>2, PairIs
  <2> QED BY <2>2, <2>3, <2>4, <2>5, <2>6
<1>6. ASSUME NEW n \in Names
      PROVE  \/ Shown(n, broker') \in {0, Shown(n, broker)} /\ newest'[n] = newest[n]
             \/ /\ p'.slugs = p.slugs /\ Shown(n, broker') = Taken(n, p'.want)
                /\ newest[n] <= Shown(n, broker') /\ Shown(n, broker') > 0
                /\ newest'[n] = Shown(n, broker')
  <2> DEFINE s == SlugOf[n]
             x == broker'[s].state.reading
  <2>1. CASE Shown(n, broker') \in {0, Shown(n, broker)} /\ newest'[n] = newest[n]
      BY <2>1
  <2>2. CASE /\ x # broker[s].state.reading
             /\ Shown(n, broker') \in newest[n]..said[n] /\ Shown(n, broker') > 0
             /\ newest'[n] = Shown(n, broker')
    <3>1. s \in Slugs /\ x = <<n, Shown(n, broker')>>
        BY <1>2, <2>2, ShownIs
    <3>2. x # None /\ x[1] = n /\ x[2] = Shown(n, broker')
      <4> HIDE DEF s, x
      <4> QED BY <3>1, PairIs
    <3>3. x = p'.want[s].reading /\ p'.slugs = p.slugs
        BY <2>2, <3>1, <3>2
    <3>4. Taken(n, p'.want) = p'.want[s].reading[2]
      <4>1. /\ s \in Slugs /\ p'.want[s].reading # None /\ p'.want[s].reading[1] = n
          BY <3>1, <3>2, <3>3
      <4> QED BY <1>4, <4>1, TakenIs
    <3>5. newest[n] <= Shown(n, broker')
        BY <1>2, <2>2
    <3> QED BY <2>2, <3>2, <3>3, <3>4, <3>5
  <2> QED BY <1>1, <2>1, <2>2
<1> QED BY <1>1, <1>2, <1>5, <1>6, MirrorStep

\* A step that leaves the worker's states and its queue alone, and publishes nothing:
\* the broker may forget what it shows.
LEMMA OtherStep ==
    ASSUME TypeInv, TypeInv', ReadingInv, UNCHANGED <<said, newest, jobs>>,
           \A s \in Slugs :
              /\ p'.want[s].reading = p.want[s].reading
              /\ broker'[s].state.reading \in {None, broker[s].state.reading}
    PROVE  ReadingInv' /\ Mirrored
<1>1. newest \in [Names -> Nat] /\ broker' \in BrokerType
    BY DEF TypeInv, WorldType, BrokerType
<1>2. ASSUME NEW n \in Names, Shown(n, broker') > 0
      PROVE  newest[n] = Shown(n, broker')
  <2> DEFINE y == broker'[SlugOf[n]].state.reading
  <2>1. SlugOf[n] \in Slugs /\ y \in Names \X Nat /\ y = <<n, Shown(n, broker')>>
      BY <1>1, <1>2, ShownIs
  <2>2. y \notin {None, <<"old">>} /\ y[1] = n /\ y[2] = Shown(n, broker')
      BY <2>1 DEF None
  <2>3. y = broker[SlugOf[n]].state.reading
      BY <2>1, <2>2
  <2> HIDE DEF y
  <2>4. newest[y[1]] = y[2]
    <3>1. BrokerIsNewest /\ SlugOf[n] \in Slugs
        BY <2>1 DEF ReadingInv
    <3>2. broker[SlugOf[n]].state.reading \notin {None, <<"old">>}
        BY <2>2, <2>3
    <3>3. newest[broker[SlugOf[n]].state.reading[1]] = broker[SlugOf[n]].state.reading[2]
        BY <3>1, <3>2 DEF BrokerIsNewest
    <3> QED BY <2>3, <3>3
  <2> QED BY <2>2, <2>4
<1>3. Newest
  <2>1. newest' = newest
      OBVIOUS
  <2>2. newest = [n \in Names |-> newest[n]]
      BY <1>1
  <2>3. \A n \in Names : newest[n] = IF Shown(n, broker') > 0 THEN Shown(n, broker')
                                     ELSE newest[n]
      BY <1>2
  <2> QED BY <2>1, <2>2, <2>3 DEF Newest
<1>4. 0 \in {0, 1} /\ jobs' = jobs
    OBVIOUS
<1> QED BY <1>3, <1>4, WorkerStep

LEMMA TakesJobReadings ==
    ASSUME TypeInv, TypeInv', ReadingInv, NEW next, TakesJob(next)
    PROVE  ReadingInv' /\ Mirrored
<1>1. PICK out \in SUBSET Topics : RunJob(Head(jobs), out)
    BY DEF TakesJob
<1>2. /\ jobs # <<>> /\ jobs' = Tail(jobs) /\ jobs[1] \in JobType /\ Head(jobs) = jobs[1]
      /\ p \in PType /\ p' \in PType /\ broker \in BrokerType /\ broker' \in BrokerType
    BY DEF TakesJob, TypeInv, WorkerType, WorldType, BrokerType
<1>3. said' = said /\ Newest
    BY <1>1, RunJobKeeps
<1> DEFINE job == Head(jobs)
           s == SlugOf[job.name]
<1>4. CASE StillNamed(job)
  <2> DEFINE changed == {t \in Topics : Sets(job, s, t) # None}
             want == [t \in Topics |-> IF t \in changed THEN Sets(job, s, t)
                                       ELSE p.want[s][t]]
             After(state) == [t \in Topics |-> IF t \in out THEN want[t] ELSE state[t]]
  <2>1. /\ p' = [p EXCEPT !.want[s] = want, !.sent[s] = After(@)]
        /\ broker' = [broker EXCEPT ![s].state = After(@)]
    <3> HIDE DEF want, After, changed, job, s
    <3> QED BY <1>1, <1>4, Zenon DEF RunJob, want, After, changed, job, s
  <2>2. s \in Slugs /\ s \in claimedSlugs
      BY <1>2, <1>4, SlugsType DEF StillNamed, SlugsOnce, JobType, TypeInv, claimedSlugs,
         SlugsOf
  <2>3. want.reading \in {p.want[s].reading, job.set.reading}
      BY DEF Sets, Topics
  <2>4. \A state \in States : After(state).reading \in {state.reading, want.reading}
      BY DEF Topics
  <2> HIDE DEF want, After
  <2>5. /\ p'.slugs = p.slugs /\ p'.want[s] = want
        /\ \A x \in Slugs : x # s => p'.want[x] = p.want[x]
    <3> HIDE DEF s, job
    <3>1. p'.slugs = p.slugs /\ p'.want = [p.want EXCEPT ![s] = want]
        BY <1>2, <2>1, <2>2 DEF PType
    <3>2. p.want \in [Slugs -> States]
        BY <1>2 DEF PType
    <3> QED BY <2>2, <3>1, <3>2
  <2>6. /\ broker'[s].state = After(broker[s].state) /\ broker[s].state \in States
        /\ \A x \in Slugs : x # s => broker'[x] = broker[x]
      BY <1>2, <2>1, <2>2 DEF BrokerType
  <2>7. /\ \A x \in Slugs :
              \/ p'.want[x].reading \in {None, p.want[x].reading}
              \/ /\ p'.want[x].reading = jobs[1].set.reading /\ x = s
                 /\ jobs[1].name \in p.slugs /\ p'.slugs = p.slugs
        /\ \A x \in Slugs :
              \/ broker'[x].state.reading \in {None, broker[x].state.reading}
              \/ broker'[x].state.reading = p'.want[x].reading /\ p'.slugs = p.slugs
      BY <1>2, <1>4, <2>2, <2>3, <2>4, <2>5, <2>6 DEF StillNamed
  <2> QED BY <1>2, <1>3, <2>7, WorkerStep
<1>5. CASE ~StillNamed(job)
  <2>1. UNCHANGED <<p, broker>>
      BY <1>1, <1>2, <1>5 DEF RunJob
  <2> QED BY <1>2, <1>3, <2>1, WorkerStep
<1> QED BY <1>4, <1>5

LEMMA WorkerReadings ==
    ASSUME TypeInv, ReadingInv, Worker
    PROVE  ReadingInv' /\ Mirrored
<1>1. TypeInv'
    BY WorkerTypes
<1>2. 0 \in {0, 1}
    OBVIOUS
<1>3. CASE PickJob \/ DrainJob
  <2>1. \E next : TakesJob(next)
      BY <1>3 DEF PickJob, DrainJob
  <2> QED BY <1>1, <2>1, TakesJobReadings
<1>4. CASE Announce
  <2>1. Newest /\ jobs' = jobs /\ said' = said
      BY <1>4 DEF Announce, chans
  <2>2. \A s \in Slugs : /\ p'.want[s].reading = p.want[s].reading
                         /\ broker'[s].state.reading = broker[s].state.reading
      BY <1>4, AnnounceTypes
  <2> QED BY <1>1, <1>2, <2>1, <2>2, WorkerStep
<1>5. CASE Swap
  <2>1. Newest /\ jobs' = jobs /\ said' = said
      BY <1>5 DEF Swap, chans
  <2>2. \A s \in Slugs : /\ p'.want[s].reading \in {None, p.want[s].reading}
                         /\ broker'[s].state.reading \in {None, broker[s].state.reading}
      BY <1>5, SwapTypes
  <2> QED BY <1>1, <1>2, <2>1, <2>2, WorkerStep
<1>6. CASE SweepClears
  <2>1. Newest /\ jobs' = jobs /\ said' = said
      BY <1>6 DEF SweepClears, chans
  <2>2. /\ p'.want = p.want
        /\ \A s \in Slugs : broker'[s].state.reading \in {None, broker[s].state.reading}
      BY <1>6, SweepClearsTypes
  <2> QED BY <1>1, <1>2, <2>1, <2>2, WorkerStep
<1>7. CASE Resend
  <2>1. Newest /\ jobs' = jobs /\ said' = said
      BY <1>7, Zenon DEF Resend, chans
  <2>2. /\ p'.want = p.want /\ p'.slugs = p.slugs
        /\ \A s \in Slugs :
              \/ broker'[s].state.reading = broker[s].state.reading
              \/ /\ s \in claimedSlugs /\ broker'[s].state.reading = p.want[s].reading
                 /\ p.want[s].reading # None
      BY <1>7, ResendTypes
  <2> QED BY <1>1, <1>2, <2>1, <2>2, WorkerStep
<1>8. CASE Follow \/ Sweep \/ publishOwners \/ PickHA
  <2>1. /\ p'.want = p.want /\ UNCHANGED <<jobs, said, newest>>
        /\ \A s \in Slugs : broker'[s].state = broker[s].state
      BY <1>8, FollowTypes, SweepTypes, OwnersTypes, PickHATypes
  <2> QED BY <1>1, <2>1, OtherStep
<1>9. CASE PickSync \/ DrainSync \/ PickConn \/ PickStray \/ PickQuit \/ DrainRound
  <2>1. UNCHANGED <<jobs, broker, said, newest>>
      BY <1>9 DEF PickSync, DrainSync, TakesList, PickConn, PickStray, PickQuit, DrainRound,
         chans, retained, history
  <2>2. p'.want = p.want
    <3>1. \/ p' = p
          \/ p' = [p EXCEPT !.listed = TRUE]
          \/ p' = [p EXCEPT !.sent = [s \in Slugs |-> NoState], !.haUp = FALSE]
        BY <1>9 DEF PickSync, DrainSync, TakesList, PickConn, PickStray, PickQuit, DrainRound
    <3>2. p \in PType
        BY DEF TypeInv, WorkerType
    <3> QED BY <3>1, <3>2 DEF PType
  <2> QED BY <1>1, <2>1, <2>2, OtherStep
<1> QED BY <1>3, <1>4, <1>5, <1>6, <1>7, <1>8, <1>9 DEF Worker

LEMMA NetworkReadings ==
    ASSUME TypeInv, ReadingInv, Network
    PROVE  ReadingInv' /\ Mirrored
<1>1. TypeInv'
    BY NetworkTypes
<1>2. UNCHANGED <<p, jobs, said, newest>>
    BY DEF Network, Connects, ConnectionLost, BrokerRestarts, TwinComes, Arrives, Settles,
           HAComes, HAGoes, onHAStatus, chans, history
<1>3. \A s \in Slugs : broker'[s].state.reading \in {None, broker[s].state.reading}
  <2>1. CASE BrokerRestarts
      BY <2>1, BareType DEF BrokerRestarts
  <2>2. CASE TwinComes
      BY <2>2, BareType DEF TwinComes
  <2>3. CASE broker' = broker
      BY <2>3
  <2> QED BY <2>1, <2>2, <2>3 DEF Network, Connects, ConnectionLost, Arrives, Settles,
             HAComes, HAGoes, onHAStatus, retained
<1> QED BY <1>1, <1>2, <1>3, OtherStep

\* A reading that is taken is the newest there is, so it may wait behind any other.
LEMMA EnqueueStep ==
    ASSUME TypeInv, ReadingInv, UNCHANGED <<p, broker, newest>>,
           said' \in [Names -> Nat], \A n \in Names : said[n] <= said'[n],
           NEW job \in JobType, jobs' = jobs \/ jobs' = Append(jobs, job),
           job.set.reading # None =>
              /\ job.set.reading \in Names \X Nat /\ job.set.reading[1] = job.name
              /\ job.set.reading[2] > 0 /\ said[job.name] <= job.set.reading[2]
              /\ job.set.reading[2] <= said'[job.name]
    PROVE  ReadingInv'
<1> DEFINE x == job.set.reading
           Still(y) == /\ y \in Names \X Nat /\ newest[y[1]] <= y[2]
                       /\ y[2] <= said'[y[1]] /\ y[2] > 0
<1>1. /\ jobs \in Seq(JobType) /\ Len(jobs) \in Nat
      /\ said \in [Names -> Nat] /\ newest \in [Names -> Nat]
    BY DEF TypeInv, WorkerType, WorldType
<1>2. \A y : News(y) => Still(y) /\ y[2] <= said[y[1]]
    BY <1>1 DEF News
<1>3. x # None => /\ x \in Names \X Nat /\ x[1] = job.name /\ x[2] > 0
                  /\ said[x[1]] <= x[2] /\ x[2] <= said'[x[1]]
    OBVIOUS
<1>4. x # None => Still(x)
  <2> HIDE DEF x
  <2> QED BY <1>1, <1>3 DEF ReadingInv, NewestWasSaid
<1>5. \A i \in 1..Len(jobs') :
         \/ i \in 1..Len(jobs) /\ jobs'[i] = jobs[i]
         \/ i = Len(jobs) + 1 /\ jobs'[i] = job
  <2>1. CASE jobs' = jobs
      BY <2>1
  <2>2. CASE jobs' = Append(jobs, job)
    <3>1. Len(Append(jobs, job)) = Len(jobs) + 1
        BY <1>1
    <3>2. \A i \in 1..(Len(jobs) + 1) :
             Append(jobs, job)[i] = IF i <= Len(jobs) THEN jobs[i] ELSE job
        BY <1>1
    <3> QED BY <1>1, <2>2, <3>1, <3>2
  <2> QED BY <2>1, <2>2
<1>6. WantIsNews' /\ BrokerIsNewest'
    BY <1>2 DEF ReadingInv, WantIsNews, BrokerIsNewest, News
<1>7. JobsAreNews'
  <2> SUFFICES ASSUME NEW i \in 1..Len(jobs'), jobs'[i].set.reading # None
               PROVE  Still(jobs'[i].set.reading) /\ jobs'[i].set.reading[1] = jobs'[i].name
      BY DEF JobsAreNews, News
  <2>1. CASE i \in 1..Len(jobs) /\ jobs'[i] = jobs[i]
      BY <1>2, <2>1 DEF ReadingInv, JobsAreNews
  <2>2. CASE jobs'[i] = job
      BY <1>3, <1>4, <2>2
  <2> QED BY <1>5, <2>1, <2>2
<1>8. \A y : News(y) /\ x # None /\ y[1] = x[1] => y[2] <= x[2]
  <2> HIDE DEF x
  <2> QED BY <1>1, <1>3 DEF News
<1>9. JobsInOrder'
  <2> SUFFICES ASSUME NEW i \in 1..Len(jobs'), NEW j \in 1..Len(jobs'), i < j,
                      jobs'[i].set.reading # None, jobs'[j].set.reading # None,
                      jobs'[i].set.reading[1] = jobs'[j].set.reading[1]
               PROVE  jobs'[i].set.reading[2] <= jobs'[j].set.reading[2]
      BY DEF JobsInOrder
  <2>1. i \in 1..Len(jobs) /\ jobs'[i] = jobs[i]
      BY <1>1, <1>5
  <2>2. CASE j \in 1..Len(jobs) /\ jobs'[j] = jobs[j]
      BY <2>1, <2>2 DEF ReadingInv, JobsInOrder
  <2>3. CASE jobs'[j] = job
    <3>1. News(jobs[i].set.reading)
        BY <2>1 DEF ReadingInv, JobsAreNews
    <3> QED BY <1>8, <2>1, <2>3, <3>1
  <2> QED BY <1>5, <2>2, <2>3
<1>10. WantBeforeJobs'
  <2> SUFFICES ASSUME NEW s \in Slugs, NEW j \in 1..Len(jobs'),
                      p.want[s].reading # None, jobs'[j].set.reading # None,
                      p.want[s].reading[1] = jobs'[j].set.reading[1]
               PROVE  p.want[s].reading[2] <= jobs'[j].set.reading[2]
      BY DEF WantBeforeJobs
  <2>1. CASE j \in 1..Len(jobs) /\ jobs'[j] = jobs[j]
      BY <2>1 DEF ReadingInv, WantBeforeJobs
  <2>2. CASE jobs'[j] = job
    <3>1. News(p.want[s].reading)
        BY DEF ReadingInv, WantIsNews
    <3> QED BY <1>8, <2>2, <3>1
  <2> QED BY <1>5, <2>1, <2>2
<1>11. NewestWasSaid'
    BY <1>1 DEF ReadingInv, NewestWasSaid
<1> QED BY <1>6, <1>7, <1>9, <1>10, <1>11 DEF ReadingInv

LEMMA OnEventReadings ==
    ASSUME TypeInv, ReadingInv, NEW e \in Running,
           NEW k \in {0, said[e.name], said[e.name] + 1}, OnEvent(e, k)
    PROVE  ReadingInv' /\ Mirrored
<1> DEFINE n == e.name
           payload == IF k = 0 THEN None ELSE <<n, k>>
           job == [name |-> n, seed |-> TRUE,
                   set |-> [reading |-> payload, health |-> None,
                            value |-> IF e.number THEN payload ELSE None]]
<1>1. /\ e \in [name : Names, number : BOOLEAN] /\ n \in Names /\ k \in Nat
      /\ said \in [Names -> Nat]
    BY RunningType, OnEventTypes DEF TypeInv, WorldType
<1>2. payload \in Payloads
    BY <1>1, PayloadTypes
<1>3. job \in JobType
    BY <1>1, <1>2, OnEventJob
<1>4. jobs' = jobs \/ jobs' = Append(jobs, job)
    BY DEF OnEvent, enqueue
<1>5. /\ said' = [said EXCEPT ![n] = IF k > @ THEN k ELSE @]
      /\ UNCHANGED <<p, broker, newest>>
    BY DEF OnEvent, retained
<1>6. /\ said' \in [Names -> Nat] /\ \A m \in Names : said[m] <= said'[m]
      /\ k <= said'[n] /\ (k > 0 => said[n] <= k)
    BY <1>1, <1>5
<1>7. job.set.reading # None =>
         /\ job.set.reading \in Names \X Nat /\ job.set.reading[1] = job.name
         /\ job.set.reading[2] > 0 /\ said[job.name] <= job.set.reading[2]
         /\ job.set.reading[2] <= said'[job.name]
    BY <1>1, <1>6
<1>8. ReadingInv'
  <2> HIDE DEF job
  <2> QED BY <1>3, <1>4, <1>5, <1>6, <1>7, EnqueueStep
<1>9. Mirrored
  <2>1. /\ p'.slugs = p.slugs
        /\ [m \in Names |-> Taken(m, p.want)]' = [m \in Names |-> Taken(m, p.want)]
        /\ [m \in Names |-> Shown(m, broker)]' = [m \in Names |-> Shown(m, broker)]
      BY <1>5 DEF Shown, Taken
  <2>2. CASE k > said[n]
    <3>1. said' = [said EXCEPT ![n] = @ + 1]
      <4>1. k = said[n] + 1
          BY <1>1, <2>2
      <4> HIDE DEF n
      <4> QED BY <1>1, <1>5, <2>2, <4>1
    <3>2. Watched!Says(n)
        BY <1>5, <2>1, <3>1 DEF Watched!Says
    <3> QED BY <1>1, <3>2 DEF Watched!Next, Mirrored
  <2>3. CASE ~(k > said[n])
    <3>1. said' = said
        BY <1>1, <1>5, <2>3
    <3> QED BY <1>5, <2>1, <3>1 DEF Mirrored, Watched!vars
  <2> QED BY <2>2, <2>3
<1> QED BY <1>8, <1>9

LEMMA OnHealthReadings ==
    ASSUME TypeInv, ReadingInv, NEW e \in Running, NEW word \in {"online", "offline"},
           OnHealth(e, word)
    PROVE  ReadingInv' /\ Mirrored
<1> DEFINE job == [name |-> e.name, seed |-> FALSE,
                   set |-> [NoState EXCEPT !.health = <<word>>]]
<1>1. e \in [name : Names, number : BOOLEAN]
    BY RunningType
<1>2. job \in JobType
    BY <1>1, OnHealthJob
<1>3. job.set.reading = None
    BY DEF NoState, Topics
<1>4. jobs' = jobs \/ jobs' = Append(jobs, job)
    BY DEF OnHealth, enqueue
<1>5. UNCHANGED <<p, broker, newest, said>>
    BY DEF OnHealth, retained
<1>6. said \in [Names -> Nat]
    BY DEF TypeInv, WorldType
<1>7. ReadingInv'
  <2>1. \A n \in Names : said[n] <= said'[n]
      BY <1>5, <1>6
  <2> HIDE DEF job
  <2> QED BY <1>2, <1>3, <1>4, <1>5, <1>6, <2>1, EnqueueStep
<1>8. Mirrored
  <2>1. p'.slugs = p.slugs
      BY <1>5
  <2>2. /\ [m \in Names |-> Taken(m, p.want)]' = [m \in Names |-> Taken(m, p.want)]
        /\ [m \in Names |-> Shown(m, broker)]' = [m \in Names |-> Shown(m, broker)]
      BY <1>5 DEF Shown, Taken
  <2> QED BY <1>5, <2>1, <2>2 DEF Mirrored, Watched!vars
<1> QED BY <1>7, <1>8

LEMMA NextReadings ==
    ASSUME IInv, [Next]_vars
    PROVE  ReadingInv' /\ Mirrored
<1> USE DEF IInv
<1>1. TypeInv'
    BY NextTypes
<1>2. CASE Worker
    BY <1>2, WorkerReadings
<1>3. CASE Network
    BY <1>3, NetworkReadings
<1>4. CASE Callers
  <2>1. CASE (\E list \in scene.lists : Save(list)) \/ SyncAsync \/ Close
    <3>1. UNCHANGED <<p, jobs, broker, said, newest>>
        BY <2>1 DEF Save, SyncAsync, Close, chans, retained, history
    <3> QED BY <1>1, <3>1, OtherStep
  <2> QED BY <1>4, <2>1, OnEventReadings, OnHealthReadings DEF Callers
<1>5. CASE UNCHANGED vars
  <2>1. UNCHANGED <<p, jobs, broker, said, newest>>
      BY <1>5 DEF vars, chans, retained, history
  <2> QED BY <1>1, <2>1, OtherStep
<1> QED BY <1>2, <1>3, <1>4, <1>5 DEF Next

LEMMA InitMirror == Init => Watched!Init
<1> SUFFICES ASSUME Init PROVE Watched!Init
    OBVIOUS
<1>1. /\ p = NewP /\ broker = [s \in Slugs |-> Left(s)]
      /\ said = [n \in Names |-> 0] /\ newest = said
    BY Zenon DEF Init
<1>2. p.slugs = {}
    BY <1>1 DEF NewP
<1>3. broker \in BrokerType
    BY InitTypes DEF TypeInv, WorldType, BrokerType
<1>4. \A s \in Slugs : broker[s].state.reading \in {None, <<"old">>}
    BY <1>1 DEF Left, Bare, NoState, Topics
<1>5. ASSUME NEW n \in Names PROVE Shown(n, broker) = 0
  <2>1. ~(Shown(n, broker) > 0)
    <3> SUFFICES ASSUME Shown(n, broker) > 0 PROVE FALSE
        OBVIOUS
    <3>1. /\ SlugOf[n] \in Slugs
          /\ broker[SlugOf[n]].state.reading = <<n, Shown(n, broker)>>
        BY <1>3, ShownIs
    <3>2. <<n, Shown(n, broker)>> \notin {None, <<"old">>}
        BY DEF None
    <3> QED BY <1>4, <3>1, <3>2
  <2>2. Shown(n, broker) \in Nat
      BY <1>3, ShownIs
  <2> QED BY <2>1, <2>2
<1>6. ASSUME NEW n \in Names PROVE Taken(n, p.want) = 0
  <2>1. SlugOf[n] # NoSlug => p.want[SlugOf[n]].reading = None
      BY <1>1, SlugsType DEF NewP, NoState, Topics
  <2> QED BY <2>1 DEF Taken
<1> QED BY <1>1, <1>2, <1>5, <1>6 DEF Watched!Init

-----------------------------------------------------------------------------
(* The theorems. *)

\* However saves, polls, the connection, the broker and Home Assistant cross, the
\* worker's bookkeeping stays what syncWorker keeps it to: no slug is twice in its
\* list, at most QueueCap jobs wait and one list, and a slug whose clear it remembers
\* has no config of its own but one claimed, pending or about to be (Sync,
\* flushPendingClear, enqueue).
THEOREM TypeCorrect == Spec => []TypeOK
<1>1. Init => TypeInv
    BY InitTypes
<1>2. TypeInv /\ [Next]_vars => TypeInv'
    BY NextTypes
<1>3. TypeInv => TypeOK
  <2> SUFFICES ASSUME TypeInv PROVE TypeOK
      OBVIOUS
  <2>1. p \in PType /\ w \in WType
      BY DEF TypeInv, WorkerType
  <2> QED BY <2>1 DEF TypeInv, WorkerType, WorldType, SlugsOnce, ClearsKnown, TypeOK, PType,
             WType
<1> QED BY <1>1, <1>2, <1>3, PTL DEF Spec

\* A watch's readings are taken up only while its name is in the worker's list, each
\* newer than the last, and what Home Assistant is shown is the last one taken up and
\* only moves forward: no job left in the queue when its watch was removed or renamed is
\* taken up, and no resync after a reconnect brings an older reading back. A watch that
\* is gone may yet be shown as it was left, when another has its slug (onEvent, sync,
\* setState, resync).
THEOREM ImplementsMirror == Spec => Mirrors
<1>1. Init => IInv
    BY InitTypes, InitReadings DEF IInv
<1>2. IInv /\ [Next]_vars => IInv'
    BY NextTypes, NextReadings DEF IInv
<1>3. Init => Watched!Init
    BY InitMirror
<1>4. IInv /\ [Next]_vars => [Watched!Next]_(Watched!vars)
    BY NextReadings DEF Mirrored
<1> QED BY <1>1, <1>2, <1>3, <1>4, PTL DEF Spec, Mirrors, Watched!Spec

-----------------------------------------------------------------------------
(* Another watchglass's devices. *)

\* Every list the worker has or is handed was saved once (or is the empty one it
\* starts with), and its slugs are one of those lists'.
KnownLists ==
    LET lists == scene.lists \cup {<<>>} IN
    /\ p.watches \in lists /\ w.list \in lists
    /\ syncCh = <<>> \/ \E list \in scene.lists : syncCh = <<list>>
    /\ p.slugs \in {NamesOf(list) : list \in lists}

BoundsLeft ==
    /\ left \in [Bounded -> Nat]
    /\ scene.bounds.twins = 0 => left.twins = 0
    /\ scene.bounds.restarts = 0 => left.restarts = 0

\* The record of the other one stands until the broker forgets it, and then its
\* configs are gone too, for good; while it stands, a worker that may clear what it
\* did not publish has the record, or it is still coming in and nothing is settled.
RecordStands ==
    /\ owners \subseteq scene.record /\ record \subseteq scene.record
    /\ record # scene.record =>
          /\ left.twins = 0
          /\ \A s \in scene.others : broker[s].cfg # <<"other">>
    /\ record = scene.record /\ p.sweepOK
          => "record" \in arriving \/ owners = scene.record
    /\ settled /\ p.sweepOK => "record" \notin arriving
NonePending == record = scene.record => (p.pendingClear \cup p.cleared) \cap scene.others = {}

OthersInv == KnownLists /\ BoundsLeft /\ (scene.others # {} => RecordStands /\ NonePending)

\* What a step that may lose the connection does to the bounds and what comes in.
Carries ==
    /\ left' = left \/ (left.losses > 0 /\ left' = [left EXCEPT !.losses = @ - 1])
    /\ arriving' \in {arriving, arriving \ Slugs}

LEMMA GoesCarries ==
    ASSUME NEW all, NEW out,
           Goes(all, out) \/ UNCHANGED <<conn, subs, arriving, haMsgs, left>>
    PROVE  Carries
BY DEF Goes, Drop, Carries

LEMMA SpendKeeps ==
    ASSUME BoundsLeft, scene' = scene, NEW kind \in Bounded,
           left' = left \/ (left[kind] > 0 /\ left' = [left EXCEPT ![kind] = @ - 1])
    PROVE  BoundsLeft' /\ (left.twins = 0 => left'.twins = 0)
<1>1. CASE left' = left
    BY <1>1 DEF BoundsLeft
<1>2. CASE left[kind] > 0 /\ left' = [left EXCEPT ![kind] = @ - 1]
  <2>1. /\ left \in [Bounded -> Nat] /\ left[kind] - 1 \in Nat
        /\ "twins" \in Bounded /\ "restarts" \in Bounded
      BY <1>2 DEF BoundsLeft, Bounded
  <2>2. left' \in [Bounded -> Nat]
      BY <1>2, <2>1
  <2>3. \A k \in Bounded : left[k] = 0 => left'[k] = 0
      BY <1>2, <2>1
  <2>4. (left.twins = 0 => left'.twins = 0) /\ (left.restarts = 0 => left'.restarts = 0)
      BY <2>1, <2>3
  <2> QED BY <2>2, <2>4 DEF BoundsLeft
<1> QED BY <1>1, <1>2

LEMMA CarriesKeeps ==
    ASSUME BoundsLeft, scene' = scene, Carries
    PROVE  BoundsLeft' /\ (left.twins = 0 => left'.twins = 0)
<1>1. "losses" \in Bounded
    BY DEF Bounded
<1>2. left' = left \/ (left["losses"] > 0 /\ left' = [left EXCEPT !["losses"] = @ - 1])
    BY DEF Carries
<1> QED BY <1>1, <1>2, SpendKeeps

\* None of the watches' slugs is in the other one's record.
LEMMA OursApart ==
    ASSUME TypeInv, KnownLists, scene.others # {}
    PROVE  /\ claimedSlugs \cap scene.record = {}
           /\ SlugsOf(NamesOf(w.list)) \cap scene.record = {}
           /\ scene.others \subseteq scene.record /\ scene.record \subseteq Slugs
<1>1. scene \in Scenarios
    BY DEF TypeInv, WorldType
<1>2. \A list \in scene.lists \cup {<<>>} : SlugsOf(NamesOf(list)) \cap scene.record = {}
    BY <1>1, OthersAssumption, EmptyList
<1>3. PICK list \in scene.lists \cup {<<>>} : p.slugs = NamesOf(list)
    BY DEF KnownLists
<1>4. claimedSlugs = SlugsOf(NamesOf(list))
    BY <1>3 DEF claimedSlugs
<1>5. w.list \in scene.lists \cup {<<>>}
    BY DEF KnownLists
<1> QED BY <1>1, <1>2, <1>4, <1>5, OthersAssumption, ScenarioAssumption

\* A step that brings in no record, clears nothing new and gives the other one no
\* config.
LEMMA OthersFrame ==
    ASSUME TypeInv, OthersInv, scene' = scene, Carries,
           UNCHANGED <<record, owners, settled>>, p'.sweepOK = p.sweepOK,
           \A s \in scene.others : broker'[s].cfg = <<"other">> => broker[s].cfg = <<"other">>,
           scene.others # {} /\ record = scene.record =>
               (p'.pendingClear \cup p'.cleared) \cap scene.others = {}
    PROVE  BoundsLeft' /\ (scene.others # {} => (RecordStands /\ NonePending)')
<1>1. BoundsLeft' /\ (left.twins = 0 => left'.twins = 0)
    BY CarriesKeeps DEF OthersInv
<1>2. ASSUME scene.others # {}
      PROVE  (RecordStands /\ NonePending)'
  <2>1. RecordStands /\ NonePending
      BY <1>2 DEF OthersInv
  <2>2. ("record" \in arriving' <=> "record" \in arriving)
      BY RecordAssumption DEF Carries
  <2> QED BY <1>1, <1>2, <2>1, <2>2 DEF RecordStands, NonePending
<1> QED BY <1>1, <1>2

\* A worker step that keeps the worker's plan, or takes no list that is not one of
\* those it may, and gives no slug of the other's a config, keeps all of it.
Leaves == \A s \in scene.others : broker[s].cfg = <<"other">> => broker'[s].cfg # None

LEMMA OthersKept ==
    ASSUME TypeInv, OthersInv, scene' = scene, Carries,
           UNCHANGED <<record, owners, settled>>, PlanKept,
           w'.list \in {w.list, <<>>}, syncCh' = syncCh,
           \A s \in Slugs : broker'[s].cfg = broker[s].cfg
    PROVE  OthersInv' /\ Leaves
<1>1. scene.others \subseteq Slugs
    BY ScenarioAssumption DEF TypeInv, WorldType
<1>2. KnownLists'
    BY DEF OthersInv, KnownLists, PlanKept
<1>3. BoundsLeft' /\ (scene.others # {} => (RecordStands /\ NonePending)')
  <2>1. scene.others # {} /\ record = scene.record => (p'.pendingClear \cup p'.cleared) \cap scene.others = {}
      BY DEF OthersInv, NonePending, PlanKept
  <2> QED BY <1>1, <2>1, OthersFrame DEF PlanKept
<1>4. Leaves
  <2>1. <<"other">> # None
      BY DEF None
  <2> QED BY <1>1, <2>1 DEF Leaves
<1> QED BY <1>2, <1>3, <1>4 DEF OthersInv

LEMMA OthersTakeList ==
    ASSUME TypeInv, OthersInv, PickSync \/ DrainSync
    PROVE  OthersInv' /\ Leaves
<1>1. PICK next : TakesList(next)
    BY DEF PickSync, DrainSync
<1>2. /\ syncCh # <<>> /\ syncCh' = <<>> /\ p' = [p EXCEPT !.listed = TRUE]
      /\ w' = [pc |-> "announce", list |-> syncCh[1], connected |-> conn, resync |-> FALSE]
      /\ UNCHANGED <<scene, left, arriving, record, owners, settled, broker>>
    BY <1>1 DEF TakesList, Begins, net, seenVars, retained
<1>3. PlanKept
    BY <1>2 DEF TypeInv, WorkerType, PType, PlanKept
<1>4. KnownLists'
  <2>1. PICK list \in scene.lists : syncCh = <<list>>
      BY <1>2 DEF OthersInv, KnownLists
  <2>2. w'.list = list
      BY <1>2, <2>1
  <2> QED BY <1>2, <1>3, <2>2 DEF OthersInv, KnownLists, PlanKept
<1>5. BoundsLeft' /\ (scene.others # {} => (RecordStands /\ NonePending)')
  <2>1. scene.others # {} /\ record = scene.record => (p'.pendingClear \cup p'.cleared) \cap scene.others = {}
      BY <1>3 DEF OthersInv, NonePending, PlanKept
  <2>2. Carries
      BY <1>2 DEF Carries
  <2> QED BY <1>2, <1>3, <2>1, <2>2, OthersFrame DEF PlanKept
<1>6. Leaves
    BY <1>2 DEF Leaves, None
<1> QED BY <1>2, <1>4, <1>5, <1>6 DEF OthersInv

LEMMA OthersPicks ==
    ASSUME TypeInv, OthersInv,
           PickConn \/ PickStray \/ PickHA \/ PickQuit \/ DrainRound
    PROVE  OthersInv' /\ Leaves
<1>1. p \in PType
    BY DEF TypeInv, WorkerType
<1>2. CASE PickConn
  <2>1. /\ p' = [p EXCEPT !.sent = [s \in Slugs |-> NoState], !.haUp = FALSE]
        /\ w' = [pc |-> "announce", list |-> p.watches, connected |-> conn, resync |-> TRUE]
        /\ UNCHANGED <<scene, left, syncCh, arriving, record, owners, settled, broker>>
      BY <1>2 DEF PickConn, Begins, net, seenVars, retained
  <2>2. PlanKept
      BY <1>1, <2>1 DEF PType, PlanKept
  <2>3. KnownLists'
      BY <2>1, <2>2 DEF OthersInv, KnownLists, PlanKept
  <2>4. BoundsLeft' /\ (scene.others # {} => (RecordStands /\ NonePending)')
    <3>1. scene.others # {} /\ record = scene.record => (p'.pendingClear \cup p'.cleared) \cap scene.others = {}
        BY <2>2 DEF OthersInv, NonePending, PlanKept
    <3>2. Carries
        BY <2>1 DEF Carries
    <3> QED BY <2>1, <2>2, <3>1, <3>2, OthersFrame DEF PlanKept
  <2>5. Leaves
      BY <2>1 DEF Leaves, None
  <2> QED BY <2>1, <2>3, <2>4, <2>5 DEF OthersInv
<1>3. CASE PickStray
  <2>1. /\ w' = [Idle EXCEPT !.pc = "sweep"]
        /\ UNCHANGED <<scene, left, syncCh, arriving, record, owners, settled, broker, p>>
      BY <1>3 DEF PickStray, net, seenVars, retained
  <2>2. w'.list = <<>>
      BY <2>1, IdleType DEF Idle
  <2>3. PlanKept /\ Carries
      BY <2>1 DEF PlanKept, Carries
  <2> QED BY <2>1, <2>2, <2>3, OthersKept
<1>4. CASE PickHA
  <2>1. UNCHANGED <<scene, syncCh, record, owners, settled, w>>
      BY <1>4, Zenon DEF PickHA, haChanged, seenVars
  <2>2. Carries
    <3>1. \E all, out : Goes(all, out) \/ UNCHANGED <<conn, subs, arriving, haMsgs, left>>
        BY <1>4, Zenon DEF PickHA, haChanged
    <3> QED BY <3>1, GoesCarries
  <2>3. PlanKept
    <3> DEFINE up == haState = "online"
               again == p.cleared \ claimedSlugs
    <3>1. PICK out \in SUBSET again :
            \/ p' = [p EXCEPT !.haUp = up, !.cleared = again \ out]
            \/ p' = [p EXCEPT !.haUp = up]
        BY <1>4, Zenon DEF PickHA, haChanged
    <3> HIDE DEF up, again
    <3>2. CASE p' = [p EXCEPT !.haUp = up]
        BY <1>1, <3>2 DEF PType, PlanKept
    <3>3. CASE p' = [p EXCEPT !.haUp = up, !.cleared = again \ out]
      <4>1. /\ p'.watches = p.watches /\ p'.slugs = p.slugs /\ p'.sweepOK = p.sweepOK
            /\ p'.pendingClear = p.pendingClear /\ p'.cleared = again \ out
          BY <1>1, <3>3 DEF PType
      <4> QED BY <4>1 DEF PlanKept, again
    <3> QED BY <3>1, <3>2, <3>3
  <2>4. scene.others \subseteq Slugs
      BY ScenarioAssumption DEF TypeInv, WorldType
  <2>5. \A s \in scene.others : /\ broker'[s].cfg \in {None, broker[s].cfg}
                                /\ s \notin p.cleared => broker'[s].cfg = broker[s].cfg
      BY <1>4, <2>4, PickHATypes
  <2>6. KnownLists'
      BY <2>1, <2>3 DEF OthersInv, KnownLists, PlanKept
  <2>7. BoundsLeft' /\ (scene.others # {} => (RecordStands /\ NonePending)')
    <3>1. scene.others # {} /\ record = scene.record =>
             (p'.pendingClear \cup p'.cleared) \cap scene.others = {}
        BY <2>3 DEF OthersInv, NonePending, PlanKept
    <3>2. None # <<"other">>
        BY DEF None
    <3> QED BY <2>1, <2>2, <2>3, <2>5, <3>1, <3>2, OthersFrame DEF PlanKept
  <2>8. Leaves
    <3> SUFFICES ASSUME NEW s \in scene.others, broker[s].cfg = <<"other">>
                 PROVE  broker'[s].cfg # None
        BY DEF Leaves
    <3>1. record = scene.record
        BY DEF OthersInv, RecordStands
    <3>2. s \notin p.cleared /\ <<"other">> # None
        BY <3>1 DEF OthersInv, NonePending, None
    <3> QED BY <2>5, <3>2
  <2> QED BY <2>1, <2>6, <2>7, <2>8 DEF OthersInv
<1>5. CASE PickQuit \/ DrainRound
  <2>1. UNCHANGED <<scene, left, syncCh, arriving, record, owners, settled, broker, p, w>>
      BY <1>5 DEF PickQuit, DrainRound, chans, net, seenVars, retained
  <2>2. PlanKept /\ Carries
      BY <2>1 DEF PlanKept, Carries
  <2> QED BY <2>1, <2>2, OthersKept
<1> QED BY <1>2, <1>3, <1>4, <1>5

LEMMA OthersTakeJob ==
    ASSUME TypeInv, OthersInv, PickJob \/ DrainJob
    PROVE  OthersInv' /\ Leaves
<1>1. PICK next \in {"no", "asked", "draining", "synced", "done"} : TakesJob(next)
    BY DEF PickJob, DrainJob, TypeInv, WorkerType
<1>2. PICK out \in SUBSET Topics : RunJob(Head(jobs), out)
    BY <1>1 DEF TakesJob
<1>3. PlanKept /\ \A s \in Slugs : broker'[s].cfg = broker[s].cfg
    BY <1>1, TakesJobTypes
<1>4. w' = w /\ UNCHANGED <<scene, syncCh, owners, settled, record>>
    BY <1>1, <1>2, RunJobKeeps DEF TakesJob
<1>5. Carries
  <2>1. \E all : Goes(all, out) \/ UNCHANGED <<conn, subs, arriving, haMsgs, left>>
      BY <1>2, Zenon DEF RunJob
  <2> QED BY <2>1, GoesCarries
<1> QED BY <1>3, <1>4, <1>5, OthersKept

\* The other's slugs are no watch's, so no config goes out for them.
LEMMA OthersAnnounce ==
    ASSUME TypeInv, OthersInv, Announce
    PROVE  OthersInv' /\ Leaves
<1>1. PICK done \in SUBSET Winners(w.list) :
        /\ Announces(done)
        /\ \/ Goes(Winners(w.list), done)
           \/ UNCHANGED <<conn, subs, arriving, haMsgs, left>>
    BY DEF Announce
<1>2. /\ p'.slugs = p.slugs /\ p'.watches = w.list /\ p'.sweepOK = p.sweepOK
      /\ p'.pendingClear = p.pendingClear /\ p'.cleared = p.cleared
      /\ \A s \in Slugs \ SlugsOf(NamesOf(w.list)) : broker'[s].cfg = broker[s].cfg
    BY <1>1, AnnouncesTypes
<1>3. /\ w' = [w EXCEPT !.pc = "swap"]
      /\ UNCHANGED <<scene, syncCh, owners, settled, record>>
    BY DEF Announce, chans, seenVars
<1>4. w'.list = w.list
    BY <1>3 DEF TypeInv, WorkerType, WType
<1>5. KnownLists'
    BY <1>2, <1>3, <1>4 DEF OthersInv, KnownLists
<1>6. \A s \in scene.others : broker'[s].cfg = broker[s].cfg
    BY <1>2, OursApart DEF OthersInv
<1>7. BoundsLeft' /\ (scene.others # {} => (RecordStands /\ NonePending)')
  <2>1. scene.others # {} /\ record = scene.record => (p'.pendingClear \cup p'.cleared) \cap scene.others = {}
      BY <1>2 DEF OthersInv, NonePending
  <2>2. Carries
      BY <1>1, GoesCarries
  <2> QED BY <1>2, <1>3, <1>6, <2>1, <2>2, OthersFrame
<1>8. Leaves
    BY <1>6 DEF Leaves, None
<1> QED BY <1>3, <1>5, <1>7, <1>8 DEF OthersInv

\* Nor is one pending: what a flush clears is of this one.
LEMMA OthersFlush ==
    ASSUME TypeInv, OthersInv, NEW q \in PType, NEW claimed \in SUBSET Slugs,
           NEW connected, Flush(q, claimed, connected),
           scene' = scene, UNCHANGED <<record, owners, settled>>, q.sweepOK = p.sweepOK,
           scene.others # {} /\ record = scene.record =>
               (q.pendingClear \cup q.cleared) \cap scene.others = {}
    PROVE  BoundsLeft' /\ (scene.others # {} => (RecordStands /\ NonePending)') /\ Leaves
<1>1. scene.others \subseteq Slugs
    BY ScenarioAssumption DEF TypeInv, WorldType
<1>2. /\ p'.sweepOK = p.sweepOK
      /\ p'.pendingClear \cup p'.cleared \subseteq q.pendingClear \cup q.cleared
      /\ \A s \in Slugs : broker'[s].cfg \in {None, broker[s].cfg}
      /\ \A s \in Slugs \ q.pendingClear : broker'[s].cfg = broker[s].cfg
    BY FlushCfgs DEF TypeInv
<1>3. Carries
  <2>1. \E all, out : Goes(all, out) \/ UNCHANGED <<conn, subs, arriving, haMsgs, left>>
      BY DEF Flush
  <2> QED BY <2>1, GoesCarries
<1>4. None # <<"other">>
    BY DEF None
<1>5. BoundsLeft' /\ (scene.others # {} => (RecordStands /\ NonePending)')
    BY <1>1, <1>2, <1>3, <1>4, OthersFrame
<1>6. Leaves
  <2> SUFFICES ASSUME NEW s \in scene.others, broker[s].cfg = <<"other">>
               PROVE  broker'[s].cfg # None
      BY DEF Leaves
  <2>1. record = scene.record
      BY DEF OthersInv, RecordStands
  <2> QED BY <1>1, <1>2, <1>4, <2>1
<1> QED BY <1>5, <1>6

LEMMA OthersSwap ==
    ASSUME TypeInv, OthersInv, Swap
    PROVE  OthersInv' /\ Leaves
<1> DEFINE next == NamesOf(w.list)
           gone == Vanished(next)
           want == [s \in Slugs |-> IF s \in gone THEN NoState ELSE p.want[s]]
           sent == [s \in Slugs |-> IF s \in gone THEN NoState ELSE p.sent[s]]
           q == [p EXCEPT !.slugs = next, !.pendingClear = @ \cup gone,
                          !.want = want, !.sent = sent]
<1>1. p \in PType /\ w.list \in Lists /\ w \in WType
    BY DEF TypeInv, WorkerType, WType
<1>2. next \in SUBSET Names /\ SlugsOf(next) \in SUBSET Slugs
    BY <1>1, ListTypes
<1>3. gone = claimedSlugs \ SlugsOf(next) /\ gone \in SUBSET Slugs
  <2>1. gone = claimedSlugs \ SlugsOf(next)
      BY DEF Vanished, claimedSlugs
  <2>2. claimedSlugs \in SUBSET Slugs
      BY <1>1, SlugsType DEF claimedSlugs, SlugsOf, PType, TypeInv, SlugsOnce
  <2> QED BY <2>1, <2>2
<1>4. want \in [Slugs -> States] /\ sent \in [Slugs -> States]
    BY <1>1, PayloadTypes DEF PType
<1>5. /\ Flush(q, SlugsOf(next), w.connected)
      /\ w' = [w EXCEPT !.pc = IF w.resync THEN "states" ELSE "sweep"]
      /\ UNCHANGED <<scene, syncCh, owners, settled, record>>
    BY DEF Swap, chans, seenVars
<1> HIDE DEF want, sent, gone
<1>6. /\ q \in PType /\ q.slugs = next /\ q.pendingClear = p.pendingClear \cup gone
      /\ q.sweepOK = p.sweepOK /\ q.watches = p.watches /\ q.cleared = p.cleared
    BY <1>1, <1>2, <1>3, <1>4 DEF PType
<1> HIDE DEF q
<1>7. scene.others # {} /\ record = scene.record => (q.pendingClear \cup q.cleared) \cap scene.others = {}
    BY <1>3, <1>6, OursApart DEF OthersInv, NonePending
<1>8. BoundsLeft' /\ (scene.others # {} => (RecordStands /\ NonePending)') /\ Leaves
    BY <1>2, <1>5, <1>6, <1>7, OthersFlush
<1>9. p'.watches = p.watches /\ p'.slugs = next
    BY <1>2, <1>5, <1>6, FlushCfgs DEF TypeInv
<1>10. w'.list = w.list
    BY <1>1, <1>5 DEF WType
<1>11. KnownLists'
    BY <1>5, <1>9, <1>10 DEF OthersInv, KnownLists
<1> QED BY <1>5, <1>8, <1>11 DEF OthersInv

LEMMA OthersSweepClears ==
    ASSUME TypeInv, OthersInv, SweepClears
    PROVE  OthersInv' /\ Leaves
<1>1. p \in PType /\ w \in WType
    BY DEF TypeInv, WorkerType
<1>2. claimedSlugs \in SUBSET Slugs
    BY <1>1, SlugsType DEF claimedSlugs, SlugsOf, PType, TypeInv, SlugsOnce
<1>3. /\ Flush(p, claimedSlugs, TRUE) /\ w' = [w EXCEPT !.pc = "owners"]
      /\ UNCHANGED <<scene, syncCh, owners, settled, record>>
    BY DEF SweepClears, chans, seenVars
<1>4. scene.others # {} /\ record = scene.record => (p.pendingClear \cup p.cleared) \cap scene.others = {}
    BY DEF OthersInv, NonePending
<1>5. BoundsLeft' /\ (scene.others # {} => (RecordStands /\ NonePending)') /\ Leaves
    BY <1>1, <1>2, <1>3, <1>4, OthersFlush
<1>6. p'.watches = p.watches /\ p'.slugs = p.slugs
    BY <1>1, <1>2, <1>3, FlushCfgs DEF TypeInv
<1>7. w'.list = w.list
    BY <1>1, <1>3 DEF WType
<1>8. KnownLists'
    BY <1>3, <1>6, <1>7 DEF OthersInv, KnownLists
<1> QED BY <1>3, <1>5, <1>8 DEF OthersInv

LEMMA OthersResend ==
    ASSUME TypeInv, OthersInv, Resend
    PROVE  OthersInv' /\ Leaves
<1>1. PlanKept /\ \A s \in Slugs : broker'[s].cfg = broker[s].cfg
    BY ResendTypes
<1>2. w' = [w EXCEPT !.pc = "follow"] /\ UNCHANGED <<scene, chans, seenVars, settled, record>>
    BY Zenon DEF Resend
<1>3. w'.list = w.list /\ UNCHANGED <<syncCh, owners>>
    BY <1>2 DEF TypeInv, WorkerType, WType, chans, seenVars
<1>4. Carries
  <2>1. \E all, out : Goes(all, out)
      BY Zenon DEF Resend
  <2> QED BY <2>1, GoesCarries
<1> QED BY <1>1, <1>2, <1>3, <1>4, OthersKept

LEMMA OthersPublishOwners ==
    ASSUME TypeInv, OthersInv, publishOwners
    PROVE  OthersInv' /\ Leaves
<1>1. /\ w' = Idle
      /\ UNCHANGED <<scene, left, syncCh, arriving, owners, settled, broker, record>>
    BY DEF publishOwners, chans, net
<1>2. p' = p \/ p' = [p EXCEPT !.ownersSent = [run |-> "this", slugs |-> claimedSlugs]]
    BY DEF publishOwners
<1>3. PlanKept
    BY <1>2 DEF TypeInv, WorkerType, PType, PlanKept
<1>4. Carries /\ w'.list = <<>>
    BY <1>1, IdleType DEF Carries
<1> QED BY <1>1, <1>3, <1>4, OthersKept

\* A worker that starts to follow asks for the records again before it may sweep.
LEMMA OthersFollow ==
    ASSUME TypeInv, OthersInv, Follow
    PROVE  OthersInv' /\ Leaves
<1>1. PICK ok \in scene.sweeps :
        p' = [p EXCEPT !.swept = {}, !.ownersSent = NoOurs,
                       !.followed = conn, !.sweepOK = conn /\ ok]
    BY Zenon DEF Follow
<1>2. /\ subs' = p'.sweepOK /\ settled' = (settled /\ ~conn)
      /\ w' = [w EXCEPT !.pc = "sweep"]
      /\ UNCHANGED <<scene, left, syncCh, owners, broker, record>>
    BY DEF Follow, chans, seenVars, retained
<1>3. p \in PType /\ w \in WType
    BY DEF TypeInv, WorkerType
<1>4. /\ p'.watches = p.watches /\ p'.slugs = p.slugs /\ p'.pendingClear = p.pendingClear
      /\ p'.sweepOK = (conn /\ ok) /\ p'.cleared = p.cleared
    BY <1>1, <1>3 DEF PType, NoOurs
<1>5. subs' /\ record # {} => "record" \in arriving'
    BY DEF Follow
<1>6. w'.list = w.list
    BY <1>2, <1>3 DEF WType
<1>7. KnownLists'
    BY <1>2, <1>4, <1>6 DEF OthersInv, KnownLists
<1>8. BoundsLeft'
    BY <1>2 DEF OthersInv, BoundsLeft
<1>9. ASSUME scene.others # {}
      PROVE  (RecordStands /\ NonePending)'
  <2>1. RecordStands /\ NonePending
      BY <1>9 DEF OthersInv
  <2>2. NonePending'
      BY <1>2, <1>4, <2>1 DEF NonePending
  <2>3. scene.record # {}
      BY <1>9, OursApart DEF OthersInv
  <2>4. record = scene.record /\ p'.sweepOK => "record" \in arriving'
      BY <1>2, <1>5, <2>3
  <2>5. ~(settled' /\ p'.sweepOK)
      BY <1>2, <1>4
  <2>6. RecordStands'
      BY <1>2, <2>1, <2>4, <2>5 DEF RecordStands
  <2> QED BY <2>2, <2>6
<1>10. Leaves
    BY <1>2 DEF Leaves, None
<1> QED BY <1>2, <1>7, <1>8, <1>9, <1>10 DEF OthersInv

\* A sweep finds none of the other's: its record is in by the time it may clear.
LEMMA OthersSweep ==
    ASSUME TypeInv, OthersInv, Sweep
    PROVE  OthersInv' /\ Leaves
<1> DEFINE found == strays \ (claimedSlugs \cup Elsewhere \cup p.pendingClear \cup p.swept)
<1>1. /\ UNCHANGED <<scene, syncCh, settled, broker>>
      /\ w' = Idle \/ w' = [w EXCEPT !.pc = "owners"] \/ w' = [w EXCEPT !.pc = "clear"]
      /\ UNCHANGED <<left, arriving>> \/ Retires
      /\ Carries
    BY DEF Sweep, chans, Carries, Drop
<1>2. p \in PType /\ w \in WType
    BY DEF TypeInv, WorkerType
<1>3. /\ record' = record \/ Retires
      /\ owners' = owners \/ Retires
    BY DEF Sweep
<1>4. \/ p' = p
      \/ /\ settled /\ p.sweepOK
         /\ p' = [p EXCEPT !.swept = @ \cup found, !.lastCfg = @ \cup found,
                           !.pendingClear = @ \cup found]
    BY DEF Sweep, SweepReady
<1>5. found \in SUBSET Slugs
    BY DEF TypeInv, WorkerType
<1>6. scene.others # {} => ~Retires
    BY OursApart DEF Retires, OthersInv, RecordStands
<1>7. ASSUME scene.others # {}, record = scene.record, settled, p.sweepOK
      PROVE  found \cap scene.others = {}
  <2>1. owners = scene.record
      BY <1>7 DEF OthersInv, RecordStands
  <2>2. Elsewhere = owners
      BY <1>6, <1>7 DEF Elsewhere, Retires
  <2>3. scene.others \subseteq scene.record
      BY <1>7, OursApart DEF OthersInv
  <2> QED BY <2>1, <2>2, <2>3
<1> HIDE DEF found
<1>8. /\ p'.watches = p.watches /\ p'.slugs = p.slugs /\ p'.sweepOK = p.sweepOK
      /\ p'.cleared = p.cleared
      /\ \/ p'.pendingClear = p.pendingClear
         \/ settled /\ p.sweepOK /\ p'.pendingClear = p.pendingClear \cup found
  <2>1. CASE p' = p
      BY <2>1
  <2>2. CASE /\ settled /\ p.sweepOK
             /\ p' = [p EXCEPT !.swept = @ \cup found, !.lastCfg = @ \cup found,
                               !.pendingClear = @ \cup found]
      BY <1>2, <1>5, <2>2 DEF PType
  <2> QED BY <1>4, <2>1, <2>2
<1>9. w'.list \in {w.list, <<>>}
    BY <1>1, <1>2, IdleType DEF WType
<1>10. KnownLists'
    BY <1>1, <1>8, <1>9 DEF OthersInv, KnownLists
<1>11. BoundsLeft'
    BY <1>1, CarriesKeeps DEF OthersInv
<1>12. ASSUME scene.others # {}
       PROVE  (RecordStands /\ NonePending)'
  <2>1. RecordStands /\ NonePending
      BY <1>12 DEF OthersInv
  <2>2. record' = record /\ owners' = owners /\ UNCHANGED <<left, arriving>>
      BY <1>1, <1>3, <1>6, <1>12
  <2>3. NonePending'
      BY <1>1, <1>7, <1>8, <1>12, <2>1, <2>2 DEF NonePending
  <2>4. RecordStands'
      BY <1>1, <1>8, <2>1, <2>2 DEF RecordStands
  <2> QED BY <2>3, <2>4
<1>13. Leaves
    BY <1>1 DEF Leaves, None
<1> QED BY <1>1, <1>10, <1>11, <1>12, <1>13 DEF OthersInv

LEMMA OthersWorker ==
    ASSUME TypeInv, OthersInv, Worker
    PROVE  OthersInv' /\ Leaves
BY OthersTakeList, OthersPicks, OthersTakeJob, OthersAnnounce, OthersSwap, OthersResend,
   OthersFollow, OthersSweep, OthersSweepClears, OthersPublishOwners DEF Worker

LEMMA OthersCallers ==
    ASSUME TypeInv, OthersInv, Callers
    PROVE  OthersInv'
<1>1. UNCHANGED <<scene, p, w, owners, settled, arriving, broker, record>>
    BY DEF Callers, Save, SyncAsync, OnEvent, OnHealth, Close, seenVars, net, retained, chans
<1>2. syncCh' = syncCh \/ (syncCh' = <<saved>> /\ saved \in scene.lists)
    BY DEF Callers, Save, SyncAsync, OnEvent, OnHealth, Close, chans, TypeInv, WorldType
<1>3. KnownLists'
    BY <1>1, <1>2 DEF OthersInv, KnownLists
<1>4. \E kind \in Bounded :
         left' = left \/ (left[kind] > 0 /\ left' = [left EXCEPT ![kind] = @ - 1])
  <2>1. {"saves", "ticks", "healths", "closes"} \subseteq Bounded
      BY DEF Bounded
  <2>2. \/ left' = left
        \/ left["saves"] > 0 /\ left' = [left EXCEPT !["saves"] = @ - 1]
        \/ left["ticks"] > 0 /\ left' = [left EXCEPT !["ticks"] = @ - 1]
        \/ left["healths"] > 0 /\ left' = [left EXCEPT !["healths"] = @ - 1]
        \/ left["closes"] > 0 /\ left' = [left EXCEPT !["closes"] = @ - 1]
      BY DEF Callers, Save, SyncAsync, OnEvent, OnHealth, Close
  <2> QED BY <2>1, <2>2
<1>5. BoundsLeft' /\ (left.twins = 0 => left'.twins = 0)
    BY <1>1, <1>4, SpendKeeps DEF OthersInv
<1>6. ASSUME scene.others # {}
      PROVE  (RecordStands /\ NonePending)'
    BY <1>1, <1>5, <1>6 DEF OthersInv, RecordStands, NonePending
<1> QED BY <1>1, <1>3, <1>5, <1>6 DEF OthersInv

\* The world around the worker: one step of it costs one of the bounds at most, but a
\* broker that restarts, which costs a loss as well.
LEMMA OthersNetwork ==
    ASSUME TypeInv, OthersInv, Network
    PROVE  OthersInv'
<1>1. UNCHANGED <<scene, p, w, syncCh>>
    BY DEF Network, Connects, ConnectionLost, BrokerRestarts, TwinComes, Arrives, Settles,
           HAComes, HAGoes, onHAStatus, chans
<1>2. KnownLists'
    BY <1>1 DEF OthersInv, KnownLists
<1>3. BoundsLeft /\ {"losses", "births", "trips", "twins", "restarts"} \subseteq Bounded
    BY DEF OthersInv, Bounded
<1>4. ASSUME BoundsLeft', scene.others # {} => RecordStands'
      PROVE  OthersInv'
  <2>1. scene.others # {} => owners' \subseteq scene.record /\ record' \in {record, {}}
      BY DEF Network, Connects, ConnectionLost, BrokerRestarts, TwinComes, Arrives, Settles,
             HAComes, HAGoes, onHAStatus, seenVars, retained, OthersInv, RecordStands
  <2>2. ASSUME scene.others # {} PROVE NonePending'
    <3>1. scene.record # {} /\ NonePending
        BY <2>2, OursApart DEF OthersInv
    <3> QED BY <1>1, <2>1, <2>2, <3>1 DEF NonePending
  <2> QED BY <1>1, <1>2, <1>4, <2>2 DEF OthersInv
<1>5. CASE Connects \/ HAComes \/ HAGoes \/ (\E word \in haMsgs : onHAStatus(word))
  <2>1. UNCHANGED <<arriving, owners, settled, broker, record>>
      BY <1>5 DEF Connects, HAComes, HAGoes, onHAStatus, seenVars, retained
  <2>2. \/ left' = left
        \/ left["births"] > 0 /\ left' = [left EXCEPT !["births"] = @ - 1]
        \/ left["trips"] > 0 /\ left' = [left EXCEPT !["trips"] = @ - 1]
      BY <1>5 DEF Connects, HAComes, HAGoes, onHAStatus
  <2>3. BoundsLeft' /\ (left.twins = 0 => left'.twins = 0)
      BY <1>1, <1>3, <2>2, SpendKeeps
  <2>4. scene.others # {} => RecordStands'
      BY <1>1, <2>1, <2>3 DEF OthersInv, RecordStands
  <2> QED BY <1>4, <2>3, <2>4
<1>6. CASE ConnectionLost
  <2>1. /\ Carries /\ UNCHANGED <<owners, settled, broker, record>>
      BY <1>6 DEF ConnectionLost, Drop, Carries, seenVars, retained
  <2>2. scene.others # {} /\ record = scene.record => (p'.pendingClear \cup p'.cleared) \cap scene.others = {}
      BY <1>1 DEF OthersInv, NonePending
  <2> QED BY <1>1, <1>2, <2>1, <2>2, OthersFrame DEF OthersInv
<1>7. CASE \E x \in arriving : Arrives(x)
  <2>1. PICK x \in arriving : Arrives(x)
      BY <1>7
  <2>2. /\ arriving' = arriving \ {x} /\ owners' = IF x = "record" THEN record ELSE owners
        /\ UNCHANGED <<left, settled, broker, record>>
      BY <2>1 DEF Arrives, retained
  <2>3. BoundsLeft'
      BY <1>1, <1>3, <2>2 DEF BoundsLeft
  <2>4. scene.others # {} => RecordStands'
      BY <1>1, <2>2 DEF OthersInv, RecordStands
  <2> QED BY <1>4, <2>3, <2>4
<1>8. CASE Settles
  <2>1. /\ "record" \notin arriving
        /\ UNCHANGED <<left, arriving, owners, broker, record>>
      BY <1>8 DEF Settles, seenVars, retained
  <2>2. BoundsLeft'
      BY <1>1, <1>3, <2>1 DEF BoundsLeft
  <2>3. scene.others # {} => RecordStands'
      BY <1>1, <2>1 DEF OthersInv, RecordStands
  <2> QED BY <1>4, <2>2, <2>3
\* A second process puts its configs there, next to the record that stands.
<1>9. CASE TwinComes
  <2>1. /\ left["twins"] > 0 /\ left' = [left EXCEPT !["twins"] = @ - 1]
        /\ arriving' \in {arriving, arriving \ Slugs}
        /\ UNCHANGED <<owners, settled, record>>
      BY <1>9 DEF TwinComes, Drop, seenVars
  <2>2. BoundsLeft'
      BY <1>1, <1>3, <2>1, SpendKeeps
  <2>3. "record" \in arriving' <=> "record" \in arriving
      BY <2>1, RecordAssumption
  <2>4. ASSUME scene.others # {} PROVE RecordStands'
    <3>1. RecordStands /\ left.twins \in Nat
        BY <2>4 DEF OthersInv, BoundsLeft, Bounded
    <3>2. record = scene.record
        BY <2>1, <3>1 DEF RecordStands
    <3> QED BY <1>1, <2>1, <2>3, <3>1, <3>2 DEF RecordStands
  <2> QED BY <1>4, <2>2, <2>4
\* With the record go the configs, and nobody comes to put them there again.
<1>10. CASE BrokerRestarts
  <2>1. /\ left["losses"] > 0 /\ left["restarts"] > 0
        /\ left' = [left EXCEPT !.losses = @ - 1, !.restarts = @ - 1]
        /\ broker' = [s \in Slugs |-> Bare] /\ record' = {}
        /\ arriving' \in {arriving, arriving \ Slugs}
        /\ UNCHANGED <<owners, settled>>
      BY <1>10 DEF BrokerRestarts, Drop, seenVars
  <2>2. /\ left \in [Bounded -> Nat] /\ left["losses"] - 1 \in Nat
        /\ left["restarts"] - 1 \in Nat /\ "twins" \in Bounded
      BY <1>3, <2>1 DEF BoundsLeft
  <2>3. left' \in [Bounded -> Nat] /\ left'.twins = left.twins
      BY <2>1, <2>2
  <2>4. scene.bounds.restarts # 0
      BY <1>3, <2>1 DEF BoundsLeft
  <2>5. BoundsLeft'
      BY <1>1, <1>3, <2>3, <2>4 DEF BoundsLeft
  <2>6. ASSUME scene.others # {} PROVE RecordStands'
    <3>1. /\ RecordStands /\ scene.record # {} /\ scene \in Scenarios
          /\ scene.others \subseteq Slugs
        BY <2>6, OursApart DEF OthersInv, TypeInv, WorldType
    <3>2. scene.bounds.twins = 0
        BY <2>4, <2>6, <3>1, OthersAssumption
    <3>3. left'.twins = 0
        BY <1>3, <2>3, <3>2 DEF BoundsLeft
    <3>4. Bare.cfg = None /\ None # <<"other">>
        BY DEF Bare, None
    <3>5. \A s \in scene.others : broker'[s].cfg # <<"other">>
        BY <2>1, <3>1, <3>4
    <3>6. "record" \in arriving' <=> "record" \in arriving
        BY <2>1, RecordAssumption
    <3> QED BY <1>1, <2>1, <3>1, <3>3, <3>5, <3>6 DEF RecordStands
  <2> QED BY <1>4, <2>5, <2>6
<1> QED BY <1>5, <1>6, <1>7, <1>8, <1>9, <1>10 DEF Network

LEMMA InitOthers == Init => OthersInv
<1> SUFFICES ASSUME Init PROVE OthersInv
    OBVIOUS
<1>1. /\ scene \in Scenarios /\ left = scene.bounds /\ record = scene.record
      /\ p = NewP /\ w = Idle /\ owners = {} /\ settled = FALSE /\ syncCh = <<>>
    BY Zenon DEF Init
<1>2. p.watches = <<>> /\ p.slugs = {} /\ p.sweepOK = FALSE /\ p.pendingClear = {}
      /\ p.cleared = {}
    BY <1>1 DEF NewP
<1>3. w.list = <<>>
    BY <1>1, IdleType
<1>4. {} \in {NamesOf(list) : list \in scene.lists \cup {<<>>}}
    BY EmptyList
<1>5. KnownLists
    BY <1>1, <1>2, <1>3, <1>4 DEF KnownLists
<1>6. BoundsLeft
    BY <1>1, ScenarioAssumption DEF BoundsLeft
<1>7. RecordStands /\ NonePending
    BY <1>1, <1>2 DEF RecordStands, NonePending
<1> QED BY <1>5, <1>6, <1>7 DEF OthersInv

LEMMA NextOthers ==
    ASSUME TypeInv, OthersInv, [Next]_vars
    PROVE  OthersInv' /\ (Worker => Leaves)
<1>1. CASE Worker
    BY <1>1, OthersWorker
<1>2. CASE ~Worker /\ (Callers \/ Network)
    BY <1>2, OthersCallers, OthersNetwork
<1>3. CASE ~Worker /\ UNCHANGED vars
  <2>1. UNCHANGED <<scene, left, p, w, syncCh, owners, settled, arriving, broker, record>>
      BY <1>3 DEF vars, chans, seenVars, net, retained
  <2> QED BY <1>3, <2>1 DEF OthersInv, KnownLists, BoundsLeft, RecordStands, NonePending
<1> QED BY <1>1, <1>2, <1>3 DEF Next

\* The worker never clears what the broker retains of another watchglass whose record
\* it can get: not on a reconnect, not when the record comes in after the configs, not
\* when a second process takes its client_id over, whatever is saved and lost meanwhile
\* (sweepStrays, onOwnerRecord).
THEOREM LeavesOthersAlone == Spec => OthersLeftAlone
<1>1. Init => TypeInv /\ OthersInv
    BY InitTypes, InitOthers
<1>2. TypeInv /\ OthersInv /\ [Next]_vars => (TypeInv /\ OthersInv)'
    BY NextTypes, NextOthers
<1>3. TypeInv /\ OthersInv /\ [Next]_vars =>
         [Worker => \A s \in scene.others :
             broker[s].cfg = <<"other">> => broker'[s].cfg # None]_vars
    BY NextOthers DEF Leaves
<1> QED BY <1>1, <1>2, <1>3, PTL DEF Spec, OthersLeftAlone

-----------------------------------------------------------------------------
(* At rest. *)

\* The worker has been told of the connection there is.
Told == conn /\ ~connCh
\* It is sending everything again on it, and has not yet sent X.
Resyncing(pcs) == w.resync /\ w.pc \in pcs

RestTypes ==
    /\ connCh \in BOOLEAN /\ strayCh \in BOOLEAN /\ dupClient \in BOOLEAN
    /\ ha \in [on : BOOLEAN, has : SUBSET Slugs, seen : SUBSET Slugs]
    /\ missed \subseteq Slugs /\ spared \subseteq Slugs

\* The newest list is handed over, waits, or is the one the worker works from.
HasList ==
    /\ handed /\ syncCh = <<>> =>
          saved = IF w.pc = "announce" THEN w.list ELSE p.watches
    /\ handed /\ syncCh # <<>> => syncCh[1] = saved
    /\ w.pc = "swap" => p.watches = w.list
    /\ w.pc # "swap" => p.slugs = NamesOf(p.watches)
    /\ Resyncing({"announce", "swap"}) => p.slugs = NamesOf(w.list)
    /\ quit # "no" => handed
    /\ quit = "done" => syncCh = <<>> /\ jobs = <<>>

\* The configs of the worker's list are out on a connection it was told of.
CfgsOut ==
    /\ Told /\ w.pc \in {"announce", "swap"} => w.connected
    /\ Told /\ ~Resyncing({"announce"}) =>
          /\ \A e \in Winners(p.watches) :
                /\ broker[SlugOf[e.name]].cfg = <<e.name>>
                /\ broker[SlugOf[e.name]].valueCfg = e.number
          /\ \A s \in claimedSlugs : broker[s].cfg # None
    /\ \A s \in Slugs : p.optCfg[s] = "cleared" => ~broker[s].valueCfg

\* So is the state of its watches; what it takes for sent is there.
NoneUnclaimed == \A s \in Slugs \ claimedSlugs : p.want[s] = NoState /\ p.sent[s] = NoState
SentIsThere ==
    Told => \A s \in Slugs, t \in Topics :
               p.sent[s][t] # None => broker[s].state[t] = p.sent[s][t]
WantIsSent ==
    Told /\ w.pc # "states" /\ ~Resyncing({"announce", "swap"}) =>
        \A s \in Slugs, t \in Topics : p.want[s][t] # None => p.sent[s][t] = p.want[s][t]
StatesOut == NoneUnclaimed /\ SentIsThere /\ WantIsSent

\* What was last queued for a watch waits in the queue with nothing after it, or
\* is what the worker has of it.
DueTyped == due \in [Names -> [reading : Payloads, health : Payloads]]
DueOf(n) == {due[n].reading, due[n].health} # {None}
DueListed ==
    \A n \in Names : DueOf(n) => \E e \in Winners(saved) :
        /\ e.name = n /\ n \in p.slugs /\ e \in Winners(p.watches)
        /\ w.pc = "announce" => e \in Winners(w.list)
        /\ syncCh # <<>> => e \in Winners(syncCh[1])
SaysNothing(n, t, i) == jobs[i].name = n => jobs[i].set[t] = None
DueReading ==
    \A e \in Winners(saved) : LET x == due[e.name].reading IN x # None =>
        \/ \E i \in 1..Len(jobs) :
              /\ jobs[i].name = e.name /\ jobs[i].seed /\ jobs[i].set.reading = x
              /\ e.number => jobs[i].set.value = x
              /\ \A j \in 1..Len(jobs) : j > i => /\ SaysNothing(e.name, "reading", j)
                                                  /\ SaysNothing(e.name, "value", j)
        \/ /\ \A j \in 1..Len(jobs) : /\ SaysNothing(e.name, "reading", j)
                                      /\ SaysNothing(e.name, "value", j)
           /\ p.want[SlugOf[e.name]].reading = x /\ p.want[SlugOf[e.name]].health # None
           /\ e.number => p.want[SlugOf[e.name]].value = x
DueHealth ==
    \A e \in Winners(saved) : LET x == due[e.name].health IN x # None =>
        \/ \E i \in 1..Len(jobs) :
              /\ jobs[i].name = e.name /\ jobs[i].set.health = x
              /\ \A j \in 1..Len(jobs) : j > i => SaysNothing(e.name, "health", j)
        \/ /\ \A j \in 1..Len(jobs) : SaysNothing(e.name, "health", j)
           /\ p.want[SlugOf[e.name]].health = x
DueInv == DueTyped /\ DueListed /\ DueReading /\ DueHealth

\* Slugs no watch has are clear, to be cleared, or as they were found.
BeingListed == IF w.pc = "swap" THEN SlugsOf(NamesOf(w.list)) ELSE {}
CleanOrPending ==
    /\ \A s \in Slugs \ (claimedSlugs \cup p.pendingClear \cup BeingListed) :
          broker[s] = Bare \/ (broker[s] = Left(s) /\ s \notin p.cleared)
    /\ claimedSlugs \cup p.pendingClear \cup BeingListed \subseteq p.lastCfg
    /\ Told /\ w.pc # "clear" /\ ~Resyncing({"announce", "swap"}) => p.pendingClear = {}

\* What an earlier run left is still coming in, waits for the sweep, or was swept
\* or passed over; and the sweep comes if anything waits for it.
ToSweep == strayCh \/ connCh \/ w.pc \in {"announce", "swap", "states", "follow", "sweep"}
IsOld(s) == broker[s].cfg = <<"old">>
SweepInv ==
    /\ (subs => p.sweepOK) /\ (p.sweepOK => p.followed)
    /\ Told /\ w.pc \notin {"states", "follow"} /\ ~Resyncing({"announce", "swap"}) =>
          (p.sweepOK => subs)
    /\ \A s \in p.swept : IsOld(s) => s \in p.pendingClear \cup claimedSlugs
    /\ subs /\ ~dupClient => \A s \in Slugs : IsOld(s) =>
          s \in arriving \cup strays \cup spared \cup p.pendingClear \cup claimedSlugs
    /\ strays # {} /\ SweepReady => ToSweep
RecordOut ==
    /\ subs /\ p.ownersSent # NoOurs => ours = p.ownersSent
    /\ SweepReady => \/ p.ownersSent = [run |-> "this", slugs |-> claimedSlugs]
                     \/ ToSweep \/ w.pc \in {"clear", "owners"}

\* What Home Assistant has a device of is accounted for, and one that said it is
\* there since has seen every config there is.
Retained == {s \in Slugs : broker[s].cfg # None}
GhostInv ==
    /\ ha.has \subseteq claimedSlugs \cup p.cleared \cup missed \cup p.pendingClear \cup Retained
    /\ ha.on /\ ("online" \in haMsgs \/ haState = "online" \/ p.haUp) => Retained \subseteq ha.seen
    /\ Resyncing({"announce", "swap"}) => ~p.haUp
    /\ Told /\ p.haUp => p.cleared = {}
    /\ Told /\ w.pc = "clear" =>
          p.pendingClear \cap ha.has \subseteq p.cleared \cup missed \cup Retained

RestInv == /\ RestTypes /\ HasList /\ CfgsOut /\ StatesOut /\ DueInv /\ CleanOrPending
           /\ SweepInv /\ RecordOut /\ GhostInv

-----------------------------------------------------------------------------
(* What the proof of rest needs of the operators. *)

LEMMA ClaimedType ==
    ASSUME TypeInv
    PROVE  claimedSlugs \in SUBSET Slugs
BY SlugsType DEF TypeInv, SlugsOnce, WorkerType, PType, claimedSlugs, SlugsOf

\* No two winners share a slug, and a name of a saved list is of one watch.
LEMMA EntriesApart ==
    ASSUME NEW list \in Lists
    PROVE  \A e, f \in Winners(list) : SlugOf[e.name] = SlugOf[f.name] => e = f
<1> SUFFICES ASSUME NEW i \in Claims(list), NEW j \in Claims(list),
                    SlugOf[list[i].name] = SlugOf[list[j].name]
             PROVE  list[i] = list[j]
    BY DEF Winners
<1>1. i \in 1..Len(list) /\ j \in 1..Len(list) /\ i \in Nat /\ j \in Nat
    BY DEF Lists, Claims
<1>2. ~(i < j) /\ ~(j < i)
    BY <1>1 DEF Claims
<1> QED BY <1>1, <1>2

LEMMA RunningIsWinner ==
    ASSUME TypeInv, NEW e \in Running, NEW f \in Winners(saved), f.name = e.name
    PROVE  f = e
<1>1. PICK i \in DOMAIN saved : e = saved[i]
    BY DEF Running
<1>2. PICK j \in DOMAIN saved : f = saved[j]
    BY DEF Winners, Claims
<1>3. \A k, l \in DOMAIN saved : saved[k].name = saved[l].name => k = l
    BY ScenarioAssumption DEF TypeInv, WorldType
<1> QED BY <1>1, <1>2, <1>3

LEMMA WinnersSlugs ==
    ASSUME NEW list \in Lists
    PROVE  /\ \A e \in Winners(list) : SlugOf[e.name] \in SlugsOf(NamesOf(list))
           /\ \A s \in SlugsOf(NamesOf(list)) : \E e \in Winners(list) : SlugOf[e.name] = s
BY DEF SlugsOf, NamesOf

\* What is out when a step ends and the connection is still there is all of it.
Sends(all, out) ==
    /\ conn' => conn /\ out = all /\ UNCHANGED <<subs, arriving, haMsgs>>
    /\ out \subseteq all
    /\ out # {} => conn
    /\ subs' => conn'
    /\ haMsgs' \subseteq haMsgs

LEMMA GoesSends ==
    ASSUME WorldType, NEW all, NEW out, Goes(all, out)
    PROVE  Sends(all, out)
BY DEF Goes, Drop, WorldType, Sends

\* What the parts of a flush do.
Flushed(q, claimed, connected, configs, states) ==
    LET waiting == q.pendingClear \ claimed
        done == configs \cap states
    IN
    /\ configs \subseteq waiting /\ states \subseteq waiting
    /\ conn' => conn /\ UNCHANGED <<subs, arriving, haMsgs>>
    /\ conn' /\ connected => configs = waiting /\ states = waiting
    /\ configs # {} => conn
    /\ subs' => conn'
    /\ haMsgs' \subseteq haMsgs
    /\ \A s \in Slugs :
          /\ broker'[s].cfg = IF s \in configs THEN None ELSE broker[s].cfg
          /\ broker'[s].valueCfg = (broker[s].valueCfg /\ s \notin configs)
          /\ broker'[s].state = IF s \in states THEN NoState ELSE broker[s].state
    /\ ha' = Drops(ha, configs)
    /\ p'.watches = q.watches /\ p'.slugs = q.slugs /\ p'.want = q.want
    /\ p'.sent = q.sent /\ p'.haUp = q.haUp /\ p'.listed = q.listed
    /\ p'.followed = q.followed /\ p'.sweepOK = q.sweepOK /\ p'.swept = q.swept
    /\ p'.ownersSent = q.ownersSent
    /\ p'.pendingClear = waiting \ done
    /\ p'.cleared = Remembers(q, done)
    /\ p'.lastCfg = q.lastCfg \ done
    /\ \A s \in Slugs : p'.optCfg[s] = IF s \in done THEN "unknown" ELSE q.optCfg[s]
    /\ missed' = IF q.haUp /\ (~ha.on \/ connCh) THEN (missed \ claimed) \cup done
                 ELSE missed \ claimed

LEMMA FlushIsFlushed ==
    ASSUME WorldType, NEW q \in PType, NEW claimed \in SUBSET Slugs, NEW connected \in BOOLEAN,
           Flush(q, claimed, connected)
    PROVE  \E configs, states : Flushed(q, claimed, connected, configs, states)
<1> DEFINE waiting == q.pendingClear \ claimed
           all == waiting \X {"config", "state"}
<1>1. PICK out \in (IF connected THEN SUBSET all ELSE {{}}) :
        LET configs == {s \in waiting : <<s, "config">> \in out}
            states  == {s \in waiting : <<s, "state">> \in out}
            done    == configs \cap states
        IN
        /\ IF connected THEN Goes(all, out)
           ELSE UNCHANGED <<conn, subs, arriving, haMsgs, left>>
        /\ broker' = [s \in Slugs |->
              [cfg |-> IF s \in configs THEN None ELSE broker[s].cfg,
               valueCfg |-> broker[s].valueCfg /\ s \notin configs,
               state |-> IF s \in states THEN NoState ELSE broker[s].state]]
        /\ ha' = Drops(ha, configs)
        /\ p' = [q EXCEPT
              !.pendingClear = waiting \ done,
              !.optCfg = [s \in Slugs |-> IF s \in done THEN "unknown" ELSE @[s]],
              !.cleared = Remembers(q, done),
              !.lastCfg = @ \ done]
        /\ missed' = IF q.haUp /\ (~ha.on \/ connCh) THEN (missed \ claimed) \cup done
                     ELSE missed \ claimed
    BY Zenon DEF Flush
<1> DEFINE configs == {s \in waiting : <<s, "config">> \in out}
           states  == {s \in waiting : <<s, "state">> \in out}
           done    == configs \cap states
           optCfg  == [s \in Slugs |-> IF s \in done THEN "unknown" ELSE q.optCfg[s]]
<1>2. /\ connected => Goes(all, out)
      /\ ~connected => out = {} /\ UNCHANGED <<conn, subs, arriving, haMsgs, left>>
      /\ broker' = [s \in Slugs |->
              [cfg |-> IF s \in configs THEN None ELSE broker[s].cfg,
               valueCfg |-> broker[s].valueCfg /\ s \notin configs,
               state |-> IF s \in states THEN NoState ELSE broker[s].state]]
      /\ ha' = Drops(ha, configs)
      /\ p' = [q EXCEPT !.pendingClear = waiting \ done, !.optCfg = optCfg,
                        !.cleared = Remembers(q, done), !.lastCfg = q.lastCfg \ done]
      /\ missed' = IF q.haUp /\ (~ha.on \/ connCh) THEN (missed \ claimed) \cup done
                   ELSE missed \ claimed
    BY <1>1
<1>3. /\ conn' => conn /\ UNCHANGED <<subs, arriving, haMsgs>>
      /\ conn' /\ connected => configs = waiting /\ states = waiting
      /\ configs # {} => conn
      /\ subs' => conn'
      /\ haMsgs' \subseteq haMsgs
  <2>1. CASE connected
    <3>1. Sends(all, out)
        BY <1>2, <2>1, GoesSends
    <3>2. out = all => configs = waiting /\ states = waiting
        OBVIOUS
    <3>3. configs # {} => out # {}
        OBVIOUS
    <3> HIDE DEF configs, states, all
    <3> QED BY <3>1, <3>2, <3>3 DEF Sends
  <2>2. CASE ~connected
    <3>1. configs = {}
        BY <1>2, <2>2
    <3>2. UNCHANGED <<conn, subs, arriving, haMsgs>> /\ (subs => conn)
        BY <1>2, <2>2 DEF WorldType
    <3> HIDE DEF configs
    <3> QED BY <2>2, <3>1, <3>2
  <2> QED BY <2>1, <2>2
<1>4. configs \subseteq waiting /\ states \subseteq waiting
    OBVIOUS
<1> HIDE DEF configs, states, optCfg
<1>5. /\ p'.watches = q.watches /\ p'.slugs = q.slugs /\ p'.want = q.want
      /\ p'.sent = q.sent /\ p'.haUp = q.haUp /\ p'.listed = q.listed
      /\ p'.followed = q.followed /\ p'.sweepOK = q.sweepOK /\ p'.swept = q.swept
      /\ p'.ownersSent = q.ownersSent
      /\ p'.pendingClear = waiting \ done
      /\ p'.cleared = Remembers(q, done)
      /\ p'.lastCfg = q.lastCfg \ done
      /\ p'.optCfg = optCfg
    BY <1>2 DEF PType
<1>6. \A s \in Slugs : p'.optCfg[s] = IF s \in done THEN "unknown" ELSE q.optCfg[s]
    BY <1>5 DEF optCfg
<1>7. \A s \in Slugs :
          /\ broker'[s].cfg = IF s \in configs THEN None ELSE broker[s].cfg
          /\ broker'[s].valueCfg = (broker[s].valueCfg /\ s \notin configs)
          /\ broker'[s].state = IF s \in states THEN NoState ELSE broker[s].state
    BY <1>2
<1>8. Flushed(q, claimed, connected, configs, states)
    BY <1>2, <1>3, <1>4, <1>5, <1>6, <1>7, Zenon DEF Flushed
<1> QED BY <1>8

-----------------------------------------------------------------------------
(* At rest: the world around the worker. *)

LEMMA DueStands ==
    ASSUME HasList, DueInv, UNCHANGED <<p, w, jobs, quit, saved, handed, syncCh, due>>
    PROVE  HasList' /\ DueInv'
<1>1. HasList'
    BY DEF HasList, Resyncing
<1>2. DueListed'
    BY DEF DueInv, DueListed, DueOf
<1>3. DueReading'
    BY DEF DueInv, DueReading, SaysNothing
<1>4. DueHealth'
    BY DEF DueInv, DueHealth, SaysNothing
<1> QED BY <1>1, <1>2, <1>3, <1>4 DEF DueInv, DueTyped

LEMMA RestConnects ==
    ASSUME TypeInv, RestInv, Connects
    PROVE  RestInv'
<1>1. /\ conn' = TRUE /\ connCh' = TRUE /\ ~conn /\ subs = FALSE
      /\ UNCHANGED <<scene, p, w, jobs, quit, saved, handed, syncCh, due, strayCh, dupClient,
                     strays, owners, ha, haState, haMsgs, missed, spared, broker, ours, subs,
                     settled, arriving>>
    BY DEF Connects, seenVars, retained, history, TypeInv, WorldType
<1>2. ~Told' /\ claimedSlugs' = claimedSlugs /\ BeingListed' = BeingListed
      /\ Retained' = Retained /\ (\A s \in Slugs : Left(s)' = Left(s))
      /\ (\A s \in Slugs : IsOld(s)' = IsOld(s)) /\ ToSweep'
    BY <1>1 DEF Told, claimedSlugs, BeingListed, Retained, Left, IsOld, ToSweep
<1>3. RestTypes'
    BY <1>1 DEF RestInv, RestTypes
<1>4. HasList' /\ DueInv'
    BY <1>1, DueStands DEF RestInv
<1>5. CfgsOut'
    BY <1>1, <1>2 DEF RestInv, CfgsOut
<1>6. StatesOut'
    BY <1>1, <1>2 DEF RestInv, StatesOut, NoneUnclaimed, SentIsThere, WantIsSent
<1>7. CleanOrPending'
    BY <1>1, <1>2 DEF RestInv, CleanOrPending
<1>8. SweepInv'
  <2>1. \A s \in p.swept : IsOld(s)' => IsOld(s)
      BY <1>1 DEF IsOld
  <2> QED BY <1>1, <1>2, <2>1 DEF RestInv, SweepInv
<1>9. RecordOut'
    BY <1>1, <1>2 DEF RestInv, RecordOut
<1>10. GhostInv'
    BY <1>1, <1>2 DEF RestInv, GhostInv, Resyncing
<1> QED BY <1>3, <1>4, <1>5, <1>6, <1>7, <1>8, <1>9, <1>10 DEF RestInv

\* The connection goes, and with it all that is asked of one.
LEMMA RestConnectionLost ==
    ASSUME TypeInv, RestInv, ConnectionLost
    PROVE  RestInv'
<1>1. /\ conn' = FALSE /\ subs' = FALSE /\ haMsgs' = {}
      /\ UNCHANGED <<scene, p, w, jobs, quit, saved, handed, syncCh, due, connCh, strayCh,
                     dupClient, strays, owners, ha, haState, missed, spared, broker, ours,
                     settled>>
    BY DEF ConnectionLost, Drop, chans, seenVars, retained, history
<1>2. ~Told' /\ ~SweepReady' /\ claimedSlugs' = claimedSlugs /\ BeingListed' = BeingListed
      /\ Retained' = Retained /\ (\A s \in Slugs : Left(s)' = Left(s))
    BY <1>1 DEF Told, SweepReady, claimedSlugs, BeingListed, Retained, Left
<1>3. RestTypes'
    BY <1>1 DEF RestInv, RestTypes
<1>4. HasList' /\ DueInv'
    BY <1>1, DueStands DEF RestInv
<1>5. CfgsOut'
    BY <1>1, <1>2 DEF RestInv, CfgsOut
<1>6. StatesOut'
    BY <1>1, <1>2 DEF RestInv, StatesOut, NoneUnclaimed, SentIsThere, WantIsSent
<1>7. CleanOrPending'
    BY <1>1, <1>2 DEF RestInv, CleanOrPending
<1>8. SweepInv'
  <2>1. \A s \in p.swept : IsOld(s)' => IsOld(s)
      BY <1>1 DEF IsOld
  <2> QED BY <1>1, <1>2, <2>1 DEF RestInv, SweepInv
<1>9. RecordOut'
    BY <1>1, <1>2 DEF RestInv, RecordOut
<1>10. GhostInv'
    BY <1>1, <1>2 DEF RestInv, GhostInv, Resyncing
<1> QED BY <1>3, <1>4, <1>5, <1>6, <1>7, <1>8, <1>9, <1>10 DEF RestInv

\* The broker forgets: what it had of no watch and was not to be cleared is missed.
LEMMA RestBrokerRestarts ==
    ASSUME TypeInv, RestInv, BrokerRestarts
    PROVE  RestInv'
<1>1. /\ conn' = FALSE /\ subs' = FALSE /\ haMsgs' = {}
      /\ broker' = [s \in Slugs |-> Bare]
      /\ missed' = missed \cup {s \in Slugs : /\ broker[s].cfg # None
                                              /\ s \notin claimedSlugs
                                              /\ s \notin p.pendingClear \cup p.cleared}
      /\ UNCHANGED <<scene, p, w, jobs, quit, saved, handed, syncCh, due, connCh, strayCh,
                     dupClient, strays, owners, haState, spared, settled>>
    BY DEF BrokerRestarts, Drop, chans, seenVars
<1>2. /\ ha' \in [on : BOOLEAN, has : SUBSET Slugs, seen : SUBSET Slugs]
      /\ ha'.on = FALSE /\ ha'.has = ha.has
    BY DEF BrokerRestarts, RestInv, RestTypes
<1>3. Bare.cfg = None /\ Bare.valueCfg = FALSE /\ None # <<"old">>
    BY DEF Bare, None
<1>4. ~Told' /\ ~SweepReady' /\ claimedSlugs' = claimedSlugs /\ BeingListed' = BeingListed
      /\ (\A s \in Slugs : ~IsOld(s)') /\ Retained' = {}
    BY <1>1, <1>3 DEF Told, SweepReady, claimedSlugs, BeingListed, IsOld, Retained
<1>5. RestTypes'
    BY <1>1, <1>2 DEF RestInv, RestTypes
<1>6. HasList' /\ DueInv'
    BY <1>1, DueStands DEF RestInv
<1>7. CfgsOut'
    BY <1>1, <1>3, <1>4 DEF RestInv, CfgsOut
<1>8. StatesOut'
    BY <1>1, <1>4 DEF RestInv, StatesOut, NoneUnclaimed, SentIsThere, WantIsSent
<1>9. CleanOrPending'
    BY <1>1, <1>4 DEF RestInv, CleanOrPending
<1>10. SweepInv'
  <2>1. p.swept \subseteq Slugs
      BY DEF TypeInv, WorkerType, PType
  <2> QED BY <1>1, <1>4, <2>1 DEF RestInv, SweepInv
<1>11. RecordOut'
    BY <1>1, <1>4 DEF RestInv, RecordOut
<1>12. GhostInv'
  <2>1. Retained = {s \in Slugs : broker[s].cfg # None}
      BY DEF Retained
  <2> QED BY <1>1, <1>2, <1>4, <2>1 DEF RestInv, GhostInv, Resyncing
<1> QED BY <1>5, <1>6, <1>7, <1>8, <1>9, <1>10, <1>11, <1>12 DEF RestInv

\* A second process puts back what was found of the other watchglass.
LEMMA RestTwinComes ==
    ASSUME TypeInv, OthersInv, RestInv, TwinComes
    PROVE  RestInv'
<1>1. /\ conn' = FALSE /\ subs' = FALSE /\ haMsgs' = {} /\ left.twins > 0
      /\ broker' = [s \in Slugs |-> IF s \in scene.others
                                    THEN [Bare EXCEPT !.cfg = <<"other">>] ELSE broker[s]]
      /\ ha' = Hears(ha, scene.others)
      /\ UNCHANGED <<scene, p, w, jobs, quit, saved, handed, syncCh, due, connCh, strayCh,
                     dupClient, strays, owners, haState, missed, spared, settled>>
    BY DEF TwinComes, Drop, chans, seenVars, history
<1>2. /\ [Bare EXCEPT !.cfg = <<"other">>].cfg = <<"other">>
      /\ [Bare EXCEPT !.cfg = <<"other">>].valueCfg = FALSE
      /\ <<"other">> # None /\ <<"other">> # <<"old">>
    BY DEF Bare, None
<1>3. scene.others \subseteq Slugs
    BY ScenarioAssumption DEF TypeInv, WorldType
<1>4. ~Told' /\ ~SweepReady' /\ claimedSlugs' = claimedSlugs /\ BeingListed' = BeingListed
      /\ (\A s \in Slugs : IsOld(s)' => IsOld(s)) /\ Retained' = Retained \cup scene.others
      /\ (\A s \in Slugs : Left(s)' = Left(s))
    BY <1>1, <1>2, <1>3 DEF Told, SweepReady, claimedSlugs, BeingListed, IsOld, Retained, Left
<1>5. /\ ha' \in [on : BOOLEAN, has : SUBSET Slugs, seen : SUBSET Slugs]
      /\ ha'.on = ha.on /\ ha'.has \subseteq ha.has \cup scene.others
      /\ ha.on => ha'.seen = ha.seen \cup scene.others
    BY <1>1, <1>3 DEF Hears, RestInv, RestTypes
<1>6. scene.others \cap p.cleared = {}
  <2>1. CASE scene.others = {}
      BY <2>1
  <2>2. CASE scene.others # {}
    <3>1. record = scene.record
        BY <1>1, <2>2 DEF OthersInv, RecordStands
    <3> QED BY <2>2, <3>1 DEF OthersInv, NonePending
  <2> QED BY <2>1, <2>2
<1>7. RestTypes'
    BY <1>1, <1>5 DEF RestInv, RestTypes
<1>8. HasList' /\ DueInv'
    BY <1>1, DueStands DEF RestInv
<1>9. CfgsOut'
    BY <1>1, <1>2, <1>4 DEF RestInv, CfgsOut
<1>10. StatesOut'
    BY <1>1, <1>4 DEF RestInv, StatesOut, NoneUnclaimed, SentIsThere, WantIsSent
<1>11. CleanOrPending'
  <2>1. \A s \in Slugs : s \in scene.others => broker'[s] = Left(s)
      BY <1>1 DEF Left
  <2> QED BY <1>1, <1>4, <1>6, <2>1 DEF RestInv, CleanOrPending
<1>12. SweepInv'
  <2>1. p.swept \subseteq Slugs
      BY DEF TypeInv, WorkerType, PType
  <2> QED BY <1>1, <1>4, <2>1 DEF RestInv, SweepInv
<1>13. RecordOut'
    BY <1>1, <1>4 DEF RestInv, RecordOut
<1>14. GhostInv'
    BY <1>1, <1>4, <1>5 DEF RestInv, GhostInv, Resyncing
<1> QED BY <1>7, <1>8, <1>9, <1>10, <1>11, <1>12, <1>13, <1>14 DEF RestInv

\* What arrives waits for the sweep, and asks for it.
LEMMA RestArrives ==
    ASSUME TypeInv, RestInv, (\E x \in arriving : Arrives(x)) \/ Settles
    PROVE  RestInv'
<1>1. /\ strayCh' = TRUE /\ dupClient' \in BOOLEAN /\ (dupClient => dupClient')
      /\ UNCHANGED <<scene, p, w, jobs, quit, saved, handed, syncCh, due, connCh, conn, subs,
                     haMsgs, ha, haState, missed, spared, broker, ours>>
    BY DEF Arrives, Settles, seenVars, retained, history, RestInv, RestTypes
<1>2. \A s \in Slugs : s \in arriving \cup strays => s \in (arriving \cup strays)'
    BY DEF Arrives, Settles, seenVars
<1>3. ToSweep' /\ claimedSlugs' = claimedSlugs /\ BeingListed' = BeingListed
      /\ Retained' = Retained /\ (\A s \in Slugs : Left(s)' = Left(s)) /\ Told' = Told
      /\ (\A pcs : Resyncing(pcs)' = Resyncing(pcs))
    BY <1>1 DEF ToSweep, Told, claimedSlugs, BeingListed, Retained, Left, Resyncing
<1>4. RestTypes'
    BY <1>1 DEF RestInv, RestTypes
<1>5. HasList' /\ DueInv'
    BY <1>1, DueStands DEF RestInv
<1>6. CfgsOut'
    BY <1>1, <1>3 DEF RestInv, CfgsOut
<1>7. StatesOut'
    BY <1>1, <1>3 DEF RestInv, StatesOut, NoneUnclaimed, SentIsThere, WantIsSent
<1>8. CleanOrPending'
    BY <1>1, <1>3 DEF RestInv, CleanOrPending
<1>9. SweepInv'
  <2>1. \A s : IsOld(s)' = IsOld(s)
      BY <1>1 DEF IsOld
  <2> QED BY <1>1, <1>2, <1>3, <2>1 DEF RestInv, SweepInv
<1>10. RecordOut'
    BY <1>1, <1>3 DEF RestInv, RecordOut
<1>11. GhostInv'
    BY <1>1, <1>3 DEF RestInv, GhostInv
<1> QED BY <1>4, <1>5, <1>6, <1>7, <1>8, <1>9, <1>10, <1>11 DEF RestInv

\* Home Assistant that comes sees every config there is before it says so.
LEMMA RestHA ==
    ASSUME TypeInv, RestInv, HAComes \/ HAGoes \/ (\E word \in haMsgs : onHAStatus(word))
    PROVE  RestInv'
<1>1. /\ UNCHANGED <<scene, p, w, jobs, quit, saved, handed, syncCh, due, connCh, conn, subs,
                     missed, spared, broker, ours, strayCh, strays, owners, dupClient,
                     arriving, settled>>
    BY DEF HAComes, HAGoes, onHAStatus, chans, seenVars, retained, history
<1>2. ToSweep' = ToSweep /\ claimedSlugs' = claimedSlugs /\ BeingListed' = BeingListed
      /\ Retained' = Retained /\ (\A s \in Slugs : Left(s)' = Left(s)) /\ Told' = Told
      /\ (\A pcs : Resyncing(pcs)' = Resyncing(pcs)) /\ SweepReady' = SweepReady
    BY <1>1 DEF ToSweep, Told, claimedSlugs, BeingListed, Retained, Left, Resyncing, SweepReady
<1>3. /\ ha' \in [on : BOOLEAN, has : SUBSET Slugs, seen : SUBSET Slugs]
      /\ ha'.has \subseteq ha.has \cup Retained
      /\ \/ ha'.on = FALSE
         \/ Retained \subseteq ha'.seen
         \/ /\ ha' = ha
            /\ "online" \in haMsgs' \/ haState' = "online"
                  => "online" \in haMsgs \/ haState = "online"
  <2>1. ha \in [on : BOOLEAN, has : SUBSET Slugs, seen : SUBSET Slugs]
      BY DEF RestInv, RestTypes
  <2>2. CASE HAComes
    <3>1. ha' = Hears([ha EXCEPT !.on = TRUE], Retained)
        BY <2>2 DEF HAComes, Retained
    <3>2. Retained \subseteq Slugs
        BY DEF Retained
    <3> QED BY <2>1, <3>1, <3>2 DEF Hears
  <2>3. CASE HAGoes
      BY <2>1, <2>3 DEF HAGoes
  <2>4. CASE \E word \in haMsgs : onHAStatus(word)
      BY <2>1, <2>4 DEF onHAStatus
  <2> QED BY <2>2, <2>3, <2>4
<1>4. RestTypes'
    BY <1>1, <1>3 DEF RestInv, RestTypes
<1>5. HasList' /\ DueInv'
    BY <1>1, DueStands DEF RestInv
<1>6. CfgsOut'
    BY <1>1, <1>2 DEF RestInv, CfgsOut
<1>7. StatesOut'
    BY <1>1, <1>2 DEF RestInv, StatesOut, NoneUnclaimed, SentIsThere, WantIsSent
<1>8. CleanOrPending'
    BY <1>1, <1>2 DEF RestInv, CleanOrPending
<1>9. SweepInv'
  <2>1. \A s : IsOld(s)' = IsOld(s)
      BY <1>1 DEF IsOld
  <2> QED BY <1>1, <1>2, <2>1 DEF RestInv, SweepInv
<1>10. RecordOut'
    BY <1>1, <1>2 DEF RestInv, RecordOut
<1>11. GhostInv'
    BY <1>1, <1>2, <1>3 DEF RestInv, GhostInv
<1> QED BY <1>4, <1>5, <1>6, <1>7, <1>8, <1>9, <1>10, <1>11 DEF RestInv

LEMMA RestNetwork ==
    ASSUME TypeInv, OthersInv, RestInv, Network
    PROVE  RestInv'
BY RestConnects, RestConnectionLost, RestBrokerRestarts, RestTwinComes, RestArrives, RestHA
   DEF Network

-----------------------------------------------------------------------------
(* At rest: the callers. *)

\* What a caller leaves alone.
LEMMA CallersLeave ==
    ASSUME RestInv, UNCHANGED <<scene, p, w, connCh, strayCh, conn, seenVars, haState, net,
                                retained, ha, missed, spared>>
    PROVE  /\ RestTypes' /\ CfgsOut' /\ StatesOut' /\ CleanOrPending' /\ SweepInv'
           /\ RecordOut' /\ GhostInv'
<1>1. UNCHANGED <<scene, p, w, connCh, strayCh, strays, owners, dupClient, haState, conn, subs,
                  settled, arriving, haMsgs, broker, ours, ha, missed, spared>>
    BY DEF seenVars, net, retained
<1>2. ToSweep' = ToSweep /\ claimedSlugs' = claimedSlugs /\ BeingListed' = BeingListed
      /\ Retained' = Retained /\ (\A s \in Slugs : Left(s)' = Left(s)) /\ Told' = Told
      /\ (\A pcs : Resyncing(pcs)' = Resyncing(pcs)) /\ SweepReady' = SweepReady
    BY <1>1 DEF ToSweep, Told, claimedSlugs, BeingListed, Retained, Left, Resyncing, SweepReady
<1>3. RestTypes'
    BY <1>1 DEF RestInv, RestTypes
<1>4. CfgsOut'
    BY <1>1, <1>2 DEF RestInv, CfgsOut
<1>5. StatesOut'
    BY <1>1, <1>2 DEF RestInv, StatesOut, NoneUnclaimed, SentIsThere, WantIsSent
<1>6. CleanOrPending'
    BY <1>1, <1>2 DEF RestInv, CleanOrPending
<1>7. SweepInv'
  <2>1. \A s : IsOld(s)' = IsOld(s)
      BY <1>1 DEF IsOld
  <2> QED BY <1>1, <1>2, <2>1 DEF RestInv, SweepInv
<1>8. RecordOut'
    BY <1>1, <1>2 DEF RestInv, RecordOut
<1>9. GhostInv'
    BY <1>1, <1>2 DEF RestInv, GhostInv
<1> QED BY <1>3, <1>4, <1>5, <1>6, <1>7, <1>8, <1>9

\* What a watch of both lists is due, it stays due; the others are due nothing yet.
LEMMA RestSave ==
    ASSUME TypeInv, RestInv, NEW list \in scene.lists, Save(list)
    PROVE  RestInv'
<1>1. /\ quit = "no" /\ saved' = list /\ handed' = FALSE
      /\ due' = [n \in Names |->
                 IF \E e \in Winners(saved) \cap Winners(list) : e.name = n
                 THEN due[n] ELSE [reading |-> None, health |-> None]]
      /\ UNCHANGED <<scene, chans, quit, p, w, seenVars, haState, net, retained, ha, missed,
                     spared>>
    BY DEF Save
<1>2. UNCHANGED <<syncCh, jobs, connCh, strayCh, conn>>
    BY <1>1 DEF chans, net
<1>3. HasList'
    BY <1>1, <1>2 DEF RestInv, HasList, Resyncing
<1>4. saved \in Lists /\ list \in Lists
    BY ListInScene DEF TypeInv, WorldType
<1>5. ASSUME NEW n \in Names, {due'[n].reading, due'[n].health} # {None}
      PROVE  /\ due'[n] = due[n]
             /\ \E e \in Winners(saved) \cap Winners(list) : e.name = n
    BY <1>1, <1>5
<1>6. \A e \in Winners(saved), f \in Winners(saved) : e.name = f.name => e = f
    BY <1>4, EntriesApart
<1>7. \A e \in Winners(list), f \in Winners(list) : e.name = f.name => e = f
    BY <1>4, EntriesApart
<1>8. DueListed'
  <2> SUFFICES ASSUME NEW n \in Names, DueOf(n)'
               PROVE  \E e \in Winners(list) :
                        /\ e.name = n /\ n \in p.slugs /\ e \in Winners(p.watches)
                        /\ w.pc = "announce" => e \in Winners(w.list)
                        /\ syncCh # <<>> => e \in Winners(syncCh[1])
      BY <1>1, <1>2 DEF DueListed
  <2>1. /\ DueOf(n)
        /\ \E e \in Winners(saved) \cap Winners(list) : e.name = n
      BY <1>5 DEF DueOf
  <2>2. DueListed
      BY DEF RestInv, DueInv
  <2> QED BY <2>1, <2>2, <1>6 DEF DueListed
<1>9. ASSUME NEW e \in Winners(list), {due'[e.name].reading, due'[e.name].health} # {None}
      PROVE  e \in Winners(saved) /\ due'[e.name] = due[e.name]
  <2>1. e.name \in Names
      BY <1>4, ListTypes
  <2> QED BY <2>1, <1>5, <1>7, <1>9
<1>10. DueReading'
  <2>1. \A e \in Winners(list) : due'[e.name].reading # None =>
            e \in Winners(saved) /\ due'[e.name] = due[e.name]
      BY <1>9
  <2>2. saved' = list /\ jobs' = jobs /\ p' = p
      BY <1>1, <1>2
  <2> QED BY <2>1, <2>2 DEF RestInv, DueInv, DueReading, SaysNothing
<1>11. DueHealth'
  <2>1. \A e \in Winners(list) : due'[e.name].health # None =>
            e \in Winners(saved) /\ due'[e.name] = due[e.name]
      BY <1>9
  <2>2. saved' = list /\ jobs' = jobs /\ p' = p
      BY <1>1, <1>2
  <2> QED BY <2>1, <2>2 DEF RestInv, DueInv, DueHealth, SaysNothing
<1>12. DueTyped'
    BY <1>1, PayloadTypes DEF RestInv, DueInv, DueTyped
<1> QED BY <1>1, <1>2, <1>3, <1>8, <1>10, <1>11, <1>12, CallersLeave DEF RestInv, DueInv, DueTyped

\* The list handed over is the saved one, so what is due is of it.
LEMMA RestSyncAsync ==
    ASSUME TypeInv, RestInv, SyncAsync
    PROVE  RestInv'
<1>1. /\ ~handed /\ handed' = TRUE /\ syncCh' = <<saved>>
      /\ UNCHANGED <<scene, saved, connCh, strayCh, jobs, quit, p, w, seenVars, haState, net,
                     retained, ha, due, missed, spared>>
    BY DEF SyncAsync, history
<1>2. syncCh' # <<>> /\ syncCh'[1] = saved /\ conn' = conn
    BY <1>1 DEF net
<1>3. HasList'
    BY <1>1, <1>2 DEF RestInv, HasList, Resyncing
<1>4. DueListed'
    BY <1>1, <1>2 DEF RestInv, DueInv, DueListed, DueOf
<1>5. DueReading'
    BY <1>1 DEF RestInv, DueInv, DueReading, SaysNothing
<1>6. DueHealth'
    BY <1>1 DEF RestInv, DueInv, DueHealth, SaysNothing
<1> QED BY <1>1, <1>2, <1>3, <1>4, <1>5, <1>6, CallersLeave DEF RestInv, DueInv, DueTyped

LEMMA RestClose ==
    ASSUME TypeInv, RestInv, Close
    PROVE  RestInv'
<1>1. /\ handed /\ quit' = "asked"
      /\ UNCHANGED <<scene, saved, handed, syncCh, connCh, strayCh, jobs, p, w, seenVars,
                     haState, net, retained, ha, due, missed, spared, conn>>
    BY DEF Close, history, chans, net
<1>2. HasList'
    BY <1>1 DEF RestInv, HasList, Resyncing
<1>3. DueListed'
    BY <1>1 DEF RestInv, DueInv, DueListed, DueOf
<1>4. DueReading'
    BY <1>1 DEF RestInv, DueInv, DueReading, SaysNothing
<1>5. DueHealth'
    BY <1>1 DEF RestInv, DueInv, DueHealth, SaysNothing
<1> QED BY <1>1, <1>2, <1>3, <1>4, <1>5, CallersLeave DEF RestInv, DueInv, DueTyped

\* A job that is queued is the last word on what it says, and says nothing else.
LEMMA QueuedJob ==
    ASSUME TypeInv, NEW job \in JobType, jobs' = Append(jobs, job)
    PROVE  /\ Len(jobs) \in Nat /\ Len(jobs') = Len(jobs) + 1
           /\ \A i \in 1..Len(jobs) : jobs'[i] = jobs[i]
           /\ jobs'[Len(jobs) + 1] = job
BY DEF TypeInv, WorkerType

LEMMA QueuedReading ==
    ASSUME TypeInv, DueReading, NEW job \in JobType, jobs' = Append(jobs, job),
           saved' = saved, p' = p,
           \A f \in Winners(saved) : LET x == due'[f.name].reading IN
               \/ x = None
               \/ /\ x = due[f.name].reading
                  /\ job.name = f.name => job.set.reading = None /\ job.set.value = None
               \/ /\ job.name = f.name /\ job.seed /\ job.set.reading = x
                  /\ f.number => job.set.value = x
    PROVE  DueReading'
<1> SUFFICES ASSUME NEW f \in Winners(saved), due'[f.name].reading # None
             PROVE  LET x == due'[f.name].reading IN
        \/ \E i \in 1..Len(jobs') :
              /\ jobs'[i].name = f.name /\ jobs'[i].seed /\ jobs'[i].set.reading = x
              /\ f.number => jobs'[i].set.value = x
              /\ \A j \in 1..Len(jobs') : j > i =>
                    /\ jobs'[j].name = f.name => jobs'[j].set.reading = None
                    /\ jobs'[j].name = f.name => jobs'[j].set.value = None
        \/ /\ \A j \in 1..Len(jobs') :
                    /\ jobs'[j].name = f.name => jobs'[j].set.reading = None
                    /\ jobs'[j].name = f.name => jobs'[j].set.value = None
           /\ p.want[SlugOf[f.name]].reading = x /\ p.want[SlugOf[f.name]].health # None
           /\ f.number => p.want[SlugOf[f.name]].value = x
    BY DEF DueReading, SaysNothing
<1> DEFINE x == due'[f.name].reading
           last == Len(jobs) + 1
<1>1. /\ Len(jobs) \in Nat /\ Len(jobs') = last
      /\ \A i \in 1..Len(jobs) : jobs'[i] = jobs[i]
      /\ jobs'[last] = job
    BY QueuedJob
<1>2. CASE /\ x = due[f.name].reading
           /\ job.name = f.name => job.set.reading = None /\ job.set.value = None
  <2>1. \/ \E i \in 1..Len(jobs) :
              /\ jobs[i].name = f.name /\ jobs[i].seed /\ jobs[i].set.reading = x
              /\ f.number => jobs[i].set.value = x
              /\ \A j \in 1..Len(jobs) : j > i =>
                    /\ jobs[j].name = f.name => jobs[j].set.reading = None
                    /\ jobs[j].name = f.name => jobs[j].set.value = None
        \/ /\ \A j \in 1..Len(jobs) :
                    /\ jobs[j].name = f.name => jobs[j].set.reading = None
                    /\ jobs[j].name = f.name => jobs[j].set.value = None
           /\ p.want[SlugOf[f.name]].reading = x /\ p.want[SlugOf[f.name]].health # None
           /\ f.number => p.want[SlugOf[f.name]].value = x
      BY <1>2 DEF DueReading, SaysNothing
  <2>2. \A j \in 1..Len(jobs') : j = last \/ j \in 1..Len(jobs)
      BY <1>1
  <2>3. 1..Len(jobs) \subseteq 1..Len(jobs')
      BY <1>1
  <2> HIDE DEF last, x
  <2>4. CASE /\ \A j \in 1..Len(jobs) :
                    /\ jobs[j].name = f.name => jobs[j].set.reading = None
                    /\ jobs[j].name = f.name => jobs[j].set.value = None
             /\ p.want[SlugOf[f.name]].reading = x /\ p.want[SlugOf[f.name]].health # None
             /\ f.number => p.want[SlugOf[f.name]].value = x
    <3>1. \A j \in 1..Len(jobs') : /\ jobs'[j].name = f.name => jobs'[j].set.reading = None
                                   /\ jobs'[j].name = f.name => jobs'[j].set.value = None
        BY <1>1, <1>2, <2>2, <2>4
    <3> QED BY <2>4, <3>1 DEF x
  <2>5. ASSUME NEW i \in 1..Len(jobs),
               /\ jobs[i].name = f.name /\ jobs[i].seed /\ jobs[i].set.reading = x
               /\ f.number => jobs[i].set.value = x
               /\ \A j \in 1..Len(jobs) : j > i =>
                    /\ jobs[j].name = f.name => jobs[j].set.reading = None
                    /\ jobs[j].name = f.name => jobs[j].set.value = None
        PROVE  \E k \in 1..Len(jobs') :
                 /\ jobs'[k].name = f.name /\ jobs'[k].seed /\ jobs'[k].set.reading = x
                 /\ f.number => jobs'[k].set.value = x
                 /\ \A j \in 1..Len(jobs') : j > k =>
                      /\ jobs'[j].name = f.name => jobs'[j].set.reading = None
                      /\ jobs'[j].name = f.name => jobs'[j].set.value = None
    <3>1. i \in 1..Len(jobs') /\ jobs'[i] = jobs[i]
        BY <1>1, <2>3
    <3>2. \A j \in 1..Len(jobs') : j > i =>
                      /\ jobs'[j].name = f.name => jobs'[j].set.reading = None
                      /\ jobs'[j].name = f.name => jobs'[j].set.value = None
        BY <1>1, <1>2, <2>2, <2>5
    <3> QED BY <2>5, <3>1, <3>2
  <2> QED BY <2>1, <2>4, <2>5 DEF x
<1>3. CASE /\ job.name = f.name /\ job.seed /\ job.set.reading = x
           /\ f.number => job.set.value = x
  <2>1. last \in 1..Len(jobs') /\ \A j \in 1..Len(jobs') : ~(j > last)
      BY <1>1
  <2> HIDE DEF last
  <2> QED BY <1>1, <1>3, <2>1
<1> QED BY <1>2, <1>3

LEMMA QueuedHealth ==
    ASSUME TypeInv, DueHealth, NEW job \in JobType, jobs' = Append(jobs, job),
           saved' = saved, p' = p,
           \A f \in Winners(saved) : LET x == due'[f.name].health IN
               \/ x = None
               \/ x = due[f.name].health /\ (job.name = f.name => job.set.health = None)
               \/ job.name = f.name /\ job.set.health = x
    PROVE  DueHealth'
<1> SUFFICES ASSUME NEW f \in Winners(saved), due'[f.name].health # None
             PROVE  LET x == due'[f.name].health IN
        \/ \E i \in 1..Len(jobs') :
              /\ jobs'[i].name = f.name /\ jobs'[i].set.health = x
              /\ \A j \in 1..Len(jobs') : j > i =>
                    (jobs'[j].name = f.name => jobs'[j].set.health = None)
        \/ /\ \A j \in 1..Len(jobs') : jobs'[j].name = f.name => jobs'[j].set.health = None
           /\ p.want[SlugOf[f.name]].health = x
    BY DEF DueHealth, SaysNothing
<1> DEFINE x == due'[f.name].health
           last == Len(jobs) + 1
<1>1. /\ Len(jobs) \in Nat /\ Len(jobs') = last
      /\ \A i \in 1..Len(jobs) : jobs'[i] = jobs[i]
      /\ jobs'[last] = job
    BY QueuedJob
<1>2. CASE x = due[f.name].health /\ (job.name = f.name => job.set.health = None)
  <2>1. \/ \E i \in 1..Len(jobs) :
              /\ jobs[i].name = f.name /\ jobs[i].set.health = x
              /\ \A j \in 1..Len(jobs) : j > i =>
                    (jobs[j].name = f.name => jobs[j].set.health = None)
        \/ /\ \A j \in 1..Len(jobs) : jobs[j].name = f.name => jobs[j].set.health = None
           /\ p.want[SlugOf[f.name]].health = x
      BY <1>2 DEF DueHealth, SaysNothing
  <2>2. \A j \in 1..Len(jobs') : j = last \/ j \in 1..Len(jobs)
      BY <1>1
  <2>3. 1..Len(jobs) \subseteq 1..Len(jobs')
      BY <1>1
  <2> HIDE DEF last, x
  <2> QED BY <1>1, <1>2, <2>1, <2>2, <2>3 DEF x
<1>3. CASE job.name = f.name /\ job.set.health = x
  <2>1. last \in 1..Len(jobs') /\ \A j \in 1..Len(jobs') : ~(j > last)
      BY <1>1
  <2> HIDE DEF last
  <2> QED BY <1>1, <1>3, <2>1
<1> QED BY <1>2, <1>3

LEMMA AcceptedDue ==
    ASSUME TypeInv, DueTyped, NEW n \in Names, NEW topic \in {"reading", "health"},
           NEW x \in Payloads, Accepted(n, topic, x)
    PROVE  /\ DueTyped'
           /\ Len(jobs) >= QueueCap => due' = due
           /\ Len(jobs) < QueueCap =>
                 /\ due'[n][topic] = IF Current THEN x ELSE None
                 /\ \A m \in Names : m # n => due'[m] = due[m]
                 /\ topic # "reading" => due'[n].reading = due[n].reading
                 /\ topic # "health" => due'[n].health = due[n].health
<1>1. Len(jobs) \in Nat /\ QueueCap \in Nat
    BY NameAssumption DEF TypeInv, WorkerType
<1>2. due \in [Names -> [reading : Payloads, health : Payloads]] /\ None \in Payloads
    BY PayloadTypes DEF DueTyped
<1> DEFINE y == IF Len(jobs) < QueueCap THEN IF Current THEN x ELSE None ELSE due[n][topic]
<1>3. y \in Payloads
    BY <1>2
<1>4. due' = [due EXCEPT ![n][topic] = y]
    BY DEF Accepted
<1>5. /\ Len(jobs) >= QueueCap => y = due[n][topic]
      /\ Len(jobs) < QueueCap => y = IF Current THEN x ELSE None
    BY <1>1
<1> HIDE DEF y
<1>6. CASE topic = "reading"
    BY <1>2, <1>3, <1>4, <1>5, <1>6 DEF DueTyped
<1>7. CASE topic = "health"
    BY <1>2, <1>3, <1>4, <1>5, <1>7 DEF DueTyped
<1> QED BY <1>6, <1>7

\* Only a watch of the list the worker works from is due anything.
LEMMA CurrentIsWinner ==
    ASSUME TypeInv, RestInv, Current, NEW e \in Running, e.name \in p.slugs
    PROVE  /\ e \in Winners(saved) /\ e \in Winners(p.watches)
           /\ w.pc # "announce" /\ syncCh = <<>>
<1>1. /\ p.watches = saved /\ p.slugs = NamesOf(saved)
      /\ w.pc # "announce" /\ syncCh = <<>>
    BY DEF Current, RestInv, HasList
<1>2. PICK f \in Winners(saved) : f.name = e.name
    BY <1>1 DEF NamesOf
<1>3. f = e
    BY <1>2, RunningIsWinner
<1> QED BY <1>1, <1>2, <1>3

LEMMA DueStillListed ==
    ASSUME TypeInv, RestInv, NEW e \in Running, e.name \in p.slugs,
           UNCHANGED <<p, w, syncCh, saved>>,
           \A m \in Names : m # e.name => due'[m] = due[m],
           DueOf(e.name)' => DueOf(e.name) \/ Current
    PROVE  DueListed'
<1> SUFFICES ASSUME NEW n \in Names, DueOf(n)'
             PROVE  \E f \in Winners(saved) :
                      /\ f.name = n /\ n \in p.slugs /\ f \in Winners(p.watches)
                      /\ w.pc = "announce" => f \in Winners(w.list)
                      /\ syncCh # <<>> => f \in Winners(syncCh[1])
    BY DEF DueListed
<1>1. CASE DueOf(n)
    BY <1>1 DEF RestInv, DueInv, DueListed
<1>2. CASE ~DueOf(n)
  <2>1. n = e.name
      BY <1>2 DEF DueOf
  <2>2. Current
      BY <1>2, <2>1
  <2> QED BY <2>1, <2>2, CurrentIsWinner
<1> QED BY <1>1, <1>2

LEMMA RestOnEvent ==
    ASSUME TypeInv, RestInv, NEW e \in Running, NEW k \in {0, said[e.name], said[e.name] + 1},
           OnEvent(e, k)
    PROVE  RestInv'
<1> DEFINE payload == IF k = 0 THEN None ELSE <<e.name, k>>
           set == [reading |-> payload, health |-> None,
                   value |-> IF e.number THEN payload ELSE None]
           job == [name |-> e.name, seed |-> TRUE, set |-> set]
<1>1. /\ UNCHANGED <<scene, saved, handed, syncCh, connCh, strayCh, haCh, quit, p,
                   w, seenVars, haState, net, retained, ha, newest, missed, spared>>
      /\ quit = "no"
      /\ \/ UNCHANGED <<jobs, due>>
         \/ /\ e.name \in p.slugs /\ enqueue(job)
            /\ IF k = 0 THEN due' = due ELSE Accepted(e.name, "reading", payload)
    BY DEF OnEvent
<1>2. e \in [name : Names, number : BOOLEAN] /\ k \in Nat
    BY RunningType, OnEventTypes
<1>3. payload \in Payloads /\ job \in JobType /\ None \in Payloads
    BY <1>2, PayloadTypes, OnEventJob
<1>4. job.name = e.name /\ job.seed /\ job.set = set
      /\ set.reading = payload /\ set.health = None
      /\ set.value = IF e.number THEN payload ELSE None
    OBVIOUS
<1>5. DueTyped /\ DueListed /\ DueReading /\ DueHealth /\ HasList
    BY DEF RestInv, DueInv
<1>6. HasList'
    BY <1>1, <1>5 DEF HasList, Resyncing
<1>7. conn' = conn
    BY <1>1 DEF net
<1>8. \A f \in Winners(saved) : f.name \in Names /\ (f.name = e.name => f = e)
  <2>1. saved \in Lists
      BY ListInScene DEF TypeInv, WorldType
  <2> QED BY <2>1, ListTypes, RunningIsWinner
<1>9. CASE UNCHANGED <<jobs, due>>
    BY <1>1, <1>7, <1>9, DueStands, CallersLeave DEF RestInv
<1>10. CASE /\ e.name \in p.slugs /\ enqueue(job) /\ Len(jobs) >= QueueCap
            /\ IF k = 0 THEN due' = due ELSE Accepted(e.name, "reading", payload)
  <2>1. jobs' = jobs
    <3>1. Len(jobs) \in Nat /\ QueueCap \in Nat
        BY NameAssumption DEF TypeInv, WorkerType
    <3> QED BY <1>10, <3>1 DEF enqueue
  <2>2. due' = due
      BY <1>2, <1>3, <1>5, <1>10, AcceptedDue
  <2> QED BY <1>9, <2>1, <2>2
<1>11. CASE /\ e.name \in p.slugs /\ enqueue(job) /\ Len(jobs) < QueueCap
            /\ IF k = 0 THEN due' = due ELSE Accepted(e.name, "reading", payload)
  <2>1. jobs' = Append(jobs, job)
      BY <1>11 DEF enqueue
  <2>2. /\ DueTyped'
        /\ \A m \in Names : m # e.name => due'[m] = due[m]
        /\ due'[e.name].health = due[e.name].health
        /\ due'[e.name].reading =
              IF k = 0 THEN due[e.name].reading ELSE IF Current THEN payload ELSE None
    <3>1. CASE k = 0
        BY <1>5, <1>11, <3>1 DEF DueTyped
    <3>2. CASE k # 0
      <4>1. Accepted(e.name, "reading", payload)
          BY <1>11, <3>2
      <4> HIDE DEF payload
      <4> QED BY <1>2, <1>3, <1>5, <1>11, <3>2, <4>1, AcceptedDue
    <3> QED BY <3>1, <3>2
  <2> HIDE DEF job, set
  <2>3. DueListed'
    <3>1. DueOf(e.name)' => DueOf(e.name) \/ Current
        BY <2>2 DEF DueOf
    <3> HIDE DEF payload
    <3> QED BY <1>1, <1>11, <2>2, <3>1, DueStillListed
  <2>4. k = 0 => payload = None
      OBVIOUS
  <2> HIDE DEF payload
  <2>5. DueReading'
    <3>1. \A f \in Winners(saved) :
            \/ due'[f.name].reading = None
            \/ /\ due'[f.name].reading = due[f.name].reading
               /\ job.name = f.name => job.set.reading = None /\ job.set.value = None
            \/ /\ job.name = f.name /\ job.seed /\ job.set.reading = due'[f.name].reading
               /\ f.number => job.set.value = due'[f.name].reading
        BY <1>4, <1>8, <2>2, <2>4
    <3> QED BY <1>1, <1>3, <1>5, <2>1, <3>1, QueuedReading
  <2>6. DueHealth'
    <3>1. \A f \in Winners(saved) :
            \/ due'[f.name].health = None
            \/ due'[f.name].health = due[f.name].health /\ (job.name = f.name => job.set.health = None)
            \/ job.name = f.name /\ job.set.health = due'[f.name].health
        BY <1>4, <1>8, <2>2
    <3> QED BY <1>1, <1>3, <1>5, <2>1, <3>1, QueuedHealth
  <2> QED BY <1>1, <1>6, <1>7, <2>2, <2>3, <2>5, <2>6, CallersLeave DEF RestInv, DueInv
<1>12. Len(jobs) >= QueueCap \/ Len(jobs) < QueueCap
    BY NameAssumption DEF TypeInv, WorkerType
<1> QED BY <1>1, <1>9, <1>10, <1>11, <1>12

LEMMA RestOnHealth ==
    ASSUME TypeInv, RestInv, NEW e \in Running, NEW word \in {"online", "offline"},
           OnHealth(e, word)
    PROVE  RestInv'
<1> DEFINE job == [name |-> e.name, seed |-> FALSE, set |-> [NoState EXCEPT !.health = <<word>>]]
<1>1. /\ UNCHANGED <<scene, saved, handed, syncCh, connCh, strayCh, haCh, quit, p,
                   w, seenVars, haState, net, retained, ha, said, newest, missed, spared>>
      /\ quit = "no"
      /\ \/ UNCHANGED <<jobs, due>>
         \/ /\ e.name \in p.slugs /\ enqueue(job)
            /\ Accepted(e.name, "health", <<word>>)
    BY DEF OnHealth
<1>2. e \in [name : Names, number : BOOLEAN]
    BY RunningType
<1>3. <<word>> \in Payloads /\ job \in JobType
    BY <1>2, PayloadTypes, OnHealthJob
<1>4. job.name = e.name /\ job.set.reading = None /\ job.set.value = None
      /\ job.set.health = <<word>>
    BY DEF NoState, Topics
<1>5. DueTyped /\ DueListed /\ DueReading /\ DueHealth /\ HasList
    BY DEF RestInv, DueInv
<1>6. HasList'
    BY <1>1, <1>5 DEF HasList, Resyncing
<1>7. conn' = conn
    BY <1>1 DEF net
<1>8. \A f \in Winners(saved) : f.name \in Names /\ (f.name = e.name => f = e)
  <2>1. saved \in Lists
      BY ListInScene DEF TypeInv, WorldType
  <2> QED BY <2>1, ListTypes, RunningIsWinner
<1>9. CASE UNCHANGED <<jobs, due>>
    BY <1>1, <1>7, <1>9, DueStands, CallersLeave DEF RestInv
<1> HIDE DEF job
<1>10. CASE /\ e.name \in p.slugs /\ enqueue(job) /\ Len(jobs) >= QueueCap
            /\ Accepted(e.name, "health", <<word>>)
  <2>1. jobs' = jobs
    <3>1. Len(jobs) \in Nat /\ QueueCap \in Nat
        BY NameAssumption DEF TypeInv, WorkerType
    <3> QED BY <1>10, <3>1 DEF enqueue
  <2>2. due' = due
      BY <1>2, <1>3, <1>5, <1>10, AcceptedDue
  <2> QED BY <1>9, <2>1, <2>2
<1>11. CASE /\ e.name \in p.slugs /\ enqueue(job) /\ Len(jobs) < QueueCap
            /\ Accepted(e.name, "health", <<word>>)
  <2>1. jobs' = Append(jobs, job)
      BY <1>11 DEF enqueue
  <2>2. /\ DueTyped'
        /\ \A m \in Names : m # e.name => due'[m] = due[m]
        /\ due'[e.name].reading = due[e.name].reading
        /\ due'[e.name].health = IF Current THEN <<word>> ELSE None
      BY <1>2, <1>3, <1>5, <1>11, AcceptedDue
  <2>3. DueListed'
    <3>1. DueOf(e.name)' => DueOf(e.name) \/ Current
        BY <2>2 DEF DueOf
    <3> QED BY <1>1, <1>11, <2>2, <3>1, DueStillListed
  <2>4. DueReading'
    <3>1. \A f \in Winners(saved) :
            \/ due'[f.name].reading = None
            \/ /\ due'[f.name].reading = due[f.name].reading
               /\ job.name = f.name => job.set.reading = None /\ job.set.value = None
            \/ /\ job.name = f.name /\ job.seed /\ job.set.reading = due'[f.name].reading
               /\ f.number => job.set.value = due'[f.name].reading
        BY <1>4, <1>8, <2>2
    <3> QED BY <1>1, <1>3, <1>5, <2>1, <3>1, QueuedReading
  <2>5. DueHealth'
    <3>1. \A f \in Winners(saved) :
            \/ due'[f.name].health = None
            \/ due'[f.name].health = due[f.name].health /\ (job.name = f.name => job.set.health = None)
            \/ job.name = f.name /\ job.set.health = due'[f.name].health
        BY <1>4, <1>8, <2>2
    <3> QED BY <1>1, <1>3, <1>5, <2>1, <3>1, QueuedHealth
  <2> QED BY <1>1, <1>6, <1>7, <2>2, <2>3, <2>4, <2>5, CallersLeave DEF RestInv, DueInv
<1>12. Len(jobs) >= QueueCap \/ Len(jobs) < QueueCap
    BY NameAssumption DEF TypeInv, WorkerType
<1> QED BY <1>1, <1>9, <1>10, <1>11, <1>12

LEMMA RestCallers ==
    ASSUME TypeInv, RestInv, Callers
    PROVE  RestInv'
BY RestSave, RestSyncAsync, RestClose, RestOnEvent, RestOnHealth DEF Callers

-----------------------------------------------------------------------------
(* At rest: the worker. *)

LEMMA RestTakesList ==
    ASSUME TypeInv, RestInv, PickSync \/ DrainSync
    PROVE  RestInv'
<1>1. /\ w.pc = "idle" /\ syncCh # <<>> /\ syncCh' = <<>>
      /\ quit' # "done" /\ (quit' # "no" => quit # "no")
      /\ p' = [p EXCEPT !.listed = TRUE]
      /\ w' = [pc |-> "announce", list |-> syncCh[1], connected |-> conn, resync |-> FALSE]
      /\ UNCHANGED <<scene, saved, handed, connCh, strayCh, jobs, seenVars, haState, net,
                     retained, ha, due, missed, spared>>
    BY DEF PickSync, DrainSync, TakesList, Begins, Selecting, history
<1>2. UNCHANGED <<conn, subs, settled, arriving, haMsgs, strays, owners, dupClient, broker,
                  ours>>
    BY <1>1 DEF net, seenVars, retained
<1>3. /\ p'.watches = p.watches /\ p'.slugs = p.slugs /\ p'.want = p.want /\ p'.sent = p.sent
      /\ p'.optCfg = p.optCfg /\ p'.pendingClear = p.pendingClear /\ p'.lastCfg = p.lastCfg
      /\ p'.cleared = p.cleared /\ p'.haUp = p.haUp /\ p'.followed = p.followed
      /\ p'.sweepOK = p.sweepOK /\ p'.swept = p.swept /\ p'.ownersSent = p.ownersSent
    BY <1>1 DEF TypeInv, WorkerType, PType
<1>4. w'.pc = "announce" /\ w'.list = syncCh[1] /\ w'.connected = conn /\ w'.resync = FALSE
    BY <1>1
<1>5. /\ ToSweep' /\ claimedSlugs' = claimedSlugs /\ BeingListed' = {} /\ BeingListed = {}
      /\ Retained' = Retained /\ (\A s \in Slugs : Left(s)' = Left(s)) /\ Told' = Told
      /\ (\A pcs : ~Resyncing(pcs)') /\ ~Resyncing({"announce"})
      /\ ~Resyncing({"announce", "swap"}) /\ (\A s : IsOld(s)' = IsOld(s))
    BY <1>1, <1>2, <1>3, <1>4 DEF ToSweep, claimedSlugs, BeingListed, Retained, Left, Told,
       Resyncing, IsOld
<1>6. RestTypes'
    BY <1>1, <1>2 DEF RestInv, RestTypes
<1>7. HasList'
    BY <1>1, <1>3, <1>4, <1>5 DEF RestInv, HasList
<1>8. CfgsOut'
    BY <1>1, <1>2, <1>3, <1>4, <1>5 DEF RestInv, CfgsOut, Told
<1>9. StatesOut'
    BY <1>1, <1>2, <1>3, <1>4, <1>5 DEF RestInv, StatesOut, NoneUnclaimed, SentIsThere,
       WantIsSent
<1>10. DueListed'
    BY <1>1, <1>3, <1>4 DEF RestInv, DueInv, DueListed, DueOf
<1>11. DueReading'
    BY <1>1, <1>3 DEF RestInv, DueInv, DueReading, SaysNothing
<1>12. DueHealth'
    BY <1>1, <1>3 DEF RestInv, DueInv, DueHealth, SaysNothing
<1>13. CleanOrPending'
    BY <1>1, <1>2, <1>3, <1>4, <1>5 DEF RestInv, CleanOrPending
<1>14. SweepInv'
    BY <1>1, <1>2, <1>3, <1>4, <1>5 DEF RestInv, SweepInv
<1>15. RecordOut'
    BY <1>1, <1>2, <1>3, <1>5 DEF RestInv, RecordOut
<1>16. GhostInv'
    BY <1>1, <1>2, <1>3, <1>4, <1>5 DEF RestInv, GhostInv
<1> QED BY <1>1, <1>6, <1>7, <1>8, <1>9, <1>10, <1>11, <1>12, <1>13, <1>14, <1>15, <1>16
       DEF RestInv, DueInv, DueTyped

\* On a new connection nothing counts as sent, and Home Assistant's word is asked anew.
LEMMA RestPickConn ==
    ASSUME TypeInv, RestInv, PickConn
    PROVE  RestInv'
<1>1. /\ w.pc = "idle" /\ connCh' = FALSE
      /\ p' = [p EXCEPT !.sent = [s \in Slugs |-> NoState], !.haUp = FALSE]
      /\ w' = [pc |-> "announce", list |-> p.watches, connected |-> conn, resync |-> TRUE]
      /\ UNCHANGED <<scene, saved, handed, syncCh, strayCh, jobs, quit, seenVars, haState, net,
                     retained, ha, due, missed, spared>>
    BY DEF PickConn, Begins, Selecting, history
<1>2. UNCHANGED <<conn, subs, settled, arriving, haMsgs, strays, owners, dupClient, broker,
                  ours>>
    BY <1>1 DEF net, seenVars, retained
<1>3. /\ p'.watches = p.watches /\ p'.slugs = p.slugs /\ p'.want = p.want
      /\ (\A s \in Slugs : p'.sent[s] = NoState)
      /\ p'.optCfg = p.optCfg /\ p'.pendingClear = p.pendingClear /\ p'.lastCfg = p.lastCfg
      /\ p'.cleared = p.cleared /\ p'.haUp = FALSE /\ p'.followed = p.followed
      /\ p'.sweepOK = p.sweepOK /\ p'.swept = p.swept /\ p'.ownersSent = p.ownersSent
    BY <1>1 DEF TypeInv, WorkerType, PType
<1>4. w'.pc = "announce" /\ w'.list = p.watches /\ w'.connected = conn /\ w'.resync = TRUE
    BY <1>1
<1>5. /\ ToSweep' /\ claimedSlugs' = claimedSlugs /\ BeingListed' = {} /\ BeingListed = {}
      /\ Retained' = Retained /\ (\A s \in Slugs : Left(s)' = Left(s)) /\ Told' = conn
      /\ Resyncing({"announce"})' /\ Resyncing({"announce", "swap"})'
      /\ (\A s : IsOld(s)' = IsOld(s)) /\ (\A t \in Topics : NoState[t] = None)
  <2>1. \A t \in Topics : NoState[t] = None
      BY DEF NoState
  <2>2. ToSweep' /\ BeingListed' = {} /\ BeingListed = {}
        /\ Resyncing({"announce"})' /\ Resyncing({"announce", "swap"})'
      BY <1>1, <1>4 DEF ToSweep, BeingListed, Resyncing
  <2>3. /\ claimedSlugs' = claimedSlugs /\ Retained' = Retained /\ Told' = conn
        /\ (\A s \in Slugs : Left(s)' = Left(s)) /\ (\A s : IsOld(s)' = IsOld(s))
    <3>1. conn \in BOOLEAN
        BY DEF TypeInv, WorldType
    <3> QED BY <1>1, <1>2, <1>3, <3>1 DEF claimedSlugs, Retained, Left, Told, IsOld
  <2> QED BY <2>1, <2>2, <2>3
<1>6. RestTypes'
    BY <1>1, <1>2 DEF RestInv, RestTypes
<1>7. HasList'
    BY <1>1, <1>3, <1>4, <1>5 DEF RestInv, HasList
<1>8. CfgsOut'
    BY <1>1, <1>2, <1>3, <1>4, <1>5 DEF RestInv, CfgsOut
<1>9. StatesOut'
    BY <1>1, <1>2, <1>3, <1>4, <1>5 DEF RestInv, StatesOut, NoneUnclaimed, SentIsThere,
       WantIsSent
<1>10. DueListed'
    BY <1>1, <1>3, <1>4 DEF RestInv, DueInv, DueListed, DueOf
<1>11. DueReading'
    BY <1>1, <1>3 DEF RestInv, DueInv, DueReading, SaysNothing
<1>12. DueHealth'
    BY <1>1, <1>3 DEF RestInv, DueInv, DueHealth, SaysNothing
<1>13. CleanOrPending'
    BY <1>1, <1>2, <1>3, <1>4, <1>5 DEF RestInv, CleanOrPending
<1>14. SweepInv'
    BY <1>1, <1>2, <1>3, <1>4, <1>5 DEF RestInv, SweepInv
<1>15. RecordOut'
    BY <1>1, <1>2, <1>3, <1>5 DEF RestInv, RecordOut
<1>16. GhostInv'
    BY <1>1, <1>2, <1>3, <1>4, <1>5 DEF RestInv, GhostInv
<1> QED BY <1>1, <1>6, <1>7, <1>8, <1>9, <1>10, <1>11, <1>12, <1>13, <1>14, <1>15, <1>16
       DEF RestInv, DueInv, DueTyped

LEMMA RestPicks ==
    ASSUME TypeInv, RestInv, PickStray \/ PickQuit \/ DrainRound
    PROVE  RestInv'
<1>1. /\ w.pc = "idle" /\ UNCHANGED <<scene, saved, handed, syncCh, connCh, jobs, p, seenVars,
                                      haState, net, retained, ha, due, missed, spared>>
      /\ \/ strayCh' = strayCh /\ w' = w
         \/ w' = [Idle EXCEPT !.pc = "sweep"] /\ strayCh' = FALSE
      /\ quit' # "no" => quit # "no"
      /\ quit' = "done" => quit = "done" \/ (syncCh = <<>> /\ jobs = <<>>)
    BY DEF PickStray, PickQuit, DrainRound, Selecting, chans, history
<1>2. UNCHANGED <<conn, subs, settled, arriving, haMsgs, strays, owners, dupClient, broker,
                  ours>>
    BY <1>1 DEF net, seenVars, retained
<1>3. w'.pc \in {"idle", "sweep"}
    BY <1>1 DEF Idle
<1>4. (ToSweep => ToSweep') /\ strayCh' \in BOOLEAN
  <2>1. CASE strayCh' = strayCh /\ w' = w
      BY <1>1, <2>1 DEF ToSweep, RestInv, RestTypes
  <2>2. CASE w' = [Idle EXCEPT !.pc = "sweep"] /\ strayCh' = FALSE
    <3>1. w'.pc = "sweep"
        BY <2>2 DEF Idle
    <3> QED BY <2>2, <3>1 DEF ToSweep
  <2> QED BY <1>1, <2>1, <2>2
<1>5. /\ claimedSlugs' = claimedSlugs /\ BeingListed' = {} /\ BeingListed = {}
      /\ Retained' = Retained /\ (\A s \in Slugs : Left(s)' = Left(s)) /\ Told' = Told
      /\ ~Resyncing({"announce"})' /\ ~Resyncing({"announce", "swap"})'
      /\ ~Resyncing({"announce"}) /\ ~Resyncing({"announce", "swap"})
      /\ (\A s : IsOld(s)' = IsOld(s)) /\ SweepReady' = SweepReady
    BY <1>1, <1>2, <1>3 DEF claimedSlugs, BeingListed, Retained, Left, Told,
       Resyncing, IsOld, SweepReady
<1>6. RestTypes'
    BY <1>1, <1>2, <1>4 DEF RestInv, RestTypes
<1>7. HasList'
    BY <1>1, <1>3, <1>5 DEF RestInv, HasList
<1>8. CfgsOut'
    BY <1>1, <1>2, <1>3, <1>5 DEF RestInv, CfgsOut
<1>9. StatesOut'
    BY <1>1, <1>2, <1>3, <1>5 DEF RestInv, StatesOut, NoneUnclaimed, SentIsThere, WantIsSent
<1>10. DueListed'
    BY <1>1, <1>3 DEF RestInv, DueInv, DueListed, DueOf
<1>11. DueReading'
    BY <1>1 DEF RestInv, DueInv, DueReading, SaysNothing
<1>12. DueHealth'
    BY <1>1 DEF RestInv, DueInv, DueHealth, SaysNothing
<1>13. CleanOrPending'
    BY <1>1, <1>2, <1>3, <1>5 DEF RestInv, CleanOrPending
<1>14. SweepInv'
    BY <1>1, <1>2, <1>3, <1>4, <1>5 DEF RestInv, SweepInv
<1>15. RecordOut'
    BY <1>1, <1>2, <1>3, <1>4, <1>5 DEF RestInv, RecordOut
<1>16. GhostInv'
    BY <1>1, <1>2, <1>3, <1>5 DEF RestInv, GhostInv
<1> QED BY <1>1, <1>6, <1>7, <1>8, <1>9, <1>10, <1>11, <1>12, <1>13, <1>14, <1>15, <1>16
       DEF RestInv, DueInv, DueTyped

LEMMA RestPublishOwners ==
    ASSUME TypeInv, RestInv, publishOwners
    PROVE  RestInv'
<1> DEFINE rec == [run |-> "this", slugs |-> claimedSlugs]
<1>1. /\ w.pc = "owners" /\ w' = Idle
      /\ UNCHANGED <<scene, saved, handed, connCh, strayCh, syncCh, jobs, quit, strays, owners,
                     dupClient, haState, conn, subs, settled, arriving, haMsgs, broker, ha,
                     due, missed, spared>>
    BY DEF publishOwners, chans, net, history
<1>2. IF conn /\ p.ownersSent # rec
      THEN ours' = rec /\ p' = [p EXCEPT !.ownersSent = rec]
      ELSE UNCHANGED <<ours, p>>
    BY DEF publishOwners
<1>3. /\ p'.watches = p.watches /\ p'.slugs = p.slugs /\ p'.want = p.want /\ p'.sent = p.sent
      /\ p'.optCfg = p.optCfg /\ p'.pendingClear = p.pendingClear /\ p'.lastCfg = p.lastCfg
      /\ p'.cleared = p.cleared /\ p'.haUp = p.haUp /\ p'.followed = p.followed
      /\ p'.sweepOK = p.sweepOK /\ p'.swept = p.swept /\ p'.listed = p.listed
      /\ conn => p'.ownersSent = rec
      /\ \/ p'.ownersSent = p.ownersSent /\ ours' = ours
         \/ ours' = p'.ownersSent
    BY <1>2 DEF TypeInv, WorkerType, PType
<1>4. w'.pc = "idle"
    BY <1>1 DEF Idle
<1>5. /\ claimedSlugs' = claimedSlugs /\ BeingListed' = {} /\ BeingListed = {}
      /\ Retained' = Retained /\ (\A s \in Slugs : Left(s)' = Left(s)) /\ Told' = Told
      /\ ~Resyncing({"announce"})' /\ ~Resyncing({"announce", "swap"})'
      /\ ~Resyncing({"announce"}) /\ ~Resyncing({"announce", "swap"})
      /\ (\A s : IsOld(s)' = IsOld(s)) /\ SweepReady' = SweepReady
      /\ (ToSweep => ToSweep')
    BY <1>1, <1>3, <1>4 DEF claimedSlugs, BeingListed, Retained, Left, Told,
       Resyncing, IsOld, SweepReady, ToSweep
<1>6. RestTypes'
    BY <1>1 DEF RestInv, RestTypes
<1>7. HasList'
    BY <1>1, <1>3, <1>4, <1>5 DEF RestInv, HasList
<1>8. CfgsOut'
    BY <1>1, <1>3, <1>4, <1>5 DEF RestInv, CfgsOut
<1>9. StatesOut'
    BY <1>1, <1>3, <1>4, <1>5 DEF RestInv, StatesOut, NoneUnclaimed, SentIsThere, WantIsSent
<1>10. DueListed'
    BY <1>1, <1>3, <1>4 DEF RestInv, DueInv, DueListed, DueOf
<1>11. DueReading'
    BY <1>1, <1>3 DEF RestInv, DueInv, DueReading, SaysNothing
<1>12. DueHealth'
    BY <1>1, <1>3 DEF RestInv, DueInv, DueHealth, SaysNothing
<1>13. CleanOrPending'
    BY <1>1, <1>3, <1>4, <1>5 DEF RestInv, CleanOrPending
<1>14. SweepInv'
    BY <1>1, <1>3, <1>4, <1>5 DEF RestInv, SweepInv
<1>15. RecordOut'
  <2>1. subs /\ p'.ownersSent # NoOurs => ours' = p'.ownersSent
      BY <1>3 DEF RestInv, RecordOut
  <2>2. SweepReady' => p'.ownersSent = rec
      BY <1>1, <1>3, <1>5 DEF SweepReady
  <2> QED BY <1>1, <1>5, <2>1, <2>2 DEF RecordOut
<1>16. GhostInv'
    BY <1>1, <1>3, <1>4, <1>5 DEF RestInv, GhostInv
<1> QED BY <1>1, <1>6, <1>7, <1>8, <1>9, <1>10, <1>11, <1>12, <1>13, <1>14, <1>15, <1>16
       DEF RestInv, DueInv, DueTyped

\* It asks for what the broker retains: of an earlier run all of it comes.
LEMMA RestFollow ==
    ASSUME TypeInv, RestInv, Follow
    PROVE  RestInv'
<1>1. PICK ok \in scene.sweeps :
        p' = [p EXCEPT !.swept = {}, !.ownersSent = NoOurs,
                       !.followed = conn, !.sweepOK = conn /\ ok]
    BY Zenon DEF Follow
<1>2. /\ w.pc = "follow" /\ w' = [w EXCEPT !.pc = "sweep"]
      /\ subs' = p'.sweepOK /\ spared' = {}
      /\ UNCHANGED <<scene, saved, handed, connCh, strayCh, syncCh, jobs, quit, strays, owners,
                     dupClient, haState, conn, haMsgs, broker, ours, ha, due, missed>>
    BY DEF Follow, chans, seenVars, retained
<1>3. subs' => {s \in Slugs : broker[s].cfg # None} \subseteq arriving'
    BY DEF Follow
<1>4. /\ p'.watches = p.watches /\ p'.slugs = p.slugs /\ p'.want = p.want /\ p'.sent = p.sent
      /\ p'.optCfg = p.optCfg /\ p'.pendingClear = p.pendingClear /\ p'.lastCfg = p.lastCfg
      /\ p'.cleared = p.cleared /\ p'.haUp = p.haUp /\ p'.swept = {}
      /\ p'.ownersSent = NoOurs /\ (p'.sweepOK => p'.followed)
    BY <1>1 DEF TypeInv, WorkerType, PType
<1>5. w'.pc = "sweep" /\ w'.list = w.list
    BY <1>2 DEF TypeInv, WorkerType, WType
<1>6. /\ claimedSlugs' = claimedSlugs /\ BeingListed' = {} /\ BeingListed = {}
      /\ Retained' = Retained /\ (\A s \in Slugs : Left(s)' = Left(s)) /\ Told' = Told
      /\ ~Resyncing({"announce"})' /\ ~Resyncing({"announce", "swap"})'
      /\ ~Resyncing({"announce"}) /\ ~Resyncing({"announce", "swap"})
      /\ (\A s \in Slugs : IsOld(s)' => s \in Retained) /\ ToSweep'
  <2>1. <<"old">> # None
      BY DEF None
  <2>2. /\ claimedSlugs' = claimedSlugs /\ Retained' = Retained /\ Told' = Told
        /\ (\A s \in Slugs : Left(s)' = Left(s))
        /\ (\A s \in Slugs : IsOld(s)' => s \in Retained)
      BY <1>2, <1>4, <2>1 DEF claimedSlugs, Retained, Left, Told, IsOld
  <2> QED BY <1>2, <1>5, <2>2 DEF BeingListed, Resyncing, ToSweep
<1>7. RestTypes'
    BY <1>2 DEF RestInv, RestTypes
<1>8. HasList'
    BY <1>2, <1>4, <1>5, <1>6 DEF RestInv, HasList
<1>9. CfgsOut'
    BY <1>2, <1>4, <1>5, <1>6 DEF RestInv, CfgsOut
<1>10. StatesOut'
    BY <1>2, <1>4, <1>5, <1>6 DEF RestInv, StatesOut, NoneUnclaimed, SentIsThere, WantIsSent
<1>11. DueListed'
    BY <1>2, <1>4, <1>5 DEF RestInv, DueInv, DueListed, DueOf
<1>12. DueReading'
    BY <1>2, <1>4 DEF RestInv, DueInv, DueReading, SaysNothing
<1>13. DueHealth'
    BY <1>2, <1>4 DEF RestInv, DueInv, DueHealth, SaysNothing
<1>14. CleanOrPending'
    BY <1>2, <1>4, <1>5, <1>6 DEF RestInv, CleanOrPending
<1>15. SweepInv'
    BY <1>2, <1>3, <1>4, <1>5, <1>6 DEF SweepInv, Retained
<1>16. RecordOut'
    BY <1>4, <1>6 DEF RecordOut
<1>17. GhostInv'
    BY <1>2, <1>4, <1>5, <1>6 DEF RestInv, GhostInv
<1> QED BY <1>2, <1>7, <1>8, <1>9, <1>10, <1>11, <1>12, <1>13, <1>14, <1>15, <1>16, <1>17
       DEF RestInv, DueInv, DueTyped

\* Every clear Home Assistant may have missed goes out again once it says it is there.
LEMMA RestPickHA ==
    ASSUME TypeInv, TypeInv', RestInv, PickHA
    PROVE  RestInv'
<1> DEFINE up == haState = "online"
           again == p.cleared \ claimedSlugs
<1>1. /\ w.pc = "idle"
      /\ UNCHANGED <<scene, saved, handed, syncCh, connCh, strayCh, jobs, quit, w, strays,
                     owners, dupClient, haState, settled, ours, due, spared>>
    BY Zenon DEF PickHA, haChanged, Selecting, seenVars
<1>2. p \in PType /\ broker \in BrokerType
      /\ ha \in [on : BOOLEAN, has : SUBSET Slugs, seen : SUBSET Slugs]
    BY DEF TypeInv, WorkerType, WorldType, BrokerType, RestInv, RestTypes
\* out is what of them did go out.
<1>3. PICK out \in SUBSET again :
        \/ /\ up /\ p.cleared # {} /\ conn /\ Goes(again, out)
           /\ ha' = Replayed(out)
           /\ broker' = [s \in Slugs |->
                 IF s \in out THEN [broker[s] EXCEPT !.cfg = None, !.valueCfg = FALSE]
                 ELSE broker[s]]
           /\ p' = [p EXCEPT !.haUp = up, !.cleared = again \ out]
           /\ missed' = IF ha.on THEN missed ELSE missed \cup out
        \/ /\ out = {} /\ (up /\ conn => p.cleared = {})
           /\ p' = [p EXCEPT !.haUp = up]
           /\ UNCHANGED <<conn, subs, arriving, haMsgs, ha, broker, missed>>
    BY Zenon DEF PickHA, haChanged
<1>4. out \subseteq Slugs /\ out \subseteq p.cleared /\ out \cap claimedSlugs = {}
    BY <1>2 DEF PType
<1>5. /\ conn' => conn /\ UNCHANGED <<subs, arriving, haMsgs>>
      /\ subs' => conn'
      /\ haMsgs' \subseteq haMsgs
      /\ \A s \in Slugs : s \notin out => broker'[s] = broker[s]
      /\ \A s \in out : /\ broker'[s].cfg = None /\ broker'[s].valueCfg = FALSE
                        /\ broker'[s].state = broker[s].state
      /\ ha' \in [on : BOOLEAN, has : SUBSET Slugs, seen : SUBSET Slugs] /\ ha'.on = ha.on
      /\ ha.on => ha'.has \subseteq ha.has \ out /\ ha.seen \ out \subseteq ha'.seen
      /\ ~ha.on => ha'.has = ha.has /\ out \subseteq missed'
      /\ missed \subseteq missed' /\ missed' \subseteq Slugs
      /\ p'.watches = p.watches /\ p'.slugs = p.slugs /\ p'.want = p.want /\ p'.sent = p.sent
      /\ p'.optCfg = p.optCfg /\ p'.pendingClear = p.pendingClear /\ p'.lastCfg = p.lastCfg
      /\ p'.haUp = up /\ p'.followed = p.followed /\ p'.listed = p.listed
      /\ p'.sweepOK = p.sweepOK /\ p'.swept = p.swept /\ p'.ownersSent = p.ownersSent
      /\ p.cleared \subseteq p'.cleared \cup claimedSlugs \cup out
      /\ p'.cleared \subseteq p.cleared
      /\ conn' /\ up => p'.cleared = {}
  <2>1. CASE /\ up /\ p.cleared # {} /\ conn /\ Goes(again, out)
             /\ ha' = Replayed(out)
             /\ broker' = [s \in Slugs |->
                   IF s \in out THEN [broker[s] EXCEPT !.cfg = None, !.valueCfg = FALSE]
                   ELSE broker[s]]
             /\ p' = [p EXCEPT !.haUp = up, !.cleared = again \ out]
             /\ missed' = IF ha.on THEN missed ELSE missed \cup out
    <3>1. Sends(again, out)
      <4> HIDE DEF again
      <4> QED BY <2>1, GoesSends DEF TypeInv
    <3>2. /\ conn' => conn /\ out = again /\ UNCHANGED <<subs, arriving, haMsgs>>
          /\ subs' => conn'
          /\ haMsgs' \subseteq haMsgs
        BY <3>1 DEF Sends
    <3>3. /\ \A s \in Slugs : s \notin out => broker'[s] = broker[s]
          /\ \A s \in out : /\ broker'[s].cfg = None /\ broker'[s].valueCfg = FALSE
                            /\ broker'[s].state = broker[s].state
        BY <1>2, <1>4, <2>1 DEF BrokerType
    <3>4. /\ ha' \in [on : BOOLEAN, has : SUBSET Slugs, seen : SUBSET Slugs] /\ ha'.on = ha.on
          /\ ha.on => ha'.has \subseteq ha.has \ out /\ ha.seen \ out \subseteq ha'.seen
          /\ ~ha.on => ha'.has = ha.has /\ out \subseteq missed'
          /\ missed \subseteq missed' /\ missed' \subseteq Slugs
      <4>1. missed \subseteq Slugs
          BY DEF RestInv, RestTypes
      <4> QED BY <1>2, <1>4, <2>1, <4>1 DEF Replayed, Hears, Drops
    <3>5. /\ p'.watches = p.watches /\ p'.slugs = p.slugs /\ p'.want = p.want
          /\ p'.sent = p.sent
          /\ p'.optCfg = p.optCfg /\ p'.pendingClear = p.pendingClear
          /\ p'.lastCfg = p.lastCfg
          /\ p'.haUp = up /\ p'.followed = p.followed /\ p'.listed = p.listed
          /\ p'.sweepOK = p.sweepOK /\ p'.swept = p.swept /\ p'.ownersSent = p.ownersSent
          /\ p'.cleared = again \ out
        BY <1>2, <2>1 DEF PType
    <3> QED BY <3>2, <3>3, <3>4, <3>5
  <2>2. CASE /\ out = {} /\ (up /\ conn => p.cleared = {})
             /\ p' = [p EXCEPT !.haUp = up]
             /\ UNCHANGED <<conn, subs, arriving, haMsgs, ha, broker, missed>>
    <3>1. /\ p'.watches = p.watches /\ p'.slugs = p.slugs /\ p'.want = p.want
          /\ p'.sent = p.sent
          /\ p'.optCfg = p.optCfg /\ p'.pendingClear = p.pendingClear
          /\ p'.lastCfg = p.lastCfg
          /\ p'.haUp = up /\ p'.followed = p.followed /\ p'.listed = p.listed
          /\ p'.sweepOK = p.sweepOK /\ p'.swept = p.swept /\ p'.ownersSent = p.ownersSent
          /\ p'.cleared = p.cleared
        BY <1>2, <2>2 DEF PType
    <3>2. (subs => conn) /\ missed \subseteq Slugs
        BY DEF TypeInv, WorldType, RestInv, RestTypes
    <3> HIDE DEF up
    <3> QED BY <1>2, <2>2, <3>1, <3>2
  <2> QED BY <1>3, <2>1, <2>2
<1> HIDE DEF up, again
<1>6. \A s \in out : broker[s] = Bare => broker'[s] = Bare
  <2> SUFFICES ASSUME NEW s \in out, broker[s] = Bare PROVE broker'[s] = Bare
      OBVIOUS
  <2>1. broker'[s] \in [cfg : Configs, valueCfg : BOOLEAN, state : States] /\ s \in Slugs
      BY <1>4 DEF TypeInv, WorldType
  <2>2. broker'[s].cfg = None /\ broker'[s].valueCfg = FALSE /\ broker'[s].state = NoState
      BY <1>5 DEF Bare
  <2> QED BY <2>1, <2>2 DEF Bare
<1>7. /\ claimedSlugs' = claimedSlugs /\ BeingListed' = {} /\ BeingListed = {}
      /\ (\A s \in Slugs : Left(s)' = Left(s)) /\ (Told' => Told)
      /\ (\A pcs : Resyncing(pcs)' = Resyncing(pcs)) /\ ~Resyncing({"announce"})
      /\ ~Resyncing({"announce", "swap"})
      /\ (SweepReady' => SweepReady) /\ ToSweep' = ToSweep
    BY <1>1, <1>5 DEF claimedSlugs, BeingListed, Left, Told, Resyncing, SweepReady, ToSweep
<1>8. /\ \A s \in Slugs : IsOld(s)' => IsOld(s)
      /\ Retained' \subseteq Retained
      /\ \A s \in Retained : s \in Retained' \cup out
      /\ Retained' \cap out = {}
  <2>1. <<"old">> # None
      BY DEF None
  <2> QED BY <1>4, <1>5, <2>1 DEF IsOld, Retained
<1>9. RestTypes'
    BY <1>1, <1>5 DEF RestInv, RestTypes
<1>10. HasList'
    BY <1>1, <1>5, <1>7 DEF RestInv, HasList
<1>11. CfgsOut'
  <2>1. \A e \in Winners(p.watches) : SlugOf[e.name] \in claimedSlugs
    <3>1. p.slugs = NamesOf(p.watches) /\ p.watches \in Lists
        BY <1>1, <1>2 DEF RestInv, HasList, PType
    <3> QED BY <3>1, WinnersSlugs DEF claimedSlugs
  <2>2. \A s \in claimedSlugs : broker'[s] = broker[s]
      BY <1>4, <1>5, ClaimedType
  <2>3. \A s \in Slugs : broker'[s].valueCfg => broker[s].valueCfg
      BY <1>5
  <2>4. CfgsOut
      BY DEF RestInv
  <2> QED BY <1>1, <1>5, <1>7, <2>1, <2>2, <2>3, <2>4 DEF CfgsOut
<1>12. StatesOut'
  <2>1. \A s \in Slugs : broker'[s].state = broker[s].state
      BY <1>5
  <2> QED BY <1>1, <1>5, <1>7, <2>1 DEF RestInv, StatesOut, NoneUnclaimed, SentIsThere,
         WantIsSent
<1>13. DueInv'
  <2>1. DueListed'
      BY <1>1, <1>5 DEF RestInv, DueInv, DueListed, DueOf
  <2>2. DueReading'
      BY <1>1, <1>5 DEF RestInv, DueInv, DueReading, SaysNothing
  <2>3. DueHealth'
      BY <1>1, <1>5 DEF RestInv, DueInv, DueHealth, SaysNothing
  <2> QED BY <1>1, <2>1, <2>2, <2>3 DEF RestInv, DueInv, DueTyped
<1>14. CleanOrPending'
  <2>1. CleanOrPending
      BY DEF RestInv
  <2>2. ASSUME NEW s \in Slugs \ (claimedSlugs \cup p.pendingClear)
        PROVE  broker'[s] = Bare \/ (broker'[s] = Left(s) /\ s \notin p'.cleared)
      BY <1>4, <1>5, <1>6, <1>7, <2>1 DEF CleanOrPending
  <2> QED BY <1>1, <1>5, <1>7, <2>1, <2>2 DEF CleanOrPending
<1>15. SweepInv'
  <2>1. p.swept \subseteq Slugs /\ SweepInv
      BY <1>2 DEF PType, RestInv
  <2>2. conn' => UNCHANGED <<subs, arriving>>
      BY <1>5
  <2>3. subs' /\ ~dupClient' => \A s \in Slugs : IsOld(s)' =>
          s \in arriving' \cup strays' \cup spared' \cup p'.pendingClear \cup claimedSlugs'
      BY <1>1, <1>5, <1>7, <1>8, <2>1, <2>2 DEF SweepInv
  <2>4. \A s \in p'.swept : IsOld(s)' => s \in p'.pendingClear \cup claimedSlugs'
      BY <1>5, <1>7, <1>8, <2>1 DEF SweepInv
  <2>5. /\ subs' => p'.sweepOK
        /\ Told' /\ w'.pc \notin {"states", "follow"} /\ ~Resyncing({"announce", "swap"})' =>
              (p'.sweepOK => subs')
      BY <1>1, <1>5, <1>7, <2>1 DEF SweepInv, Told
  <2> QED BY <1>1, <1>5, <1>7, <2>1, <2>3, <2>4, <2>5 DEF SweepInv
<1>16. RecordOut'
    BY <1>1, <1>5, <1>7 DEF RestInv, RecordOut
<1>17. GhostInv'
  <2>1. GhostInv /\ Retained \subseteq Slugs
      BY DEF RestInv, Retained
  <2>2. ha'.has \subseteq claimedSlugs \cup p'.cleared \cup missed' \cup p.pendingClear
                             \cup Retained'
      BY <1>2, <1>5, <1>8, <2>1 DEF GhostInv
  <2>3. ha'.on /\ ("online" \in haMsgs' \/ haState' = "online" \/ p'.haUp)
           => Retained' \subseteq ha'.seen
      BY <1>1, <1>2, <1>5, <1>8, <2>1 DEF GhostInv, up
  <2>4. Told' /\ p'.haUp => p'.cleared = {}
      BY <1>5 DEF Told
  <2> QED BY <1>1, <1>5, <1>7, <2>2, <2>3, <2>4 DEF GhostInv
<1> QED BY <1>9, <1>10, <1>11, <1>12, <1>13, <1>14, <1>15, <1>16, <1>17 DEF RestInv

\* What waits for the sweep is found or passed over, unless it is accounted for.
LEMMA RestSweep ==
    ASSUME TypeInv, RestInv, Sweep
    PROVE  RestInv'
<1> DEFINE found == strays \ (claimedSlugs \cup Elsewhere \cup p.pendingClear \cup p.swept)
<1>1. /\ w.pc = "sweep"
      /\ UNCHANGED <<scene, saved, handed, syncCh, connCh, strayCh, jobs, quit, dupClient, haState,
                     settled, broker, ours, ha, due, missed>>
    BY DEF Sweep, chans
<1>2. \/ /\ SweepReady /\ w'.pc = "owners" /\ p' = p /\ (dupClient \/ ~p.sweepOK)
         /\ strays' = {} /\ spared' = spared \cup (strays \cap Elsewhere)
      \/ /\ SweepReady /\ w'.pc = "clear"
         /\ p' = [p EXCEPT !.swept = @ \cup found, !.lastCfg = @ \cup found,
                           !.pendingClear = @ \cup found]
         /\ strays' = {} /\ spared' = spared \cup (strays \cap Elsewhere)
      \/ /\ ~SweepReady /\ w'.pc = "idle"
         /\ UNCHANGED <<p, strays, spared>>
  <2>1. /\ [w EXCEPT !.pc = "owners"].pc = "owners" /\ [w EXCEPT !.pc = "clear"].pc = "clear"
        /\ Idle.pc = "idle"
      BY DEF TypeInv, WorkerType, WType, Idle
  <2>2. CASE SweepReady
      BY <2>1, <2>2, Zenon DEF Sweep
  <2>3. CASE ~SweepReady
      BY <2>1, <2>3, Zenon DEF Sweep
  <2> QED BY <2>2, <2>3
<1>15. /\ conn' => conn /\ UNCHANGED <<subs, arriving, haMsgs>>
       /\ subs' => conn'
       /\ haMsgs' \subseteq haMsgs
       /\ ~SweepReady => UNCHANGED conn
  <2>1. \/ UNCHANGED <<conn, subs, arriving, haMsgs>>
        \/ SweepReady /\ Drop
      BY Zenon DEF Sweep
  <2> QED BY <2>1 DEF Drop, TypeInv, WorldType
<1>3. p \in PType /\ found \subseteq Slugs /\ strays \subseteq Slugs
    BY DEF TypeInv, WorkerType
<1> HIDE DEF found
<1>4. /\ p'.watches = p.watches /\ p'.slugs = p.slugs /\ p'.want = p.want /\ p'.sent = p.sent
      /\ p'.optCfg = p.optCfg /\ p'.cleared = p.cleared /\ p'.haUp = p.haUp
      /\ p'.followed = p.followed /\ p'.listed = p.listed
      /\ p'.sweepOK = p.sweepOK /\ p'.ownersSent = p.ownersSent
      /\ \/ /\ p'.swept = p.swept /\ p'.lastCfg = p.lastCfg /\ p'.pendingClear = p.pendingClear
            /\ w'.pc # "clear"
            /\ \/ ~SweepReady /\ w'.pc = "idle" /\ strays' = strays /\ spared' = spared
               \/ /\ dupClient \/ ~p.sweepOK
                  /\ w'.pc = "owners" /\ strays' = {}
                  /\ spared' = spared \cup (strays \cap Elsewhere)
         \/ /\ p'.swept = p.swept \cup found /\ p'.lastCfg = p.lastCfg \cup found
            /\ p'.pendingClear = p.pendingClear \cup found /\ w'.pc = "clear"
            /\ strays' = {} /\ spared' = spared \cup (strays \cap Elsewhere)
  <2>1. CASE p' = p /\ w'.pc # "clear"
      BY <1>2, <2>1
  <2>2. CASE /\ p' = [p EXCEPT !.swept = @ \cup found, !.lastCfg = @ \cup found,
                              !.pendingClear = @ \cup found]
             /\ w'.pc = "clear"
             /\ strays' = {} /\ spared' = spared \cup (strays \cap Elsewhere)
      BY <1>3, <2>2 DEF PType
  <2> QED BY <1>2, <2>1, <2>2
<1>5. /\ claimedSlugs' = claimedSlugs /\ BeingListed' = {} /\ BeingListed = {}
      /\ Retained' = Retained /\ (\A s \in Slugs : Left(s)' = Left(s)) /\ (Told' => Told)
      /\ ~Resyncing({"announce"})' /\ ~Resyncing({"announce", "swap"})'
      /\ ~Resyncing({"announce"}) /\ ~Resyncing({"announce", "swap"})
      /\ (\A s \in Slugs : IsOld(s)' = IsOld(s)) /\ (SweepReady' => SweepReady)
    BY <1>1, <1>4, <1>15 DEF claimedSlugs, BeingListed, Retained, Left, Told, Resyncing, IsOld,
       SweepReady
<1>6. RestTypes'
    BY <1>1, <1>3, <1>4, <1>15 DEF RestInv, RestTypes
<1>7. HasList'
    BY <1>1, <1>4, <1>5 DEF RestInv, HasList
<1>8. CfgsOut'
    BY <1>1, <1>4, <1>5 DEF RestInv, CfgsOut
<1>9. StatesOut'
    BY <1>1, <1>4, <1>5 DEF RestInv, StatesOut, NoneUnclaimed, SentIsThere, WantIsSent
<1>10. DueInv'
  <2>1. DueListed'
      BY <1>1, <1>4 DEF RestInv, DueInv, DueListed, DueOf
  <2>2. DueReading'
      BY <1>1, <1>4 DEF RestInv, DueInv, DueReading, SaysNothing
  <2>3. DueHealth'
      BY <1>1, <1>4 DEF RestInv, DueInv, DueHealth, SaysNothing
  <2> QED BY <1>1, <2>1, <2>2, <2>3 DEF RestInv, DueInv, DueTyped
<1>11. CleanOrPending'
    BY <1>1, <1>4, <1>5 DEF RestInv, CleanOrPending
<1>12. SweepInv'
  <2>1. SweepInv /\ p.swept \subseteq Slugs
      BY <1>3 DEF RestInv, PType
  <2>2. subs' /\ ~dupClient' => \A s \in Slugs : IsOld(s)' =>
          s \in arriving' \cup strays' \cup spared' \cup p'.pendingClear \cup claimedSlugs'
    <3> SUFFICES ASSUME subs', ~dupClient, NEW s \in Slugs, IsOld(s)
                 PROVE  s \in arriving' \cup strays' \cup spared' \cup p'.pendingClear
                                \cup claimedSlugs
        BY <1>1, <1>4, <1>5
    <3>5. subs /\ arriving' = arriving
        BY <1>15
    <3>1. s \in arriving \cup strays \cup spared \cup p.pendingClear \cup claimedSlugs
        BY <2>1, <3>5 DEF SweepInv
    <3>2. p.sweepOK /\ (s \in p.swept => s \in p.pendingClear \cup claimedSlugs)
        BY <2>1, <3>5 DEF SweepInv
    <3>3. CASE w'.pc = "clear"
        BY <1>4, <3>1, <3>2, <3>3, <3>5 DEF found
    <3>4. CASE w'.pc # "clear"
        BY <1>4, <3>1, <3>2, <3>4, <3>5
    <3> QED BY <3>3, <3>4
  <2>3. \A s \in p'.swept : IsOld(s)' => s \in p'.pendingClear \cup claimedSlugs'
      BY <1>3, <1>4, <1>5, <2>1 DEF SweepInv
  <2>4. /\ subs' => p'.sweepOK
        /\ p'.sweepOK => p'.followed
        /\ Told' /\ w'.pc \notin {"states", "follow"} /\ ~Resyncing({"announce", "swap"})' =>
              (p'.sweepOK => subs')
      BY <1>1, <1>4, <1>5, <1>15, <2>1 DEF SweepInv, Told
  <2>5. ~(strays' # {} /\ SweepReady')
      BY <1>4, <1>5
  <2> QED BY <2>2, <2>3, <2>4, <2>5 DEF SweepInv
<1>13. RecordOut'
  <2>1. SweepReady' => w'.pc \in {"clear", "owners"}
      BY <1>4, <1>5
  <2> QED BY <1>1, <1>4, <1>5, <1>15, <2>1 DEF RestInv, RecordOut
<1>14. GhostInv'
  <2>1. GhostInv
      BY DEF RestInv
  <2>2. Told' => p.pendingClear = {}
      BY <1>1, <1>5 DEF RestInv, CleanOrPending
  <2>3. Told' /\ w'.pc = "clear" =>
          p'.pendingClear \cap ha'.has \subseteq p'.cleared \cup missed' \cup Retained'
      BY <1>1, <1>4, <1>5, <2>1, <2>2 DEF GhostInv, found
  <2> QED BY <1>1, <1>4, <1>5, <1>15, <2>1, <2>3 DEF GhostInv
<1> QED BY <1>6, <1>7, <1>8, <1>9, <1>10, <1>11, <1>12, <1>13, <1>14 DEF RestInv

\* A resync sends what the worker has of each watch.
LEMMA RestResend ==
    ASSUME TypeInv, TypeInv', RestInv, Resend
    PROVE  RestInv'
<1> DEFINE all == {x \in claimedSlugs \X Topics :
                      p.want[x[1]][x[2]] \notin {None, p.sent[x[1]][x[2]]}}
           Some(out, s, state) == [t \in Topics |-> IF <<s, t>> \in out THEN p.want[s][t]
                                                    ELSE state[t]]
<1>1. PICK out \in SUBSET all :
        /\ Goes(all, out)
        /\ broker' = [s \in Slugs |-> [broker[s] EXCEPT !.state = Some(out, s, @)]]
        /\ p' = [p EXCEPT !.sent = [s \in Slugs |-> Some(out, s, @[s])]]
    BY Zenon DEF Resend
<1>2. /\ w.pc = "states" /\ w' = [w EXCEPT !.pc = "follow"]
      /\ UNCHANGED <<scene, saved, handed, syncCh, connCh, strayCh, jobs, quit, strays,
                     owners, dupClient, haState, settled, ours, ha, due, missed, spared>>
  <2>1. /\ w.pc = "states" /\ w' = [w EXCEPT !.pc = "follow"]
        /\ UNCHANGED <<scene, saved, handed, chans, quit, seenVars, haState, settled,
                       record, ours, ha, said, due, missed, spared>>
      BY Zenon DEF Resend
  <2> QED BY <2>1 DEF chans, seenVars
<1> DEFINE After(s, state) == Some(out, s, state)
<1>3. p \in PType /\ w \in WType /\ broker \in BrokerType /\ claimedSlugs \subseteq Slugs
    BY ClaimedType DEF TypeInv, WorkerType, WorldType, BrokerType
<1>4. \A s \in Slugs, state \in States, t \in Topics :
        After(s, state)[t] = IF <<s, t>> \in out THEN p.want[s][t] ELSE state[t]
    OBVIOUS
<1>5. \A s \in Slugs \ claimedSlugs, state \in States : After(s, state) = state
  <2>1. \A s \in Slugs \ claimedSlugs, t \in Topics : <<s, t>> \notin out
    <3>1. out \subseteq claimedSlugs \X Topics
        OBVIOUS
    <3> HIDE DEF all
    <3> QED BY <3>1
  <2> QED BY <2>1 DEF States
<1>6. \A s \in claimedSlugs, t \in Topics :
        <<s, t>> \in all <=> p.want[s][t] # None /\ p.want[s][t] # p.sent[s][t]
    OBVIOUS
<1>7. Sends(all, out)
  <2> HIDE DEF all
  <2> QED BY <1>1, GoesSends DEF TypeInv
<1> HIDE DEF all, Some
<1>8. /\ broker' = [s \in Slugs |-> [broker[s] EXCEPT !.state = After(s, @)]]
      /\ p' = [p EXCEPT !.sent = [s \in Slugs |-> After(s, p.sent[s])]]
    BY <1>1 DEF After
<1> HIDE DEF After
<1>9. /\ p'.watches = p.watches /\ p'.slugs = p.slugs /\ p'.want = p.want
      /\ (\A s \in Slugs : p'.sent[s] = After(s, p.sent[s]))
      /\ p'.optCfg = p.optCfg /\ p'.pendingClear = p.pendingClear /\ p'.lastCfg = p.lastCfg
      /\ p'.cleared = p.cleared /\ p'.haUp = p.haUp /\ p'.listed = p.listed
      /\ p'.followed = p.followed /\ p'.swept = p.swept
      /\ p'.sweepOK = p.sweepOK /\ p'.ownersSent = p.ownersSent
    BY <1>3, <1>8 DEF PType
<1>10. \A s \in Slugs : /\ broker'[s].cfg = broker[s].cfg
                        /\ broker'[s].valueCfg = broker[s].valueCfg
                        /\ broker'[s].state = After(s, broker[s].state)
                        /\ s \notin claimedSlugs => broker'[s] = broker[s]
  <2>1. \A s \in Slugs : broker[s] \in [cfg : Configs, valueCfg : BOOLEAN, state : States]
      BY <1>3 DEF BrokerType
  <2> QED BY <1>5, <1>8, <2>1
<1>11. w'.pc = "follow" /\ w'.list = w.list /\ w'.resync = w.resync
    BY <1>2, <1>3 DEF WType
<1>12. /\ conn' => conn /\ out = all /\ UNCHANGED <<subs, arriving, haMsgs>>
       /\ subs' => conn'
       /\ haMsgs' \subseteq haMsgs
    BY <1>7 DEF Sends
<1>13. /\ claimedSlugs' = claimedSlugs /\ BeingListed' = {} /\ BeingListed = {}
       /\ Retained' = Retained /\ (\A s \in Slugs : Left(s)' = Left(s)) /\ (Told' => Told)
       /\ ~Resyncing({"announce"})' /\ ~Resyncing({"announce", "swap"})'
       /\ ~Resyncing({"announce"}) /\ ~Resyncing({"announce", "swap"})
       /\ (\A s \in Slugs : IsOld(s)' = IsOld(s)) /\ (SweepReady' => SweepReady)
       /\ ToSweep'
    BY <1>2, <1>9, <1>10, <1>11, <1>12 DEF claimedSlugs, BeingListed, Retained, Left, Told,
       Resyncing, IsOld, SweepReady, ToSweep
<1>14. RestTypes'
    BY <1>2 DEF RestInv, RestTypes
<1>15. HasList'
    BY <1>2, <1>9, <1>11, <1>13 DEF RestInv, HasList
<1>16. CfgsOut'
  <2>1. \A e \in Winners(p.watches) : SlugOf[e.name] \in Slugs
      BY <1>3, ListTypes DEF PType
  <2>2. CfgsOut /\ (\A s \in claimedSlugs : broker'[s].cfg = broker[s].cfg)
      BY <1>3, <1>10 DEF RestInv
  <2>3. Told' =>
          /\ \A e \in Winners(p.watches) :
                /\ broker'[SlugOf[e.name]].cfg = <<e.name>>
                /\ broker'[SlugOf[e.name]].valueCfg = e.number
          /\ \A s \in claimedSlugs : broker'[s].cfg # None
      BY <1>10, <1>13, <2>1, <2>2 DEF CfgsOut
  <2>4. \A s \in Slugs : p'.optCfg[s] = "cleared" => ~broker'[s].valueCfg
      BY <1>9, <1>10, <2>2 DEF CfgsOut
  <2> QED BY <1>9, <1>11, <1>13, <2>3, <2>4 DEF CfgsOut
<1>17. StatesOut'
  <2>1. StatesOut
      BY DEF RestInv
  <2>2. \A s \in Slugs : p.sent[s] \in States /\ broker[s].state \in States
      BY <1>3 DEF PType, BrokerType
  <2>3. NoneUnclaimed'
      BY <1>5, <1>9, <1>13, <2>1, <2>2 DEF StatesOut, NoneUnclaimed
  <2>4. \A s \in Slugs, t \in Topics :
           /\ p'.sent[s][t] = IF <<s, t>> \in out THEN p.want[s][t] ELSE p.sent[s][t]
           /\ broker'[s].state[t] = IF <<s, t>> \in out THEN p.want[s][t] ELSE broker[s].state[t]
      BY <1>4, <1>9, <1>10, <2>2
  <2>5. SentIsThere'
    <3> SUFFICES ASSUME Told', NEW s \in Slugs, NEW t \in Topics, p'.sent[s][t] # None
                 PROVE  broker'[s].state[t] = p'.sent[s][t]
        BY DEF SentIsThere
    <3>1. CASE <<s, t>> \in out
        BY <2>4, <3>1
    <3>2. CASE <<s, t>> \notin out
      <4>1. p'.sent[s][t] = p.sent[s][t] /\ broker'[s].state[t] = broker[s].state[t]
          BY <2>4, <3>2
      <4> QED BY <1>13, <2>1, <4>1 DEF StatesOut, SentIsThere
    <3> QED BY <3>1, <3>2
  <2>6. ASSUME Told', NEW s \in Slugs, NEW t \in Topics, p.want[s][t] # None
        PROVE  p'.sent[s][t] = p.want[s][t]
    <3>1. out = all
        BY <1>12, <2>6 DEF Told
    <3>2. s \in claimedSlugs
      <4>1. NoState[t] = None
          BY DEF NoState
      <4> QED BY <2>1, <2>6, <4>1 DEF StatesOut, NoneUnclaimed
    <3>3. CASE <<s, t>> \in out
        BY <2>4, <3>3
    <3>4. CASE <<s, t>> \notin out
      <4>1. p'.sent[s][t] = p.sent[s][t]
          BY <2>4, <3>4
      <4>2. p.want[s][t] = p.sent[s][t]
          BY <1>6, <2>6, <3>1, <3>2, <3>4
      <4> QED BY <4>1, <4>2
    <3> QED BY <3>3, <3>4
  <2>7. WantIsSent'
      BY <1>9, <2>6 DEF WantIsSent
  <2> QED BY <2>3, <2>5, <2>7 DEF StatesOut
<1>18. DueInv'
  <2>1. DueListed'
      BY <1>2, <1>9, <1>11 DEF RestInv, DueInv, DueListed, DueOf
  <2>2. DueReading'
      BY <1>2, <1>9 DEF RestInv, DueInv, DueReading, SaysNothing
  <2>3. DueHealth'
      BY <1>2, <1>9 DEF RestInv, DueInv, DueHealth, SaysNothing
  <2> QED BY <1>2, <2>1, <2>2, <2>3 DEF RestInv, DueInv, DueTyped
<1>19. CleanOrPending'
    BY <1>2, <1>9, <1>10, <1>11, <1>13 DEF RestInv, CleanOrPending
<1>20. SweepInv'
  <2>1. SweepInv /\ p.swept \subseteq Slugs
      BY <1>3 DEF RestInv, PType
  <2>2. conn' => UNCHANGED <<subs, arriving>>
      BY <1>12
  <2> QED BY <1>2, <1>9, <1>11, <1>12, <1>13, <2>1, <2>2 DEF SweepInv
<1>21. RecordOut'
    BY <1>2, <1>9, <1>12, <1>13 DEF RestInv, RecordOut
<1>22. GhostInv'
    BY <1>2, <1>9, <1>11, <1>12, <1>13 DEF RestInv, GhostInv
<1> QED BY <1>14, <1>15, <1>16, <1>17, <1>18, <1>19, <1>20, <1>21, <1>22 DEF RestInv

\* What a job of a watch there is does: want is what the worker has of it then, and
\* what goes out is both sent and there.
Ran(job, want, out) ==
    LET s == SlugOf[job.name] IN
    /\ s \in claimedSlugs
    /\ \A t \in Topics : want[t] = IF Sets(job, s, t) # None THEN Sets(job, s, t)
                                   ELSE p.want[s][t]
    /\ \A x \in Slugs : x # s => /\ p'.want[x] = p.want[x] /\ p'.sent[x] = p.sent[x]
                                 /\ broker'[x] = broker[x]
    /\ \A t \in Topics :
          /\ p'.want[s][t] = want[t]
          /\ p'.sent[s][t] = IF t \in out THEN want[t] ELSE p.sent[s][t]
          /\ broker'[s].state[t] = IF t \in out THEN want[t] ELSE broker[s].state[t]
          /\ conn' /\ Sets(job, s, t) # None => p'.sent[s][t] = want[t]

LEMMA JobRuns ==
    ASSUME TypeInv, RestInv, NEW job \in JobType, NEW out \in SUBSET Topics, RunJob(job, out)
    PROVE  /\ conn' => conn /\ UNCHANGED <<subs, arriving, haMsgs>>
           /\ subs' => conn'
           /\ haMsgs' \subseteq haMsgs
           /\ p'.watches = p.watches /\ p'.slugs = p.slugs
           /\ p'.optCfg = p.optCfg /\ p'.pendingClear = p.pendingClear /\ p'.lastCfg = p.lastCfg
           /\ p'.cleared = p.cleared /\ p'.haUp = p.haUp /\ p'.listed = p.listed
           /\ p'.followed = p.followed /\ p'.swept = p.swept
           /\ p'.sweepOK = p.sweepOK /\ p'.ownersSent = p.ownersSent
           /\ \A x \in Slugs : broker'[x].cfg = broker[x].cfg
                               /\ broker'[x].valueCfg = broker[x].valueCfg
           /\ StillNamed(job) => \E want : Ran(job, want, out)
           /\ ~StillNamed(job) => UNCHANGED <<p, broker>>
<1> DEFINE s == SlugOf[job.name]
           changed == {t \in Topics : Sets(job, s, t) # None}
           want == [t \in Topics |-> IF t \in changed THEN Sets(job, s, t)
                                     ELSE p.want[s][t]]
           going == {t \in changed : p.sent[s][t] # want[t]}
           After(state) == [t \in Topics |-> IF t \in out THEN want[t] ELSE state[t]]
<1>1. p \in PType /\ broker \in BrokerType
    BY DEF TypeInv, WorkerType, WorldType, BrokerType
<1>2. CASE ~StillNamed(job)
  <2>1. UNCHANGED <<p, broker, conn, subs, arriving, haMsgs>>
      BY <1>2, Zenon DEF RunJob
  <2>2. subs => conn
      BY DEF TypeInv, WorldType
  <2> QED BY <1>2, <2>1, <2>2
<1>3. CASE StillNamed(job)
  <2>1. s \in Slugs /\ s \in claimedSlugs
      BY <1>3, SlugsType DEF StillNamed, TypeInv, SlugsOnce, JobType, claimedSlugs, SlugsOf
  <2>2. \A t \in Topics : /\ t \in changed <=> Sets(job, s, t) # None
                          /\ want[t] = IF t \in changed THEN Sets(job, s, t) ELSE p.want[s][t]
                          /\ t \in going <=> t \in changed /\ p.sent[s][t] # want[t]
      OBVIOUS
  <2>3. \A state : \A t \in Topics : After(state)[t] = IF t \in out THEN want[t] ELSE state[t]
      OBVIOUS
  <2>4. /\ Goes(going, out)
        /\ p' = [p EXCEPT !.want[s] = want, !.sent[s] = After(@)]
        /\ broker' = [broker EXCEPT ![s].state = After(@)]
      BY <1>3, Zenon DEF RunJob
  <2> HIDE DEF want, After, changed, going, s
  <2>5. Sends(going, out)
      BY <2>4, GoesSends DEF TypeInv
  <2>6. /\ p'.watches = p.watches /\ p'.slugs = p.slugs
        /\ p'.optCfg = p.optCfg /\ p'.pendingClear = p.pendingClear /\ p'.lastCfg = p.lastCfg
        /\ p'.cleared = p.cleared /\ p'.haUp = p.haUp /\ p'.listed = p.listed
        /\ p'.followed = p.followed /\ p'.swept = p.swept
        /\ p'.sweepOK = p.sweepOK /\ p'.ownersSent = p.ownersSent
        /\ p'.want = [p.want EXCEPT ![s] = want] /\ p'.sent = [p.sent EXCEPT ![s] = After(@)]
      BY <1>1, <2>4 DEF PType
  <2>7. /\ p'.want[s] = want /\ p'.sent[s] = After(p.sent[s])
        /\ \A x \in Slugs : x # s => p'.want[x] = p.want[x] /\ p'.sent[x] = p.sent[x]
      BY <1>1, <2>1, <2>6 DEF PType
  <2>8. /\ broker'[s].state = After(broker[s].state)
        /\ \A x \in Slugs : /\ x # s => broker'[x] = broker[x]
                            /\ broker'[x].cfg = broker[x].cfg
                            /\ broker'[x].valueCfg = broker[x].valueCfg
      BY <1>1, <2>1, <2>4 DEF BrokerType
  <2>9. /\ conn' => conn /\ out = going /\ UNCHANGED <<subs, arriving, haMsgs>>
        /\ subs' => conn'
        /\ haMsgs' \subseteq haMsgs
      BY <2>5 DEF Sends
  <2>10. \A t \in Topics :
          /\ want[t] = IF Sets(job, s, t) # None THEN Sets(job, s, t) ELSE p.want[s][t]
          /\ p'.want[s][t] = want[t]
          /\ p'.sent[s][t] = IF t \in out THEN want[t] ELSE p.sent[s][t]
          /\ broker'[s].state[t] = IF t \in out THEN want[t] ELSE broker[s].state[t]
          /\ conn' /\ Sets(job, s, t) # None => p'.sent[s][t] = want[t]
    <3> SUFFICES ASSUME NEW t \in Topics
                 PROVE
          /\ want[t] = IF Sets(job, s, t) # None THEN Sets(job, s, t) ELSE p.want[s][t]
          /\ p'.want[s][t] = want[t]
          /\ p'.sent[s][t] = IF t \in out THEN want[t] ELSE p.sent[s][t]
          /\ broker'[s].state[t] = IF t \in out THEN want[t] ELSE broker[s].state[t]
          /\ conn' /\ Sets(job, s, t) # None => p'.sent[s][t] = want[t]
        OBVIOUS
    <3>1. /\ want[t] = IF Sets(job, s, t) # None THEN Sets(job, s, t) ELSE p.want[s][t]
          /\ t \in going <=> Sets(job, s, t) # None /\ p.sent[s][t] # want[t]
        BY <2>2
    <3>2. /\ p'.want[s][t] = want[t]
          /\ p'.sent[s][t] = IF t \in out THEN want[t] ELSE p.sent[s][t]
          /\ broker'[s].state[t] = IF t \in out THEN want[t] ELSE broker[s].state[t]
        BY <2>3, <2>7, <2>8
    <3> QED BY <2>9, <3>1, <3>2
  <2>11. Ran(job, want, out)
      BY <2>1, <2>7, <2>8, <2>10 DEF Ran, s
  <2> QED BY <1>3, <2>6, <2>8, <2>9, <2>11
<1> QED BY <1>2, <1>3

LEMMA RestTakesJob ==
    ASSUME TypeInv, TypeInv', RestInv, PickJob \/ DrainJob
    PROVE  RestInv'
<1> DEFINE job == Head(jobs)
           s == SlugOf[job.name]
<1>1. /\ w.pc = "idle" /\ w' = w /\ jobs # <<>> /\ jobs' = Tail(jobs)
      /\ quit' # "done" /\ (quit' # "no" => quit # "no")
    BY DEF PickJob, DrainJob, TakesJob, Selecting
<1>2. PICK out \in SUBSET Topics : RunJob(job, out)
    BY DEF PickJob, DrainJob, TakesJob
<1>3. UNCHANGED <<scene, saved, handed, syncCh, connCh, strayCh, strays, owners, dupClient,
                  haState, settled, ours, ha, due, missed, spared>>
  <2>1. UNCHANGED <<scene, saved, handed, syncCh, connCh, strayCh, haCh, seenVars,
                    haState, settled, record, ours, ha, said, due, missed, spared>>
      BY <1>2, Zenon DEF RunJob
  <2> QED BY <2>1 DEF seenVars
<1>4. /\ jobs \in Seq(JobType) /\ Len(jobs) \in Nat /\ Len(jobs) > 0
      /\ job \in JobType /\ job = jobs[1]
      /\ Len(jobs') = Len(jobs) - 1
      /\ \A i \in 1..Len(jobs') : i + 1 \in 1..Len(jobs) /\ jobs'[i] = jobs[i + 1]
    BY <1>1 DEF TypeInv, WorkerType
<1>5. p \in PType /\ broker \in BrokerType /\ claimedSlugs \subseteq Slugs
    BY ClaimedType DEF TypeInv, WorkerType, WorldType, BrokerType
<1> HIDE DEF job, s
<1>6. /\ conn' => conn /\ UNCHANGED <<subs, arriving, haMsgs>>
      /\ subs' => conn'
      /\ haMsgs' \subseteq haMsgs
      /\ p'.watches = p.watches /\ p'.slugs = p.slugs
      /\ p'.optCfg = p.optCfg /\ p'.pendingClear = p.pendingClear /\ p'.lastCfg = p.lastCfg
      /\ p'.cleared = p.cleared /\ p'.haUp = p.haUp /\ p'.listed = p.listed
      /\ p'.followed = p.followed /\ p'.swept = p.swept
      /\ p'.sweepOK = p.sweepOK /\ p'.ownersSent = p.ownersSent
      /\ \A x \in Slugs : broker'[x].cfg = broker[x].cfg
                          /\ broker'[x].valueCfg = broker[x].valueCfg
      /\ StillNamed(job) => \E want : Ran(job, want, out)
      /\ ~StillNamed(job) => UNCHANGED <<p, broker>>
    BY <1>2, <1>4, JobRuns
<1>7. /\ claimedSlugs' = claimedSlugs /\ BeingListed' = {} /\ BeingListed = {}
      /\ Retained' = Retained /\ (\A x \in Slugs : Left(x)' = Left(x)) /\ (Told' => Told)
      /\ ~Resyncing({"announce"})' /\ ~Resyncing({"announce", "swap"})'
      /\ ~Resyncing({"announce"}) /\ ~Resyncing({"announce", "swap"})
      /\ (\A x \in Slugs : IsOld(x)' = IsOld(x)) /\ (SweepReady' => SweepReady)
      /\ ToSweep' = ToSweep
    BY <1>1, <1>3, <1>6 DEF claimedSlugs, BeingListed, Retained, Left, Told,
       Resyncing, IsOld, SweepReady, ToSweep
<1>8. RestTypes'
    BY <1>3 DEF RestInv, RestTypes
<1>9. HasList'
    BY <1>1, <1>3, <1>6, <1>7 DEF RestInv, HasList
<1>10. CfgsOut'
  <2>1. \A e \in Winners(p.watches) : SlugOf[e.name] \in Slugs
      BY <1>5, ListTypes DEF PType
  <2>2. CfgsOut /\ (\A x \in claimedSlugs : broker'[x].cfg = broker[x].cfg)
      BY <1>5, <1>6 DEF RestInv
  <2>3. Told' =>
          /\ \A e \in Winners(p.watches) :
                /\ broker'[SlugOf[e.name]].cfg = <<e.name>>
                /\ broker'[SlugOf[e.name]].valueCfg = e.number
          /\ \A x \in claimedSlugs : broker'[x].cfg # None
      BY <1>6, <1>7, <2>1, <2>2 DEF CfgsOut
  <2>4. \A x \in Slugs : p'.optCfg[x] = "cleared" => ~broker'[x].valueCfg
      BY <1>6, <2>2 DEF CfgsOut
  <2> QED BY <1>1, <1>6, <1>7, <2>3, <2>4 DEF CfgsOut
<1>11. StatesOut /\ StatesOut'
  <2>1. StatesOut
      BY DEF RestInv
  <2>2. CASE ~StillNamed(job)
      BY <1>1, <1>6, <1>7, <2>1, <2>2 DEF StatesOut, NoneUnclaimed, SentIsThere, WantIsSent
  <2>3. CASE StillNamed(job)
    <3>1. PICK want : Ran(job, want, out)
        BY <1>6, <2>3
    <3>2. /\ s \in claimedSlugs
          /\ \A t \in Topics : want[t] = IF Sets(job, s, t) # None THEN Sets(job, s, t)
                                         ELSE p.want[s][t]
          /\ \A x \in Slugs : x # s => /\ p'.want[x] = p.want[x] /\ p'.sent[x] = p.sent[x]
                                       /\ broker'[x] = broker[x]
          /\ \A t \in Topics :
                /\ p'.want[s][t] = want[t]
                /\ p'.sent[s][t] = IF t \in out THEN want[t] ELSE p.sent[s][t]
                /\ broker'[s].state[t] = IF t \in out THEN want[t] ELSE broker[s].state[t]
                /\ conn' /\ Sets(job, s, t) # None => p'.sent[s][t] = want[t]
        BY <3>1 DEF Ran, s
    <3>3. NoneUnclaimed'
        BY <1>7, <2>1, <3>2 DEF StatesOut, NoneUnclaimed
    <3>4. SentIsThere'
      <4> SUFFICES ASSUME Told', NEW x \in Slugs, NEW t \in Topics, p'.sent[x][t] # None
                   PROVE  broker'[x].state[t] = p'.sent[x][t]
          BY DEF SentIsThere
      <4>1. p.sent[x][t] # None => broker[x].state[t] = p.sent[x][t]
          BY <1>7, <2>1 DEF StatesOut, SentIsThere
      <4>2. CASE x = s /\ t \in out
          BY <3>2, <4>2
      <4>3. CASE ~(x = s /\ t \in out)
          BY <3>2, <4>1, <4>3
      <4> QED BY <4>2, <4>3
    <3>5. WantIsSent'
      <4> SUFFICES ASSUME Told', NEW x \in Slugs, NEW t \in Topics, p'.want[x][t] # None
                   PROVE  p'.sent[x][t] = p'.want[x][t]
          BY DEF WantIsSent
      <4>1. p.want[x][t] # None => p.sent[x][t] = p.want[x][t]
          BY <1>1, <1>7, <2>1 DEF StatesOut, WantIsSent
      <4>2. CASE x # s
          BY <3>2, <4>1, <4>2
      <4>3. CASE x = s /\ Sets(job, s, t) # None
          BY <3>2, <4>3 DEF Told
      <4>4. CASE x = s /\ Sets(job, s, t) = None
          BY <3>2, <4>1, <4>4
      <4> QED BY <4>2, <4>3, <4>4
    <3> QED BY <2>1, <3>3, <3>4, <3>5 DEF StatesOut
  <2> QED BY <2>1, <2>2, <2>3
<1>12. DueTyped /\ DueListed /\ DueReading /\ DueHealth
    BY DEF RestInv, DueInv
<1>13. DueTyped' /\ DueListed'
    BY <1>1, <1>3, <1>6, <1>12 DEF DueTyped, DueListed, DueOf
\* The job is of f's watch only if it has f's name.
<1>14. ASSUME NEW f \in Winners(saved), DueOf(f.name)
       PROVE  /\ SlugOf[f.name] \in claimedSlugs /\ SlugOf[f.name] \in Slugs
              /\ f.name = job.name => StillNamed(job)
              /\ StillNamed(job) /\ SlugOf[f.name] = s => f.name = job.name
  <2>1. f.name \in Names
    <3>1. saved \in Lists
        BY ListInScene DEF TypeInv, WorldType
    <3> QED BY <3>1, ListTypes
  <2>2. f.name \in p.slugs
      BY <1>12, <1>14, <2>1 DEF DueListed
  <2>3. SlugOf[f.name] \in claimedSlugs
      BY <2>2 DEF claimedSlugs, SlugsOf
  <2>4. StillNamed(job) /\ SlugOf[f.name] = s => f.name = job.name
      BY <2>2 DEF StillNamed, TypeInv, SlugsOnce, s
  <2> QED BY <1>5, <2>2, <2>3, <2>4 DEF StillNamed
\* What the worker then has of f's watch.
<1>15. ASSUME NEW f \in Winners(saved), DueOf(f.name), NEW t \in Topics
       PROVE  LET x == SlugOf[f.name] IN
              /\ f.name # job.name => p'.want[x][t] = p.want[x][t]
              /\ f.name = job.name =>
                    p'.want[x][t] = IF Sets(job, x, t) # None THEN Sets(job, x, t)
                                    ELSE p.want[x][t]
  <2>1. CASE ~StillNamed(job)
      BY <1>6, <1>14, <1>15, <2>1
  <2>2. CASE StillNamed(job)
    <3>1. PICK want : Ran(job, want, out)
        BY <1>6, <2>2
    <3>2. /\ \A u \in Topics : p'.want[s][u] = IF Sets(job, s, u) # None THEN Sets(job, s, u)
                                               ELSE p.want[s][u]
          /\ \A y \in Slugs : y # s => p'.want[y] = p.want[y]
        BY <3>1 DEF Ran, s
    <3>3. CASE f.name = job.name
        BY <3>2, <3>3 DEF s
    <3>4. CASE f.name # job.name
        BY <1>14, <1>15, <2>2, <3>2, <3>4
    <3> QED BY <3>3, <3>4
  <2> QED BY <2>1, <2>2
<1>16. \A i \in 1..Len(jobs) : i = 1 \/ (i - 1 \in 1..Len(jobs') /\ jobs'[i - 1] = jobs[i])
    BY <1>4
<1>17. DueReading'
  <2> SUFFICES ASSUME NEW f \in Winners(saved), due[f.name].reading # None
               PROVE  LET x == due[f.name].reading
                          y == SlugOf[f.name] IN
          \/ \E i \in 1..Len(jobs') :
                /\ jobs'[i].name = f.name /\ jobs'[i].seed /\ jobs'[i].set.reading = x
                /\ f.number => jobs'[i].set.value = x
                /\ \A j \in 1..Len(jobs') : j > i =>
                      /\ jobs'[j].name = f.name => jobs'[j].set.reading = None
                      /\ jobs'[j].name = f.name => jobs'[j].set.value = None
          \/ /\ \A j \in 1..Len(jobs') :
                      /\ jobs'[j].name = f.name => jobs'[j].set.reading = None
                      /\ jobs'[j].name = f.name => jobs'[j].set.value = None
             /\ p'.want[y].reading = x /\ p'.want[y].health # None
             /\ f.number => p'.want[y].value = x
      BY <1>3 DEF DueReading, SaysNothing
  <2> DEFINE x == due[f.name].reading
             y == SlugOf[f.name]
  <2>1. DueOf(f.name)
      BY DEF DueOf
  <2>2. \A t \in Topics :
              /\ f.name # job.name => p'.want[y][t] = p.want[y][t]
              /\ f.name = job.name =>
                    p'.want[y][t] = IF Sets(job, y, t) # None THEN Sets(job, y, t)
                                    ELSE p.want[y][t]
      BY <1>15, <2>1
  <2>3. /\ Sets(job, y, "reading") = job.set.reading /\ Sets(job, y, "value") = job.set.value
        /\ job.set.health # None => Sets(job, y, "health") = job.set.health
        /\ job.set.health = None /\ job.seed /\ p.want[y].health = None
              => Sets(job, y, "health") = <<"online">>
        /\ <<"online">> # None
      BY DEF Sets, None
  <2>4. "reading" \in Topics /\ "value" \in Topics /\ "health" \in Topics
      BY DEF Topics
  <2>5. \/ \E i \in 1..Len(jobs) :
                /\ jobs[i].name = f.name /\ jobs[i].seed /\ jobs[i].set.reading = x
                /\ f.number => jobs[i].set.value = x
                /\ \A j \in 1..Len(jobs) : j > i =>
                      /\ jobs[j].name = f.name => jobs[j].set.reading = None
                      /\ jobs[j].name = f.name => jobs[j].set.value = None
        \/ /\ \A j \in 1..Len(jobs) :
                      /\ jobs[j].name = f.name => jobs[j].set.reading = None
                      /\ jobs[j].name = f.name => jobs[j].set.value = None
           /\ p.want[y].reading = x /\ p.want[y].health # None
           /\ f.number => p.want[y].value = x
      BY <1>12 DEF DueReading, SaysNothing
  <2> HIDE DEF x, y
  <2>6. x # None
      BY DEF x
  <2>7. p.want[y].health # None => p'.want[y].health # None
      BY <2>2, <2>3, <2>4
  <2>8. CASE /\ \A j \in 1..Len(jobs) :
                      /\ jobs[j].name = f.name => jobs[j].set.reading = None
                      /\ jobs[j].name = f.name => jobs[j].set.value = None
             /\ p.want[y].reading = x /\ p.want[y].health # None
             /\ f.number => p.want[y].value = x
    <3>1. f.name = job.name => job.set.reading = None /\ job.set.value = None
        BY <1>4, <2>8
    <3>2. p'.want[y].reading = x /\ (f.number => p'.want[y].value = x)
        BY <2>2, <2>3, <2>4, <2>8, <3>1
    <3>3. ASSUME NEW j \in 1..Len(jobs'), jobs'[j].name = f.name
          PROVE  jobs'[j].set.reading = None /\ jobs'[j].set.value = None
      <4>1. j + 1 \in 1..Len(jobs) /\ jobs'[j] = jobs[j + 1]
          BY <1>4, <3>3
      <4> QED BY <2>8, <3>3, <4>1
    <3> QED BY <2>7, <2>8, <3>2, <3>3 DEF x, y
  <2>9. ASSUME NEW i \in 1..Len(jobs),
                /\ jobs[i].name = f.name /\ jobs[i].seed /\ jobs[i].set.reading = x
                /\ f.number => jobs[i].set.value = x
                /\ \A j \in 1..Len(jobs) : j > i =>
                      /\ jobs[j].name = f.name => jobs[j].set.reading = None
                      /\ jobs[j].name = f.name => jobs[j].set.value = None
        PROVE
          \/ \E k \in 1..Len(jobs') :
                /\ jobs'[k].name = f.name /\ jobs'[k].seed /\ jobs'[k].set.reading = x
                /\ f.number => jobs'[k].set.value = x
                /\ \A j \in 1..Len(jobs') : j > k =>
                      /\ jobs'[j].name = f.name => jobs'[j].set.reading = None
                      /\ jobs'[j].name = f.name => jobs'[j].set.value = None
          \/ /\ \A j \in 1..Len(jobs') :
                      /\ jobs'[j].name = f.name => jobs'[j].set.reading = None
                      /\ jobs'[j].name = f.name => jobs'[j].set.value = None
             /\ p'.want[y].reading = x /\ p'.want[y].health # None
             /\ f.number => p'.want[y].value = x
    <3>1. CASE i = 1
      <4>1. /\ job.name = f.name /\ job.seed /\ job.set.reading = x
            /\ f.number => job.set.value = x
          BY <1>4, <2>9, <3>1
      <4>2. /\ p'.want[y].reading = x /\ p'.want[y].health # None
            /\ f.number => p'.want[y].value = x
          BY <2>2, <2>3, <2>4, <2>6, <2>7, <4>1
      <4>3. ASSUME NEW j \in 1..Len(jobs'), jobs'[j].name = f.name
            PROVE  jobs'[j].set.reading = None /\ jobs'[j].set.value = None
        <5>1. j + 1 \in 1..Len(jobs) /\ jobs'[j] = jobs[j + 1] /\ j + 1 > 1
            BY <1>4, <4>3
        <5> QED BY <2>9, <3>1, <4>3, <5>1
      <4> QED BY <4>2, <4>3
    <3>2. CASE i # 1
      <4>1. i - 1 \in 1..Len(jobs') /\ jobs'[i - 1] = jobs[i]
          BY <1>16, <3>2
      <4>2. ASSUME NEW j \in 1..Len(jobs'), j > i - 1, jobs'[j].name = f.name
            PROVE  jobs'[j].set.reading = None /\ jobs'[j].set.value = None
        <5>1. j + 1 \in 1..Len(jobs) /\ jobs'[j] = jobs[j + 1] /\ j + 1 > i
            BY <1>4, <4>2
        <5> QED BY <2>9, <4>2, <5>1
      <4> QED BY <2>9, <4>1, <4>2
    <3> QED BY <3>1, <3>2
  <2> QED BY <2>5, <2>8, <2>9 DEF x, y
<1>18. DueHealth'
  <2> SUFFICES ASSUME NEW f \in Winners(saved), due[f.name].health # None
               PROVE  LET x == due[f.name].health
                          y == SlugOf[f.name] IN
          \/ \E i \in 1..Len(jobs') :
                /\ jobs'[i].name = f.name /\ jobs'[i].set.health = x
                /\ \A j \in 1..Len(jobs') : j > i =>
                      (jobs'[j].name = f.name => jobs'[j].set.health = None)
          \/ /\ \A j \in 1..Len(jobs') :
                      (jobs'[j].name = f.name => jobs'[j].set.health = None)
             /\ p'.want[y].health = x
      BY <1>3 DEF DueHealth, SaysNothing
  <2> DEFINE x == due[f.name].health
             y == SlugOf[f.name]
  <2>1. DueOf(f.name)
      BY DEF DueOf
  <2>2. /\ f.name # job.name => p'.want[y].health = p.want[y].health
        /\ f.name = job.name =>
              p'.want[y].health = IF Sets(job, y, "health") # None THEN Sets(job, y, "health")
                                  ELSE p.want[y].health
      BY <1>15, <2>1 DEF Topics
  <2>3. /\ job.set.health # None => Sets(job, y, "health") = job.set.health
        /\ job.set.health = None /\ p.want[y].health # None => Sets(job, y, "health") = None
      BY DEF Sets
  <2>4. \/ \E i \in 1..Len(jobs) :
                /\ jobs[i].name = f.name /\ jobs[i].set.health = x
                /\ \A j \in 1..Len(jobs) : j > i =>
                      (jobs[j].name = f.name => jobs[j].set.health = None)
        \/ /\ \A j \in 1..Len(jobs) :
                      (jobs[j].name = f.name => jobs[j].set.health = None)
           /\ p.want[y].health = x
      BY <1>12 DEF DueHealth, SaysNothing
  <2> HIDE DEF x, y
  <2>5. x # None
      BY DEF x
  <2>6. CASE /\ \A j \in 1..Len(jobs) :
                      (jobs[j].name = f.name => jobs[j].set.health = None)
             /\ p.want[y].health = x
    <3>1. f.name = job.name => job.set.health = None
        BY <1>4, <2>6
    <3>2. p'.want[y].health = x
        BY <2>2, <2>3, <2>5, <2>6, <3>1
    <3>3. ASSUME NEW j \in 1..Len(jobs'), jobs'[j].name = f.name
          PROVE  jobs'[j].set.health = None
      <4>1. j + 1 \in 1..Len(jobs) /\ jobs'[j] = jobs[j + 1]
          BY <1>4, <3>3
      <4> QED BY <2>6, <3>3, <4>1
    <3> QED BY <3>2, <3>3 DEF x, y
  <2>7. ASSUME NEW i \in 1..Len(jobs),
                /\ jobs[i].name = f.name /\ jobs[i].set.health = x
                /\ \A j \in 1..Len(jobs) : j > i =>
                      (jobs[j].name = f.name => jobs[j].set.health = None)
        PROVE
          \/ \E k \in 1..Len(jobs') :
                /\ jobs'[k].name = f.name /\ jobs'[k].set.health = x
                /\ \A j \in 1..Len(jobs') : j > k =>
                      (jobs'[j].name = f.name => jobs'[j].set.health = None)
          \/ /\ \A j \in 1..Len(jobs') :
                      (jobs'[j].name = f.name => jobs'[j].set.health = None)
             /\ p'.want[y].health = x
    <3>1. CASE i = 1
      <4>1. p'.want[y].health = x
          BY <1>4, <2>2, <2>3, <2>5, <2>7, <3>1
      <4>2. ASSUME NEW j \in 1..Len(jobs'), jobs'[j].name = f.name
            PROVE  jobs'[j].set.health = None
        <5>1. j + 1 \in 1..Len(jobs) /\ jobs'[j] = jobs[j + 1] /\ j + 1 > 1
            BY <1>4, <4>2
        <5> QED BY <2>7, <3>1, <4>2, <5>1
      <4> QED BY <4>1, <4>2
    <3>2. CASE i # 1
      <4>1. i - 1 \in 1..Len(jobs') /\ jobs'[i - 1] = jobs[i]
          BY <1>16, <3>2
      <4>2. ASSUME NEW j \in 1..Len(jobs'), j > i - 1, jobs'[j].name = f.name
            PROVE  jobs'[j].set.health = None
        <5>1. j + 1 \in 1..Len(jobs) /\ jobs'[j] = jobs[j + 1] /\ j + 1 > i
            BY <1>4, <4>2
        <5> QED BY <2>7, <4>2, <5>1
      <4> QED BY <2>7, <4>1, <4>2
    <3> QED BY <3>1, <3>2
  <2> QED BY <2>4, <2>6, <2>7 DEF x, y
<1>19. CleanOrPending'
  <2>1. CleanOrPending
      BY DEF RestInv
  <2>2. \A x \in Slugs \ claimedSlugs : broker'[x] = broker[x]
    <3>1. CASE StillNamed(job)
        BY <1>6, <3>1 DEF Ran
    <3>2. CASE ~StillNamed(job)
        BY <1>6, <3>2
    <3> QED BY <3>1, <3>2
  <2> QED BY <1>1, <1>6, <1>7, <2>1, <2>2 DEF CleanOrPending
<1>20. SweepInv'
  <2>1. p.swept \subseteq Slugs /\ SweepInv
      BY <1>5 DEF PType, RestInv
  <2>2. conn' => UNCHANGED <<subs, arriving>>
      BY <1>6
  <2>3. subs' /\ ~dupClient' => \A x \in Slugs : IsOld(x)' =>
          x \in arriving' \cup strays' \cup spared' \cup p'.pendingClear \cup claimedSlugs'
      BY <1>3, <1>6, <1>7, <2>1, <2>2 DEF SweepInv
  <2>4. \A x \in p'.swept : IsOld(x)' => x \in p'.pendingClear \cup claimedSlugs'
      BY <1>6, <1>7, <2>1 DEF SweepInv
  <2>5. /\ subs' => p'.sweepOK
        /\ Told' /\ w'.pc \notin {"states", "follow"} /\ ~Resyncing({"announce", "swap"})' =>
              (p'.sweepOK => subs')
      BY <1>1, <1>6, <1>7, <2>1 DEF SweepInv, Told
  <2> QED BY <1>3, <1>6, <1>7, <2>1, <2>3, <2>4, <2>5 DEF SweepInv
<1>21. RecordOut'
    BY <1>1, <1>3, <1>6, <1>7 DEF RestInv, RecordOut
<1>22. GhostInv'
  <2>1. GhostInv
      BY DEF RestInv
  <2>2. /\ p'.cleared = p.cleared /\ p'.pendingClear = p.pendingClear /\ p'.haUp = p.haUp
        /\ haMsgs' \subseteq haMsgs
      BY <1>6
  <2> QED BY <1>1, <1>3, <1>7, <2>1, <2>2 DEF GhostInv
<1> QED BY <1>8, <1>9, <1>10, <1>11, <1>13, <1>17, <1>18, <1>19, <1>20, <1>21, <1>22
       DEF RestInv, DueInv

\* What the configs of done do to what the worker has and the broker retains.
Out(done) == {SlugOf[e.name] : e \in done}
Announced(done) ==
    /\ p'.watches = w.list /\ p'.slugs = p.slugs
    /\ p'.lastCfg = p.lastCfg \cup SlugsOf(NamesOf(w.list))
    /\ p'.pendingClear = p.pendingClear /\ p'.cleared = p.cleared /\ p'.haUp = p.haUp
    /\ p'.listed = p.listed /\ p'.followed = p.followed /\ p'.sweepOK = p.sweepOK
    /\ p'.swept = p.swept /\ p'.ownersSent = p.ownersSent
    /\ ha' = Hears(ha, Out(done))
    /\ \A s \in Slugs : s \notin Out(done) =>
          /\ broker'[s] = broker[s] /\ p'.want[s] = p.want[s] /\ p'.sent[s] = p.sent[s]
          /\ p'.optCfg[s] = p.optCfg[s]
    /\ \A e \in done : LET s == SlugOf[e.name] IN
          /\ s \in Slugs
          /\ broker'[s].cfg = <<e.name>>
          /\ broker'[s].valueCfg = (e.number \/ (broker[s].valueCfg /\ p.optCfg[s] = "cleared"))
          /\ p'.optCfg[s] = IF e.number THEN "there" ELSE "cleared"
          /\ \A t \in Topics :
                IF t = "value" /\ ClearsValue(e)
                THEN p'.want[s][t] = None /\ p'.sent[s][t] = None /\ broker'[s].state[t] = None
                ELSE /\ p'.want[s][t] = p.want[s][t] /\ p'.sent[s][t] = p.sent[s][t]
                     /\ broker'[s].state[t] = broker[s].state[t]
    /\ late \ Out(done) \subseteq late'
    /\ \A e \in done : SlugOf[e.name] \in late /\ ~e.number /\ ~ClearsValue(e)
                        => SlugOf[e.name] \in late'

LEMMA AnnouncesIsAnnounced ==
    ASSUME TypeInv, NEW done \in SUBSET Winners(w.list), Announces(done)
    PROVE  Announced(done)
<1> DEFINE out(s) == \E e \in done : SlugOf[e.name] = s
           of(s) == CHOOSE e \in done : SlugOf[e.name] = s
           gone(s) == out(s) /\ ClearsValue(of(s))
           NoValue(state, s) == IF gone(s) THEN [state EXCEPT !.value = None] ELSE state
           want == [s \in Slugs |-> NoValue(p.want[s], s)]
           sent == [s \in Slugs |-> NoValue(p.sent[s], s)]
           optCfg == [s \in Slugs |-> IF ~out(s) THEN p.optCfg[s]
                                      ELSE IF of(s).number THEN "there" ELSE "cleared"]
<1>1. p \in PType /\ w.list \in Lists /\ broker \in BrokerType
    BY DEF TypeInv, WorkerType, WorldType, WType, BrokerType
<1>2. \A e \in done : e \in [name : Names, number : BOOLEAN] /\ SlugOf[e.name] \in Slugs
    BY <1>1, ListTypes
<1>3. \A e \in done : out(SlugOf[e.name]) /\ of(SlugOf[e.name]) = e
  <2>1. \A e, f \in done : SlugOf[e.name] = SlugOf[f.name] => e = f
      BY <1>1, EntriesApart
  <2> QED BY <2>1
<1>4. \A s : out(s) <=> s \in Out(done)
    BY DEF Out
<1>5. /\ broker' = [s \in Slugs |->
            IF out(s)
            THEN [cfg |-> <<of(s).name>>,
                  valueCfg |-> of(s).number \/ (broker[s].valueCfg /\ ~gone(s)),
                  state |-> NoValue(broker[s].state, s)]
            ELSE broker[s]]
      /\ ha' = Hears(ha, Out(done))
      /\ p' = [p EXCEPT
            !.watches = w.list,
            !.lastCfg = @ \cup SlugsOf(NamesOf(w.list)),
            !.want = want, !.sent = sent, !.optCfg = optCfg]
    BY DEF Announces, Out
<1>6. \A e \in done : gone(SlugOf[e.name]) <=> ClearsValue(e)
    BY <1>3
<1>7. \A s, state : ~gone(s) => NoValue(state, s) = state
    OBVIOUS
<1>8. \A s \in Slugs, state \in States, t \in Topics :
        gone(s) => NoValue(state, s)[t] = IF t = "value" THEN None ELSE state[t]
  <2> HIDE DEF gone
  <2> QED BY DEF States, Topics
<1>9. \A s \in Slugs : /\ want[s] = NoValue(p.want[s], s) /\ sent[s] = NoValue(p.sent[s], s)
                       /\ ~out(s) => optCfg[s] = p.optCfg[s]
                       /\ out(s) => optCfg[s] = IF of(s).number THEN "there" ELSE "cleared"
    OBVIOUS
<1>14. /\ late \ Out(done) \subseteq late'
       /\ \A e \in done : SlugOf[e.name] \in late /\ ~e.number /\ ~ClearsValue(e)
                           => SlugOf[e.name] \in late'
  <2>1. late' = {s \in late : ~out(s) \/ (~of(s).number /\ ~gone(s))}
      BY DEF Announces
  <2> HIDE DEF out, of, gone
  <2> QED BY <1>3, <1>4, <1>6, <2>1
<1> HIDE DEF want, sent, optCfg, NoValue
<1>10. \A s \in Slugs : ~out(s) => ~gone(s)
    OBVIOUS
<1> HIDE DEF out, of, gone
<1>11. /\ p'.watches = w.list /\ p'.slugs = p.slugs
       /\ p'.lastCfg = p.lastCfg \cup SlugsOf(NamesOf(w.list))
       /\ p'.pendingClear = p.pendingClear /\ p'.cleared = p.cleared /\ p'.haUp = p.haUp
       /\ p'.listed = p.listed /\ p'.followed = p.followed /\ p'.sweepOK = p.sweepOK
       /\ p'.swept = p.swept /\ p'.ownersSent = p.ownersSent
       /\ p'.want = want /\ p'.sent = sent /\ p'.optCfg = optCfg
    BY <1>1, <1>5 DEF PType
<1>12. \A s \in Slugs : s \notin Out(done) =>
          /\ broker'[s] = broker[s] /\ p'.want[s] = p.want[s] /\ p'.sent[s] = p.sent[s]
          /\ p'.optCfg[s] = p.optCfg[s]
    BY <1>4, <1>5, <1>7, <1>9, <1>10, <1>11
<1>13. ASSUME NEW e \in done
       PROVE  LET s == SlugOf[e.name] IN
          /\ s \in Slugs
          /\ broker'[s].cfg = <<e.name>>
          /\ broker'[s].valueCfg = (e.number \/ (broker[s].valueCfg /\ p.optCfg[s] = "cleared"))
          /\ p'.optCfg[s] = IF e.number THEN "there" ELSE "cleared"
          /\ \A t \in Topics :
                IF t = "value" /\ ClearsValue(e)
                THEN p'.want[s][t] = None /\ p'.sent[s][t] = None /\ broker'[s].state[t] = None
                ELSE /\ p'.want[s][t] = p.want[s][t] /\ p'.sent[s][t] = p.sent[s][t]
                     /\ broker'[s].state[t] = broker[s].state[t]
  <2> DEFINE s == SlugOf[e.name]
  <2>1. s \in Slugs /\ out(s) /\ of(s) = e /\ (gone(s) <=> ClearsValue(e))
      BY <1>2, <1>3, <1>6
  <2>2. ClearsValue(e) <=> ~e.number /\ p.optCfg[s] # "cleared"
      BY DEF ClearsValue
  <2>3. p.want[s] \in States /\ p.sent[s] \in States /\ broker[s].state \in States
      BY <1>1, <2>1 DEF PType, BrokerType
  <2> HIDE DEF s
  <2>4. broker'[s] = [cfg |-> <<e.name>>,
                      valueCfg |-> e.number \/ (broker[s].valueCfg /\ ~gone(s)),
                      state |-> NoValue(broker[s].state, s)]
      BY <1>5, <2>1
  <2>5. broker'[s].valueCfg = (e.number \/ (broker[s].valueCfg /\ p.optCfg[s] = "cleared"))
    <3>1. broker'[s].valueCfg = (e.number \/ (broker[s].valueCfg /\ ~gone(s)))
        BY <2>4
    <3> QED BY <2>1, <2>2, <3>1, Zenon
  <2>6. \A t \in Topics :
           IF t = "value" /\ ClearsValue(e)
           THEN p'.want[s][t] = None /\ p'.sent[s][t] = None /\ broker'[s].state[t] = None
           ELSE /\ p'.want[s][t] = p.want[s][t] /\ p'.sent[s][t] = p.sent[s][t]
                /\ broker'[s].state[t] = broker[s].state[t]
    <3>1. /\ p'.want[s] = NoValue(p.want[s], s) /\ p'.sent[s] = NoValue(p.sent[s], s)
          /\ broker'[s].state = NoValue(broker[s].state, s)
        BY <1>9, <1>11, <2>1, <2>4
    <3> QED BY <1>7, <1>8, <2>1, <2>3, <3>1
  <2>7. p'.optCfg[s] = IF e.number THEN "there" ELSE "cleared"
      BY <1>9, <1>11, <2>1
  <2>8. broker'[s].cfg = <<e.name>>
      BY <2>4
  <2> QED BY <2>1, <2>5, <2>6, <2>7, <2>8, Zenon DEF s
<1> QED BY <1>5, <1>11, <1>12, <1>13, <1>14 DEF Announced

\* Every config of the list goes out, or the connection does.
LEMMA RestAnnounce ==
    ASSUME TypeInv, TypeInv', RestInv, Announce
    PROVE  RestInv'
<1>1. /\ w.pc = "announce" /\ w' = [w EXCEPT !.pc = "swap"]
      /\ UNCHANGED <<scene, saved, handed, syncCh, connCh, strayCh, jobs, quit, strays,
                     owners, dupClient, haState, settled, ours, due, missed, spared>>
  <2>1. /\ w.pc = "announce" /\ w' = [w EXCEPT !.pc = "swap"]
        /\ UNCHANGED <<scene, saved, handed, chans, quit, seenVars, haState, settled,
                       record, ours, said, due, missed, spared>>
      BY Zenon DEF Announce
  <2> QED BY <2>1 DEF chans, seenVars
<1>2. /\ p \in PType /\ p' \in PType /\ w \in WType /\ w.list \in Lists
      /\ broker \in BrokerType /\ broker' \in BrokerType
      /\ claimedSlugs \subseteq Slugs /\ (subs => conn)
      /\ ha \in [on : BOOLEAN, has : SUBSET Slugs, seen : SUBSET Slugs]
    BY ClaimedType DEF TypeInv, WorkerType, WorldType, BrokerType, WType, RestInv, RestTypes
<1>3. PICK done \in SUBSET Winners(w.list) :
        /\ Announces(done)
        /\ \/ w.connected /\ Goes(Winners(w.list), done)
           \/ ~w.connected /\ done = {} /\ UNCHANGED <<conn, subs, arriving, haMsgs>>
    BY Zenon DEF Announce
<1>4. Announced(done)
    BY <1>3, AnnouncesIsAnnounced
<1>5. /\ conn' => conn /\ UNCHANGED <<subs, arriving, haMsgs>>
      /\ subs' => conn'
      /\ haMsgs' \subseteq haMsgs
      /\ conn' /\ w.connected => done = Winners(w.list)
  <2>1. CASE w.connected /\ Goes(Winners(w.list), done)
      BY <2>1, GoesSends DEF TypeInv, Sends
  <2>2. CASE ~w.connected /\ done = {} /\ UNCHANGED <<conn, subs, arriving, haMsgs>>
      BY <1>2, <2>2
  <2> QED BY <1>3, <2>1, <2>2
<1>6. w'.pc = "swap" /\ w'.list = w.list /\ w'.connected = w.connected /\ w'.resync = w.resync
    BY <1>1, <1>2 DEF WType
<1>7. /\ p'.watches = w.list /\ p'.slugs = p.slugs
      /\ p'.lastCfg = p.lastCfg \cup SlugsOf(NamesOf(w.list))
      /\ p'.pendingClear = p.pendingClear /\ p'.cleared = p.cleared /\ p'.haUp = p.haUp
      /\ p'.listed = p.listed /\ p'.followed = p.followed /\ p'.sweepOK = p.sweepOK
      /\ p'.swept = p.swept /\ p'.ownersSent = p.ownersSent
      /\ ha' = Hears(ha, Out(done))
    BY <1>4 DEF Announced
<1>8. \A s \in Slugs : s \notin Out(done) =>
          /\ broker'[s] = broker[s] /\ p'.want[s] = p.want[s] /\ p'.sent[s] = p.sent[s]
          /\ p'.optCfg[s] = p.optCfg[s]
    BY <1>4 DEF Announced
<1>9. \A e \in done : LET s == SlugOf[e.name] IN
          /\ s \in Slugs
          /\ broker'[s].cfg = <<e.name>>
          /\ broker'[s].valueCfg = (e.number \/ (broker[s].valueCfg /\ p.optCfg[s] = "cleared"))
          /\ p'.optCfg[s] = IF e.number THEN "there" ELSE "cleared"
          /\ \A t \in Topics :
                IF t = "value" /\ ClearsValue(e)
                THEN p'.want[s][t] = None /\ p'.sent[s][t] = None /\ broker'[s].state[t] = None
                ELSE /\ p'.want[s][t] = p.want[s][t] /\ p'.sent[s][t] = p.sent[s][t]
                     /\ broker'[s].state[t] = broker[s].state[t]
    BY <1>4, Zenon DEF Announced
<1>10. \A s \in Out(done) : \E e \in done : SlugOf[e.name] = s
    BY DEF Out
<1>11. /\ Out(done) \subseteq SlugsOf(NamesOf(w.list)) /\ Out(done) \subseteq Slugs
       /\ conn' /\ w.connected => Out(done) = SlugsOf(NamesOf(w.list))
  <2>1. Out(Winners(w.list)) = SlugsOf(NamesOf(w.list))
      BY DEF Out, SlugsOf, NamesOf
  <2>2. Out(done) \subseteq Out(Winners(w.list))
      BY DEF Out
  <2> QED BY <1>2, <1>5, <2>1, <2>2, ListTypes
<1>12. \A s \in Out(done) : \E n \in Names : broker'[s].cfg = <<n>>
  <2>1. \A e \in done : e.name \in Names /\ broker'[SlugOf[e.name]].cfg = <<e.name>>
      BY <1>2, <1>9, ListTypes
  <2> QED BY <1>10, <2>1
<1>13. /\ claimedSlugs' = claimedSlugs /\ BeingListed' = SlugsOf(NamesOf(w.list))
       /\ BeingListed = {}
       /\ (\A s \in Slugs : Left(s)' = Left(s)) /\ (Told' => Told)
       /\ ~Resyncing({"announce"})' /\ Resyncing({"announce"}) = Resyncing({"announce", "swap"})
       /\ Resyncing({"announce", "swap"})' = Resyncing({"announce", "swap"})
       /\ Resyncing({"announce", "swap"}) = w.resync
       /\ (SweepReady' => SweepReady) /\ ToSweep' /\ ToSweep
  <2>1. w.resync \in BOOLEAN
      BY <1>2 DEF WType
  <2> QED BY <1>1, <1>5, <1>6, <1>7, <2>1 DEF claimedSlugs, BeingListed, Left, Told, Resyncing,
         SweepReady, ToSweep
<1>14. Retained' = Retained \cup Out(done)
  <2>1. \A n : <<n>> # None
      BY DEF None
  <2>2. \A s \in Out(done) : broker'[s].cfg # None
      BY <1>12, <2>1
  <2> QED BY <1>8, <1>11, <2>2 DEF Retained
<1>15. \A s \in Slugs : IsOld(s)' => IsOld(s)
  <2> SUFFICES ASSUME NEW s \in Slugs, broker'[s].cfg = <<"old">> PROVE broker[s].cfg = <<"old">>
      BY DEF IsOld
  <2>1. \A n \in Names : <<n>> # <<"old">>
      BY PayloadAssumption
  <2> QED BY <1>8, <1>12, <2>1
<1>16. RestTypes'
  <2>1. ha' \in [on : BOOLEAN, has : SUBSET Slugs, seen : SUBSET Slugs]
      BY <1>2, <1>7, <1>11 DEF Hears
  <2> QED BY <1>1, <2>1 DEF RestInv, RestTypes
<1>17. HasList'
    BY <1>1, <1>6, <1>7, <1>13 DEF RestInv, HasList
<1>18. CfgsOut'
  <2>1. CfgsOut
      BY DEF RestInv
  <2>2. Told' => w.connected /\ done = Winners(w.list) /\ Out(done) = SlugsOf(NamesOf(w.list))
      BY <1>1, <1>5, <1>11, <1>13, <2>1 DEF CfgsOut, Told
  <2>3. \A s \in Slugs : p.optCfg[s] = "cleared" => ~broker[s].valueCfg
      BY <2>1 DEF CfgsOut
  <2>4. \A e \in done : e.number \in BOOLEAN
      BY <1>2, ListTypes
  <2>5. \A e \in done : broker'[SlugOf[e.name]].valueCfg = e.number
      BY <1>9, <2>3, <2>4
  <2>6. Told' => \A s \in claimedSlugs : broker'[s].cfg # None
    <3> SUFFICES ASSUME Told', NEW s \in claimedSlugs PROVE broker'[s].cfg # None
        OBVIOUS
    <3>1. \A n : <<n>> # None
        BY DEF None
    <3>2. CASE s \in Out(done)
        BY <1>12, <3>1, <3>2
    <3>3. CASE s \notin Out(done)
      <4>1. ~w.resync
        <5>1. w.resync => p.slugs = NamesOf(w.list)
            BY <1>13 DEF RestInv, HasList
        <5> QED BY <2>2, <3>3, <5>1 DEF claimedSlugs
      <4>2. broker[s].cfg # None
          BY <1>13, <2>1, <4>1 DEF CfgsOut
      <4> QED BY <1>2, <1>8, <3>3, <4>2
    <3> QED BY <3>2, <3>3
  <2>7. \A s \in Slugs : p'.optCfg[s] = "cleared" => ~broker'[s].valueCfg
    <3> SUFFICES ASSUME NEW s \in Slugs, p'.optCfg[s] = "cleared" PROVE ~broker'[s].valueCfg
        OBVIOUS
    <3>1. CASE s \in Out(done)
      <4>1. PICK e \in done : SlugOf[e.name] = s
          BY <1>10, <3>1
      <4>2. ~e.number
          BY <1>9, <4>1
      <4> QED BY <2>5, <4>1, <4>2
    <3>2. CASE s \notin Out(done)
        BY <1>8, <2>3, <3>2
    <3> QED BY <3>1, <3>2
  <2>8. Told' => \A e \in Winners(w.list) : broker'[SlugOf[e.name]].cfg = <<e.name>>
      BY <1>9, <2>2
  <2> QED BY <1>6, <1>7, <1>13, <2>2, <2>5, <2>6, <2>7, <2>8 DEF CfgsOut
\* A topic the worker says nothing of now it may still have said something of before.
<1>19. \A s \in Slugs, t \in Topics :
          \/ /\ p'.want[s][t] = p.want[s][t] /\ p'.sent[s][t] = p.sent[s][t]
             /\ broker'[s].state[t] = broker[s].state[t]
          \/ p'.want[s][t] = None /\ p'.sent[s][t] = None /\ broker'[s].state[t] = None
  <2> SUFFICES ASSUME NEW s \in Slugs, NEW t \in Topics
               PROVE  \/ /\ p'.want[s][t] = p.want[s][t] /\ p'.sent[s][t] = p.sent[s][t]
                         /\ broker'[s].state[t] = broker[s].state[t]
                      \/ p'.want[s][t] = None /\ p'.sent[s][t] = None /\ broker'[s].state[t] = None
      OBVIOUS
  <2>1. CASE s \in Out(done)
      BY <1>9, <1>10, <2>1
  <2>2. CASE s \notin Out(done)
      BY <1>8, <2>2
  <2> QED BY <2>1, <2>2
<1>20. StatesOut'
  <2>1. StatesOut
      BY DEF RestInv
  <2>2. NoneUnclaimed'
    <3>1. ASSUME NEW s \in Slugs \ claimedSlugs
          PROVE  p'.want[s] = NoState /\ p'.sent[s] = NoState
      <4>1. \A t \in Topics : p.want[s][t] = None /\ p.sent[s][t] = None
          BY <2>1 DEF StatesOut, NoneUnclaimed, NoState
      <4>2. \A t \in Topics : p'.want[s][t] = None /\ p'.sent[s][t] = None
          BY <1>19, <4>1
      <4>3. p'.want[s] \in States /\ p'.sent[s] \in States
          BY <1>2 DEF PType
      <4> QED BY <4>2, <4>3 DEF States, NoState
    <3> QED BY <1>13, <3>1 DEF NoneUnclaimed
  <2>3. SentIsThere'
      BY <1>13, <1>19, <2>1 DEF StatesOut, SentIsThere
  <2>4. WantIsSent'
    <3> SUFFICES ASSUME Told', ~Resyncing({"announce", "swap"})', NEW s \in Slugs,
                        NEW t \in Topics, p'.want[s][t] # None
                 PROVE  p'.sent[s][t] = p'.want[s][t]
        BY DEF WantIsSent
    <3>1. p.want[s][t] # None => p.sent[s][t] = p.want[s][t]
        BY <1>1, <1>13, <2>1 DEF StatesOut, WantIsSent
    <3> QED BY <1>19, <3>1
  <2> QED BY <2>2, <2>3, <2>4 DEF StatesOut
<1>21. DueInv'
  <2>1. DueTyped /\ DueListed /\ DueReading /\ DueHealth
      BY DEF RestInv, DueInv
  <2>2. DueListed'
      BY <1>1, <1>6, <1>7, <2>1 DEF DueListed, DueOf
  <2>3. ASSUME NEW f \in Winners(saved), DueOf(f.name)
        PROVE  LET y == SlugOf[f.name] IN
               /\ p'.want[y].reading = p.want[y].reading
               /\ p'.want[y].health = p.want[y].health
               /\ f.number => p'.want[y].value = p.want[y].value
    <3>1. saved \in Lists
        BY ListInScene DEF TypeInv, WorldType
    <3>2. f.name \in Names /\ SlugOf[f.name] \in Slugs
        BY <3>1, ListTypes
    <3>3. \E e \in Winners(saved) : e.name = f.name /\ e \in Winners(w.list)
        BY <1>1, <2>1, <2>3, <3>2 DEF DueListed
    <3>4. f \in Winners(w.list)
        BY <3>1, <3>3, EntriesApart
    <3>5. \A e \in done : SlugOf[e.name] = SlugOf[f.name] => e = f
        BY <1>2, <3>4, EntriesApart
    <3>6. CASE SlugOf[f.name] \in Out(done)
      <4>1. f \in done
          BY <1>10, <3>5, <3>6
      <4> QED BY <1>9, <4>1 DEF Topics, ClearsValue
    <3>7. CASE SlugOf[f.name] \notin Out(done)
        BY <1>8, <3>2, <3>7
    <3> QED BY <3>6, <3>7
  <2>4. DueReading'
    <3>1. \A f \in Winners(saved) : due[f.name].reading # None => DueOf(f.name)
        BY DEF DueOf
    <3> QED BY <1>1, <2>1, <2>3, <3>1 DEF DueReading, SaysNothing
  <2>5. DueHealth'
    <3>1. \A f \in Winners(saved) : due[f.name].health # None => DueOf(f.name)
        BY DEF DueOf
    <3> QED BY <1>1, <2>1, <2>3, <3>1 DEF DueHealth, SaysNothing
  <2> QED BY <1>1, <2>1, <2>2, <2>4, <2>5 DEF DueInv, DueTyped
<1>22. CleanOrPending'
  <2>1. CleanOrPending
      BY DEF RestInv
  <2>2. ASSUME NEW s \in Slugs \ (claimedSlugs \cup p.pendingClear \cup SlugsOf(NamesOf(w.list)))
        PROVE  broker'[s] = Bare \/ (broker'[s] = Left(s) /\ s \notin p'.cleared)
      BY <1>7, <1>8, <1>11, <1>13, <2>1 DEF CleanOrPending
  <2> QED BY <1>1, <1>6, <1>7, <1>13, <2>1, <2>2 DEF CleanOrPending
<1>23. SweepInv'
  <2>1. SweepInv /\ p.swept \subseteq Slugs
      BY <1>2 DEF RestInv, PType
  <2>2. conn' => UNCHANGED <<subs, arriving>>
      BY <1>5
  <2>3. subs' /\ ~dupClient' => \A s \in Slugs : IsOld(s)' =>
          s \in arriving' \cup strays' \cup spared' \cup p'.pendingClear \cup claimedSlugs'
      BY <1>1, <1>5, <1>7, <1>13, <1>15, <2>1, <2>2 DEF SweepInv
  <2>4. \A s \in p'.swept : IsOld(s)' => s \in p'.pendingClear \cup claimedSlugs'
      BY <1>7, <1>13, <1>15, <2>1 DEF SweepInv
  <2>5. /\ subs' => p'.sweepOK
        /\ Told' /\ w'.pc \notin {"states", "follow"} /\ ~Resyncing({"announce", "swap"})' =>
              (p'.sweepOK => subs')
      BY <1>1, <1>5, <1>7, <1>13, <2>1, <2>2 DEF SweepInv, Told
  <2> QED BY <1>7, <1>13, <2>1, <2>3, <2>4, <2>5 DEF SweepInv
<1>24. RecordOut'
    BY <1>1, <1>5, <1>7, <1>13 DEF RestInv, RecordOut
<1>25. GhostInv'
  <2>1. GhostInv
      BY DEF RestInv
  <2>2. /\ ha'.on = ha.on /\ ha'.has \subseteq ha.has \cup Out(done)
        /\ ha.on => ha'.seen = ha.seen \cup Out(done)
      BY <1>2, <1>7 DEF Hears
  <2>3. ha'.has \subseteq claimedSlugs \cup p.cleared \cup missed \cup p.pendingClear
                             \cup Retained'
      BY <1>14, <2>1, <2>2 DEF GhostInv
  <2>4. ha'.on /\ ("online" \in haMsgs' \/ haState = "online" \/ p.haUp)
           => Retained' \subseteq ha'.seen
      BY <1>5, <1>14, <2>1, <2>2 DEF GhostInv
  <2> QED BY <1>1, <1>6, <1>7, <1>13, <2>1, <2>3, <2>4 DEF GhostInv
<1> QED BY <1>16, <1>17, <1>18, <1>20, <1>21, <1>22, <1>23, <1>24, <1>25 DEF RestInv

\* What vanished from the list is cleared, and its devices are dropped or remembered.
LEMMA RestSwap ==
    ASSUME TypeInv, TypeInv', RestInv, Swap
    PROVE  RestInv'
<1> DEFINE next == NamesOf(w.list)
           gone == Vanished(next)
           listed == SlugsOf(next)
           want == [s \in Slugs |-> IF s \in gone THEN NoState ELSE p.want[s]]
           sent == [s \in Slugs |-> IF s \in gone THEN NoState ELSE p.sent[s]]
           q == [p EXCEPT !.slugs = next, !.pendingClear = @ \cup gone,
                          !.want = want, !.sent = sent]
<1>1. /\ w.pc = "swap" /\ w' = [w EXCEPT !.pc = IF w.resync THEN "states" ELSE "sweep"]
      /\ UNCHANGED <<scene, saved, handed, syncCh, connCh, strayCh, jobs, quit, strays,
                     owners, dupClient, haState, settled, ours, due, spared>>
      /\ Flush(q, listed, w.connected)
  <2>1. /\ w.pc = "swap" /\ w' = [w EXCEPT !.pc = IF w.resync THEN "states" ELSE "sweep"]
        /\ UNCHANGED <<scene, saved, handed, chans, quit, seenVars, haState, settled,
                       record, ours, said, due, spared>>
        /\ Flush(q, listed, w.connected)
      BY Zenon DEF Swap
  <2> QED BY <2>1 DEF chans, seenVars
<1>2. /\ p \in PType /\ p' \in PType /\ w \in WType /\ w.list \in Lists
      /\ broker \in BrokerType /\ broker' \in BrokerType
      /\ claimedSlugs \subseteq Slugs /\ (subs => conn) /\ w.connected \in BOOLEAN
      /\ ha \in [on : BOOLEAN, has : SUBSET Slugs, seen : SUBSET Slugs]
    BY ClaimedType DEF TypeInv, WorkerType, WorldType, BrokerType, WType, RestInv, RestTypes
<1>3. next \in SUBSET Names /\ listed \in SUBSET Slugs
    BY <1>2, ListTypes
<1>4. gone = claimedSlugs \ listed
    BY DEF Vanished, claimedSlugs
<1>5. w'.pc \in {"states", "sweep"} /\ w'.list = w.list
      /\ (w'.pc = "states" <=> w.resync) /\ w'.resync = w.resync
    BY <1>1, <1>2 DEF WType
<1> HIDE DEF next, gone, listed
<1>6. \A s \in Slugs :
        /\ want[s] = IF s \in gone THEN NoState ELSE p.want[s]
        /\ sent[s] = IF s \in gone THEN NoState ELSE p.sent[s]
    OBVIOUS
<1>7. want \in [Slugs -> States] /\ sent \in [Slugs -> States]
    BY <1>2, PayloadTypes DEF PType
<1> HIDE DEF want, sent
<1>8. /\ q \in PType
      /\ q.watches = p.watches /\ q.slugs = next /\ q.want = want /\ q.sent = sent
      /\ q.optCfg = p.optCfg /\ q.pendingClear = p.pendingClear \cup gone
      /\ q.lastCfg = p.lastCfg /\ q.cleared = p.cleared /\ q.haUp = p.haUp
      /\ q.listed = p.listed /\ q.followed = p.followed /\ q.sweepOK = p.sweepOK
      /\ q.swept = p.swept /\ q.ownersSent = p.ownersSent
    BY <1>2, <1>3, <1>4, <1>7 DEF PType
<1> HIDE DEF q
<1>9. PICK configs, states : Flushed(q, listed, w.connected, configs, states)
    BY <1>1, <1>2, <1>3, <1>8, FlushIsFlushed DEF TypeInv
<1> DEFINE waiting == (p.pendingClear \cup gone) \ listed
           done == configs \cap states
<1>10. /\ configs \subseteq waiting /\ states \subseteq waiting
       /\ conn' => conn /\ UNCHANGED <<subs, arriving, haMsgs>>
       /\ conn' /\ w.connected => configs = waiting /\ states = waiting
       /\ configs # {} => conn
       /\ subs' => conn'
       /\ haMsgs' \subseteq haMsgs
       /\ \A s \in Slugs :
             /\ broker'[s].cfg = IF s \in configs THEN None ELSE broker[s].cfg
             /\ broker'[s].valueCfg = (broker[s].valueCfg /\ s \notin configs)
             /\ broker'[s].state = IF s \in states THEN NoState ELSE broker[s].state
       /\ ha' = Drops(ha, configs)
    BY <1>8, <1>9, Zenon DEF Flushed
<1>11. /\ p'.watches = p.watches /\ p'.slugs = next /\ p'.want = want
       /\ p'.sent = sent /\ p'.haUp = p.haUp /\ p'.listed = p.listed
       /\ p'.followed = p.followed /\ p'.sweepOK = p.sweepOK /\ p'.swept = p.swept
       /\ p'.ownersSent = p.ownersSent
       /\ p'.pendingClear = waiting \ done
       /\ p'.cleared = IF p.haUp THEN p.cleared \ done
                       ELSE p.cleared \cup (done \cap p.lastCfg)
       /\ p'.lastCfg = p.lastCfg \ done
       /\ \A s \in Slugs : p'.optCfg[s] = IF s \in done THEN "unknown" ELSE p.optCfg[s]
       /\ missed' = IF p.haUp /\ (~ha.on \/ connCh) THEN (missed \ listed) \cup done
                    ELSE missed \ listed
  <2>1. Remembers(q, done) = IF p.haUp THEN p.cleared \ done
                             ELSE p.cleared \cup (done \cap p.lastCfg)
      BY <1>8 DEF Remembers
  <2> HIDE DEF waiting
  <2>2. waiting = q.pendingClear \ listed
      BY <1>8 DEF waiting
  <2> QED BY <1>8, <1>9, <2>1, <2>2, Zenon DEF Flushed
<1>12. waiting \subseteq Slugs /\ waiting \cap listed = {}
    BY <1>2, <1>4 DEF PType
<1> HIDE DEF waiting
<1>13. done \subseteq waiting /\ done \subseteq configs /\ done \subseteq states
    BY <1>10
<1>14. \A s \in waiting : s \in p.pendingClear \cup claimedSlugs /\ s \notin listed
    BY <1>4 DEF waiting
<1>15. \A s \in p.pendingClear \cup claimedSlugs : s \in listed \/ s \in waiting
    BY <1>4 DEF waiting
<1>16. /\ claimedSlugs' = listed /\ BeingListed' = {} /\ BeingListed = listed
       /\ (\A s \in Slugs : Left(s)' = Left(s)) /\ (Told' => Told)
       /\ ~Resyncing({"announce"})' /\ ~Resyncing({"announce", "swap"})'
       /\ ~Resyncing({"announce"}) /\ Resyncing({"announce", "swap"}) = w.resync
       /\ (SweepReady' => SweepReady) /\ ToSweep' /\ ToSweep
  <2>1. w.resync \in BOOLEAN
      BY <1>2 DEF WType
  <2>2. claimedSlugs' = listed /\ BeingListed = listed
      BY <1>1, <1>11 DEF claimedSlugs, BeingListed, listed, next
  <2> QED BY <1>1, <1>5, <1>10, <1>11, <2>1, <2>2 DEF BeingListed, Left, Told, Resyncing,
         SweepReady, ToSweep
<1>17. /\ \A s \in Slugs : IsOld(s)' => IsOld(s) /\ s \notin configs
       /\ Retained' = Retained \ configs
  <2>1. <<"old">> # None
      BY DEF None
  <2> QED BY <1>10, <2>1 DEF IsOld, Retained
<1>18. p.watches = w.list /\ next = NamesOf(p.watches)
    BY <1>1 DEF RestInv, HasList, next
<1>19. Told' => /\ w.connected /\ configs = waiting /\ states = waiting
                /\ p'.pendingClear = {}
  <2>1. Told' => w.connected
      BY <1>1, <1>16 DEF RestInv, CfgsOut
  <2> QED BY <1>10, <1>11, <2>1 DEF Told
<1>20. RestTypes'
  <2>1. ha' \in [on : BOOLEAN, has : SUBSET Slugs, seen : SUBSET Slugs]
      BY <1>2, <1>10 DEF Drops
  <2>2. missed' \subseteq Slugs
      BY <1>11, <1>12, <1>13 DEF RestInv, RestTypes
  <2> QED BY <1>1, <2>1, <2>2 DEF RestInv, RestTypes
<1>21. HasList'
    BY <1>1, <1>5, <1>11, <1>16, <1>18 DEF RestInv, HasList
<1>22. CfgsOut'
  <2>1. CfgsOut
      BY DEF RestInv
  <2>2. /\ \A e \in Winners(p.watches) : SlugOf[e.name] \in listed
        /\ \A s \in listed : \E e \in Winners(p.watches) : SlugOf[e.name] = s
      BY <1>2, <1>18, WinnersSlugs DEF listed
  <2>3. \A s \in listed : s \notin configs /\ s \in Slugs
      BY <1>3, <1>10, <1>12
  <2>4. Told' => \A e \in Winners(p.watches) :
                /\ broker'[SlugOf[e.name]].cfg = <<e.name>>
                /\ broker'[SlugOf[e.name]].valueCfg = e.number
    <3> SUFFICES ASSUME Told', NEW e \in Winners(p.watches)
                 PROVE  /\ broker'[SlugOf[e.name]].cfg = <<e.name>>
                        /\ broker'[SlugOf[e.name]].valueCfg = e.number
        OBVIOUS
    <3>1. /\ broker[SlugOf[e.name]].cfg = <<e.name>>
          /\ broker[SlugOf[e.name]].valueCfg = e.number
        BY <1>16, <2>1 DEF CfgsOut
    <3>2. SlugOf[e.name] \notin configs /\ SlugOf[e.name] \in Slugs
        BY <2>2, <2>3
    <3>3. broker'[SlugOf[e.name]].valueCfg = (broker[SlugOf[e.name]].valueCfg /\ TRUE)
        BY <1>10, <3>2
    <3>4. broker[SlugOf[e.name]].valueCfg \in BOOLEAN
        BY <1>2, <3>2 DEF BrokerType
    <3> QED BY <1>10, <3>1, <3>2, <3>3, <3>4
  <2>5. Told' => \A s \in listed : broker'[s].cfg # None
    <3> SUFFICES ASSUME Told', NEW s \in listed PROVE broker'[s].cfg # None
        OBVIOUS
    <3>1. \A n : <<n>> # None
        BY DEF None
    <3>2. PICK e \in Winners(p.watches) : SlugOf[e.name] = s
        BY <2>2
    <3>3. broker'[s].cfg = <<e.name>>
        BY <2>4, <3>2
    <3> QED BY <3>1, <3>3
  <2>6. \A s \in Slugs : p'.optCfg[s] = "cleared" => ~broker'[s].valueCfg
      BY <1>10, <1>11, <2>1 DEF CfgsOut
  <2> QED BY <1>5, <1>11, <1>16, <2>4, <2>5, <2>6 DEF CfgsOut
<1>23. StatesOut'
  <2>1. StatesOut
      BY DEF RestInv
  <2>2. NoState \in States /\ \A t \in Topics : NoState[t] = None
      BY PayloadTypes DEF NoState
  <2>3. NoneUnclaimed'
      BY <1>4, <1>6, <1>11, <1>16, <2>1 DEF StatesOut, NoneUnclaimed
  <2>4. \A s \in Slugs, t \in Topics : sent[s][t] # None \/ want[s][t] # None =>
           sent[s] = p.sent[s] /\ want[s] = p.want[s] /\ s \in claimedSlugs /\ s \notin states
    <3> SUFFICES ASSUME NEW s \in Slugs, NEW t \in Topics, sent[s][t] # None \/ want[s][t] # None
                 PROVE  sent[s] = p.sent[s] /\ want[s] = p.want[s] /\ s \in claimedSlugs
                        /\ s \notin states
        OBVIOUS
    <3>1. s \notin gone /\ sent[s] = p.sent[s] /\ want[s] = p.want[s]
        BY <1>6, <2>2
    <3>2. s \in claimedSlugs
        BY <2>1, <2>2, <3>1 DEF StatesOut, NoneUnclaimed
    <3> QED BY <1>4, <1>10, <1>14, <3>1, <3>2
  <2>5. SentIsThere'
    <3> SUFFICES ASSUME Told', NEW s \in Slugs, NEW t \in Topics, sent[s][t] # None
                 PROVE  broker'[s].state[t] = sent[s][t]
        BY <1>11 DEF SentIsThere
    <3>1. sent[s] = p.sent[s] /\ s \notin states
        BY <2>4
    <3>2. broker[s].state[t] = p.sent[s][t]
        BY <1>16, <2>1, <3>1 DEF StatesOut, SentIsThere
    <3> QED BY <1>10, <3>1, <3>2
  <2>6. WantIsSent'
    <3> SUFFICES ASSUME Told', w'.pc # "states", NEW s \in Slugs, NEW t \in Topics,
                        want[s][t] # None
                 PROVE  sent[s][t] = want[s][t]
        BY <1>11 DEF WantIsSent
    <3> QED BY <1>1, <1>5, <1>16, <2>1, <2>4 DEF StatesOut, WantIsSent
  <2> QED BY <2>3, <2>5, <2>6 DEF StatesOut
<1>24. DueInv'
  <2>1. DueTyped /\ DueListed /\ DueReading /\ DueHealth
      BY DEF RestInv, DueInv
  <2>2. \A e \in Winners(p.watches) : e.name \in next /\ SlugOf[e.name] \in listed
      BY <1>18 DEF NamesOf, listed, SlugsOf
  <2>3. DueListed'
    <3> SUFFICES ASSUME NEW n \in Names, DueOf(n)
                 PROVE  \E e \in Winners(saved) :
                    /\ e.name = n /\ n \in next /\ e \in Winners(p.watches)
                    /\ syncCh # <<>> => e \in Winners(syncCh[1])
        BY <1>1, <1>5, <1>11 DEF DueListed, DueOf
    <3>1. PICK e \in Winners(saved) :
            /\ e.name = n /\ e \in Winners(p.watches)
            /\ syncCh # <<>> => e \in Winners(syncCh[1])
        BY <2>1 DEF DueListed
    <3> QED BY <2>2, <3>1
  <2>4. ASSUME NEW f \in Winners(saved), DueOf(f.name)
        PROVE  p'.want[SlugOf[f.name]] = p.want[SlugOf[f.name]]
    <3>1. saved \in Lists
        BY ListInScene DEF TypeInv, WorldType
    <3>2. f.name \in Names /\ SlugOf[f.name] \in Slugs
        BY <3>1, ListTypes
    <3>3. \E e \in Winners(saved) : e.name = f.name /\ e \in Winners(p.watches)
        BY <2>1, <2>4, <3>2 DEF DueListed
    <3>4. SlugOf[f.name] \notin gone
        BY <1>4, <2>2, <3>3
    <3> QED BY <1>6, <1>11, <3>2, <3>4
  <2>5. DueReading'
    <3>1. \A f \in Winners(saved) : due[f.name].reading # None => DueOf(f.name)
        BY DEF DueOf
    <3> QED BY <1>1, <2>1, <2>4, <3>1 DEF DueReading, SaysNothing
  <2>6. DueHealth'
    <3>1. \A f \in Winners(saved) : due[f.name].health # None => DueOf(f.name)
        BY DEF DueOf
    <3> QED BY <1>1, <2>1, <2>4, <3>1 DEF DueHealth, SaysNothing
  <2> QED BY <1>1, <2>1, <2>3, <2>5, <2>6 DEF DueInv, DueTyped
<1>25. CleanOrPending'
  <2>1. CleanOrPending
      BY DEF RestInv
  <2>2. ASSUME NEW s \in Slugs \ (listed \cup p'.pendingClear)
        PROVE  broker'[s] = Bare \/ (broker'[s] = Left(s) /\ s \notin p'.cleared)
    <3>1. /\ broker[s] \in [cfg : Configs, valueCfg : BOOLEAN, state : States]
          /\ broker'[s] \in [cfg : Configs, valueCfg : BOOLEAN, state : States]
        BY <1>2 DEF BrokerType
    <3>2. CASE s \in done
      <4>1. broker'[s].cfg = None /\ broker'[s].valueCfg = FALSE /\ broker'[s].state = NoState
          BY <1>10, <1>13, <3>2
      <4> QED BY <3>1, <4>1 DEF Bare
    <3>3. CASE s \notin done
      <4>1. s \notin waiting
          BY <1>11, <2>2, <3>3
      <4>2. s \notin p.pendingClear \cup claimedSlugs
          BY <1>15, <2>2, <4>1
      <4>3. broker[s] = Bare \/ (broker[s] = Left(s) /\ s \notin p.cleared)
          BY <1>16, <2>1, <2>2, <4>2 DEF CleanOrPending
      <4>4. s \notin configs /\ s \notin states
          BY <1>10, <4>1
      <4>5. /\ broker'[s].cfg = broker[s].cfg /\ broker'[s].state = broker[s].state
            /\ broker'[s].valueCfg = (broker[s].valueCfg /\ TRUE)
          BY <1>10, <4>4
      <4>6. broker'[s] = broker[s]
          BY <3>1, <4>5
      <4>7. s \notin p.cleared => s \notin p'.cleared
          BY <1>11, <3>3
      <4> QED BY <4>3, <4>6, <4>7
    <3> QED BY <3>2, <3>3
  <2>3. claimedSlugs \cup p.pendingClear \cup listed \subseteq p.lastCfg
      BY <1>16, <2>1 DEF CleanOrPending
  <2>4. listed \cup p'.pendingClear \subseteq p'.lastCfg
      BY <1>11, <1>13, <1>14, <2>3
  <2> QED BY <1>16, <1>19, <2>2, <2>4 DEF CleanOrPending
<1>26. SweepInv'
  <2>1. SweepInv /\ p.swept \subseteq Slugs
      BY <1>2 DEF RestInv, PType
  <2>2. conn' => UNCHANGED <<subs, arriving>>
      BY <1>10
  <2>3. ASSUME NEW s \in Slugs, IsOld(s)', s \in p.pendingClear \cup claimedSlugs
        PROVE  s \in p'.pendingClear \cup listed
      BY <1>11, <1>13, <1>15, <1>17, <2>3
  <2>4. subs' /\ ~dupClient' => \A s \in Slugs : IsOld(s)' =>
          s \in arriving' \cup strays' \cup spared' \cup p'.pendingClear \cup claimedSlugs'
      BY <1>1, <1>10, <1>16, <1>17, <2>1, <2>2, <2>3 DEF SweepInv
  <2>5. \A s \in p'.swept : IsOld(s)' => s \in p'.pendingClear \cup claimedSlugs'
      BY <1>11, <1>16, <1>17, <2>1, <2>3 DEF SweepInv
  <2>6. /\ subs' => p'.sweepOK
        /\ Told' /\ w'.pc \notin {"states", "follow"} /\ ~Resyncing({"announce", "swap"})' =>
              (p'.sweepOK => subs')
      BY <1>1, <1>5, <1>10, <1>11, <1>16, <2>1, <2>2 DEF SweepInv, Told
  <2> QED BY <1>11, <1>16, <2>1, <2>4, <2>5, <2>6 DEF SweepInv
<1>27. RecordOut'
  <2>1. subs' => subs
      BY <1>10
  <2> QED BY <1>1, <1>11, <1>16, <2>1 DEF RestInv, RecordOut
<1>28. GhostInv'
  <2>1. GhostInv /\ CleanOrPending
      BY DEF RestInv
  <2>2. /\ ha'.on = ha.on /\ ha'.has \subseteq ha.has
        /\ ha.on => ha'.has \cap configs \cap ha.seen = {} /\ ha'.seen = ha.seen \ configs
      BY <1>2, <1>10 DEF Drops
  \* A device that stays after its clear is remembered, or its clear was missed.
  <2>3. ASSUME NEW s \in done, s \in ha'.has
        PROVE  s \in p'.cleared \cup missed'
    <3>1. s \in p.lastCfg /\ conn
        BY <1>10, <1>13, <1>14, <2>1 DEF CleanOrPending
    <3>2. CASE ~p.haUp
        BY <1>11, <3>1, <3>2
    <3>3. CASE p.haUp /\ (~ha.on \/ connCh)
        BY <1>11, <3>3
    <3>4. CASE p.haUp /\ ha.on /\ ~connCh
      <4>1. Told /\ ~Resyncing({"announce", "swap"})
          BY <2>1, <3>1, <3>4 DEF Told, GhostInv
      <4>2. p.pendingClear = {}
          BY <1>1, <2>1, <4>1 DEF CleanOrPending
      <4>3. s \in claimedSlugs
          BY <1>13, <1>14, <4>2
      <4>4. s \in Retained
          BY <1>2, <1>16, <4>1, <4>3 DEF RestInv, CfgsOut, Retained
      <4>5. s \in ha.seen
          BY <2>1, <3>4, <4>4 DEF GhostInv
      <4> QED BY <1>13, <2>2, <2>3, <3>4, <4>5
    <3> QED BY <3>2, <3>3, <3>4
  <2>4. ASSUME NEW s \in ha'.has
        PROVE  s \in listed \cup p'.cleared \cup missed' \cup p'.pendingClear \cup Retained'
    <3>1. s \in claimedSlugs \cup p.cleared \cup missed \cup p.pendingClear \cup Retained
        BY <2>1, <2>2, <2>4 DEF GhostInv
    <3>2. CASE s \in done
        BY <2>3, <2>4, <3>2
    <3>3. CASE s \in waiting \ done
        BY <1>11, <3>3
    <3>4. CASE s \notin waiting
      <4>1. s \in listed \cup p.cleared \cup missed \cup Retained
          BY <1>15, <3>1, <3>4
      <4>2. s \notin configs /\ s \notin done
          BY <1>10, <3>4
      <4>3. s \in p.cleared => s \in p'.cleared
          BY <1>11, <4>2
      <4>4. s \in missed => s \in listed \cup missed'
          BY <1>11
      <4> QED BY <1>17, <4>1, <4>2, <4>3, <4>4
    <3> QED BY <3>2, <3>3, <3>4
  <2>5. ha'.on /\ ("online" \in haMsgs' \/ haState = "online" \/ p.haUp)
           => Retained' \subseteq ha'.seen
      BY <1>10, <1>17, <2>1, <2>2 DEF GhostInv
  <2>6. Told' /\ p.haUp => p'.cleared = {}
      BY <1>11, <1>16, <2>1 DEF GhostInv
  <2> QED BY <1>1, <1>5, <1>11, <1>16, <2>4, <2>5, <2>6 DEF GhostInv
<1> QED BY <1>20, <1>21, <1>22, <1>23, <1>24, <1>25, <1>26, <1>27, <1>28 DEF RestInv

\* The sweep's clears go out, and what of them Home Assistant missed is known.
LEMMA RestSweepClears ==
    ASSUME TypeInv, TypeInv', RestInv, SweepClears
    PROVE  RestInv'
<1>1. /\ w.pc = "clear" /\ w' = [w EXCEPT !.pc = "owners"]
      /\ UNCHANGED <<scene, saved, handed, syncCh, connCh, strayCh, jobs, quit, strays,
                     owners, dupClient, haState, settled, ours, due, spared>>
      /\ Flush(p, claimedSlugs, TRUE)
  <2>1. /\ w.pc = "clear" /\ w' = [w EXCEPT !.pc = "owners"]
        /\ UNCHANGED <<scene, saved, handed, chans, quit, seenVars, haState, settled,
                       record, ours, said, due, spared>>
        /\ Flush(p, claimedSlugs, TRUE)
      BY Zenon DEF SweepClears
  <2> QED BY <2>1 DEF chans, seenVars
<1>2. /\ p \in PType /\ p' \in PType /\ w \in WType
      /\ broker \in BrokerType /\ broker' \in BrokerType
      /\ claimedSlugs \in SUBSET Slugs /\ (subs => conn)
      /\ ha \in [on : BOOLEAN, has : SUBSET Slugs, seen : SUBSET Slugs]
    BY ClaimedType DEF TypeInv, WorkerType, WorldType, BrokerType, RestInv, RestTypes
<1>3. w'.pc = "owners"
    BY <1>1, <1>2 DEF WType
<1>4. PICK configs, states : Flushed(p, claimedSlugs, TRUE, configs, states)
    BY <1>1, <1>2, FlushIsFlushed DEF TypeInv
<1> DEFINE waiting == p.pendingClear \ claimedSlugs
           done == configs \cap states
<1>5. /\ configs \subseteq waiting /\ states \subseteq waiting
      /\ conn' => conn /\ UNCHANGED <<subs, arriving, haMsgs>>
      /\ conn' => configs = waiting /\ states = waiting
      /\ configs # {} => conn
      /\ subs' => conn'
      /\ haMsgs' \subseteq haMsgs
      /\ \A s \in Slugs :
            /\ broker'[s].cfg = IF s \in configs THEN None ELSE broker[s].cfg
            /\ broker'[s].valueCfg = (broker[s].valueCfg /\ s \notin configs)
            /\ broker'[s].state = IF s \in states THEN NoState ELSE broker[s].state
      /\ ha' = Drops(ha, configs)
    BY <1>4, Zenon DEF Flushed
<1>6. /\ p'.watches = p.watches /\ p'.slugs = p.slugs /\ p'.want = p.want
      /\ p'.sent = p.sent /\ p'.haUp = p.haUp /\ p'.listed = p.listed
      /\ p'.followed = p.followed /\ p'.sweepOK = p.sweepOK /\ p'.swept = p.swept
      /\ p'.ownersSent = p.ownersSent
      /\ p'.pendingClear = waiting \ done
      /\ p'.cleared = IF p.haUp THEN p.cleared \ done
                      ELSE p.cleared \cup (done \cap p.lastCfg)
      /\ p'.lastCfg = p.lastCfg \ done
      /\ \A s \in Slugs : p'.optCfg[s] = IF s \in done THEN "unknown" ELSE p.optCfg[s]
      /\ missed' = IF p.haUp /\ (~ha.on \/ connCh) THEN (missed \ claimedSlugs) \cup done
                   ELSE missed \ claimedSlugs
    BY <1>4, Zenon DEF Flushed, Remembers
<1>7. /\ waiting \subseteq Slugs /\ waiting \cap claimedSlugs = {}
      /\ done \subseteq waiting /\ done \subseteq configs /\ done \subseteq states
      /\ \A s \in p.pendingClear : s \in claimedSlugs \/ s \in waiting
      /\ waiting \subseteq p.pendingClear
    BY <1>2, <1>5 DEF PType
<1> HIDE DEF waiting, done
<1>8. /\ claimedSlugs' = claimedSlugs /\ BeingListed' = {} /\ BeingListed = {}
      /\ (\A s \in Slugs : Left(s)' = Left(s)) /\ (Told' => Told)
      /\ ~Resyncing({"announce"})' /\ ~Resyncing({"announce", "swap"})'
      /\ ~Resyncing({"announce"}) /\ ~Resyncing({"announce", "swap"})
      /\ (SweepReady' => SweepReady) /\ ToSweep' = ToSweep
    BY <1>1, <1>3, <1>5, <1>6 DEF claimedSlugs, BeingListed, Left, Told, Resyncing,
       SweepReady, ToSweep
<1>9. /\ \A s \in Slugs : IsOld(s)' => IsOld(s) /\ s \notin configs
      /\ Retained' = Retained \ configs
  <2>1. <<"old">> # None
      BY DEF None
  <2> QED BY <1>5, <2>1 DEF IsOld, Retained
<1>10. Told' => configs = waiting /\ states = waiting /\ p'.pendingClear = {}
    BY <1>5, <1>6 DEF Told, done
<1>11. RestTypes'
  <2>1. ha' \in [on : BOOLEAN, has : SUBSET Slugs, seen : SUBSET Slugs]
      BY <1>2, <1>5 DEF Drops
  <2>2. missed' \subseteq Slugs
      BY <1>6, <1>7 DEF RestInv, RestTypes
  <2> QED BY <1>1, <2>1, <2>2 DEF RestInv, RestTypes
<1>12. HasList'
    BY <1>1, <1>3, <1>6, <1>8 DEF RestInv, HasList
<1>13. CfgsOut'
  <2>1. CfgsOut
      BY DEF RestInv
  <2>2. \A e \in Winners(p.watches) : SlugOf[e.name] \in claimedSlugs
    <3>1. p.slugs = NamesOf(p.watches) /\ p.watches \in Lists
        BY <1>1, <1>2 DEF RestInv, HasList, PType
    <3> QED BY <3>1, WinnersSlugs DEF claimedSlugs
  <2>3. \A s \in claimedSlugs : s \in Slugs /\ s \notin configs
      BY <1>2, <1>5, <1>7
  <2>4. \A s \in claimedSlugs : /\ broker'[s].cfg = broker[s].cfg
                                /\ broker'[s].valueCfg = broker[s].valueCfg
    <3>1. \A s \in claimedSlugs : /\ broker'[s].cfg = broker[s].cfg
                                  /\ broker'[s].valueCfg = (broker[s].valueCfg /\ TRUE)
                                  /\ broker[s].valueCfg \in BOOLEAN
        BY <1>2, <1>5, <2>3 DEF BrokerType
    <3> QED BY <3>1
  <2>5. \A s \in Slugs : p'.optCfg[s] = "cleared" => ~broker'[s].valueCfg
      BY <1>5, <1>6, <2>1 DEF CfgsOut
  <2> QED BY <1>3, <1>6, <1>8, <2>1, <2>2, <2>4, <2>5 DEF CfgsOut
<1>14. StatesOut'
  <2>1. StatesOut
      BY DEF RestInv
  <2>2. \A t \in Topics : NoState[t] = None
      BY DEF NoState
  <2>3. NoneUnclaimed'
      BY <1>6, <1>8, <2>1 DEF StatesOut, NoneUnclaimed
  <2>4. SentIsThere'
    <3> SUFFICES ASSUME Told', NEW s \in Slugs, NEW t \in Topics, p.sent[s][t] # None
                 PROVE  broker'[s].state[t] = p.sent[s][t]
        BY <1>6 DEF SentIsThere
    <3>1. s \in claimedSlugs
        BY <2>1, <2>2 DEF StatesOut, NoneUnclaimed
    <3>2. s \notin states
        BY <1>5, <1>7, <3>1
    <3>3. broker[s].state[t] = p.sent[s][t]
        BY <1>8, <2>1 DEF StatesOut, SentIsThere
    <3> QED BY <1>5, <3>2, <3>3
  <2>5. WantIsSent'
      BY <1>1, <1>3, <1>6, <1>8, <2>1 DEF StatesOut, WantIsSent
  <2> QED BY <2>3, <2>4, <2>5 DEF StatesOut
<1>15. DueInv'
  <2>1. DueListed'
      BY <1>1, <1>3, <1>6 DEF RestInv, DueInv, DueListed, DueOf
  <2>2. DueReading'
      BY <1>1, <1>6 DEF RestInv, DueInv, DueReading, SaysNothing
  <2>3. DueHealth'
      BY <1>1, <1>6 DEF RestInv, DueInv, DueHealth, SaysNothing
  <2> QED BY <1>1, <2>1, <2>2, <2>3 DEF RestInv, DueInv, DueTyped
<1>16. CleanOrPending'
  <2>1. CleanOrPending
      BY DEF RestInv
  <2>2. ASSUME NEW s \in Slugs \ (claimedSlugs \cup p'.pendingClear)
        PROVE  broker'[s] = Bare \/ (broker'[s] = Left(s) /\ s \notin p'.cleared)
    <3>1. /\ broker[s] \in [cfg : Configs, valueCfg : BOOLEAN, state : States]
          /\ broker'[s] \in [cfg : Configs, valueCfg : BOOLEAN, state : States]
        BY <1>2 DEF BrokerType
    <3>2. CASE s \in done
      <4>1. broker'[s].cfg = None /\ broker'[s].valueCfg = FALSE /\ broker'[s].state = NoState
          BY <1>5, <1>7, <3>2
      <4> QED BY <3>1, <4>1 DEF Bare
    <3>3. CASE s \notin done
      <4>1. s \notin waiting
          BY <1>6, <2>2, <3>3
      <4>2. s \notin p.pendingClear \cup claimedSlugs
          BY <1>7, <2>2, <4>1
      <4>3. broker[s] = Bare \/ (broker[s] = Left(s) /\ s \notin p.cleared)
          BY <1>8, <2>1, <2>2, <4>2 DEF CleanOrPending
      <4>4. s \notin configs /\ s \notin states
          BY <1>5, <4>1
      <4>5. /\ broker'[s].cfg = broker[s].cfg /\ broker'[s].state = broker[s].state
            /\ broker'[s].valueCfg = (broker[s].valueCfg /\ TRUE)
          BY <1>5, <4>4
      <4>6. broker'[s] = broker[s]
          BY <3>1, <4>5
      <4>7. s \notin p.cleared => s \notin p'.cleared
          BY <1>6, <3>3
      <4> QED BY <4>3, <4>6, <4>7
    <3> QED BY <3>2, <3>3
  <2>3. claimedSlugs \cup p.pendingClear \subseteq p.lastCfg
      BY <1>8, <2>1 DEF CleanOrPending
  <2>4. claimedSlugs \cup p'.pendingClear \subseteq p'.lastCfg
      BY <1>6, <1>7, <2>3
  <2> QED BY <1>8, <1>10, <2>2, <2>4 DEF CleanOrPending
<1>17. SweepInv'
  <2>1. SweepInv /\ p.swept \subseteq Slugs
      BY <1>2 DEF RestInv, PType
  <2>2. conn' => UNCHANGED <<subs, arriving>>
      BY <1>5
  <2>3. ASSUME NEW s \in Slugs, IsOld(s)', s \in p.pendingClear \cup claimedSlugs
        PROVE  s \in p'.pendingClear \cup claimedSlugs
      BY <1>6, <1>7, <1>9, <2>3
  <2>4. subs' /\ ~dupClient' => \A s \in Slugs : IsOld(s)' =>
          s \in arriving' \cup strays' \cup spared' \cup p'.pendingClear \cup claimedSlugs'
      BY <1>1, <1>5, <1>8, <1>9, <2>1, <2>2, <2>3 DEF SweepInv
  <2>5. \A s \in p'.swept : IsOld(s)' => s \in p'.pendingClear \cup claimedSlugs'
      BY <1>6, <1>8, <1>9, <2>1, <2>3 DEF SweepInv
  <2>6. /\ subs' => p'.sweepOK
        /\ Told' /\ w'.pc \notin {"states", "follow"} /\ ~Resyncing({"announce", "swap"})' =>
              (p'.sweepOK => subs')
      BY <1>1, <1>3, <1>5, <1>6, <1>8, <2>1, <2>2 DEF SweepInv, Told
  <2> QED BY <1>1, <1>6, <1>8, <2>1, <2>4, <2>5, <2>6 DEF SweepInv
<1>18. RecordOut'
  <2>1. subs' => subs
      BY <1>5
  <2> QED BY <1>1, <1>3, <1>6, <1>8, <2>1 DEF RestInv, RecordOut
<1>19. GhostInv'
  <2>1. GhostInv /\ CleanOrPending
      BY DEF RestInv
  <2>2. /\ ha'.on = ha.on /\ ha'.has \subseteq ha.has
        /\ ha.on => ha'.has \cap configs \cap ha.seen = {} /\ ha'.seen = ha.seen \ configs
      BY <1>2, <1>5 DEF Drops
  \* A device that stays after its clear is remembered, or its clear was missed.
  <2>3. ASSUME NEW s \in done, s \in ha'.has
        PROVE  s \in p'.cleared \cup missed'
    <3>1. s \in p.lastCfg /\ conn /\ s \in p.pendingClear /\ s \notin claimedSlugs
        BY <1>5, <1>7, <2>1 DEF CleanOrPending
    <3>2. CASE ~p.haUp
        BY <1>6, <3>1, <3>2
    <3>3. CASE p.haUp /\ (~ha.on \/ connCh)
        BY <1>6, <3>3
    <3>4. CASE p.haUp /\ ha.on /\ ~connCh
      <4>1. Told
          BY <3>1, <3>4 DEF Told
      <4>2. p.cleared = {} /\ s \in p.cleared \cup missed \cup Retained
          BY <1>1, <2>1, <2>2, <2>3, <3>1, <3>4, <4>1 DEF GhostInv
      <4>3. CASE s \in missed
          BY <1>6, <3>1, <4>3
      <4>4. CASE s \in Retained
        <5>1. s \in ha.seen
            BY <2>1, <3>4, <4>4 DEF GhostInv
        <5> QED BY <1>7, <2>2, <2>3, <3>4, <5>1
      <4> QED BY <4>2, <4>3, <4>4
    <3> QED BY <3>2, <3>3, <3>4
  <2>4. ASSUME NEW s \in ha'.has
        PROVE  s \in claimedSlugs \cup p'.cleared \cup missed' \cup p'.pendingClear \cup Retained'
    <3>1. s \in claimedSlugs \cup p.cleared \cup missed \cup p.pendingClear \cup Retained
        BY <2>1, <2>2, <2>4 DEF GhostInv
    <3>2. CASE s \in done
        BY <2>3, <2>4, <3>2
    <3>3. CASE s \in waiting \ done
        BY <1>6, <3>3
    <3>4. CASE s \notin waiting
      <4>1. s \in claimedSlugs \cup p.cleared \cup missed \cup Retained
          BY <1>7, <3>1, <3>4
      <4>2. s \notin configs /\ s \notin done
          BY <1>5, <1>7, <3>4
      <4>3. s \in p.cleared => s \in p'.cleared
          BY <1>6, <4>2
      <4>4. s \in missed => s \in claimedSlugs \cup missed'
          BY <1>6
      <4> QED BY <1>9, <4>1, <4>2, <4>3, <4>4
    <3> QED BY <3>2, <3>3, <3>4
  <2>5. ha'.on /\ ("online" \in haMsgs' \/ haState = "online" \/ p.haUp)
           => Retained' \subseteq ha'.seen
      BY <1>5, <1>9, <2>1, <2>2 DEF GhostInv
  <2>6. Told' /\ p.haUp => p'.cleared = {}
      BY <1>6, <1>8, <2>1 DEF GhostInv
  <2> QED BY <1>1, <1>3, <1>6, <1>8, <2>4, <2>5, <2>6 DEF GhostInv
<1> QED BY <1>11, <1>12, <1>13, <1>14, <1>15, <1>16, <1>17, <1>18, <1>19 DEF RestInv

-----------------------------------------------------------------------------
(* At rest: every step, and what it comes to. *)

LEMMA RestWorker ==
    ASSUME TypeInv, TypeInv', RestInv, Worker
    PROVE  RestInv'
<1>1. CASE PickSync \/ DrainSync
    BY <1>1, RestTakesList
<1>2. CASE PickStray \/ PickQuit \/ DrainRound
    BY <1>2, RestPicks
<1>3. CASE PickJob \/ DrainJob
    BY <1>3, RestTakesJob
<1>4. CASE PickConn \/ PickHA
    BY <1>4, RestPickConn, RestPickHA
<1>5. CASE Announce \/ Swap \/ Resend \/ Follow
    BY <1>5, RestAnnounce, RestSwap, RestResend, RestFollow
<1>6. CASE Sweep \/ SweepClears \/ publishOwners
    BY <1>6, RestSweep, RestSweepClears, RestPublishOwners
<1> QED BY <1>1, <1>2, <1>3, <1>4, <1>5, <1>6 DEF Worker

LEMMA NextRest ==
    ASSUME TypeInv, TypeInv', OthersInv, RestInv, [Next]_vars
    PROVE  RestInv'
<1>1. CASE UNCHANGED vars
  <2>1. UNCHANGED <<scene, saved, handed, syncCh, connCh, strayCh, jobs, quit, p, w, strays,
                    owners, dupClient, haState, conn, subs, settled, arriving, haMsgs, broker,
                    ours, ha, due, missed, spared>>
      BY <1>1 DEF vars, chans, seenVars, net, retained, history
  <2>2. /\ claimedSlugs' = claimedSlugs /\ BeingListed' = BeingListed /\ Retained' = Retained
        /\ (\A s \in Slugs : Left(s)' = Left(s)) /\ Told' = Told
        /\ (\A pcs : Resyncing(pcs)' = Resyncing(pcs))
        /\ (\A s \in Slugs : IsOld(s)' = IsOld(s)) /\ SweepReady' = SweepReady
        /\ ToSweep' = ToSweep
      BY <2>1 DEF claimedSlugs, BeingListed, Retained, Left, Told, Resyncing, IsOld,
         SweepReady, ToSweep
  <2>3. RestTypes' /\ HasList' /\ CfgsOut' /\ StatesOut'
      BY <2>1, <2>2 DEF RestInv, RestTypes, HasList, CfgsOut, StatesOut, NoneUnclaimed,
         SentIsThere, WantIsSent
  <2>4. DueInv'
    <3>1. DueTyped' /\ DueListed'
        BY <2>1 DEF RestInv, DueInv, DueTyped, DueListed, DueOf
    <3>2. DueReading'
        BY <2>1 DEF RestInv, DueInv, DueReading, SaysNothing
    <3>3. DueHealth'
        BY <2>1 DEF RestInv, DueInv, DueHealth, SaysNothing
    <3> QED BY <3>1, <3>2, <3>3 DEF DueInv
  <2>5. CleanOrPending' /\ RecordOut' /\ GhostInv'
      BY <2>1, <2>2 DEF RestInv, CleanOrPending, RecordOut, GhostInv
  <2>6. SweepInv'
    <3>1. p.swept \subseteq Slugs
        BY DEF TypeInv, WorkerType, PType
    <3> QED BY <2>1, <2>2, <3>1 DEF RestInv, SweepInv
  <2> QED BY <2>3, <2>4, <2>5, <2>6 DEF RestInv
<1> QED BY <1>1, RestWorker, RestCallers, RestNetwork DEF Next

LEMMA InitRest == Init => RestInv
<1> SUFFICES ASSUME Init PROVE RestInv
    OBVIOUS
<1>1. /\ p.watches = <<>> /\ p.slugs = {} /\ p.want = [s \in Slugs |-> NoState]
      /\ p.sent = [s \in Slugs |-> NoState] /\ p.optCfg = [s \in Slugs |-> "unknown"]
      /\ p.pendingClear = {} /\ p.lastCfg = {} /\ p.cleared = {} /\ p.haUp = FALSE
      /\ p.listed = FALSE /\ p.followed = FALSE /\ p.sweepOK = FALSE /\ p.swept = {}
      /\ p.ownersSent = NoOurs
  <2>1. p = NewP
      BY Zenon DEF Init
  <2> QED BY <2>1 DEF NewP
<1>2. w.pc = "idle" /\ w.list = <<>> /\ w.resync = FALSE
  <2>1. w = Idle
      BY Zenon DEF Init
  <2> QED BY <2>1 DEF Idle
<1>3. /\ scene \in Scenarios /\ handed = FALSE /\ syncCh = <<>> /\ connCh = FALSE
      /\ strayCh = FALSE /\ jobs = <<>> /\ quit = "no" /\ strays = {} /\ dupClient = FALSE
      /\ conn = FALSE /\ subs = FALSE /\ haMsgs = {}
      /\ broker = [s \in Slugs |-> Left(s)]
      /\ ha \in [on : scene.ha, has : {scene.others \cup scene.leftover}, seen : {{}}]
      /\ due = [n \in Names |-> [reading |-> None, health |-> None]]
      /\ missed = {} /\ spared = {}
    BY Zenon DEF Init
<1>4. haState # "online"
    BY Zenon DEF Init
<1>5. scene.others \subseteq Slugs /\ scene.leftover \subseteq Slugs /\ scene.ha \subseteq BOOLEAN
    BY <1>3, ScenarioAssumption
<1>6. claimedSlugs = {} /\ BeingListed = {} /\ NamesOf(p.watches) = {}
    BY <1>1, <1>2, EmptyList DEF claimedSlugs, SlugsOf, BeingListed
<1>7. ~Told /\ ~Resyncing({"announce", "swap"}) /\ ~SweepReady
    BY <1>1, <1>2, <1>3 DEF Told, Resyncing, SweepReady
<1>8. RestTypes
    BY <1>3, <1>5 DEF RestTypes
<1>9. HasList
    BY <1>1, <1>2, <1>3, <1>6, <1>7 DEF HasList
<1>10. CfgsOut
    BY <1>1, <1>7 DEF CfgsOut
<1>11. StatesOut
    BY <1>1, <1>7 DEF StatesOut, NoneUnclaimed, SentIsThere, WantIsSent
<1>12. DueInv
  <2>1. \A n \in Names : due[n].reading = None /\ due[n].health = None
      BY <1>3
  <2>2. \A e \in Winners(saved) : e.name \in Names
      BY ListInScene, InitTypes, ListTypes DEF TypeInv, WorldType
  <2>3. DueTyped
      BY <1>3, PayloadTypes DEF DueTyped
  <2> QED BY <2>1, <2>2, <2>3 DEF DueInv, DueListed, DueOf, DueReading, DueHealth
<1>13. CleanOrPending
    BY <1>1, <1>2, <1>3, <1>6 DEF CleanOrPending
<1>14. SweepInv
    BY <1>1, <1>3, <1>7 DEF SweepInv
<1>15. RecordOut
    BY <1>3, <1>7 DEF RecordOut
<1>16. GhostInv
  <2>1. <<"other">> # None /\ <<"old">> # None
      BY DEF None
  <2>2. scene.others \cup scene.leftover \subseteq Retained
      BY <1>3, <1>5, <2>1 DEF Retained, Left, Bare
  <2> QED BY <1>1, <1>3, <1>4, <1>7, <2>2 DEF GhostInv
<1> QED BY <1>8, <1>9, <1>10, <1>11, <1>12, <1>13, <1>14, <1>15, <1>16 DEF RestInv

-----------------------------------------------------------------------------
(* What is retained as a watch's is its own. *)

Said == {"reading", "value"}

\* A job says nothing of another watch.
JobIsOwn(job) == \A t \in Said : Own(job.set[t], job.name)
JobsOwn == \A i \in 1..Len(jobs) : JobIsOwn(jobs[i])

\* A slug that no other watch had has its watch's readings, with the worker and
\* with the broker; one nobody has, and that is not to be cleared, an earlier
\* run's.
StatesOwn ==
    \A n \in p.slugs : SlugOf[n] \notin passed =>
        \A t \in Said : /\ Own(p.want[SlugOf[n]][t], n)
                        /\ Own(broker[SlugOf[n]].state[t], n)
UnclaimedOld ==
    \A s \in Slugs \ (claimedSlugs \cup p.pendingClear), t \in Said :
        broker[s].state[t] \in {None, <<"old">>}

\* A cleared value entity has no value, but a late one; and a text watch's is
\* cleared on a connection the worker was told of.
ValuesGone ==
    \A s \in Slugs : p.optCfg[s] = "cleared" /\ s \notin late =>
        p.want[s].value = None /\ broker[s].state.value = None
TextCleared ==
    Told /\ ~Resyncing({"announce"}) =>
        \A e \in Winners(p.watches) : ~e.number => p.optCfg[SlugOf[e.name]] = "cleared"

OwnInv == JobsOwn /\ StatesOwn /\ UnclaimedOld /\ ValuesGone /\ TextCleared

\* A step that brings in no job of its own leaves the queue's readings their
\* watches'.
LEMMA OwnJobs ==
    ASSUME TypeInv, JobsOwn, Next
    PROVE  JobsOwn'
<1>1. jobs \in Seq(JobType) /\ Len(jobs) \in Nat
    BY DEF TypeInv, WorkerType
<1>2. CASE jobs' = jobs
    BY <1>2 DEF JobsOwn
<1>3. CASE jobs # <<>> /\ jobs' = Tail(jobs)
  <2>1. Len(jobs') = Len(jobs) - 1 /\ \A i \in 1..Len(jobs') : jobs'[i] = jobs[i + 1]
      BY <1>1, <1>3
  <2>2. \A i \in 1..Len(jobs') : i + 1 \in 1..Len(jobs)
      BY <1>1, <2>1
  <2> QED BY <2>1, <2>2 DEF JobsOwn
<1>4. ASSUME NEW job \in JobType, enqueue(job), JobIsOwn(job)
      PROVE  JobsOwn'
  <2>1. CASE jobs' = Append(jobs, job)
    <3>1. /\ Len(jobs') = Len(jobs) + 1 /\ jobs'[Len(jobs) + 1] = job
          /\ \A i \in 1..Len(jobs) : jobs'[i] = jobs[i]
        BY <1>1, <2>1
    <3>2. \A i \in 1..Len(jobs') : i \in 1..Len(jobs) \/ i = Len(jobs) + 1
        BY <1>1, <3>1
    <3>3. \A i \in 1..Len(jobs') : JobIsOwn(jobs'[i])
        BY <1>4, <3>1, <3>2 DEF JobsOwn
    <3> QED BY <3>3 DEF JobsOwn
  <2> QED BY <1>2, <1>4, <2>1 DEF enqueue
<1>5. ASSUME NEW e \in Running, NEW k \in {0, said[e.name], said[e.name] + 1}, OnEvent(e, k)
      PROVE  JobsOwn'
  <2> DEFINE payload == IF k = 0 THEN None ELSE <<e.name, k>>
             job == [name |-> e.name, seed |-> TRUE,
                     set |-> [reading |-> payload, health |-> None,
                              value |-> IF e.number THEN payload ELSE None]]
  <2>1. jobs' = jobs \/ enqueue(job)
      BY <1>5 DEF OnEvent
  <2>2. e \in [name : Names, number : BOOLEAN] /\ k \in Nat
      BY <1>5, RunningType, OnEventTypes
  <2>3. payload \in Payloads
      BY <2>2, PayloadTypes
  <2>4. job \in JobType
      BY <2>2, <2>3, OnEventJob
  <2>5. Own(payload, e.name) /\ Own(None, e.name)
      BY DEF Own
  <2>6. JobIsOwn(job)
      BY <2>5 DEF JobIsOwn, Said
  <2> HIDE DEF job
  <2> QED BY <1>2, <1>4, <2>1, <2>4, <2>6
<1>6. ASSUME NEW e \in Running, NEW word \in {"online", "offline"}, OnHealth(e, word)
      PROVE  JobsOwn'
  <2> DEFINE job == [name |-> e.name, seed |-> FALSE,
                     set |-> [NoState EXCEPT !.health = <<word>>]]
  <2>1. jobs' = jobs \/ enqueue(job)
      BY <1>6 DEF OnHealth
  <2>2. e \in [name : Names, number : BOOLEAN]
      BY RunningType
  <2>3. job \in JobType
      BY <2>2, OnHealthJob
  <2>4. \A t \in Said : job.set[t] = None
      BY DEF Said, NoState, Topics
  <2>5. JobIsOwn(job)
      BY <2>4 DEF JobIsOwn, Own
  <2> HIDE DEF job
  <2> QED BY <1>2, <1>4, <2>1, <2>3, <2>5
<1>7. CASE (\E list \in scene.lists : Save(list)) \/ SyncAsync \/ Close
  <2>1. jobs' = jobs
      BY <1>7 DEF Save, SyncAsync, Close, chans
  <2> QED BY <1>2, <2>1
<1>8. CASE Network
  <2>1. jobs' = jobs
      BY <1>8 DEF Network, Connects, ConnectionLost, BrokerRestarts, TwinComes, Arrives,
         Settles, HAComes, HAGoes, onHAStatus, chans
  <2> QED BY <1>2, <2>1
<1>9. CASE PickJob \/ DrainJob
  <2>1. jobs # <<>> /\ jobs' = Tail(jobs)
      BY <1>9 DEF PickJob, DrainJob, TakesJob
  <2> QED BY <1>3, <2>1
<1>10. CASE \/ PickSync \/ PickConn \/ PickStray \/ PickHA \/ PickQuit \/ DrainSync \/ DrainRound
            \/ Announce \/ Swap \/ Resend \/ Follow \/ Sweep \/ SweepClears \/ publishOwners
  <2>1. CASE PickSync \/ DrainSync
      BY <1>2, <2>1, Zenon DEF PickSync, DrainSync, TakesList
  <2>2. CASE PickConn \/ PickStray \/ PickHA \/ PickQuit \/ DrainRound
    <3>1. jobs' = jobs
        BY <2>2, Zenon DEF PickConn, PickStray, PickHA, haChanged, PickQuit, DrainRound, chans
    <3> QED BY <1>2, <3>1
  <2>3. CASE Announce \/ Swap \/ Resend
    <3>1. UNCHANGED chans
        BY <2>3, Zenon DEF Announce, Swap, Resend
    <3> QED BY <1>2, <3>1 DEF chans
  <2>4. CASE Follow \/ Sweep \/ SweepClears \/ publishOwners
    <3>1. UNCHANGED chans
        BY <2>4, Zenon DEF Follow, Sweep, SweepClears, publishOwners
    <3> QED BY <1>2, <3>1 DEF chans
  <2> QED BY <1>10, <2>1, <2>2, <2>3, <2>4
<1> QED BY <1>5, <1>6, <1>7, <1>8, <1>9, <1>10 DEF Next, Worker, Callers

\* A step that keeps the worker's list and what it has of each watch, and shows
\* nothing but that, keeps all of it; what is not to be cleared any more is clear.
LEMMA OwnKept ==
    ASSUME TypeInv, RestInv, OwnInv, JobsOwn',
           p'.slugs = p.slugs, p'.watches = p.watches, passed' = passed, late \subseteq late',
           \A s \in Slugs : p'.want[s] = p.want[s],
           \A s \in Slugs : p'.optCfg[s] = p.optCfg[s]
                            \/ (p'.optCfg[s] = "unknown" /\ s \notin claimedSlugs),
           \A s \in Slugs : p'.optCfg[s] # p.optCfg[s] => p.slugs = NamesOf(p.watches),
           \A s \in Slugs, t \in Said :
               \/ broker'[s].state[t] \in {broker[s].state[t], None}
               \/ s \in claimedSlugs /\ broker'[s].state[t] = p.want[s][t],
           \A s \in Slugs, t \in Said :
               s \in p.pendingClear /\ s \notin p'.pendingClear /\ s \notin claimedSlugs
                   => broker'[s].state[t] = None,
           Told' /\ ~Resyncing({"announce"})' => Told /\ ~Resyncing({"announce"})
    PROVE  OwnInv'
<1>1. claimedSlugs' = claimedSlugs /\ claimedSlugs \subseteq Slugs
    BY ClaimedType DEF claimedSlugs
<1>2. StatesOwn'
  <2> SUFFICES ASSUME NEW n \in p.slugs, SlugOf[n] \notin passed, NEW t \in Said
               PROVE  Own(p'.want[SlugOf[n]][t], n) /\ Own(broker'[SlugOf[n]].state[t], n)
      BY DEF StatesOwn
  <2>1. SlugOf[n] \in Slugs
      BY <1>1 DEF claimedSlugs, SlugsOf
  <2>2. Own(p.want[SlugOf[n]][t], n) /\ Own(broker[SlugOf[n]].state[t], n) /\ Own(None, n)
      BY DEF OwnInv, StatesOwn, Own
  <2> QED BY <2>1, <2>2
<1>3. UnclaimedOld'
  <2> SUFFICES ASSUME NEW s \in Slugs \ (claimedSlugs \cup p'.pendingClear), NEW t \in Said
               PROVE  broker'[s].state[t] \in {None, <<"old">>}
      BY <1>1 DEF UnclaimedOld
  <2>1. CASE s \in p.pendingClear
      BY <2>1
  <2>2. CASE s \notin p.pendingClear
      BY <2>2 DEF OwnInv, UnclaimedOld
  <2> QED BY <2>1, <2>2
<1>4. ValuesGone'
  <2> SUFFICES ASSUME NEW s \in Slugs, p'.optCfg[s] = "cleared", s \notin late'
               PROVE  p'.want[s].value = None /\ broker'[s].state.value = None
      BY DEF ValuesGone
  <2>1. p.optCfg[s] = "cleared" /\ s \notin late
      OBVIOUS
  <2>2. p.want[s].value = None /\ broker[s].state.value = None
      BY <2>1 DEF OwnInv, ValuesGone
  <2>3. \/ broker'[s].state.value \in {broker[s].state.value, None}
        \/ broker'[s].state.value = p.want[s].value
      BY DEF Said
  <2> QED BY <2>2, <2>3
<1>5. TextCleared'
  <2> SUFFICES ASSUME Told, ~Resyncing({"announce"}), NEW e \in Winners(p.watches), ~e.number
               PROVE  p'.optCfg[SlugOf[e.name]] = "cleared"
      BY DEF TextCleared
  <2>1. p.watches \in Lists
      BY DEF TypeInv, WorkerType, PType
  <2>2. SlugOf[e.name] \in Slugs /\ p.optCfg[SlugOf[e.name]] = "cleared"
      BY <2>1, ListTypes DEF OwnInv, TextCleared
  <2>3. p.slugs = NamesOf(p.watches) => SlugOf[e.name] \in claimedSlugs
      BY <2>1, WinnersSlugs DEF claimedSlugs
  <2> QED BY <2>2, <2>3
<1> QED BY <1>2, <1>3, <1>4, <1>5 DEF OwnInv

\* What is around the worker only takes from what is retained.
LEMMA OwnAround ==
    ASSUME TypeInv, RestInv, OwnInv, JobsOwn', Callers \/ Network
    PROVE  OwnInv'
<1>1. UNCHANGED <<p, w, passed, late>>
  <2>1. CASE Callers
      BY <2>1 DEF Callers, Save, SyncAsync, OnEvent, OnHealth, Close, history
  <2>2. CASE Network
      BY <2>2 DEF Network, Connects, ConnectionLost, BrokerRestarts, TwinComes, Arrives,
         Settles, HAComes, HAGoes, onHAStatus, history
  <2> QED BY <2>1, <2>2
<1>2. Told' => Told
  <2>1. CASE Callers
      BY <2>1 DEF Callers, Save, SyncAsync, OnEvent, OnHealth, Close, chans, net, Told
  <2>2. CASE Network
      BY <2>2 DEF Network, Connects, ConnectionLost, BrokerRestarts, TwinComes, Arrives,
         Settles, HAComes, HAGoes, onHAStatus, Drop, chans, net, Told
  <2> QED BY <2>1, <2>2
<1>3. \A s \in Slugs, t \in Said : broker'[s].state[t] \in {broker[s].state[t], None}
  <2>1. \A t \in Said : Bare.state[t] = None
      BY DEF Bare, NoState, Said, Topics
  <2>2. CASE broker' = broker
      BY <2>2
  <2>3. CASE BrokerRestarts
      BY <2>1, <2>3 DEF BrokerRestarts
  <2>4. CASE TwinComes
    <3>1. \A t \in Said : [Bare EXCEPT !.cfg = <<"other">>].state[t] = None
        BY <2>1 DEF Bare
    <3>2. \A s \in Slugs : broker'[s] = IF s \in scene.others
                                        THEN [Bare EXCEPT !.cfg = <<"other">>] ELSE broker[s]
        BY <2>4 DEF TwinComes
    <3> QED BY <3>1, <3>2
  <2>5. Callers => broker' = broker
      BY DEF Callers, Save, SyncAsync, OnEvent, OnHealth, Close, retained
  <2>6. Network => broker' = broker \/ BrokerRestarts \/ TwinComes
      BY DEF Network, Connects, ConnectionLost, Arrives, Settles, HAComes, HAGoes, onHAStatus,
         retained
  <2> QED BY <2>2, <2>3, <2>4, <2>5, <2>6
<1>4. Told' /\ ~Resyncing({"announce"})' => Told /\ ~Resyncing({"announce"})
    BY <1>1, <1>2 DEF Resyncing
<1> QED BY <1>1, <1>3, <1>4, OwnKept

\* A list, a reconnect, a stray or a word taken up changes no state.
LEMMA OwnPicks ==
    ASSUME TypeInv, RestInv, OwnInv, JobsOwn',
           \/ PickSync \/ DrainSync \/ PickConn \/ PickStray \/ PickHA \/ PickQuit \/ DrainRound
    PROVE  OwnInv'
<1>1. p \in PType /\ w \in WType /\ broker \in BrokerType
    BY DEF TypeInv, WorkerType, WorldType, BrokerType
<1>2. w.pc = "idle" /\ ~Resyncing({"announce"})
    BY DEF PickSync, DrainSync, PickConn, PickStray, PickHA, PickQuit, DrainRound, Selecting,
       Resyncing
<1>3. UNCHANGED <<passed, late>>
  <2>1. CASE PickSync \/ DrainSync
      BY <2>1, Zenon DEF PickSync, DrainSync, TakesList, history
  <2>2. CASE PickConn \/ PickStray \/ PickQuit \/ DrainRound
      BY <2>2, Zenon DEF PickConn, PickStray, PickQuit, DrainRound, history
  <2>3. CASE PickHA
      BY <2>3, Zenon DEF PickHA, haChanged
  <2> QED BY <2>1, <2>2, <2>3
<1>4. CASE PickHA
  <2>1. UNCHANGED <<w, connCh>> /\ (conn' => conn)
      BY <1>4, Zenon DEF PickHA, haChanged, Goes, Drop
  <2> DEFINE up == haState = "online"
             again == p.cleared \ claimedSlugs
  <2>2. \E out \in SUBSET again : \/ p' = [p EXCEPT !.haUp = up, !.cleared = again \ out]
                                  \/ p' = [p EXCEPT !.haUp = up]
      BY <1>4, Zenon DEF PickHA, haChanged
  <2> HIDE DEF up, again
  <2>3. /\ p'.slugs = p.slugs /\ p'.watches = p.watches /\ p'.want = p.want
        /\ p'.optCfg = p.optCfg /\ p'.pendingClear = p.pendingClear
      BY <1>1, <2>2 DEF PType
  <2>4. \A s \in Slugs : broker'[s].state = broker[s].state
    <3>1. \/ broker' = broker
          \/ \E out : broker' = [s \in Slugs |->
                IF s \in out THEN [broker[s] EXCEPT !.cfg = None, !.valueCfg = FALSE]
                ELSE broker[s]]
        BY <1>4, Zenon DEF PickHA, haChanged
    <3> QED BY <1>1, <3>1 DEF BrokerType
  <2>5. Told' => Told
      BY <2>1 DEF Told
  <2> QED BY <1>2, <1>3, <2>3, <2>4, <2>5, OwnKept
<1>5. CASE PickSync \/ DrainSync
  <2>1. p' = [p EXCEPT !.listed = TRUE] /\ UNCHANGED <<connCh, net, retained>>
      BY <1>5, Zenon DEF PickSync, DrainSync, TakesList
  <2>2. /\ p'.slugs = p.slugs /\ p'.watches = p.watches /\ p'.want = p.want
        /\ p'.optCfg = p.optCfg /\ p'.pendingClear = p.pendingClear
        /\ broker' = broker /\ (Told' => Told)
      BY <1>1, <2>1 DEF PType, net, retained, Told
  <2> QED BY <1>2, <1>3, <2>2, OwnKept
<1>6. CASE PickStray \/ PickQuit \/ DrainRound
  <2>1. UNCHANGED <<p, connCh, net, retained>>
      BY <1>6 DEF PickStray, PickQuit, DrainRound, chans
  <2>2. p' = p /\ broker' = broker /\ (Told' => Told)
      BY <2>1 DEF net, retained, Told
  <2> QED BY <1>2, <1>3, <2>2, OwnKept
<1>7. CASE PickConn
  <2>1. /\ p' = [p EXCEPT !.sent = [s \in Slugs |-> NoState], !.haUp = FALSE]
        /\ UNCHANGED <<net, retained>> /\ w'.pc = "announce" /\ w'.resync = TRUE
      BY <1>7 DEF PickConn, Begins
  <2>2. /\ p'.slugs = p.slugs /\ p'.watches = p.watches /\ p'.want = p.want
        /\ p'.optCfg = p.optCfg /\ p'.pendingClear = p.pendingClear /\ broker' = broker
      BY <1>1, <2>1 DEF PType, retained
  <2>3. Resyncing({"announce"})'
      BY <2>1 DEF Resyncing
  <2> QED BY <1>3, <2>2, <2>3, OwnKept
<1> QED BY <1>4, <1>5, <1>6, <1>7

\* A job is its watch's, and so is what it leaves.
LEMMA OwnTakesJob ==
    ASSUME TypeInv, RestInv, OwnInv, JobsOwn', PickJob \/ DrainJob
    PROVE  OwnInv'
<1> DEFINE job == Head(jobs)
           js == SlugOf[job.name]
<1>1. w.pc = "idle" /\ w' = w /\ jobs # <<>>
    BY DEF PickJob, DrainJob, TakesJob, Selecting
<1>2. PICK out \in SUBSET Topics : RunJob(job, out)
    BY DEF PickJob, DrainJob, TakesJob
<1>3. job \in JobType /\ JobIsOwn(job)
    BY <1>1 DEF TypeInv, WorkerType, OwnInv, JobsOwn
<1> HIDE DEF job
<1>4. /\ UNCHANGED <<connCh, passed>>
      /\ StillNamed(job) => late' = IF "value" \in {t \in Topics : Sets(job, js, t) # None}
                                          /\ p.optCfg[js] = "cleared"
                                    THEN late \cup {js} ELSE late
      /\ ~StillNamed(job) => late' = late
    BY <1>2, Zenon DEF RunJob
<1>5. late \subseteq late'
    BY <1>4
<1>6. /\ conn' => conn
      /\ p'.watches = p.watches /\ p'.slugs = p.slugs
      /\ p'.optCfg = p.optCfg /\ p'.pendingClear = p.pendingClear
      /\ StillNamed(job) => \E want : Ran(job, want, out)
      /\ ~StillNamed(job) => UNCHANGED <<p, broker>>
    BY <1>2, <1>3, JobRuns
<1>7. Told' /\ ~Resyncing({"announce"})' => Told /\ ~Resyncing({"announce"})
    BY <1>1, <1>4, <1>6 DEF Told, Resyncing
<1>8. CASE ~StillNamed(job)
    BY <1>4, <1>5, <1>6, <1>7, <1>8, OwnKept
<1>9. CASE StillNamed(job)
  <2>1. PICK want : Ran(job, want, out)
      BY <1>6, <1>9
  <2>2. /\ js \in claimedSlugs
        /\ \A t \in Topics : want[t] = IF Sets(job, js, t) # None THEN Sets(job, js, t)
                                       ELSE p.want[js][t]
        /\ \A x \in Slugs : x # js => p'.want[x] = p.want[x] /\ broker'[x] = broker[x]
        /\ \A t \in Topics :
              /\ p'.want[js][t] = want[t]
              /\ broker'[js].state[t] = IF t \in out THEN want[t] ELSE broker[js].state[t]
      BY <2>1 DEF Ran
  <2>3. \A t \in Said : t \in Topics /\ Sets(job, js, t) = job.set[t]
      BY DEF Said, Topics, Sets
  <2>4. job.name \in p.slugs /\ claimedSlugs \subseteq Slugs /\ claimedSlugs' = claimedSlugs
      BY <1>6, <1>9, ClaimedType DEF StillNamed, claimedSlugs
  <2> HIDE DEF js
  <2>5. StatesOwn'
    <3> SUFFICES ASSUME NEW n \in p.slugs, SlugOf[n] \notin passed, NEW t \in Said
                 PROVE  Own(p'.want[SlugOf[n]][t], n) /\ Own(broker'[SlugOf[n]].state[t], n)
        BY <1>4, <1>6 DEF StatesOwn
    <3>1. Own(p.want[SlugOf[n]][t], n) /\ Own(broker[SlugOf[n]].state[t], n)
        BY DEF OwnInv, StatesOwn
    <3>2. CASE SlugOf[n] # js
      <4>1. SlugOf[n] \in Slugs
          BY <2>4 DEF claimedSlugs, SlugsOf
      <4> QED BY <2>2, <3>1, <3>2, <4>1
    <3>3. CASE SlugOf[n] = js
      <4>1. n = job.name
          BY <2>4, <3>3 DEF TypeInv, SlugsOnce, js
      <4>2. Own(job.set[t], n)
          BY <1>3, <4>1 DEF JobIsOwn
      <4> QED BY <2>2, <2>3, <3>1, <3>3, <4>2
    <3> QED BY <3>2, <3>3
  <2>6. UnclaimedOld'
      BY <1>6, <2>2, <2>4 DEF OwnInv, UnclaimedOld
  <2>7. ValuesGone'
    <3> SUFFICES ASSUME NEW s \in Slugs, p.optCfg[s] = "cleared", s \notin late'
                 PROVE  p'.want[s].value = None /\ broker'[s].state.value = None
        BY <1>6 DEF ValuesGone
    <3>1. p.want[s].value = None /\ broker[s].state.value = None
        BY <1>5 DEF OwnInv, ValuesGone
    <3>2. CASE s # js
        BY <2>2, <3>1, <3>2
    <3>3. CASE s = js
      <4>1. "value" \in Topics /\ Sets(job, js, "value") = None
          BY <1>4, <1>9, <3>3 DEF Topics, js
      <4> QED BY <2>2, <3>1, <3>3, <4>1
    <3> QED BY <3>2, <3>3
  <2>8. TextCleared'
      BY <1>6, <1>7 DEF OwnInv, TextCleared
  <2> QED BY <2>5, <2>6, <2>7, <2>8 DEF OwnInv
<1> QED BY <1>8, <1>9

\* Configs change no reading; a text watch's value goes with its entity, once.
LEMMA OwnAnnounce ==
    ASSUME TypeInv, RestInv, OwnInv, JobsOwn', Announce
    PROVE  OwnInv'
<1>1. /\ w.pc = "announce" /\ w' = [w EXCEPT !.pc = "swap"]
      /\ UNCHANGED <<connCh, passed>>
  <2>1. /\ w.pc = "announce" /\ w' = [w EXCEPT !.pc = "swap"]
        /\ UNCHANGED <<chans, passed>>
      BY Zenon DEF Announce
  <2> QED BY <2>1 DEF chans
<1>2. p \in PType /\ w \in WType /\ w.list \in Lists /\ claimedSlugs \subseteq Slugs
    BY ClaimedType DEF TypeInv, WorkerType, WType
<1>3. PICK done \in SUBSET Winners(w.list) :
        /\ Announces(done)
        /\ \/ w.connected /\ Goes(Winners(w.list), done)
           \/ ~w.connected /\ done = {} /\ UNCHANGED <<conn, subs, arriving, haMsgs>>
    BY Zenon DEF Announce
<1>4. Announced(done)
    BY <1>3, AnnouncesIsAnnounced
<1>5. (conn' => conn) /\ (conn' /\ w.connected => done = Winners(w.list))
  <2>1. CASE w.connected /\ Goes(Winners(w.list), done)
      BY <2>1, GoesSends DEF TypeInv, Sends
  <2>2. CASE ~w.connected /\ done = {} /\ UNCHANGED <<conn, subs, arriving, haMsgs>>
      BY <2>2
  <2> QED BY <1>3, <2>1, <2>2
<1>6. /\ p'.watches = w.list /\ p'.slugs = p.slugs /\ p'.pendingClear = p.pendingClear
      /\ claimedSlugs' = claimedSlugs
    BY <1>4 DEF Announced, claimedSlugs
<1>7. \A s \in Slugs : s \notin Out(done) =>
          broker'[s] = broker[s] /\ p'.want[s] = p.want[s] /\ p'.optCfg[s] = p.optCfg[s]
    BY <1>4 DEF Announced
<1>8. \A e \in done : LET s == SlugOf[e.name] IN
          /\ s \in Slugs
          /\ p'.optCfg[s] = IF e.number THEN "there" ELSE "cleared"
          /\ \A t \in Topics :
                IF t = "value" /\ ClearsValue(e)
                THEN p'.want[s][t] = None /\ broker'[s].state[t] = None
                ELSE p'.want[s][t] = p.want[s][t] /\ broker'[s].state[t] = broker[s].state[t]
    BY <1>4 DEF Announced
<1>9. /\ late \ Out(done) \subseteq late'
      /\ \A e \in done : SlugOf[e.name] \in late /\ ~e.number /\ ~ClearsValue(e)
                          => SlugOf[e.name] \in late'
    BY <1>4 DEF Announced
<1>10. \A s \in Slugs, t \in Said :
          /\ p'.want[s][t] \in {p.want[s][t], None}
          /\ broker'[s].state[t] \in {broker[s].state[t], None}
  <2> SUFFICES ASSUME NEW s \in Slugs, NEW t \in Said
               PROVE  /\ p'.want[s][t] \in {p.want[s][t], None}
                      /\ broker'[s].state[t] \in {broker[s].state[t], None}
      OBVIOUS
  <2>1. CASE s \notin Out(done)
      BY <1>7, <2>1
  <2>2. CASE s \in Out(done)
    <3>1. PICK e \in done : SlugOf[e.name] = s
        BY <2>2 DEF Out
    <3>2. t \in Topics
        BY DEF Said, Topics
    <3> QED BY <1>8, <3>1, <3>2
  <2> QED BY <2>1, <2>2
<1>11. StatesOwn'
  <2> SUFFICES ASSUME NEW n \in p.slugs, SlugOf[n] \notin passed, NEW t \in Said
               PROVE  Own(p'.want[SlugOf[n]][t], n) /\ Own(broker'[SlugOf[n]].state[t], n)
      BY <1>1, <1>6 DEF StatesOwn
  <2>1. SlugOf[n] \in Slugs
      BY <1>2 DEF claimedSlugs, SlugsOf
  <2>2. Own(p.want[SlugOf[n]][t], n) /\ Own(broker[SlugOf[n]].state[t], n) /\ Own(None, n)
      BY DEF OwnInv, StatesOwn, Own
  <2>3. /\ p'.want[SlugOf[n]][t] \in {p.want[SlugOf[n]][t], None}
        /\ broker'[SlugOf[n]].state[t] \in {broker[SlugOf[n]].state[t], None}
      BY <1>10, <2>1
  <2> QED BY <2>2, <2>3
<1>12. UnclaimedOld'
    BY <1>6, <1>10 DEF OwnInv, UnclaimedOld
<1>13. ValuesGone'
  <2> SUFFICES ASSUME NEW s \in Slugs, p'.optCfg[s] = "cleared", s \notin late'
               PROVE  p'.want[s].value = None /\ broker'[s].state.value = None
      BY DEF ValuesGone
  <2>1. CASE s \notin Out(done)
      BY <1>7, <1>9, <2>1 DEF OwnInv, ValuesGone
  <2>2. CASE s \in Out(done)
    <3>1. PICK e \in done : SlugOf[e.name] = s
        BY <2>2 DEF Out
    <3>2. ~e.number /\ "value" \in Topics
        BY <1>8, <3>1 DEF Topics
    <3>3. CASE ClearsValue(e)
        BY <1>8, <3>1, <3>2, <3>3
    <3>4. CASE ~ClearsValue(e)
      <4>1. p.optCfg[s] = "cleared" /\ s \notin late
          BY <1>9, <3>1, <3>2, <3>4 DEF ClearsValue
      <4>2. p.want[s].value = None /\ broker[s].state.value = None
          BY <4>1 DEF OwnInv, ValuesGone
      <4>3. p'.want[s].value = p.want[s].value /\ broker'[s].state.value = broker[s].state.value
          BY <1>8, <3>1, <3>2, <3>4
      <4> QED BY <4>2, <4>3
    <3> QED BY <3>3, <3>4
  <2> QED BY <2>1, <2>2
<1>14. TextCleared'
  <2> SUFFICES ASSUME Told', NEW e \in Winners(w.list), ~e.number
               PROVE  p'.optCfg[SlugOf[e.name]] = "cleared"
      BY <1>6 DEF TextCleared
  <2>1. Told
      BY <1>1, <1>5 DEF Told
  <2>2. w.connected /\ conn'
      BY <1>1, <2>1 DEF RestInv, CfgsOut, Told
  <2>3. e \in done
      BY <1>5, <2>2
  <2> QED BY <1>8, <2>3
<1> QED BY <1>11, <1>12, <1>13, <1>14 DEF OwnInv

\* A watch that is new to its slug has it clear, or passed on.
LEMMA OwnSwap ==
    ASSUME TypeInv, TypeInv', RestInv, OwnInv, JobsOwn', Swap
    PROVE  OwnInv'
<1> DEFINE next == NamesOf(w.list)
           gone == Vanished(next)
           listed == SlugsOf(next)
           want == [s \in Slugs |-> IF s \in gone THEN NoState ELSE p.want[s]]
           sent == [s \in Slugs |-> IF s \in gone THEN NoState ELSE p.sent[s]]
           q == [p EXCEPT !.slugs = next, !.pendingClear = @ \cup gone,
                          !.want = want, !.sent = sent]
<1>1. /\ w.pc = "swap" /\ w' = [w EXCEPT !.pc = IF w.resync THEN "states" ELSE "sweep"]
      /\ connCh' = connCh /\ late' = late /\ passed' = PassedOn(next)
      /\ Flush(q, listed, w.connected)
  <2>1. /\ w.pc = "swap" /\ w' = [w EXCEPT !.pc = IF w.resync THEN "states" ELSE "sweep"]
        /\ UNCHANGED <<chans, late>> /\ passed' = PassedOn(next)
        /\ Flush(q, listed, w.connected)
      BY Zenon DEF Swap
  <2> QED BY <2>1 DEF chans
<1>2. /\ p \in PType /\ w \in WType /\ w.list \in Lists
      /\ claimedSlugs \subseteq Slugs /\ w.connected \in BOOLEAN
    BY ClaimedType DEF TypeInv, WorkerType, WType
<1>3. next \in SUBSET Names /\ listed \in SUBSET Slugs
    BY <1>2, ListTypes
<1>4. gone = claimedSlugs \ listed
    BY DEF Vanished, claimedSlugs
<1>5. listed = SlugsOf(next) /\ next = NamesOf(w.list)
    OBVIOUS
<1> HIDE DEF next, gone, listed
<1>6. \A s \in Slugs : want[s] = IF s \in gone THEN NoState ELSE p.want[s]
    OBVIOUS
<1>7. want \in [Slugs -> States] /\ sent \in [Slugs -> States]
    BY <1>2, BareType DEF PType
<1> HIDE DEF want, sent
<1>8. /\ q \in PType
      /\ q.slugs = next /\ q.watches = p.watches /\ q.want = want /\ q.optCfg = p.optCfg
      /\ q.pendingClear = p.pendingClear \cup gone
    BY <1>2, <1>3, <1>4, <1>7 DEF PType
<1> HIDE DEF q
<1>9. PICK configs, states : Flushed(q, listed, w.connected, configs, states)
    BY <1>1, <1>2, <1>3, <1>8, FlushIsFlushed DEF TypeInv
<1> DEFINE waiting == q.pendingClear \ listed
           done == configs \cap states
<1>10. /\ states \subseteq waiting /\ (conn' => conn)
       /\ \A s \in Slugs : broker'[s].state = IF s \in states THEN NoState ELSE broker[s].state
       /\ p'.watches = p.watches /\ p'.slugs = next /\ p'.want = want
       /\ p'.pendingClear = waiting \ done
       /\ \A s \in Slugs : p'.optCfg[s] = IF s \in done THEN "unknown" ELSE p.optCfg[s]
    BY <1>8, <1>9, Zenon DEF Flushed
<1>11. claimedSlugs' = listed
    BY <1>5, <1>10 DEF claimedSlugs
<1>12. \A t \in Said : NoState[t] = None
    BY DEF NoState, Said, Topics
<1>13. StatesOwn'
  <2> SUFFICES ASSUME NEW n \in next, SlugOf[n] \notin passed', NEW t \in Said
               PROVE  Own(p'.want[SlugOf[n]][t], n) /\ Own(broker'[SlugOf[n]].state[t], n)
      BY <1>10 DEF StatesOwn
  <2> DEFINE s == SlugOf[n]
  <2>1. s \in listed /\ s \in Slugs
      BY <1>3, <1>5 DEF SlugsOf
  <2>2. s \notin passed /\ s \notin p.pendingClear
        /\ \A m \in p.slugs : SlugOf[m] = s => m \in next
      BY <1>1, <1>5, <2>1 DEF PassedOn
  <2>3. p'.want[s] = p.want[s] /\ broker'[s].state = broker[s].state
      BY <1>4, <1>6, <1>10, <2>1
  <2>4. CASE s \in claimedSlugs
    <3>1. PICK m \in p.slugs : SlugOf[m] = s
        BY <2>4 DEF claimedSlugs, SlugsOf
    <3>2. \A a, b \in next : SlugOf[a] = SlugOf[b] => a = b
        BY <1>10 DEF TypeInv, SlugsOnce
    <3>3. m = n
        BY <2>2, <3>1, <3>2
    <3>4. Own(p.want[s][t], n) /\ Own(broker[s].state[t], n)
        BY <2>2, <3>1, <3>3 DEF OwnInv, StatesOwn
    <3> QED BY <2>3, <3>4
  <2>5. CASE s \notin claimedSlugs
    <3>1. p.want[s][t] = None
        BY <1>12, <2>1, <2>5 DEF RestInv, StatesOut, NoneUnclaimed
    <3>2. broker[s].state[t] \in {None, <<"old">>}
        BY <2>1, <2>2, <2>5 DEF OwnInv, UnclaimedOld
    <3>3. Own(None, n) /\ Own(<<"old">>, n)
        BY DEF Own
    <3> QED BY <2>3, <3>1, <3>2, <3>3
  <2> QED BY <2>4, <2>5
<1>14. UnclaimedOld'
  <2> SUFFICES ASSUME NEW s \in Slugs \ (listed \cup p'.pendingClear), NEW t \in Said
               PROVE  broker'[s].state[t] \in {None, <<"old">>}
      BY <1>11 DEF UnclaimedOld
  <2>1. CASE s \in states
      BY <1>10, <1>12, <2>1
  <2>2. CASE s \notin states
    <3>1. s \notin waiting
        BY <1>10, <2>2
    <3>2. s \notin claimedSlugs \cup p.pendingClear
        BY <1>4, <1>8, <3>1
    <3>3. broker'[s].state = broker[s].state
        BY <1>10, <2>2
    <3> QED BY <3>2, <3>3 DEF OwnInv, UnclaimedOld
  <2> QED BY <2>1, <2>2
<1>15. ValuesGone'
  <2> SUFFICES ASSUME NEW s \in Slugs, p'.optCfg[s] = "cleared", s \notin late
               PROVE  p'.want[s].value = None /\ broker'[s].state.value = None
      BY <1>1 DEF ValuesGone
  <2>1. p.optCfg[s] = "cleared"
      BY <1>10
  <2>2. p.want[s].value = None /\ broker[s].state.value = None
      BY <2>1 DEF OwnInv, ValuesGone
  <2>3. NoState.value = None
      BY <1>12 DEF Said
  <2> QED BY <1>6, <1>10, <2>2, <2>3
<1>16. TextCleared'
  <2> SUFFICES ASSUME Told', NEW e \in Winners(p.watches), ~e.number
               PROVE  p'.optCfg[SlugOf[e.name]] = "cleared"
      BY <1>10 DEF TextCleared
  <2>1. Told /\ ~Resyncing({"announce"})
      BY <1>1, <1>10 DEF Told, Resyncing
  <2>2. p.watches = w.list
      BY <1>1 DEF RestInv, HasList
  <2>3. SlugOf[e.name] \in listed /\ SlugOf[e.name] \in Slugs
      BY <1>2, <1>3, <1>5, <2>2, WinnersSlugs
  <2>4. p.optCfg[SlugOf[e.name]] = "cleared"
      BY <2>1 DEF OwnInv, TextCleared
  <2>5. SlugOf[e.name] \notin done
      BY <1>10, <2>3
  <2> QED BY <1>10, <2>3, <2>4, <2>5
<1> QED BY <1>13, <1>14, <1>15, <1>16 DEF OwnInv

\* What goes on after the list sends what the worker has, and clears.
LEMMA OwnGoesOn ==
    ASSUME TypeInv, RestInv, OwnInv, JobsOwn',
           Resend \/ Follow \/ Sweep \/ SweepClears \/ publishOwners
    PROVE  OwnInv'
<1>1. /\ p \in PType /\ w \in WType /\ broker \in BrokerType
      /\ claimedSlugs \in SUBSET Slugs /\ strays \subseteq Slugs
    BY ClaimedType DEF TypeInv, WorkerType, WorldType, BrokerType
<1>2. w.pc # "announce" /\ ~Resyncing({"announce"}) /\ w.pc # "swap"
    BY Zenon DEF Resend, Follow, Sweep, SweepClears, publishOwners, Resyncing
<1>3. CASE Resend
  <2> DEFINE all == {x \in claimedSlugs \X Topics :
                        p.want[x[1]][x[2]] \notin {None, p.sent[x[1]][x[2]]}}
  <2>1. UNCHANGED <<chans, passed, late>>
      BY <1>3, Zenon DEF Resend
  <2>2. PICK out \in SUBSET all :
          LET After(s, state) == [t \in Topics |-> IF <<s, t>> \in out
                                                   THEN p.want[s][t] ELSE state[t]]
          IN
          /\ Goes(all, out)
          /\ broker' = [s \in Slugs |-> [broker[s] EXCEPT !.state = After(s, @)]]
          /\ p' = [p EXCEPT !.sent = [s \in Slugs |-> After(s, @[s])]]
      BY <1>3, Zenon DEF Resend
  <2>3. conn' => conn
    <3>1. Goes(all, out)
        BY <2>2
    <3> HIDE DEF all
    <3> QED BY <3>1, GoesSends DEF TypeInv, Sends
  <2>4. \A x \in all : x[1] \in claimedSlugs
      OBVIOUS
  <2>5. \A s \in Slugs, t \in Topics : broker'[s].state[t] = IF <<s, t>> \in out
                                       THEN p.want[s][t] ELSE broker[s].state[t]
      BY <1>1, <2>2 DEF BrokerType
  <2>6. /\ p'.slugs = p.slugs /\ p'.watches = p.watches /\ p'.want = p.want
        /\ p'.optCfg = p.optCfg /\ p'.pendingClear = p.pendingClear
      BY <1>1, <2>2 DEF PType
  <2>7. \A s \in Slugs, t \in Topics : <<s, t>> \in out => s \in claimedSlugs
      BY <2>2, <2>4
  <2>8. Said \subseteq Topics
      BY DEF Said, Topics
  <2>9. \A s \in Slugs, t \in Said :
               \/ broker'[s].state[t] \in {broker[s].state[t], None}
               \/ s \in claimedSlugs /\ broker'[s].state[t] = p.want[s][t]
      BY <2>5, <2>7, <2>8
  <2>10. Told' => Told
      BY <2>1, <2>3 DEF chans, Told
  <2> QED BY <1>2, <2>1, <2>6, <2>9, <2>10, OwnKept
<1>4. CASE Follow
  <2>1. PICK ok \in scene.sweeps :
          p' = [p EXCEPT !.swept = {}, !.ownersSent = NoOurs,
                         !.followed = conn, !.sweepOK = conn /\ ok]
      BY <1>4, Zenon DEF Follow
  <2>2. UNCHANGED <<chans, conn, retained, passed, late>>
      BY <1>4, Zenon DEF Follow
  <2>3. /\ p'.slugs = p.slugs /\ p'.watches = p.watches /\ p'.want = p.want
        /\ p'.optCfg = p.optCfg /\ p'.pendingClear = p.pendingClear
        /\ broker' = broker /\ (Told' => Told)
      BY <1>1, <2>1, <2>2 DEF PType, chans, retained, Told
  <2> QED BY <1>2, <2>2, <2>3, OwnKept
<1>5. CASE Sweep
  <2> DEFINE found == strays \ (claimedSlugs \cup Elsewhere \cup p.pendingClear \cup p.swept)
  <2>1. \/ p' = p
        \/ p' = [p EXCEPT !.swept = @ \cup found, !.lastCfg = @ \cup found,
                          !.pendingClear = @ \cup found]
      BY <1>5, Zenon DEF Sweep
  <2>2. UNCHANGED <<chans, broker, passed, late>> /\ (conn' => conn)
      BY <1>5, Zenon DEF Sweep, Drop
  <2>3. found \subseteq Slugs
      BY <1>1
  <2> HIDE DEF found
  <2>4. /\ p'.slugs = p.slugs /\ p'.watches = p.watches /\ p'.want = p.want
        /\ p'.optCfg = p.optCfg /\ p.pendingClear \subseteq p'.pendingClear
        /\ broker' = broker /\ (Told' => Told)
    <3>1. CASE p' = [p EXCEPT !.swept = @ \cup found, !.lastCfg = @ \cup found,
                              !.pendingClear = @ \cup found]
        BY <1>1, <2>2, <2>3, <3>1 DEF PType, chans, Told
    <3>2. CASE p' = p
        BY <2>2, <3>2 DEF chans, Told
    <3> QED BY <2>1, <3>1, <3>2
  <2> QED BY <1>2, <2>2, <2>4, OwnKept
<1>6. CASE SweepClears
  <2>1. UNCHANGED <<chans, passed, late>> /\ Flush(p, claimedSlugs, TRUE)
      BY <1>6, Zenon DEF SweepClears
  <2>2. PICK configs, states : Flushed(p, claimedSlugs, TRUE, configs, states)
      BY <1>1, <2>1, FlushIsFlushed DEF TypeInv
  <2> DEFINE waiting == p.pendingClear \ claimedSlugs
             done == configs \cap states
  <2>3. /\ states \subseteq waiting /\ (conn' => conn)
        /\ \A s \in Slugs : broker'[s].state = IF s \in states THEN NoState ELSE broker[s].state
        /\ p'.watches = p.watches /\ p'.slugs = p.slugs /\ p'.want = p.want
        /\ p'.pendingClear = waiting \ done
        /\ \A s \in Slugs : p'.optCfg[s] = IF s \in done THEN "unknown" ELSE p.optCfg[s]
      BY <2>2, Zenon DEF Flushed
  <2>4. \A t \in Said : NoState[t] = None
      BY DEF NoState, Said, Topics
  <2>5. p.slugs = NamesOf(p.watches)
      BY <1>2 DEF RestInv, HasList
  <2>6. Told' => Told
      BY <2>1, <2>3 DEF chans, Told
  <2>7. \A s \in Slugs, t \in Said :
               /\ broker'[s].state[t] \in {broker[s].state[t], None}
               /\ s \in p.pendingClear /\ s \notin p'.pendingClear /\ s \notin claimedSlugs
                      => broker'[s].state[t] = None
      BY <2>3, <2>4
  <2>8. \A s \in Slugs : /\ p'.optCfg[s] = p.optCfg[s]
                             \/ (p'.optCfg[s] = "unknown" /\ s \notin claimedSlugs)
      BY <2>3
  <2> QED BY <1>2, <2>1, <2>3, <2>5, <2>6, <2>7, <2>8, OwnKept
<1>7. CASE publishOwners
  <2>1. UNCHANGED <<chans, conn, broker, passed, late>>
      BY <1>7, Zenon DEF publishOwners, chans, net, history
  <2>2. p' = p \/ \E rec : p' = [p EXCEPT !.ownersSent = rec]
      BY <1>7, Zenon DEF publishOwners
  <2>3. /\ p'.slugs = p.slugs /\ p'.watches = p.watches /\ p'.want = p.want
        /\ p'.optCfg = p.optCfg /\ p'.pendingClear = p.pendingClear
        /\ broker' = broker /\ (Told' => Told)
      BY <1>1, <2>1, <2>2 DEF PType, chans, Told
  <2> QED BY <1>2, <2>1, <2>3, OwnKept
<1> QED BY <1>3, <1>4, <1>5, <1>6, <1>7

LEMMA NextOwn ==
    ASSUME TypeInv, TypeInv', RestInv, OwnInv, [Next]_vars
    PROVE  OwnInv'
<1>1. CASE UNCHANGED vars
  <2>1. UNCHANGED <<jobs, p, w, broker, conn, connCh, passed, late>>
      BY <1>1 DEF vars, chans, net, retained, history
  <2>2. JobsOwn'
      BY <2>1 DEF OwnInv, JobsOwn
  <2>3. Told' /\ ~Resyncing({"announce"})' => Told /\ ~Resyncing({"announce"})
      BY <2>1 DEF Told, Resyncing
  <2> QED BY <2>1, <2>2, <2>3, OwnKept
<1>2. CASE Next
  <2>1. JobsOwn'
      BY <1>2, OwnJobs DEF OwnInv
  <2>2. CASE Callers \/ Network
      BY <2>1, <2>2, OwnAround
  <2>3. CASE Worker
      BY <2>1, <2>3, OwnPicks, OwnTakesJob, OwnAnnounce, OwnSwap, OwnGoesOn DEF Worker
  <2> QED BY <1>2, <2>2, <2>3 DEF Next
<1> QED BY <1>1, <1>2

LEMMA InitOwn == Init => OwnInv
<1> SUFFICES ASSUME Init PROVE OwnInv
    OBVIOUS
<1>1. p = NewP /\ jobs = <<>> /\ conn = FALSE /\ broker = [s \in Slugs |-> Left(s)]
    BY Zenon DEF Init
<1>2. p.slugs = {} /\ \A s \in Slugs : p.optCfg[s] = "unknown"
    BY <1>1 DEF NewP
<1>3. \A s \in Slugs, t \in Said : Left(s).state[t] \in {None, <<"old">>}
    BY DEF Left, Bare, NoState, Said, Topics
<1>4. JobsOwn /\ StatesOwn /\ ValuesGone
    BY <1>1, <1>2 DEF JobsOwn, StatesOwn, ValuesGone
<1>5. UnclaimedOld /\ TextCleared
    BY <1>1, <1>3 DEF UnclaimedOld, TextCleared, Told
<1> QED BY <1>4, <1>5 DEF OwnInv

\* With nothing left to do, what is still to come of RestInv is there.
LEMMA AtRest ==
    ASSUME TypeInv, RestInv, OwnInv, Quiet, conn, handed, p.listed
    PROVE  /\ p.watches = saved /\ p.slugs = NamesOf(saved)
           /\ \A e \in Winners(saved) : Published(e) /\ OnlyItsOwn(e)
           /\ \A s \in Slugs \ SlugsOf(NamesOf(saved)) :
                 \/ broker[s] = Bare
                 \/ broker[s] = Left(s) /\ (s \in scene.others \cup spared \/ ~Swept)
           /\ Swept => ours = [run |-> "this", slugs |-> claimedSlugs]
           /\ ha.has \subseteq claimedSlugs \cup p.cleared \cup missed \cup Retained
<1>1. /\ w.pc = "idle" /\ syncCh = <<>> /\ jobs = <<>> /\ Told
      /\ (Swept => ~strayCh /\ ~connCh)
    BY DEF Quiet, Swept, Told, RestInv, HasList
<1>2. ~Resyncing({"announce", "swap"}) /\ ~Resyncing({"announce"}) /\ (Swept => ~ToSweep)
    BY <1>1 DEF Resyncing, ToSweep
<1>3. p.watches = saved /\ p.slugs = NamesOf(saved)
    BY <1>1 DEF RestInv, HasList
<1>4. claimedSlugs = SlugsOf(NamesOf(saved)) /\ BeingListed = {} /\ p.pendingClear = {}
    BY <1>1, <1>2, <1>3 DEF claimedSlugs, BeingListed, RestInv, CleanOrPending
<1>5. \A s \in Slugs, t \in Topics : p.want[s][t] # None => broker[s].state[t] = p.want[s][t]
  <2>1. SentIsThere /\ WantIsSent
      BY DEF RestInv, StatesOut
  <2> QED BY <1>1, <1>2, <2>1 DEF SentIsThere, WantIsSent
<1>6. ASSUME NEW e \in Winners(saved)
      PROVE  Published(e)
  <2>1. SlugOf[e.name] \in Slugs
      BY ListInScene, ListTypes DEF TypeInv, WorldType
  <2>2. /\ broker[SlugOf[e.name]].cfg = <<e.name>>
        /\ broker[SlugOf[e.name]].valueCfg = e.number
      BY <1>1, <1>2, <1>3 DEF RestInv, CfgsOut
  <2>3. due[e.name].reading # None =>
            /\ p.want[SlugOf[e.name]].reading = due[e.name].reading
            /\ p.want[SlugOf[e.name]].health # None
            /\ e.number => p.want[SlugOf[e.name]].value = due[e.name].reading
      BY <1>1 DEF RestInv, DueInv, DueReading
  <2>4. due[e.name].health # None => p.want[SlugOf[e.name]].health = due[e.name].health
      BY <1>1 DEF RestInv, DueInv, DueHealth
  <2>5. /\ p.want[SlugOf[e.name]].reading # None =>
              broker[SlugOf[e.name]].state.reading = p.want[SlugOf[e.name]].reading
        /\ p.want[SlugOf[e.name]].value # None =>
              broker[SlugOf[e.name]].state.value = p.want[SlugOf[e.name]].value
        /\ p.want[SlugOf[e.name]].health # None =>
              broker[SlugOf[e.name]].state.health = p.want[SlugOf[e.name]].health
      BY <1>5, <2>1 DEF Topics
  <2> QED BY <1>5, <2>1, <2>2, <2>3, <2>4, <2>5 DEF Published
<1>7. Swept => SweepReady /\ subs /\ ~dupClient /\ arriving = {} /\ strays = {}
  <2>1. Swept => p.sweepOK /\ settled /\ arriving = {} /\ ~dupClient
      BY DEF Swept
  <2>2. Swept => p.followed /\ subs
      BY <1>1, <1>2, <2>1 DEF RestInv, SweepInv
  <2>3. Swept => SweepReady
      BY <2>1, <2>2 DEF SweepReady
  <2> QED BY <1>2, <2>1, <2>2, <2>3 DEF RestInv, SweepInv
<1>8. ASSUME NEW s \in Slugs \ SlugsOf(NamesOf(saved))
      PROVE  \/ broker[s] = Bare
             \/ broker[s] = Left(s) /\ (s \in scene.others \cup spared \/ ~Swept)
  <2>1. broker[s] = Bare \/ broker[s] = Left(s)
      BY <1>4 DEF RestInv, CleanOrPending
  <2>2. CASE broker[s] = Left(s) /\ s \notin scene.others /\ s \in scene.leftover /\ Swept
    <3>1. IsOld(s)
        BY <2>2 DEF IsOld, Left, Bare
    <3>2. s \in arriving \cup strays \cup spared \cup p.pendingClear \cup claimedSlugs
        BY <1>7, <2>2, <3>1 DEF RestInv, SweepInv
    <3> QED BY <1>4, <1>7, <2>2, <3>2
  <2>3. CASE s \notin scene.others /\ s \notin scene.leftover
      BY <2>1, <2>3 DEF Left
  <2> QED BY <2>1, <2>2, <2>3
<1>9. Swept => ours = [run |-> "this", slugs |-> claimedSlugs]
  <2>1. [run |-> "this", slugs |-> claimedSlugs] # NoOurs
      BY DEF NoOurs
  <2> QED BY <1>1, <1>2, <1>7, <2>1 DEF RestInv, RecordOut
<1>10. ha.has \subseteq claimedSlugs \cup p.cleared \cup missed \cup Retained
    BY <1>4 DEF RestInv, GhostInv
<1>11. ASSUME NEW e \in Winners(saved)
       PROVE  OnlyItsOwn(e)
  <2>1. e.name \in p.slugs /\ SlugOf[e.name] \in Slugs
      BY <1>3, ListInScene, ListTypes DEF TypeInv, WorldType, NamesOf
  <2>2. SlugOf[e.name] \notin passed =>
            /\ Own(broker[SlugOf[e.name]].state.reading, e.name)
            /\ Own(broker[SlugOf[e.name]].state.value, e.name)
      BY <2>1 DEF OwnInv, StatesOwn, Said
  <2>3. ~e.number /\ SlugOf[e.name] \notin late => broker[SlugOf[e.name]].state.value = None
      BY <1>1, <1>2, <1>3, <2>1 DEF OwnInv, TextCleared, ValuesGone
  <2> QED BY <2>2, <2>3 DEF OnlyItsOwn
<1> QED BY <1>3, <1>6, <1>8, <1>9, <1>10, <1>11

\* However saves, connections lost and made, a broker that forgot everything, Home
\* Assistant coming and going, readings and a shutdown cross: with the broker connected
\* and nothing left to do, it retains each listed watch's configs, the state last queued
\* for it while the worker had that list, and under its slug nothing of another watch,
\* unless the slug passed to it from that one, nor a value for a watch without a number,
\* unless one came after its clear; under other slugs it retains nothing but another
\* watchglass's and what the sweep could not take; and Home Assistant keeps no device of
\* a watch that is gone unless its clear is to be sent again or could not be known to be
\* missed (Sync, resync, sweepStrays, flushPendingClear, replayClears).
THEOREM ConvergesAtRest == Spec => []Inv
<1>1. Init => TypeInv /\ OthersInv /\ RestInv /\ OwnInv
    BY InitTypes, InitOthers, InitRest, InitOwn
<1>2. TypeInv /\ OthersInv /\ RestInv /\ OwnInv /\ [Next]_vars
          => (TypeInv /\ OthersInv /\ RestInv /\ OwnInv)'
    BY NextTypes, NextOthers, NextRest, NextOwn
<1>3. TypeInv /\ RestInv /\ OwnInv => Converged /\ NoGhost
  <2>1. TypeInv /\ RestInv /\ OwnInv => Converged
      BY AtRest DEF Converged
  <2>2. TypeInv /\ RestInv /\ OwnInv => NoGhost
      BY AtRest DEF NoGhost, Retained
  <2> QED BY <2>1, <2>2
<1>4. TypeOK /\ Converged /\ NoGhost => Inv
    BY DEF Inv
<1> QED BY <1>1, <1>2, <1>3, <1>4, TypeCorrect, PTL DEF Spec
=============================================================================
