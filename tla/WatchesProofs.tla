---------------------------- MODULE WatchesProofs ----------------------------
(* The invariants of Watches, for every set of watches, settings, handlers    *)
(* and bounds.                                                                *)
EXTENDS Watches, TLAPS

AnySetting == Settings \cup {Nothing}
Live == {"idle", "read", "shown", "returned"}
RequestType ==
    [pc : {"idle", "asked", "stop", "wait", "drop", "start", "clear", "fail", "tell"},
     op : {"none", "save", "create", "remove", "move"}, name : Names \cup {None},
     base : AnySetting, updated : AnySetting, old : Nat]
RunType == [pc : Live \cup {"none", "over"}, name : Names \cup {None}, set : AnySetting,
            ts : Nat, down : BOOLEAN, cancelled : BOOLEAN, box : Seq(Nat), owed : Nat]
DeliveryType == [ts : Nat, list : Nat, state : {"none", "settled", "retrying", "dropped"}]
RegType == [samples : Seq(Nat), fired : Nat, sending : Nat, delivery : DeliveryType,
            down : BOOLEAN]
RowType == [ts : Nat, reads : Nat, down : BOOLEAN]

WebType ==
    /\ cfg \in [Names -> AnySetting] /\ told \in [Names -> AnySetting]
    /\ lock \in Handlers \cup {None} /\ req \in [Handlers -> RequestType]
    /\ stale \in BOOLEAN
SupType ==
    /\ bound \in Bounds /\ started \in Nat /\ started <= bound.runs /\ alerts \in Nat
    /\ running \in [Names -> Nat] /\ runs \in [RunIds -> RunType]
    /\ ended \subseteq 1..started /\ joined \subseteq 1..started /\ booting \subseteq Names
PageType ==
    /\ reg \in [Names -> RegType] /\ row \in [Names -> RowType]
    /\ \A w \in Names : Len(reg[w].samples) <= SamplesKept
StopType ==
    /\ phase \in {"boot", "up", "joining", "sends", "down"}
    /\ ctxOver \in BOOLEAN /\ graceOver \in BOOLEAN /\ cut \in 0..started
Types == WebType /\ SupType /\ PageType /\ StopType

\* The request that holds the lock is about w, and where it is.
Holds(w) == lock # None /\ req[lock].name = w
At(w, pcs) == Holds(w) /\ req[lock].pc \in pcs

Steps(op) ==
    CASE op = "save"   -> {"stop", "wait", "drop", "start", "clear", "fail", "tell"}
      [] op = "move"   -> {"stop", "wait", "drop", "start", "tell"}
      [] op = "remove" -> {"stop", "wait", "drop", "tell"}
      [] op = "create" -> {"start", "tell"}
      [] op = "none"   -> {}
RequestOk(h) ==
    /\ lock = h <=> req[h].pc \notin {"idle", "asked"}
    /\ req[h].pc = "idle" => req[h] = NoRequest
    /\ req[h].pc # "idle" => req[h].name \in Names /\ req[h].op # "none"
    /\ req[h].pc = "asked" /\ req[h].op \in {"save", "create"} => req[h].updated \in Settings
    /\ req[h].pc = "asked" /\ req[h].op = "remove" => req[h].updated = Nothing
    /\ lock = h => req[h].pc \in Steps(req[h].op)
    /\ req[h].old # None =>
          /\ req[h].pc = "wait" /\ req[h].old \in 1..started
          /\ runs[req[h].old].name = req[h].name /\ runs[req[h].old].cancelled
RequestsOk == \A h \in Handlers : RequestOk(h)

RunOk(r) ==
    /\ runs[r].pc = "none" => runs[r] = NoRun
    /\ runs[r].pc # "none" => /\ r <= started /\ runs[r].name \in Names
                              /\ runs[r].set \in Settings
    /\ runs[r].pc \in {"idle", "returned"} => runs[r].ts = 0
    /\ runs[r].pc = "shown" => runs[r].ts # 0
    /\ runs[r].ts <= alerts /\ runs[r].owed <= alerts
    /\ \A i \in 1..Len(runs[r].box) : runs[r].box[i] \in 1..alerts
RunsOk == \A r \in RunIds : RunOk(r)

\* The run a watch has is its own, lives, and ends only with the process.
RunningOk ==
    \A w \in Names : running[w] # None =>
        LET r == running[w] IN
        /\ r \in 1..started /\ runs[r].name = w /\ runs[r].pc \in Live
        /\ ~runs[r].cancelled /\ r \notin joined
        /\ runs[r].pc = "returned" => ctxOver

\* A run that lives is in reach, and one that was not cancelled is where StopAll
\* finds it.
Reached ==
    \A r \in RunIds : runs[r].pc \in Live =>
        \/ r \in joined
        \/ running[runs[r].name] = r
        \/ lock # None /\ req[lock].pc = "wait" /\ req[lock].old = r
Known ==
    \A r \in RunIds : runs[r].pc # "none" /\ ~runs[r].cancelled =>
        r \in joined \/ r \in ended \/ running[runs[r].name] = r
Ended == \A r \in ended : runs[r].pc = "over"

Serving == phase \in {"boot", "up"}
StopsAll ==
    /\ Serving => joined = {}
    /\ ~Serving => \A r \in 1..cut : runs[r].pc # "none" /\ ~runs[r].cancelled => r \in joined
    /\ phase \in {"sends", "down"} => \A r \in joined : Over(r)
    /\ phase = "down" /\ ~graceOver => \A r \in joined : Sent(r)
Boots ==
    /\ phase = "boot" => ~ctxOver /\ told = cfg /\ \A h \in Handlers : req[h].pc = "idle"
    /\ phase # "boot" => booting = {}
    /\ \A w \in booting : running[w] = None /\ cfg[w] # Nothing

\* Between a change and its Stop the watch runs as it was; until the request is
\* done Home Assistant has not been told.
SavedOf(w) ==
    /\ running[w] # None => /\ cfg[w] = runs[running[w]].set \/ At(w, {"stop"})
                            /\ told[w] = cfg[w] \/ Holds(w)
                            /\ ~At(w, {"wait", "drop", "start", "fail"})
    /\ cfg[w].starts /\ ~ctxOver =>
          running[w] # None \/ w \in booting \/ At(w, {"stop", "wait", "drop", "start"})
    /\ cfg[w] = Nothing /\ ~Holds(w) => told[w] = Nothing /\ running[w] = None
    /\ Holds(w) => (cfg[w] = Nothing <=> req[lock].op = "remove")

\* Nothing is left of a watch that is gone, or not there yet.
GoneOf(w) ==
    /\ \/ cfg[w] = Nothing /\ ~Holds(w)
       \/ At(w, {"start"}) /\ req[lock].op = "create"
       => reg[w] = Blank /\ row[w] = NoRow /\ running[w] = None
    /\ At(w, {"tell"}) /\ req[lock].op = "remove" => reg[w] = Blank /\ running[w] = None

DownOf(w) == DownIsTrue(w) /\ (reg[w].down => row[w].down)

\* What the samples and the delivery of a watch, and the run that is stopped, were
\* about before the save.
SamplesAre(w, reads) == \A i \in 1..Len(reg[w].samples) : reg[w].samples[i] = reads
Saving(w, pcs) == At(w, pcs) /\ req[lock].op = "save"
AboutOf(w) ==
    /\ Saving(w, {"stop", "wait", "drop"}) => SamplesAre(w, req[lock].base.reads)
    /\ cfg[w] # Nothing /\ ~At(w, {"stop", "wait", "drop"}) => SamplesAre(w, cfg[w].reads)
    /\ Saving(w, {"stop"}) /\ running[w] # None => runs[running[w]].set = req[lock].base
    /\ At(w, {"stop"}) /\ req[lock].op = "move" /\ running[w] # None =>
          runs[running[w]].set.notify = cfg[w].notify
    /\ Saving(w, {"wait"}) /\ req[lock].old # None =>
          runs[req[lock].old].set = req[lock].base
    /\ cfg[w] # Nothing /\ reg[w].delivery.ts # 0 =>
          \/ reg[w].delivery.list = cfg[w].notify
          \/ /\ Saving(w, {"stop", "wait", "drop", "start", "clear", "fail"})
             /\ reg[w].delivery.list = req[lock].base.notify

WatchOk(w) ==
    /\ SavedOf(w) /\ GoneOf(w) /\ DownOf(w)
    /\ ~ctxOver => SendingIsTrue(w) /\ RetryingIsTrue(w)
    /\ ~stale => AboutOf(w)
WatchesOk == Serving => \A w \in Names : WatchOk(w)

Control ==
    /\ RequestsOk /\ RunsOk /\ RunningOk /\ Reached /\ Known /\ Ended /\ StopsAll /\ Boots
IInv == Types /\ Control /\ WatchesOk

-----------------------------------------------------------------------------
(* The registry's operators. *)

LEMMA ElementIs == \A S : \A q \in Seq(S) : \A i \in 1..Len(q) : q[i] \in S
OBVIOUS

LEMMA SetDeliveryIs ==
    ASSUME NEW g \in RegType, NEW d \in DeliveryType
    PROVE  SetDelivery(g, d) \in RegType /\ SetDelivery(g, d).samples = g.samples
BY DEF SetDelivery, RegType

\* What does not touch the samples keeps the type, and changes no other field.
LEMMA PageOps ==
    ASSUME NEW g \in RegType, NEW ts \in Nat, NEW down \in BOOLEAN, NEW d \in DeliveryType
    PROVE  /\ \A g2 \in {SeedFired(g, ts), SetSending(g, ts), ClearSending(g),
                         ClearDelivery(g), EndRetrying(g), SetHealth(g, down),
                         SetDelivery(g, d)} :
                 g2 \in RegType /\ g2.samples = g.samples
           /\ DropSamples(g) \in RegType
           /\ Blank \in RegType
<1>1. NoDelivery \in DeliveryType
    BY DEF NoDelivery, DeliveryType
<1>2. SeedFired(g, ts) \in RegType /\ SeedFired(g, ts).samples = g.samples
    BY DEF SeedFired, RegType
<1>3. SetSending(g, ts) \in RegType /\ SetSending(g, ts).samples = g.samples
    BY DEF SetSending, RegType
<1>4. ClearSending(g) \in RegType /\ ClearSending(g).samples = g.samples
    BY DEF ClearSending, RegType
<1>5. ClearDelivery(g) \in RegType /\ ClearDelivery(g).samples = g.samples
    BY <1>1 DEF ClearDelivery, RegType
<1>6. EndRetrying(g) \in RegType /\ EndRetrying(g).samples = g.samples
    BY DEF EndRetrying, RegType, DeliveryType
<1>7. SetHealth(g, down) \in RegType /\ SetHealth(g, down).samples = g.samples
    BY DEF SetHealth, RegType
<1>8. SetDelivery(g, d) \in RegType /\ SetDelivery(g, d).samples = g.samples
    BY SetDeliveryIs
<1>9. DropSamples(g) \in RegType /\ Blank \in RegType
  <2>1. <<>> \in Seq(Nat)
      OBVIOUS
  <2> QED BY <1>1, <2>1 DEF DropSamples, Blank, RegType
<1> QED BY <1>2, <1>3, <1>4, <1>5, <1>6, <1>7, <1>8, <1>9

\* The newest sample is put before the others, and the oldest go.
LEMMA AddIs ==
    ASSUME NEW g \in RegType, Len(g.samples) <= SamplesKept, NEW x \in Nat, NEW ts \in Nat
    PROVE  /\ Add(g, x, ts) \in RegType
           /\ Len(Add(g, x, ts).samples) <= SamplesKept
           /\ \A i \in 1..Len(Add(g, x, ts).samples) :
                 \/ Add(g, x, ts).samples[i] = x
                 \/ \E j \in 1..Len(g.samples) : Add(g, x, ts).samples[i] = g.samples[j]
           /\ Add(g, x, ts).sending = g.sending /\ Add(g, x, ts).delivery = g.delivery
           /\ Add(g, x, ts).down = g.down
<1> DEFINE s == g.samples
           n == IF Len(s) < SamplesKept THEN Len(s) + 1 ELSE SamplesKept
           more == <<x>> \o s
           kept == SubSeq(more, 1, n)
<1>1. /\ s \in Seq(Nat) /\ Len(s) \in Nat /\ SamplesKept \in Nat \ {0}
    BY SettingAssumption DEF RegType
<1>2. /\ more \in Seq(Nat) /\ Len(more) = Len(s) + 1
      /\ \A i \in 1..Len(more) : more[i] = IF i = 1 THEN x ELSE s[i - 1]
    BY <1>1
<1>3. n \in 1..Len(more) /\ n <= SamplesKept
    BY <1>1, <1>2
<1> HIDE DEF more, n
<1>4. kept \in Seq(Nat) /\ Len(kept) = n /\ \A i \in 1..n : kept[i] = more[i]
    BY <1>2, <1>3
<1>5. \A i \in 1..n : i \in 1..Len(more) /\ (i # 1 => i - 1 \in 1..Len(s))
    BY <1>1, <1>2, <1>3
<1>6. \A i \in 1..Len(kept) : kept[i] = x \/ \E j \in 1..Len(s) : kept[i] = s[j]
    BY <1>2, <1>4, <1>5
<1>7. Add(g, x, ts) = [g EXCEPT !.samples = kept, !.fired = IF ts > @ THEN ts ELSE @]
    BY DEF Add, more, n
<1> HIDE DEF kept
<1>8. /\ Add(g, x, ts) \in RegType /\ Add(g, x, ts).samples = kept
      /\ Add(g, x, ts).sending = g.sending /\ Add(g, x, ts).delivery = g.delivery
      /\ Add(g, x, ts).down = g.down
    BY <1>4, <1>7 DEF RegType
<1> QED BY <1>3, <1>4, <1>6, <1>8

LEMMA Zeros ==
    /\ NoRow \in RowType /\ NoRun \in RunType /\ NoRequest \in RequestType
    /\ Nothing \in AnySetting /\ ~Nothing.starts /\ Nothing \notin Settings
    /\ NoRun.pc = "none" /\ NoRequest.pc = "idle"
<1>1. <<>> \in Seq(Nat)
    OBVIOUS
<1>2. Nothing \notin Settings
    BY SettingAssumption DEF Nothing
<1> QED BY <1>1, <1>2 DEF NoRow, NoRun, NoRequest, RowType, RunType, RequestType, AnySetting,
           Nothing, None, Live

LEMMA SettingIs ==
    ASSUME NEW s \in AnySetting
    PROVE  /\ s.reads \in Nat /\ s.notify \in Nat /\ s.starts \in BOOLEAN
           /\ s \in Settings => s.reads # 0
           /\ s # Nothing => s \in Settings
<1>1. CASE s \in Settings
    BY <1>1, SettingAssumption
<1>2. CASE s = Nothing
    BY <1>2, SettingAssumption DEF Nothing
<1> QED BY <1>1, <1>2 DEF AnySetting

-----------------------------------------------------------------------------
(* A step of a run, but its last.                                            *)

\* What is said of the run that steps, and of what it does to the page of its watch:
\* only a run that lives or is the watch's touches it, and only the watch's own run
\* what is said of its alerts.
RunKeeps(r) ==
    /\ UNCHANGED <<cfg, told, lock, req, stale, running, ended, booting, started, phase,
                   ctxOver, joined, graceOver, cut, bound>>
    /\ alerts <= alerts'
    /\ runs[r].pc # "none" /\ runs'[r].pc # "none"
    /\ \A q \in RunIds : q # r => runs'[q] = runs[q]
    /\ runs'[r].name = runs[r].name /\ runs'[r].set = runs[r].set
    /\ runs'[r].cancelled = runs[r].cancelled
    /\ runs'[r].pc \in Live <=> runs[r].pc \in Live
    /\ runs[r].pc = "over" => runs'[r].pc = "over"
    /\ runs'[r].pc = "returned" => Cancelled(r) \/ runs[r].pc = "returned"
    /\ RunOk(r)'
PageKeeps(r) ==
    LET w == runs[r].name IN
    /\ \A v \in Names : v # w => reg'[v] = reg[v] /\ row'[v] = row[v]
    /\ runs[r].pc \in Live \/ running[w] = r \/ (reg'[w] = reg[w] /\ row'[w] = row[w])
    /\ \/ runs'[r].down = reg'[w].down /\ reg'[w].down = row'[w].down
       \/ /\ runs'[r].down = runs[r].down /\ reg'[w].down = reg[w].down
          /\ row'[w].down = row[w].down
    /\ running[w] = r =>
          /\ SendingIsTrue(w) /\ reg'[w].sending # 0 =>
                Contains(runs'[r].box, reg'[w].sending)
          /\ RetryingIsTrue(w) /\ reg'[w].delivery.state = "retrying" =>
                runs'[r].owed = reg'[w].delivery.ts
          /\ \/ reg'[w].delivery = reg[w].delivery
             \/ reg'[w].delivery.list = runs[r].set.notify
    /\ running[w] # r =>
          reg'[w].sending = reg[w].sending /\ reg'[w].delivery = reg[w].delivery
    /\ \A i \in 1..Len(reg'[w].samples) :
          \/ reg'[w].samples[i] = runs[r].set.reads /\ runs[r].pc \in Live
          \/ \E j \in 1..Len(reg[w].samples) : reg'[w].samples[i] = reg[w].samples[j]

LEMMA RunIdsIs == ASSUME Types PROVE RunIds \subseteq Nat /\ 1..started \subseteq RunIds
BY SettingAssumption DEF Types, SupType, RunIds

LEMMA RunControl ==
    ASSUME Types, Types', Control, phase # "down", NEW r \in RunIds, RunKeeps(r)
    PROVE  Control'
<1>1. /\ UNCHANGED <<cfg, told, lock, req, stale, running, ended, booting, started, phase,
                     ctxOver, joined, graceOver, cut, bound>>
      /\ RunIds' = RunIds /\ Serving' = Serving /\ alerts <= alerts'
      /\ alerts \in Nat /\ alerts' \in Nat
    BY DEF RunKeeps, RunIds, Serving, Types, SupType
<1>2. \A q \in RunIds :
         /\ runs'[q].name = runs[q].name /\ runs'[q].set = runs[q].set
         /\ runs'[q].cancelled = runs[q].cancelled
         /\ runs'[q].pc \in Live <=> runs[q].pc \in Live
         /\ runs[q].pc = "over" => runs'[q].pc = "over"
         /\ runs'[q].pc = "none" <=> runs[q].pc = "none"
    BY DEF RunKeeps
<1>3. RequestsOk'
  <2> SUFFICES ASSUME NEW h \in Handlers PROVE RequestOk(h)'
      BY DEF RequestsOk
  <2>1. RequestOk(h) /\ 1..started \subseteq RunIds
      BY RunIdsIs DEF Control, RequestsOk
  <2> QED BY <1>1, <1>2, <2>1 DEF RequestOk
<1>4. RunsOk'
  <2> SUFFICES ASSUME NEW q \in RunIds PROVE RunOk(q)'
      BY <1>1 DEF RunsOk
  <2>1. CASE q = r
      BY <2>1 DEF RunKeeps
  <2>2. CASE q # r
    <3>1. runs'[q] = runs[q] /\ RunOk(q)
        BY <2>2 DEF RunKeeps, Control, RunsOk
    <3>2. runs[q] \in RunType
        BY DEF Types, SupType
    <3>3. runs[q].ts \in Nat /\ runs[q].owed \in Nat /\ started' >= started
        BY <1>1, <3>2 DEF RunType, Types, SupType
    <3>4. \A i \in 1..Len(runs[q].box) : runs[q].box[i] \in 1..alerts'
        BY <1>1, <3>1 DEF RunOk
    <3> QED BY <1>1, <3>1, <3>3, <3>4, SMTT(20) DEF RunOk
  <2> QED BY <2>1, <2>2
<1>5. RunningOk'
  <2> SUFFICES ASSUME NEW v \in Names, running[v] # None
               PROVE  LET q == running[v] IN
                      /\ q \in 1..started /\ runs'[q].name = v /\ runs'[q].pc \in Live
                      /\ ~runs'[q].cancelled /\ q \notin joined
                      /\ runs'[q].pc = "returned" => ctxOver
      BY <1>1 DEF RunningOk
  <2> DEFINE q == running[v]
  <2>1. /\ q \in 1..started /\ runs[q].name = v /\ runs[q].pc \in Live
        /\ ~runs[q].cancelled /\ q \notin joined
        /\ runs[q].pc = "returned" => ctxOver
      BY DEF Control, RunningOk
  <2>2. q \in RunIds
      BY <2>1, RunIdsIs
  <2>3. runs'[q].pc = "returned" => ctxOver
    <3>1. CASE q = r
        BY <2>1, <3>1 DEF RunKeeps, Cancelled
    <3>2. CASE q # r
        BY <2>1, <2>2, <3>2 DEF RunKeeps
    <3> QED BY <3>1, <3>2
  <2> QED BY <1>2, <2>1, <2>2, <2>3
<1>6. Reached' /\ Known'
    BY <1>1, <1>2 DEF Control, Reached, Known
<1>7. Ended'
    BY <1>1, <1>2, RunIdsIs DEF Control, Ended, Types, SupType
<1>8. StopsAll'
  <2>1. 1..cut \subseteq RunIds /\ joined \subseteq RunIds
      BY RunIdsIs DEF Types, SupType, StopType
  <2> QED BY <1>1, <1>2, <2>1 DEF Control, StopsAll, Over
<1>9. Boots'
    BY <1>1 DEF Control, Boots
<1> QED BY <1>3, <1>4, <1>5, <1>6, <1>7, <1>8, <1>9 DEF Control

\* While the process serves, a run that lives and is not its watch's is the one a
\* request waits for, and the watch has none.
LEMMA Waited ==
    ASSUME Types, Control, Serving, NEW r \in RunIds, runs[r].pc \in Live,
           running[runs[r].name] # r, WatchOk(runs[r].name)
    PROVE  /\ At(runs[r].name, {"wait"}) /\ req[lock].old = r /\ req[lock].old # None
           /\ running[runs[r].name] = None
<1>1. joined = {}
    BY DEF Control, StopsAll
<1>2. lock # None /\ req[lock].pc = "wait" /\ req[lock].old = r
    BY <1>1 DEF Control, Reached
<1>3. lock \in Handlers /\ r # None
    BY <1>2, RunIdsIs DEF Types, WebType, RunIds, None
<1>4. runs[r].name = req[lock].name
    BY <1>2, <1>3 DEF Control, RequestsOk, RequestOk
<1>5. At(runs[r].name, {"wait"})
    BY <1>2, <1>4 DEF At, Holds
<1> QED BY <1>2, <1>3, <1>5 DEF WatchOk, SavedOf, At

LEMMA RunPages ==
    ASSUME Types, Types', Control, WatchesOk, NEW r \in RunIds, RunKeeps(r), PageKeeps(r)
    PROVE  WatchesOk'
<1> SUFFICES ASSUME Serving, NEW v \in Names PROVE WatchOk(v)'
    BY DEF WatchesOk, RunKeeps, Serving
<1> DEFINE w == runs[r].name
<1>1. /\ UNCHANGED <<cfg, told, lock, req, stale, running, ended, booting, started, phase,
                     ctxOver, joined, graceOver, cut, bound>>
      /\ WatchOk(v) /\ w \in Names /\ WatchOk(w)
    BY DEF RunKeeps, WatchesOk, Control, RunsOk, RunOk
<1>2. /\ \A pcs : At(v, pcs)' <=> At(v, pcs)
      /\ Holds(v)' <=> Holds(v)
      /\ \A pcs : Saving(v, pcs)' <=> Saving(v, pcs)
    BY <1>1 DEF At, Holds, Saving
<1>3. \A q \in RunIds : runs'[q].set = runs[q].set
    BY DEF RunKeeps
<1>4. running[v] # None => running[v] \in RunIds /\ runs[running[v]].name = v
    BY RunIdsIs DEF Control, RunningOk
<1>5. SavedOf(v)'
    BY <1>1, <1>2, <1>3, <1>4 DEF SavedOf, WatchOk
<1>6. CASE v # w
  <2>1. reg'[v] = reg[v] /\ row'[v] = row[v]
      BY <1>6 DEF PageKeeps
  <2>2. running[v] # None => runs'[running[v]] = runs[running[v]]
      BY <1>4, <1>6 DEF RunKeeps
  <2>3. GoneOf(v)' /\ DownOf(v)'
      BY <1>1, <1>2, <2>1, <2>2 DEF WatchOk, GoneOf, DownOf, DownIsTrue
  <2>4. ~ctxOver => SendingIsTrue(v)' /\ RetryingIsTrue(v)'
      BY <1>1, <2>1, <2>2 DEF WatchOk, SendingIsTrue, RetryingIsTrue
  <2>5. ASSUME ~stale PROVE AboutOf(v)'
    <3>1. Saving(v, {"wait"}) /\ req[lock].old # None => req[lock].old \in RunIds
        BY RunIdsIs DEF Control, RequestsOk, RequestOk, Saving, At, Holds, Types, WebType
    <3> QED BY <1>1, <1>2, <1>3, <1>4, <2>1, <2>5, <3>1 DEF WatchOk, AboutOf, SamplesAre
  <2> QED BY <1>1, <1>5, <2>3, <2>4, <2>5 DEF WatchOk
<1>7. CASE v = w
  <2>1. CASE running[w] = r
    <3>1. r # None /\ running[v] # None
        BY <1>7, <2>1, RunIdsIs DEF RunIds, None
    <3>2. GoneOf(v)'
        BY <1>1, <1>2, <3>1 DEF WatchOk, GoneOf
    <3>3. DownOf(v)'
      <4>1. /\ reg[v].down = runs[r].down /\ row[v].down = runs[r].down
            /\ reg[v].down => row[v].down
          BY <1>1, <1>7, <2>1, <3>1 DEF WatchOk, DownOf, DownIsTrue
      <4>2. \/ runs'[r].down = reg'[v].down /\ reg'[v].down = row'[v].down
            \/ /\ runs'[r].down = runs[r].down /\ reg'[v].down = reg[v].down
               /\ row'[v].down = row[v].down
          BY <1>7 DEF PageKeeps
      <4>3. running'[v] = r /\ reg'[v].down = runs'[r].down /\ row'[v].down = runs'[r].down
          BY <1>1, <1>7, <2>1, <4>1, <4>2
      <4> QED BY <4>2, <4>3 DEF DownOf, DownIsTrue
    <3>4. ~ctxOver => SendingIsTrue(v)' /\ RetryingIsTrue(v)'
        BY <1>1, <1>7, <2>1, <3>1 DEF WatchOk, PageKeeps, SendingIsTrue, RetryingIsTrue
    <3>5. ASSUME ~stale PROVE AboutOf(v)'
      <4>1. /\ ~At(v, {"wait", "drop", "start", "fail"})
            /\ cfg[v] = runs[r].set \/ At(v, {"stop"})
          BY <1>1, <1>7, <2>1, <3>1 DEF WatchOk, SavedOf
      <4>2. ~Saving(v, {"wait"})
          BY <4>1 DEF Saving, At
      <4>3. AboutOf(v)
          BY <1>1, <3>5 DEF WatchOk
      <4>4. /\ Saving(v, {"stop", "wait", "drop"}) => Saving(v, {"stop"})
            /\ ~At(v, {"stop", "wait", "drop"}) => ~At(v, {"stop"})
          BY <4>1 DEF Saving, At
      <4>5. Saving(v, {"stop", "wait", "drop"}) => SamplesAre(v, req[lock].base.reads)'
        <5> SUFFICES ASSUME Saving(v, {"stop", "wait", "drop"}), NEW i \in 1..Len(reg'[v].samples)
                     PROVE  reg'[v].samples[i] = req[lock].base.reads
            BY <1>1 DEF SamplesAre
        <5>1. Saving(v, {"stop"}) /\ SamplesAre(v, req[lock].base.reads)
            BY <4>3, <4>4 DEF AboutOf
        <5>2. runs[r].set = req[lock].base
            BY <1>7, <2>1, <3>1, <4>3, <5>1 DEF AboutOf
        <5>3. \/ reg'[v].samples[i] = runs[r].set.reads
              \/ \E j \in 1..Len(reg[v].samples) : reg'[v].samples[i] = reg[v].samples[j]
            BY <1>7 DEF PageKeeps
        <5> QED BY <5>1, <5>2, <5>3 DEF SamplesAre
      <4>6. cfg[v] # Nothing /\ ~At(v, {"stop", "wait", "drop"}) =>
               SamplesAre(v, cfg[v].reads)'
          BY <1>1, <1>7, <2>1, <4>1, <4>3, <4>4 DEF AboutOf, SamplesAre, PageKeeps
      <4>7. \/ reg'[v].delivery = reg[v].delivery
            \/ reg'[v].delivery.list = runs[r].set.notify
          BY <1>7, <2>1 DEF PageKeeps
      <4>8. ASSUME cfg[v] # Nothing, reg'[v].delivery.ts # 0
            PROVE  \/ reg'[v].delivery.list = cfg[v].notify
                   \/ /\ Saving(v, {"stop", "wait", "drop", "start", "clear", "fail"})
                      /\ reg'[v].delivery.list = req[lock].base.notify
        <5>1. CASE reg'[v].delivery = reg[v].delivery
            BY <4>3, <4>8, <5>1 DEF AboutOf
        <5>2. CASE reg'[v].delivery.list = runs[r].set.notify /\ cfg[v] = runs[r].set
            BY <5>2
        <5>3. CASE reg'[v].delivery.list = runs[r].set.notify /\ At(v, {"stop"})
          <6>1. lock \in Handlers /\ req[lock].op \in {"save", "move", "remove"}
              BY <5>3 DEF At, Holds, Control, RequestsOk, RequestOk, Types, WebType, Steps,
                 RequestType
          <6>2. req[lock].op # "remove"
              BY <1>1, <4>8, <5>3 DEF WatchOk, SavedOf, At
          <6>3. CASE req[lock].op = "save"
            <7>1. /\ Saving(v, {"stop"})
                  /\ Saving(v, {"stop", "wait", "drop", "start", "clear", "fail"})
                BY <5>3, <6>3 DEF Saving, At
            <7>2. runs[r].set = req[lock].base
                BY <1>7, <2>1, <3>1, <4>3, <7>1 DEF AboutOf
            <7> QED BY <5>3, <7>1, <7>2
          <6>4. CASE req[lock].op = "move"
              BY <1>7, <2>1, <3>1, <4>3, <5>3, <6>4 DEF AboutOf
          <6> QED BY <6>1, <6>2, <6>3, <6>4
        <5> QED BY <4>1, <4>7, <5>1, <5>2, <5>3
      <4>9. /\ Saving(v, {"stop"}) /\ running[v] # None =>
                 runs'[running[v]].set = req[lock].base
            /\ At(v, {"stop"}) /\ req[lock].op = "move" /\ running[v] # None =>
                 runs'[running[v]].set.notify = cfg[v].notify
          BY <1>3, <1>4, <4>3 DEF AboutOf
      <4> QED BY <1>1, <1>2, <4>2, <4>5, <4>6, <4>8, <4>9 DEF AboutOf
    <3> QED BY <1>1, <1>5, <3>2, <3>3, <3>4, <3>5 DEF WatchOk
  <2>2. CASE running[w] # r /\ runs[r].pc \in Live
    <3>1. /\ At(v, {"wait"}) /\ req[lock].old = r /\ req[lock].old # None
          /\ running[v] = None
        BY <1>1, <1>7, <2>2, Waited
    <3>2. reg'[v].sending = reg[v].sending /\ reg'[v].delivery = reg[v].delivery
        BY <1>7, <2>2 DEF PageKeeps
    <3>3. GoneOf(v)'
        BY <1>1, <1>2, <3>1 DEF GoneOf, At
    <3>4. DownOf(v)'
        BY <1>1, <1>7, <3>1 DEF WatchOk, DownOf, DownIsTrue, PageKeeps
    <3>5. ~ctxOver => SendingIsTrue(v)' /\ RetryingIsTrue(v)'
        BY <1>1, <3>1, <3>2 DEF WatchOk, SendingIsTrue, RetryingIsTrue
    <3>6. ASSUME ~stale PROVE AboutOf(v)'
      <4>1. AboutOf(v)
          BY <1>1, <3>6 DEF WatchOk
      <4>2. Saving(v, {"stop", "wait", "drop"}) => SamplesAre(v, req[lock].base.reads)'
        <5>1. Saving(v, {"stop", "wait", "drop"}) => runs[r].set = req[lock].base
            BY <3>1, <4>1 DEF AboutOf, Saving, At
        <5>2. \A i \in 1..Len(reg'[v].samples) :
                 \/ reg'[v].samples[i] = runs[r].set.reads
                 \/ \E j \in 1..Len(reg[v].samples) : reg'[v].samples[i] = reg[v].samples[j]
            BY <1>7 DEF PageKeeps
        <5> QED BY <1>1, <4>1, <5>1, <5>2 DEF AboutOf, SamplesAre
      <4>3. At(v, {"stop", "wait", "drop"}) /\ ~At(v, {"stop"})
          BY <3>1 DEF At
      <4>4. Saving(v, {"wait"}) => runs'[req[lock].old].set = req[lock].base
          BY <1>3, <3>1, <4>1 DEF AboutOf
      <4> QED BY <1>1, <1>2, <3>1, <3>2, <4>1, <4>2, <4>3, <4>4 DEF AboutOf
    <3> QED BY <1>1, <1>5, <3>3, <3>4, <3>5, <3>6 DEF WatchOk
  <2>3. CASE running[w] # r /\ runs[r].pc \notin Live
    <3>1. reg'[v] = reg[v] /\ row'[v] = row[v]
        BY <1>7, <2>3 DEF PageKeeps
    <3>2. running[v] # None => runs'[running[v]] = runs[running[v]]
        BY <1>4, <1>7, <2>3 DEF RunKeeps
    <3>3. GoneOf(v)' /\ DownOf(v)'
        BY <1>1, <1>2, <3>1, <3>2 DEF WatchOk, GoneOf, DownOf, DownIsTrue
    <3>4. ~ctxOver => SendingIsTrue(v)' /\ RetryingIsTrue(v)'
        BY <1>1, <3>1, <3>2 DEF WatchOk, SendingIsTrue, RetryingIsTrue
    <3>5. ASSUME ~stale PROVE AboutOf(v)'
      <4>1. Saving(v, {"wait"}) /\ req[lock].old # None => req[lock].old \in RunIds
          BY RunIdsIs DEF Control, RequestsOk, RequestOk, Saving, At, Holds, Types, WebType
      <4> QED BY <1>1, <1>2, <1>3, <1>4, <3>1, <3>5, <4>1 DEF WatchOk, AboutOf, SamplesAre
    <3> QED BY <1>1, <1>5, <3>3, <3>4, <3>5 DEF WatchOk
  <2> QED BY <2>1, <2>2, <2>3
<1> QED BY <1>6, <1>7

\* The actions of a run one by one: x is the run, g its watch's page and o its row
\* when the step is done.
LEMMA RunTypes ==
    ASSUME Types, NEW r \in RunIds, NEW x \in RunType, NEW g \in RegType, NEW o \in RowType,
           UNCHANGED <<webVars, running, ended, booting, started, stopVars, bound>>,
           alerts' \in Nat, alerts <= alerts', Len(g.samples) <= SamplesKept,
           runs[r].name \in Names,
           runs' = [runs EXCEPT ![r] = x],
           reg' = [reg EXCEPT ![runs[r].name] = g],
           row' = [row EXCEPT ![runs[r].name] = o]
    PROVE  /\ Types'
           /\ UNCHANGED <<cfg, told, lock, req, stale, running, ended, booting, started, phase,
                          ctxOver, joined, graceOver, cut, bound>>
           /\ runs'[r] = x /\ reg'[runs[r].name] = g /\ row'[runs[r].name] = o
           /\ \A q \in RunIds : q # r => runs'[q] = runs[q]
           /\ \A v \in Names : v # runs[r].name => reg'[v] = reg[v] /\ row'[v] = row[v]
<1>1. UNCHANGED <<cfg, told, lock, req, stale, running, ended, booting, started, phase,
                  ctxOver, joined, graceOver, cut, bound>> /\ RunIds' = RunIds
    BY DEF webVars, stopVars, RunIds
<1>2. /\ runs \in [RunIds -> RunType] /\ reg \in [Names -> RegType] /\ row \in [Names -> RowType]
      /\ \A w \in Names : Len(reg[w].samples) <= SamplesKept
    BY DEF Types, SupType, PageType
<1>3. /\ runs' \in [RunIds -> RunType] /\ reg' \in [Names -> RegType]
      /\ row' \in [Names -> RowType]
      /\ runs'[r] = x /\ reg'[runs[r].name] = g /\ row'[runs[r].name] = o
      /\ \A q \in RunIds : q # r => runs'[q] = runs[q]
      /\ \A v \in Names : v # runs[r].name => reg'[v] = reg[v] /\ row'[v] = row[v]
    BY <1>2
<1>4. \A w \in Names : Len(reg'[w].samples) <= SamplesKept
    BY <1>2, <1>3
<1>5. WebType' /\ StopType'
    BY <1>1 DEF Types, WebType, StopType
<1>6. SupType' /\ PageType'
    BY <1>1, <1>3, <1>4 DEF Types, SupType, PageType
<1> QED BY <1>1, <1>3, <1>5, <1>6 DEF Types

RunPre(r) ==
    /\ Types /\ Control /\ WatchesOk /\ phase # "down" /\ r \in RunIds /\ UNCHANGED bound
RunPost(r) == Types' /\ RunKeeps(r) /\ PageKeeps(r)

LEMMA RunFacts ==
    ASSUME NEW r, RunPre(r), runs[r].pc # "none"
    PROVE  /\ runs[r] \in RunType /\ runs[r].name \in Names /\ runs[r].set \in Settings
           /\ runs[r].set.reads \in Nat \ {0} /\ runs[r].set.notify \in Nat
           /\ reg[runs[r].name] \in RegType /\ row[runs[r].name] \in RowType
           /\ Len(reg[runs[r].name].samples) <= SamplesKept
           /\ RunOk(r) /\ alerts \in Nat /\ Types /\ r \in RunIds
<1>1. RunOk(r) /\ runs[r].set \in Settings /\ runs[r].name \in Names /\ r \in RunIds
    BY DEF RunPre, Control, RunsOk, RunOk
<1>2. runs[r].set.reads \in Nat \ {0} /\ runs[r].set.notify \in Nat
    BY <1>1, SettingAssumption
<1> QED BY <1>1, <1>2 DEF RunPre, Types, SupType, PageType

\* What run r may become, n alerts having been raised, and with it the page and the
\* row of its watch.
RunTo(r, x, n) ==
    /\ x \in RunType /\ n \in Nat /\ alerts <= n
    /\ x.pc # "none" /\ x.name = runs[r].name /\ x.set = runs[r].set
    /\ x.cancelled = runs[r].cancelled
    /\ x.pc \in Live <=> runs[r].pc \in Live
    /\ runs[r].pc = "over" => x.pc = "over"
    /\ x.pc = "returned" => Cancelled(r) \/ runs[r].pc = "returned"
    /\ x.pc \in {"idle", "returned"} => x.ts = 0
    /\ x.pc = "shown" => x.ts # 0
    /\ x.ts <= n /\ x.owed <= n
    /\ \A i \in 1..Len(x.box) : x.box[i] \in 1..n
PageTo(r, x, g, o) ==
    LET w == runs[r].name IN
    /\ g \in RegType /\ o \in RowType /\ Len(g.samples) <= SamplesKept
    /\ runs[r].pc \in Live \/ running[w] = r \/ (g = reg[w] /\ o = row[w])
    /\ \/ x.down = g.down /\ g.down = o.down
       \/ x.down = runs[r].down /\ g.down = reg[w].down /\ o.down = row[w].down
    /\ running[w] = r =>
          /\ SendingIsTrue(w) /\ g.sending # 0 => Contains(x.box, g.sending)
          /\ RetryingIsTrue(w) /\ g.delivery.state = "retrying" => x.owed = g.delivery.ts
          /\ g.delivery = reg[w].delivery \/ g.delivery.list = runs[r].set.notify
    /\ running[w] # r => g.sending = reg[w].sending /\ g.delivery = reg[w].delivery
    /\ \A i \in 1..Len(g.samples) :
          \/ g.samples[i] = runs[r].set.reads /\ runs[r].pc \in Live
          \/ \E j \in 1..Len(reg[w].samples) : g.samples[i] = reg[w].samples[j]

LEMMA StepOfRun ==
    ASSUME NEW r, RunPre(r), runs[r].pc # "none", NEW x, NEW g, NEW o,
           RunTo(r, x, alerts'), PageTo(r, x, g, o),
           UNCHANGED <<webVars, running, ended, booting, started, stopVars>>,
           runs' = [runs EXCEPT ![r] = x],
           reg' = [reg EXCEPT ![runs[r].name] = g],
           row' = [row EXCEPT ![runs[r].name] = o]
    PROVE  RunPost(r)
<1> DEFINE w == runs[r].name
<1>1. Types /\ r \in RunIds /\ UNCHANGED bound /\ w \in Names
    BY RunFacts DEF RunPre
<1>2. /\ x \in RunType /\ g \in RegType /\ o \in RowType
      /\ alerts' \in Nat /\ alerts <= alerts' /\ Len(g.samples) <= SamplesKept
    BY DEF RunTo, PageTo
<1>3. /\ Types'
      /\ UNCHANGED <<cfg, told, lock, req, stale, running, ended, booting, started, phase,
                     ctxOver, joined, graceOver, cut, bound>>
      /\ runs'[r] = x /\ reg'[w] = g /\ row'[w] = o
      /\ \A q \in RunIds : q # r => runs'[q] = runs[q]
      /\ \A v \in Names : v # w => reg'[v] = reg[v] /\ row'[v] = row[v]
  <2>1. UNCHANGED <<webVars, running, ended, booting, started, stopVars, bound>>
      BY <1>1
  <2> QED BY <1>1, <1>2, <2>1, RunTypes
<1>4. RunOk(r)'
    BY <1>1, <1>2, <1>3 DEF RunTo, RunOk, RunPre, Control, RunsOk
<1>5. RunKeeps(r)
    BY <1>2, <1>3, <1>4 DEF RunTo, RunKeeps
<1>6. PageKeeps(r)
    BY <1>3 DEF PageTo, PageKeeps
<1> QED BY <1>3, <1>5, <1>6 DEF RunPost

LEMMA FailsStep == ASSUME NEW r, RunPre(r), Fails(r) PROVE RunPost(r)
<1> DEFINE w == runs[r].name
           x == [runs[r] EXCEPT !.down = TRUE]
           g == SetHealth(reg[w], TRUE)
           o == [row[w] EXCEPT !.down = TRUE]
<1>1. runs[r].pc = "idle" /\ runs[r].pc # "none"
    BY DEF Fails
<1>2. /\ runs[r] \in RunType /\ w \in Names /\ reg[w] \in RegType /\ row[w] \in RowType
      /\ Len(reg[w].samples) <= SamplesKept /\ RunOk(r) /\ alerts \in Nat
      /\ Types /\ r \in RunIds
    BY <1>1, RunFacts
<1>3. /\ runs' = [runs EXCEPT ![r] = x] /\ reg' = [reg EXCEPT ![w] = g]
      /\ row' = [row EXCEPT ![w] = o] /\ alerts' = alerts
      /\ UNCHANGED <<webVars, running, ended, booting, started, stopVars>>
    BY DEF Fails, Polls
<1>5. /\ g \in RegType /\ g.samples = reg[w].samples /\ g.sending = reg[w].sending
      /\ g.delivery = reg[w].delivery /\ g.down = TRUE
    BY <1>2 DEF SetHealth, RegType
<1>6. /\ x.box = runs[r].box /\ x.owed = runs[r].owed /\ x.down = TRUE
      /\ x.pc = "idle" /\ x.name = w /\ x.set = runs[r].set
      /\ x.cancelled = runs[r].cancelled /\ x.ts = runs[r].ts /\ x \in RunType
      /\ o.down = TRUE /\ o \in RowType
    BY <1>1, <1>2 DEF RunType, RowType
<1> HIDE DEF x, g, o
<1>4. RunTo(r, x, alerts')
    BY <1>1, <1>2, <1>3, <1>6 DEF RunTo, RunOk, Live
<1>7. PageTo(r, x, g, o)
    BY <1>1, <1>2, <1>5, <1>6 DEF PageTo, SendingIsTrue, RetryingIsTrue, Live
<1> QED BY <1>1, <1>3, <1>4, <1>7, StepOfRun

LEMMA ReadsStep ==
    ASSUME NEW r, RunPre(r), NEW fires \in BOOLEAN, Reads(r, fires) PROVE RunPost(r)
<1> DEFINE w == runs[r].name
           t == IF fires THEN alerts' ELSE 0
           x == [runs[r] EXCEPT !.pc = "read", !.down = FALSE, !.ts = t]
           g == IF runs[r].down THEN SetHealth(reg[w], FALSE) ELSE reg[w]
           o == [reads |-> IF fires THEN runs[r].set.reads ELSE row[w].reads,
                 ts    |-> IF fires THEN alerts' ELSE row[w].ts,
                 down  |-> IF runs[r].down THEN FALSE ELSE row[w].down]
<1>1. runs[r].pc = "idle" /\ runs[r].pc # "none"
    BY DEF Reads
<1>2. /\ runs[r] \in RunType /\ w \in Names /\ reg[w] \in RegType /\ row[w] \in RowType
      /\ runs[r].set.reads \in Nat
      /\ Len(reg[w].samples) <= SamplesKept /\ RunOk(r) /\ alerts \in Nat
      /\ Types /\ r \in RunIds
    BY <1>1, RunFacts
<1>3. /\ runs' = [runs EXCEPT ![r] = x] /\ reg' = [reg EXCEPT ![w] = g]
      /\ row' = [row EXCEPT ![w] = o]
      /\ alerts' = IF fires THEN alerts + 1 ELSE alerts
      /\ UNCHANGED <<webVars, running, ended, booting, started, stopVars>>
    BY DEF Reads, Polls
<1>4. alerts' \in Nat /\ alerts <= alerts' /\ t \in Nat /\ t <= alerts'
    BY <1>2, <1>3
<1> HIDE DEF t
<1>6. /\ g \in RegType /\ g.samples = reg[w].samples /\ g.sending = reg[w].sending
      /\ g.delivery = reg[w].delivery
      /\ g.down = IF runs[r].down THEN FALSE ELSE reg[w].down
    BY <1>2 DEF SetHealth, RegType
<1>7. /\ x.box = runs[r].box /\ x.owed = runs[r].owed /\ x.down = FALSE
      /\ x.pc = "read" /\ x.name = w /\ x.set = runs[r].set
      /\ x.cancelled = runs[r].cancelled /\ x.ts = t /\ x \in RunType
    BY <1>2, <1>4 DEF RunType, Live
<1>8. o \in RowType /\ o.down = IF runs[r].down THEN FALSE ELSE row[w].down
    BY <1>2, <1>4 DEF RowType
<1>9. \/ x.down = g.down /\ g.down = o.down
      \/ x.down = runs[r].down /\ g.down = reg[w].down /\ o.down = row[w].down
  <2>1. runs[r].down \in BOOLEAN
      BY <1>2 DEF RunType
  <2> QED BY <1>6, <1>7, <1>8, <2>1
<1> HIDE DEF x, g, o
<1>5. RunTo(r, x, alerts')
  <2>1. /\ runs[r].owed \in Nat /\ runs[r].owed <= alerts
        /\ \A i \in 1..Len(runs[r].box) : runs[r].box[i] \in 1..alerts
      BY <1>2 DEF RunOk, RunType
  <2>2. x.owed <= alerts' /\ \A i \in 1..Len(x.box) : x.box[i] \in 1..alerts'
      BY <1>2, <1>4, <1>7, <2>1
  <2> QED BY <1>1, <1>4, <1>7, <2>2 DEF RunTo, Live
<1>10. PageTo(r, x, g, o)
    BY <1>1, <1>2, <1>6, <1>7, <1>8, <1>9 DEF PageTo, SendingIsTrue, RetryingIsTrue, Live
<1> QED BY <1>1, <1>3, <1>5, <1>10, StepOfRun

\* The numbers of the alerts a run has.
LEMMA RunAlerts ==
    ASSUME NEW r, RunPre(r), runs[r].pc # "none"
    PROVE  /\ runs[r].owed \in Nat /\ runs[r].owed <= alerts
           /\ runs[r].ts \in Nat /\ runs[r].ts <= alerts
           /\ runs[r].box \in Seq(Nat)
           /\ \A i \in 1..Len(runs[r].box) : runs[r].box[i] \in 1..alerts
BY RunFacts DEF RunOk, RunType

LEMMA ShowsStep == ASSUME NEW r, RunPre(r), Shows(r) PROVE RunPost(r)
<1> DEFINE w == runs[r].name
           pc == IF runs[r].ts = 0 THEN "idle" ELSE "shown"
           x == [runs[r] EXCEPT !.pc = pc]
           g == Add(reg[w], runs[r].set.reads, runs[r].ts)
           o == row[w]
<1>1. runs[r].pc = "read" /\ runs[r].pc # "none"
    BY DEF Shows
<1>2. /\ runs[r] \in RunType /\ w \in Names /\ reg[w] \in RegType /\ row[w] \in RowType
      /\ runs[r].set.reads \in Nat /\ runs[r].ts \in Nat
      /\ Len(reg[w].samples) <= SamplesKept /\ alerts \in Nat /\ row \in [Names -> RowType]
    BY <1>1, RunFacts, RunAlerts DEF Types, PageType
<1>3. /\ runs' = [runs EXCEPT ![r] = x] /\ reg' = [reg EXCEPT ![w] = g]
      /\ row' = [row EXCEPT ![w] = o] /\ alerts' = alerts
      /\ UNCHANGED <<webVars, running, ended, booting, started, stopVars>>
    BY <1>2 DEF Shows, Polls, To
<1>4. /\ g \in RegType /\ Len(g.samples) <= SamplesKept
      /\ g.sending = reg[w].sending /\ g.delivery = reg[w].delivery /\ g.down = reg[w].down
      /\ \A i \in 1..Len(g.samples) :
            \/ g.samples[i] = runs[r].set.reads
            \/ \E j \in 1..Len(reg[w].samples) : g.samples[i] = reg[w].samples[j]
  <2> DEFINE old == reg[w]
             reads == runs[r].set.reads
             ts == runs[r].ts
  <2>1. old \in RegType /\ Len(old.samples) <= SamplesKept /\ reads \in Nat /\ ts \in Nat
      BY <1>2
  <2> HIDE DEF old, reads, ts
  <2>2. /\ Add(old, reads, ts) \in RegType
        /\ Len(Add(old, reads, ts).samples) <= SamplesKept
        /\ \A i \in 1..Len(Add(old, reads, ts).samples) :
              \/ Add(old, reads, ts).samples[i] = reads
              \/ \E j \in 1..Len(old.samples) : Add(old, reads, ts).samples[i] = old.samples[j]
        /\ Add(old, reads, ts).sending = old.sending
        /\ Add(old, reads, ts).delivery = old.delivery /\ Add(old, reads, ts).down = old.down
      BY <2>1, AddIs
  <2> QED BY <2>2 DEF old, reads, ts
<1>5. /\ x.box = runs[r].box /\ x.owed = runs[r].owed /\ x.down = runs[r].down
      /\ x.pc = pc /\ x.name = w /\ x.set = runs[r].set
      /\ x.cancelled = runs[r].cancelled /\ x.ts = runs[r].ts /\ x \in RunType
    BY <1>2 DEF RunType, Live
<1> HIDE DEF x, g
<1>6. RunTo(r, x, alerts')
    BY <1>1, <1>2, <1>3, <1>5, RunAlerts DEF RunTo, Live
<1> HIDE DEF o
<1>7. o.down = row[w].down /\ o \in RowType
    BY <1>2 DEF o
<1>8. PageTo(r, x, g, o)
    BY <1>1, <1>2, <1>4, <1>5, <1>7 DEF PageTo, SendingIsTrue, RetryingIsTrue, Live
<1> QED BY <1>1, <1>3, <1>6, <1>8, StepOfRun

LEMMA RaisesStep == ASSUME NEW r, RunPre(r), Raises(r) PROVE RunPost(r)
<1> DEFINE w == runs[r].name
           b == Append(runs[r].box, runs[r].ts)
           x == [runs[r] EXCEPT !.pc = "idle", !.ts = 0, !.box = b]
           g == IF Current(r) THEN SetSending(reg[w], runs[r].ts) ELSE reg[w]
           o == row[w]
<1>1. runs[r].pc = "shown" /\ runs[r].pc # "none"
    BY DEF Raises
<1>2. /\ runs[r] \in RunType /\ w \in Names /\ reg[w] \in RegType /\ row[w] \in RowType
      /\ runs[r].ts \in 1..alerts /\ runs[r].box \in Seq(Nat)
      /\ Len(reg[w].samples) <= SamplesKept /\ alerts \in Nat /\ row \in [Names -> RowType]
    BY <1>1, RunFacts, RunAlerts DEF Types, PageType, RunOk
<1>3. /\ runs' = [runs EXCEPT ![r] = x] /\ reg' = [reg EXCEPT ![w] = g]
      /\ row' = [row EXCEPT ![w] = o] /\ alerts' = alerts
      /\ UNCHANGED <<webVars, running, ended, booting, started, stopVars>>
    BY <1>2 DEF Raises, Polls
<1>4. /\ b \in Seq(Nat) /\ Len(b) = Len(runs[r].box) + 1
      /\ \A i \in 1..Len(b) :
            b[i] = IF i <= Len(runs[r].box) THEN runs[r].box[i] ELSE runs[r].ts
    BY <1>2
<1> HIDE DEF b
<1>5. \A i \in 1..Len(b) : b[i] \in 1..alerts
  <2>1. \A i \in 1..Len(runs[r].box) : runs[r].box[i] \in 1..alerts
      BY <1>1, RunAlerts
  <2>2. Len(runs[r].box) \in Nat
      BY <1>2
  <2>3. runs[r].ts \in 1..alerts
      BY <1>2
  <2> TAKE i \in 1..Len(b)
  <2>4. CASE i <= Len(runs[r].box)
    <3>1. i \in 1..Len(runs[r].box)
        BY <1>4, <2>2, <2>4
    <3> QED BY <1>4, <2>1, <2>4, <3>1
  <2>5. CASE ~(i <= Len(runs[r].box))
      BY <1>4, <2>3, <2>5
  <2> QED BY <2>4, <2>5
<1>6. /\ x.box = b /\ x.owed = runs[r].owed /\ x.down = runs[r].down
      /\ x.pc = "idle" /\ x.name = w /\ x.set = runs[r].set
      /\ x.cancelled = runs[r].cancelled /\ x.ts = 0 /\ x \in RunType
    BY <1>2, <1>4 DEF RunType, Live
<1>7. /\ g \in RegType /\ g.samples = reg[w].samples /\ g.delivery = reg[w].delivery
      /\ g.down = reg[w].down
      /\ ~Current(r) => g.sending = reg[w].sending
      /\ g.sending = reg[w].sending \/ g.sending = runs[r].ts
  <2>1. CASE Current(r)
    <3>1. g = SetSending(reg[w], runs[r].ts) /\ runs[r].ts \in Nat
        BY <1>2, <2>1
    <3> HIDE DEF g
    <3> QED BY <1>2, <2>1, <3>1 DEF SetSending, RegType
  <2>2. CASE ~Current(r)
      BY <1>2, <2>2
  <2> QED BY <2>1, <2>2
<1>8. /\ Contains(b, runs[r].ts)
      /\ \A s : Contains(runs[r].box, s) => Contains(b, s)
  <2>1. Len(runs[r].box) \in Nat
      BY <1>2
  <2>2. b[Len(b)] = runs[r].ts /\ Len(b) \in 1..Len(b)
      BY <1>4, <2>1, SMTT(30)
  <2>3. \A i \in 1..Len(runs[r].box) : i \in 1..Len(b) /\ b[i] = runs[r].box[i]
      BY <1>4, <2>1
  <2> QED BY <2>2, <2>3 DEF Contains
<1>9. RunTo(r, x, alerts')
    BY <1>1, <1>2, <1>3, <1>5, <1>6, RunAlerts DEF RunTo, Live
<1> HIDE DEF x, g, o
<1>10. o.down = row[w].down /\ o \in RowType
    BY <1>2 DEF o
<1>11. /\ running[w] = r => /\ SendingIsTrue(w) /\ g.sending # 0 => Contains(x.box, g.sending)
                            /\ RetryingIsTrue(w) /\ g.delivery.state = "retrying" =>
                                  x.owed = g.delivery.ts
       /\ running[w] # r => g.sending = reg[w].sending
    BY <1>6, <1>7, <1>8 DEF SendingIsTrue, RetryingIsTrue, Current
<1>12. PageTo(r, x, g, o)
    BY <1>1, <1>2, <1>6, <1>7, <1>10, <1>11 DEF PageTo, Live
<1> QED BY <1>1, <1>3, <1>9, <1>12, StepOfRun

LEMMA ReturnsStep == ASSUME NEW r, RunPre(r), Returns(r) PROVE RunPost(r)
<1> DEFINE w == runs[r].name
           x == [runs[r] EXCEPT !.pc = "returned"]
           g == reg[w]
           o == row[w]
<1>1. runs[r].pc = "idle" /\ runs[r].pc # "none" /\ Cancelled(r)
    BY DEF Returns
<1>2. /\ runs[r] \in RunType /\ w \in Names /\ reg[w] \in RegType /\ row[w] \in RowType
      /\ Len(reg[w].samples) <= SamplesKept /\ alerts \in Nat /\ row \in [Names -> RowType]
      /\ reg \in [Names -> RegType] /\ RunOk(r)
    BY <1>1, RunFacts DEF Types, PageType
<1>3. /\ runs' = [runs EXCEPT ![r] = x] /\ reg' = [reg EXCEPT ![w] = g]
      /\ row' = [row EXCEPT ![w] = o] /\ alerts' = alerts
      /\ UNCHANGED <<webVars, running, ended, booting, started, stopVars>>
    BY <1>2 DEF Returns, Polls, To
<1>4. runs[r].ts = 0
    BY <1>1, <1>2 DEF RunOk
<1>5. /\ x.box = runs[r].box /\ x.owed = runs[r].owed /\ x.down = runs[r].down
      /\ x.pc = "returned" /\ x.name = w /\ x.set = runs[r].set
      /\ x.cancelled = runs[r].cancelled /\ x.ts = runs[r].ts /\ x \in RunType
    BY <1>2 DEF RunType, Live
<1> HIDE DEF x
<1>6. RunTo(r, x, alerts')
    BY <1>1, <1>2, <1>3, <1>4, <1>5, RunAlerts DEF RunTo, Live
<1>7. PageTo(r, x, g, o)
    BY <1>1, <1>2, <1>5 DEF PageTo, SendingIsTrue, RetryingIsTrue, Live
<1> QED BY <1>1, <1>3, <1>6, <1>7, StepOfRun

\* What the sender reports when it has tried alert ts.
LEMMA ReportIs ==
    ASSUME NEW r, RunPre(r), runs[r].pc # "none", NEW ts \in Nat,
           NEW state \in {"settled", "retrying", "dropped"},
           NEW g, g = IF Current(r) THEN SetDelivery(reg[runs[r].name], Outcome(r, ts, state))
                                    ELSE reg[runs[r].name]
    PROVE  /\ g \in RegType /\ g.samples = reg[runs[r].name].samples
           /\ g.down = reg[runs[r].name].down
           /\ running[runs[r].name] # r => g = reg[runs[r].name]
           /\ running[runs[r].name] = r =>
                 /\ \/ g.delivery = Outcome(r, ts, state)
                    \/ /\ g.delivery = reg[runs[r].name].delivery
                       /\ g.delivery.state # "retrying" /\ state # "retrying"
                 /\ g.sending # 0 => g.sending = reg[runs[r].name].sending /\ g.sending > ts
<1> DEFINE p == reg[runs[r].name]
           d == Outcome(r, ts, state)
<1>1. p \in RegType /\ runs[r].set.notify \in Nat
    BY RunFacts
<1>2. /\ d \in DeliveryType /\ d.ts = ts /\ d.state = state
    BY <1>1 DEF Outcome, DeliveryType
<1>3. CASE ~Current(r)
    BY <1>1, <1>3 DEF Current
<1>4. CASE Current(r)
  <2>1. g = SetDelivery(p, d)
      BY <1>4
  <2>2. g \in RegType /\ g.samples = p.samples
    <3> HIDE DEF p, d
    <3> QED BY <1>1, <1>2, <2>1, SetDeliveryIs
  <2> HIDE DEF p, d
  <2>3. /\ g.down = p.down
        /\ g.delivery = (IF d.ts >= p.delivery.ts \/ "retrying" \in {d.state, p.delivery.state}
                         THEN d ELSE p.delivery)
        /\ g.sending = (IF p.sending > d.ts THEN p.sending ELSE 0)
      BY <1>1, <2>1 DEF SetDelivery, RegType
  <2>4. /\ g.delivery = d \/ (g.delivery = p.delivery /\ p.delivery.state # "retrying"
                              /\ d.state # "retrying")
        /\ g.sending # 0 => g.sending = p.sending /\ p.sending > d.ts
      BY <2>3
  <2>5. running[runs[r].name] = r
      BY <1>4 DEF Current
  <2>6. /\ \/ g.delivery = d
           \/ g.delivery = p.delivery /\ g.delivery.state # "retrying" /\ state # "retrying"
        /\ g.sending # 0 => g.sending = p.sending /\ g.sending > ts
      BY <1>2, <2>4
  <2> QED BY <2>2, <2>3, <2>5, <2>6 DEF p, d
<1> QED BY <1>3, <1>4

LEMMA SendsStep == ASSUME NEW r, RunPre(r), NEW state, Sends(r, state) PROVE RunPost(r)
<1> DEFINE w == runs[r].name
           q == runs[r].box
           b == Tail(q)
           e == IF state = "retrying" THEN Head(q) ELSE 0
           x == [runs[r] EXCEPT !.box = b, !.owed = e]
           g == IF Current(r) THEN SetDelivery(reg[w], Outcome(r, Head(q), state)) ELSE reg[w]
           o == row[w]
<1>1. /\ q # <<>> /\ state \in {"settled", "retrying"}
      /\ state = "retrying" => ~Cancelled(r)
    BY DEF Sends
<1>2. runs[r].pc # "none"
    BY <1>1 DEF RunPre, Control, RunsOk, RunOk, NoRun
<1>3. /\ runs[r] \in RunType /\ w \in Names /\ reg[w] \in RegType /\ row[w] \in RowType
      /\ q \in Seq(Nat) /\ \A i \in 1..Len(q) : q[i] \in 1..alerts
      /\ Len(reg[w].samples) <= SamplesKept /\ alerts \in Nat /\ row \in [Names -> RowType]
      /\ runs[r].pc \in {"idle", "returned"} => runs[r].ts = 0
      /\ runs[r].pc = "shown" => runs[r].ts # 0
    BY <1>2, RunFacts, RunAlerts DEF Types, PageType, RunOk
<1>4. /\ runs' = [runs EXCEPT ![r] = x] /\ reg' = [reg EXCEPT ![w] = g]
      /\ row' = [row EXCEPT ![w] = o] /\ alerts' = alerts
      /\ UNCHANGED <<webVars, running, ended, booting, started, stopVars>>
    BY <1>3 DEF Sends, Polls, Report
<1>5. /\ b \in Seq(Nat) /\ Len(b) = Len(q) - 1 /\ Len(q) \in Nat /\ Len(q) # 0
      /\ \A i \in 1..Len(b) : b[i] = q[i + 1] /\ i + 1 \in 1..Len(q)
      /\ Head(q) = q[1] /\ 1 \in 1..Len(q)
    BY <1>1, <1>3
<1>6. Head(q) \in 1..alerts /\ \A i \in 1..Len(b) : b[i] \in 1..alerts
    BY <1>3, <1>5
<1>7. e \in Nat /\ e <= alerts /\ Head(q) \in Nat
    BY <1>3, <1>6
<1> HIDE DEF b, e
<1>8. /\ x.box = b /\ x.owed = e /\ x.down = runs[r].down
      /\ x.pc = runs[r].pc /\ x.name = w /\ x.set = runs[r].set
      /\ x.cancelled = runs[r].cancelled /\ x.ts = runs[r].ts /\ x \in RunType
    BY <1>3, <1>5, <1>7 DEF RunType, Live
<1>9. /\ g \in RegType /\ g.samples = reg[w].samples
      /\ g.down = reg[w].down /\ (running[w] # r => g = reg[w])
      /\ running[w] = r =>
            /\ \/ g.delivery = Outcome(r, Head(q), state)
               \/ g.delivery = reg[w].delivery /\ g.delivery.state # "retrying" /\ state # "retrying"
            /\ g.sending # 0 => g.sending = reg[w].sending /\ g.sending > Head(q)
  <2>1. g = IF Current(r) THEN SetDelivery(reg[w], Outcome(r, Head(q), state)) ELSE reg[w]
      OBVIOUS
  <2> HIDE DEF g, q, w
  <2>2. state \in {"settled", "retrying", "dropped"} /\ Head(q) \in Nat
      BY <1>1, <1>7
  <2> QED BY <1>2, <2>1, <2>2, ReportIs DEF w
<1>10. \A s : Contains(q, s) /\ s # Head(q) => Contains(b, s)
  <2> SUFFICES ASSUME NEW s, NEW i \in 1..Len(q), q[i] = s, s # Head(q) PROVE Contains(b, s)
      BY DEF Contains
  <2>1. i - 1 \in 1..Len(b) /\ b[i - 1] = q[i]
      BY <1>5
  <2> QED BY <2>1 DEF Contains
<1>11. Outcome(r, Head(q), state).ts = Head(q) /\ Outcome(r, Head(q), state).state = state
       /\ Outcome(r, Head(q), state).list = runs[r].set.notify
    BY DEF Outcome
<1> HIDE DEF x, g
<1>12. RunTo(r, x, alerts')
  <2>1. /\ x.ts <= alerts /\ \A i \in 1..Len(x.box) : x.box[i] \in 1..alerts
      BY <1>2, <1>6, <1>8, RunAlerts
  <2> QED BY <1>2, <1>3, <1>4, <1>7, <1>8, <2>1 DEF RunTo
<1>13. ASSUME running[w] = r
       PROVE  /\ SendingIsTrue(w) /\ g.sending # 0 => Contains(x.box, g.sending)
              /\ g.delivery.state = "retrying" => x.owed = g.delivery.ts
              /\ g.delivery = reg[w].delivery \/ g.delivery.list = runs[r].set.notify
  <2>1. g.sending # 0 => g.sending = reg[w].sending /\ g.sending # Head(q)
      BY <1>6, <1>9, <1>13
  <2>2. SendingIsTrue(w) /\ g.sending # 0 => Contains(x.box, g.sending)
      BY <1>8, <1>10, <1>13, <2>1 DEF SendingIsTrue
  <2>3. CASE g.delivery = Outcome(r, Head(q), state)
    <3>1. g.delivery.state = "retrying" => e = Head(q)
        BY <1>11, <2>3 DEF e
    <3> QED BY <1>8, <1>11, <2>2, <2>3, <3>1
  <2>4. CASE g.delivery = reg[w].delivery /\ g.delivery.state # "retrying"
      BY <2>2, <2>4
  <2> QED BY <1>9, <1>13, <2>3, <2>4
<1>14. runs[r].pc \in Live \/ running[w] = r \/ (g = reg[w] /\ o = row[w])
    BY <1>9
<1>15. PageTo(r, x, g, o)
  <2>1. /\ x.down = runs[r].down /\ g.down = reg[w].down /\ o.down = row[w].down
      BY <1>8, <1>9
  <2> HIDE DEF w
  <2>2. /\ running[w] = r =>
            /\ SendingIsTrue(w) /\ g.sending # 0 => Contains(x.box, g.sending)
            /\ RetryingIsTrue(w) /\ g.delivery.state = "retrying" => x.owed = g.delivery.ts
            /\ g.delivery = reg[w].delivery \/ g.delivery.list = runs[r].set.notify
        /\ running[w] # r => g.sending = reg[w].sending /\ g.delivery = reg[w].delivery
      BY <1>9, <1>13
  <2>3. o \in RowType /\ g \in RegType /\ Len(g.samples) <= SamplesKept
      BY <1>3, <1>9
  <2>4. \A i \in 1..Len(g.samples) :
           \E j \in 1..Len(reg[w].samples) : g.samples[i] = reg[w].samples[j]
      BY <1>9
  <2> QED BY <1>14, <2>1, <2>2, <2>3, <2>4 DEF PageTo, w
<1> QED BY <1>2, <1>4, <1>12, <1>15, StepOfRun

LEMMA SettlesStep == ASSUME NEW r, RunPre(r), NEW state, Settles(r, state) PROVE RunPost(r)
<1> DEFINE w == runs[r].name
           e == runs[r].owed
           x == [runs[r] EXCEPT !.owed = 0]
           g == IF Current(r) THEN SetDelivery(reg[w], Outcome(r, e, state)) ELSE reg[w]
           o == row[w]
<1>1. /\ e # 0 /\ state \in {"settled", "dropped"}
    BY DEF Settles
<1>2. runs[r].pc # "none"
    BY <1>1 DEF RunPre, Control, RunsOk, RunOk, NoRun
<1>3. /\ runs[r] \in RunType /\ w \in Names /\ reg[w] \in RegType /\ row[w] \in RowType
      /\ e \in Nat /\ \A i \in 1..Len(runs[r].box) : runs[r].box[i] \in 1..alerts
      /\ Len(reg[w].samples) <= SamplesKept /\ alerts \in Nat /\ row \in [Names -> RowType]
      /\ runs[r].pc \in {"idle", "returned"} => runs[r].ts = 0
      /\ runs[r].pc = "shown" => runs[r].ts # 0
    BY <1>2, RunFacts, RunAlerts DEF Types, PageType, RunOk
<1>4. /\ runs' = [runs EXCEPT ![r] = x] /\ reg' = [reg EXCEPT ![w] = g]
      /\ row' = [row EXCEPT ![w] = o] /\ alerts' = alerts
      /\ UNCHANGED <<webVars, running, ended, booting, started, stopVars>>
    BY <1>3 DEF Settles, Polls, Report
<1>5. /\ x.box = runs[r].box /\ x.owed = 0 /\ x.down = runs[r].down
      /\ x.pc = runs[r].pc /\ x.name = w /\ x.set = runs[r].set
      /\ x.cancelled = runs[r].cancelled /\ x.ts = runs[r].ts /\ x \in RunType
    BY <1>3 DEF RunType, Live
<1>6. /\ g \in RegType /\ g.samples = reg[w].samples
      /\ g.down = reg[w].down /\ (running[w] # r => g = reg[w])
      /\ running[w] = r =>
            /\ \/ g.delivery = Outcome(r, e, state)
               \/ g.delivery = reg[w].delivery /\ g.delivery.state # "retrying"
            /\ g.sending # 0 => g.sending = reg[w].sending
  <2>1. g = IF Current(r) THEN SetDelivery(reg[w], Outcome(r, e, state)) ELSE reg[w]
      OBVIOUS
  <2> HIDE DEF g, e, w
  <2>2. state \in {"settled", "retrying", "dropped"} /\ e \in Nat
      BY <1>1, <1>3
  <2> QED BY <1>2, <2>1, <2>2, ReportIs DEF w
<1>7. Outcome(r, e, state).state = state /\ Outcome(r, e, state).list = runs[r].set.notify
    BY DEF Outcome
<1> HIDE DEF x, g
<1>8. RunTo(r, x, alerts')
  <2>1. x.ts <= alerts /\ \A i \in 1..Len(x.box) : x.box[i] \in 1..alerts
      BY <1>2, <1>3, <1>5, RunAlerts
  <2> QED BY <1>2, <1>3, <1>4, <1>5, <2>1 DEF RunTo
<1>9. ASSUME running[w] = r
      PROVE  /\ SendingIsTrue(w) /\ g.sending # 0 => Contains(x.box, g.sending)
             /\ g.delivery.state # "retrying"
             /\ g.delivery = reg[w].delivery \/ g.delivery.list = runs[r].set.notify
  <2>1. SendingIsTrue(w) /\ g.sending # 0 => Contains(x.box, g.sending)
      BY <1>5, <1>6, <1>9 DEF SendingIsTrue
  <2> QED BY <1>1, <1>6, <1>7, <1>9, <2>1
<1>10. PageTo(r, x, g, o)
  <2>1. /\ x.down = runs[r].down /\ g.down = reg[w].down /\ o.down = row[w].down
      BY <1>5, <1>6
  <2>2. runs[r].pc \in Live \/ running[w] = r \/ (g = reg[w] /\ o = row[w])
      BY <1>6
  <2> HIDE DEF w
  <2>3. /\ running[w] = r =>
            /\ SendingIsTrue(w) /\ g.sending # 0 => Contains(x.box, g.sending)
            /\ RetryingIsTrue(w) /\ g.delivery.state = "retrying" => x.owed = g.delivery.ts
            /\ g.delivery = reg[w].delivery \/ g.delivery.list = runs[r].set.notify
        /\ running[w] # r => g.sending = reg[w].sending /\ g.delivery = reg[w].delivery
      BY <1>6, <1>9
  <2>4. o \in RowType /\ g \in RegType /\ Len(g.samples) <= SamplesKept
      BY <1>3, <1>6
  <2>5. \A i \in 1..Len(g.samples) :
           \E j \in 1..Len(reg[w].samples) : g.samples[i] = reg[w].samples[j]
      BY <1>6
  <2> QED BY <2>1, <2>2, <2>3, <2>4, <2>5 DEF PageTo, w
<1> QED BY <1>2, <1>4, <1>8, <1>10, StepOfRun

\* A run's last step.  It is its watch's only when the process is ending.
LEMMA RemovesItselfStep ==
    ASSUME IInv, phase # "down", NEW r \in RunIds, UNCHANGED bound, RemovesItself(r)
    PROVE  IInv'
<1> USE DEF IInv
<1> DEFINE w == runs[r].name
           x == [runs[r] EXCEPT !.pc = "over", !.down = FALSE]
<1>1. /\ runs[r].pc = "returned" /\ runs' = [runs EXCEPT ![r] = x]
      /\ UNCHANGED <<cfg, told, lock, req, stale, booting, started, reg, row, phase,
                     ctxOver, joined, graceOver, cut, alerts, bound>>
      /\ RunIds' = RunIds /\ Serving' = Serving
    BY DEF RemovesItself, webVars, stopVars, RunIds, Serving
<1>2. /\ runs[r] \in RunType /\ runs \in [RunIds -> RunType] /\ running \in [Names -> Nat]
      /\ r \in 1..started /\ w \in Names /\ RunOk(r) /\ runs[r].ts = 0 /\ started \in Nat
    BY <1>1, RunIdsIs DEF Types, SupType, Control, RunsOk, RunOk, RunIds
<1>3. /\ x.box = runs[r].box /\ x.owed = runs[r].owed /\ x.pc = "over" /\ x.name = w
      /\ x.set = runs[r].set /\ x.cancelled = runs[r].cancelled /\ x.ts = runs[r].ts
      /\ x \in RunType
    BY <1>2 DEF RunType, Live
<1> HIDE DEF x
<1>4. runs'[r] = x /\ \A q \in RunIds : q # r => runs'[q] = runs[q]
    BY <1>1, <1>2
<1>5. \/ /\ running[w] = r /\ running' = [running EXCEPT ![w] = None]
         /\ ended' = ended \cup {r}
      \/ running[w] # r /\ UNCHANGED <<running, ended>>
    BY DEF RemovesItself
<1>6. r # None /\ None \in Nat
    BY <1>2 DEF None
<1>7. /\ running' \in [Names -> Nat] /\ ended' \subseteq 1..started
      /\ \A v \in Names : \/ running'[v] = running[v] /\ running'[v] # r
                          \/ v = w /\ running[v] = r /\ running'[v] = None /\ ctxOver
  <2>1. running[w] = r => ctxOver
      BY <1>1, <1>2, <1>6 DEF Control, RunningOk
  <2>2. \A v \in Names : running[v] = r => v = w
      BY <1>2, <1>6 DEF Control, RunningOk
  <2>3. ended \subseteq 1..started
      BY DEF Types, SupType
  <2> QED BY <1>2, <1>5, <1>6, <2>1, <2>2, <2>3
<1>8. /\ ended \subseteq ended' /\ ended' \subseteq ended \cup {r}
      /\ running[w] = r => r \in ended'
    BY <1>5
<1>9. Types'
  <2>1. runs' \in [RunIds -> RunType]
      BY <1>1, <1>2, <1>3
  <2>2. WebType' /\ PageType' /\ StopType'
      BY <1>1 DEF Types, WebType, PageType, StopType
  <2>3. SupType'
      BY <1>1, <1>7, <2>1 DEF Types, SupType
  <2> QED BY <2>2, <2>3 DEF Types
<1>10. \A q \in RunIds :
          /\ runs'[q].name = runs[q].name /\ runs'[q].set = runs[q].set
          /\ runs'[q].cancelled = runs[q].cancelled
          /\ runs'[q].pc = (IF q = r THEN "over" ELSE runs[q].pc)
          /\ runs'[q].box = runs[q].box /\ runs'[q].owed = runs[q].owed
    BY <1>3, <1>4
<1>11. Control'
  <2>1. RequestsOk'
    <3> SUFFICES ASSUME NEW h \in Handlers PROVE RequestOk(h)'
        BY DEF RequestsOk
    <3>1. RequestOk(h) /\ 1..started \subseteq RunIds
        BY RunIdsIs DEF Control, RequestsOk
    <3> QED BY <1>1, <1>10, <3>1 DEF RequestOk
  <2>2. RunsOk'
    <3> SUFFICES ASSUME NEW q \in RunIds PROVE RunOk(q)'
        BY <1>1 DEF RunsOk
    <3>1. CASE q = r
      <4>1. runs[r].owed <= alerts /\ \A i \in 1..Len(runs[r].box) : runs[r].box[i] \in 1..alerts
          BY <1>2 DEF RunOk
      <4>2. runs[r].set \in Settings /\ r <= started /\ 0 <= alerts
          BY <1>1, <1>2 DEF RunOk, Types, SupType
      <4> QED BY <1>1, <1>2, <1>3, <1>4, <3>1, <4>1, <4>2 DEF RunOk
    <3>2. CASE q # r
        BY <1>1, <1>4, <3>2 DEF Control, RunsOk, RunOk
    <3> QED BY <3>1, <3>2
  <2>3. RunningOk'
    <3> SUFFICES ASSUME NEW v \in Names, running'[v] # None
                 PROVE  LET q == running'[v] IN
                        /\ q \in 1..started /\ runs'[q].name = v /\ runs'[q].pc \in Live
                        /\ ~runs'[q].cancelled /\ q \notin joined
                        /\ runs'[q].pc = "returned" => ctxOver
        BY <1>1 DEF RunningOk
    <3>1. running'[v] = running[v] /\ running[v] # r
        BY <1>7
    <3>2. running[v] \in RunIds
        BY <3>1, RunIdsIs DEF Control, RunningOk
    <3> QED BY <1>4, <3>1, <3>2 DEF Control, RunningOk
  <2>4. Reached'
    <3> SUFFICES ASSUME NEW q \in RunIds, runs'[q].pc \in Live
                 PROVE  \/ q \in joined
                        \/ running'[runs[q].name] = q
                        \/ lock # None /\ req[lock].pc = "wait" /\ req[lock].old = q
        BY <1>1, <1>10 DEF Reached
    <3>1. q # r /\ runs[q].pc \in Live
        BY <1>10 DEF Live
    <3>2. runs[q].name \in Names
        BY <3>1 DEF Control, RunsOk, RunOk, Live
    <3>3. running[runs[q].name] = q => running'[runs[q].name] = q
        BY <1>7, <3>1, <3>2
    <3> QED BY <3>1, <3>3 DEF Control, Reached
  <2>5. Known'
    <3> SUFFICES ASSUME NEW q \in RunIds, runs'[q].pc # "none", ~runs[q].cancelled
                 PROVE  q \in joined \/ q \in ended' \/ running'[runs[q].name] = q
        BY <1>1, <1>10 DEF Known
    <3>1. runs[q].pc # "none"
        BY <1>1, <1>10
    <3>2. q \in joined \/ q \in ended \/ running[runs[q].name] = q
        BY <3>1 DEF Control, Known
    <3>3. runs[q].name \in Names
        BY <3>1 DEF Control, RunsOk, RunOk
    <3>4. running[runs[q].name] = q => running'[runs[q].name] = q \/ q = r
        BY <1>7, <3>3
    <3>5. q = r /\ running[runs[q].name] = q => q \in ended'
        BY <1>8
    <3> QED BY <1>8, <3>2, <3>4, <3>5
  <2>6. Ended'
    <3>1. \A q \in ended' : q = r \/ (q \in RunIds /\ runs[q].pc = "over")
        BY <1>8, RunIdsIs DEF Control, Ended, Types, SupType
    <3> QED BY <1>10, <3>1 DEF Ended
  <2>7. StopsAll'
    <3>1. 1..cut \subseteq RunIds /\ joined \subseteq RunIds
        BY RunIdsIs DEF Types, SupType, StopType
    <3>2. \A q \in RunIds : (runs'[q].pc # "none" => runs[q].pc # "none") /\ (Over(q) => Over(q)')
        BY <1>1, <1>10 DEF Over
    <3>3. \A q \in RunIds : Sent(q) => Sent(q)'
        BY <1>10 DEF Sent
    <3> QED BY <1>1, <1>10, <3>1, <3>2, <3>3 DEF Control, StopsAll
  <2>8. Boots'
    <3>1. \A v \in booting : v \in Names /\ running[v] = None
        BY DEF Control, Boots, Types, SupType
    <3> QED BY <1>1, <1>7, <3>1 DEF Control, Boots
  <2> QED BY <2>1, <2>2, <2>3, <2>4, <2>5, <2>6, <2>7, <2>8 DEF Control
<1>12. WatchesOk'
  <2> SUFFICES ASSUME Serving, NEW v \in Names PROVE WatchOk(v)'
      BY <1>1 DEF WatchesOk
  <2>1. WatchOk(v)
      BY DEF WatchesOk
  <2>2. /\ \A pcs : At(v, pcs)' <=> At(v, pcs)
        /\ Holds(v)' <=> Holds(v)
        /\ \A pcs : Saving(v, pcs)' <=> Saving(v, pcs)
      BY <1>1 DEF At, Holds, Saving
  <2>3. /\ running'[v] # None => running'[v] = running[v] /\ runs'[running[v]] = runs[running[v]]
        /\ running[v] # None /\ running'[v] = None => ctxOver
        /\ running[v] = None => running'[v] = None
    <3>1. running[v] # None => running[v] \in RunIds
        BY RunIdsIs DEF Control, RunningOk
    <3> QED BY <1>4, <1>6, <1>7, <3>1
  <2>4. Saving(v, {"wait"}) /\ req[lock].old # None => req[lock].old \in RunIds
      BY RunIdsIs DEF Control, RequestsOk, RequestOk, Saving, At, Holds, Types, WebType
  <2>5. SavedOf(v)'
      BY <1>1, <2>1, <2>2, <2>3 DEF WatchOk, SavedOf
  <2>6. GoneOf(v)' /\ DownOf(v)'
      BY <1>1, <2>1, <2>2, <2>3 DEF WatchOk, GoneOf, DownOf, DownIsTrue
  <2>7. ~ctxOver => SendingIsTrue(v)' /\ RetryingIsTrue(v)'
      BY <1>1, <2>1, <2>3 DEF WatchOk, SendingIsTrue, RetryingIsTrue
  <2>8. ASSUME ~stale PROVE AboutOf(v)'
      BY <1>1, <1>10, <2>1, <2>2, <2>3, <2>4, <2>8 DEF WatchOk, AboutOf, SamplesAre
  <2> QED BY <1>1, <2>5, <2>6, <2>7, <2>8 DEF WatchOk
<1> QED BY <1>9, <1>11, <1>12

LEMMA RunStep ==
    ASSUME IInv, phase # "down", UNCHANGED bound, NEW r \in RunIds, Run(r)
    PROVE  IInv'
<1>1. RunPre(r)
    BY DEF IInv, RunPre
<1>2. ASSUME RunPost(r) PROVE IInv'
  <2>1. Types /\ Types' /\ Control /\ WatchesOk /\ RunKeeps(r) /\ PageKeeps(r)
      BY <1>2 DEF IInv, RunPost
  <2>2. Control'
      BY <2>1, RunControl
  <2>3. WatchesOk'
      BY <2>1, RunPages
  <2> QED BY <2>1, <2>2, <2>3 DEF IInv
<1>3. CASE Fails(r)
    BY <1>1, <1>2, <1>3, FailsStep
<1>4. ASSUME NEW fires \in BOOLEAN, Reads(r, fires) PROVE IInv'
    BY <1>1, <1>2, <1>4, ReadsStep
<1>5. CASE Shows(r)
    BY <1>1, <1>2, <1>5, ShowsStep
<1>6. CASE Raises(r)
    BY <1>1, <1>2, <1>6, RaisesStep
<1>7. CASE Returns(r)
    BY <1>1, <1>2, <1>7, ReturnsStep
<1>8. CASE RemovesItself(r)
    BY <1>8, RemovesItselfStep
<1>9. ASSUME NEW state, Sends(r, state) PROVE IInv'
    BY <1>1, <1>2, <1>9, SendsStep
<1>10. ASSUME NEW state, Settles(r, state) PROVE IInv'
    BY <1>1, <1>2, <1>10, SettlesStep
<1> QED BY <1>3, <1>4, <1>5, <1>6, <1>7, <1>8, <1>9, <1>10 DEF Run

-----------------------------------------------------------------------------
(* A step of a handler. *)

\* A step about w leaves the other watches alone.
Elsewhere(w) ==
    /\ phase' = phase /\ ctxOver' = ctxOver /\ (stale => stale')
    /\ lock = None \/ req[lock].name = w
    /\ lock' = None \/ req'[lock'].name = w
    /\ \A v \in Names : v # w =>
          /\ cfg'[v] = cfg[v] /\ running'[v] = running[v] /\ reg'[v] = reg[v]
          /\ told'[v] = told[v] \/ told'[v] = cfg[v]
          /\ row'[v] = row[v] \/ (row'[v] = NoRow /\ cfg[v] = Nothing)
          /\ v \in booting => v \in booting'
          /\ running[v] # None => runs'[running[v]] = runs[running[v]]

LEMMA OthersKept ==
    ASSUME WatchesOk, NEW w \in Names, Elsewhere(w), stale \in BOOLEAN, stale' \in BOOLEAN,
           Serving => WatchOk(w)'
    PROVE  WatchesOk'
<1> SUFFICES ASSUME Serving, NEW v \in Names, v # w PROVE WatchOk(v)'
    BY DEF WatchesOk, Serving, Elsewhere
<1>1. WatchOk(v)
    BY DEF WatchesOk
<1>2. /\ cfg'[v] = cfg[v] /\ running'[v] = running[v] /\ reg'[v] = reg[v]
      /\ told'[v] = told[v] \/ told'[v] = cfg[v]
      /\ row'[v] = row[v] \/ (row'[v] = NoRow /\ cfg[v] = Nothing)
      /\ v \in booting => v \in booting'
      /\ running[v] # None => runs'[running[v]] = runs[running[v]]
      /\ ctxOver' = ctxOver /\ (stale => stale')
    BY DEF Elsewhere
<1>3. ~Holds(v) /\ ~Holds(v)'
    BY DEF Elsewhere, Holds
<1>4. \A pcs : ~At(v, pcs) /\ ~At(v, pcs)' /\ ~Saving(v, pcs) /\ ~Saving(v, pcs)'
    BY <1>3 DEF At, Saving
<1>5. row'[v] = row[v]
    BY <1>1, <1>2, <1>3 DEF WatchOk, GoneOf
<1>6. SavedOf(v)'
    BY <1>1, <1>2, <1>3, <1>4 DEF WatchOk, SavedOf
<1>7. GoneOf(v)' /\ DownOf(v)'
    BY <1>1, <1>2, <1>3, <1>4, <1>5 DEF WatchOk, GoneOf, DownOf, DownIsTrue
<1>8. ~ctxOver => SendingIsTrue(v)' /\ RetryingIsTrue(v)'
    BY <1>1, <1>2 DEF WatchOk, SendingIsTrue, RetryingIsTrue
<1>9. ASSUME ~stale PROVE AboutOf(v)'
    BY <1>1, <1>2, <1>4, <1>9 DEF WatchOk, AboutOf, SamplesAre
<1> QED BY <1>2, <1>6, <1>7, <1>8, <1>9 DEF WatchOk

\* The holder of the lock, its watch and where it is.
LEMMA HolderIs ==
    ASSUME Types, Control, NEW h \in Handlers, req[h].pc \notin {"idle", "asked"}
    PROVE  /\ lock = h /\ lock # None /\ req[h].name \in Names /\ req[h] \in RequestType
           /\ phase # "boot" /\ booting = {}
           /\ req[h].op \in {"save", "move", "remove", "create"}
           /\ req[h].pc \in Steps(req[h].op)
           /\ Holds(req[h].name) /\ \A pcs : At(req[h].name, pcs) <=> req[h].pc \in pcs
           /\ \A pcs : Saving(req[h].name, pcs) <=> req[h].pc \in pcs /\ req[h].op = "save"
<1>1. req[h] \in RequestType /\ lock \in Handlers \cup {None} /\ RequestOk(h)
    BY DEF Types, WebType, Control, RequestsOk
<1>2. lock = h /\ req[h].name \in Names /\ req[h].pc \in Steps(req[h].op)
      /\ req[h].op # "none"
    BY <1>1 DEF RequestOk
<1>3. lock # None
    BY <1>2, HandlerAssumption
<1>4. phase # "boot" /\ booting = {}
    BY DEF Control, Boots
<1>5. req[h].op \in {"save", "move", "remove", "create"}
    BY <1>1, <1>2 DEF RequestType
<1> QED BY <1>1, <1>2, <1>3, <1>4, <1>5 DEF Holds, At, Saving

\* Control when only a request moves on.
LEMMA RequestControl ==
    ASSUME Types, Control, NEW h \in Handlers, phase # "boot",
           UNCHANGED <<running, runs, ended, started, booting, phase, ctxOver, joined,
                       graceOver, cut, alerts, bound>>,
           \A k \in Handlers : k # h => req'[k] = req[k],
           lock' = lock \/ {lock, lock'} \subseteq {None, h},
           RequestOk(h)',
           lock = h /\ req[h].pc = "wait" =>
              \/ req[h].old = None \/ Over(req[h].old)
              \/ lock' = h /\ req'[h].pc = "wait" /\ req'[h].old = req[h].old
    PROVE  Control'
<1>1. RunIds' = RunIds /\ Serving' = Serving
    BY DEF RunIds, Serving
<1>2. RequestsOk'
  <2> SUFFICES ASSUME NEW k \in Handlers, k # h PROVE RequestOk(k)'
      BY DEF RequestsOk
  <2>1. RequestOk(k) /\ req'[k] = req[k] /\ (lock' = k <=> lock = k)
      BY HandlerAssumption DEF Control, RequestsOk
  <2> QED BY <2>1 DEF RequestOk
<1>3. RunsOk' /\ RunningOk' /\ Known' /\ Ended' /\ StopsAll' /\ Boots'
  <2>1. RunsOk' /\ RunningOk'
      BY <1>1 DEF Control, RunsOk, RunOk, RunningOk
  <2>2. Known' /\ Ended'
      BY <1>1 DEF Control, Known, Ended
  <2>3. StopsAll'
      BY <1>1 DEF Control, StopsAll, Over, Sent
  <2>4. Boots'
      BY DEF Control, Boots
  <2> QED BY <2>1, <2>2, <2>3, <2>4
<1>4. Reached'
  <2> SUFFICES ASSUME NEW r \in RunIds, runs[r].pc \in Live,
                      lock # None, req[lock].pc = "wait", req[lock].old = r
               PROVE  \/ r \in joined \/ running[runs[r].name] = r
                      \/ lock' # None /\ req'[lock'].pc = "wait" /\ req'[lock'].old = r
      BY <1>1 DEF Control, Reached
  <2>1. lock \in Handlers /\ r # None /\ ~Over(r)
      BY RunIdsIs DEF Types, WebType, RunIds, None, Live, Over
  <2>2. CASE lock = h
    <3>1. lock' = h /\ req'[h].pc = "wait" /\ req'[h].old = req[h].old
        BY <2>1, <2>2
    <3> QED BY <2>1, <2>2, <3>1
  <2>3. CASE lock # h
    <3>1. lock' = lock /\ req'[lock] = req[lock]
        BY <2>1, <2>3
    <3> QED BY <3>1
  <2> QED BY <2>2, <2>3
<1> QED BY <1>2, <1>3, <1>4 DEF Control

\* The supervisor's part of the types, the runs as they were.
LEMMA SameRuns ==
    ASSUME Types, UNCHANGED <<running, runs, ended, started, booting, phase, ctxOver, joined,
                              graceOver, cut, alerts, bound>>
    PROVE  SupType' /\ StopType'
BY DEF Types, SupType, StopType, RunIds

\* A request outside the lock.
LEMMA OutsideStep ==
    ASSUME IInv, phase # "boot", NEW h \in Handlers, NEW q \in RequestType,
           lock # h, req' = [req EXCEPT ![h] = q], q.pc \in {"idle", "asked"}, q.old = None,
           q.pc = "idle" => q = NoRequest,
           q.pc # "idle" => q.name \in Names /\ q.op # "none",
           q.pc = "asked" /\ q.op \in {"save", "create"} => q.updated \in Settings,
           q.pc = "asked" /\ q.op = "remove" => q.updated = Nothing,
           UNCHANGED <<cfg, told, lock, stale, supVars, reg, row, stopVars, alerts, bound>>
    PROVE  IInv'
<1> USE DEF IInv
<1>1. UNCHANGED <<cfg, told, lock, stale, running, runs, ended, booting, started, reg, row,
                  phase, ctxOver, joined, graceOver, cut, alerts, bound>>
    BY DEF supVars, stopVars
<1>2. /\ req' \in [Handlers -> RequestType] /\ req'[h] = q
      /\ \A k \in Handlers : k # h => req'[k] = req[k]
    BY DEF Types, WebType
<1>3. SupType' /\ StopType'
    BY <1>1, SameRuns
<1>4. Types'
    BY <1>1, <1>2, <1>3 DEF Types, WebType, PageType
<1>5. RequestOk(h)'
    BY <1>1, <1>2 DEF RequestOk
<1>6. Control'
    BY <1>1, <1>2, <1>5, RequestControl
<1>7. WatchesOk'
  <2> SUFFICES ASSUME Serving, NEW v \in Names PROVE WatchOk(v)'
      BY <1>1 DEF WatchesOk, Serving
  <2>1. WatchOk(v)
      BY DEF WatchesOk
  <2>2. lock # None => req'[lock] = req[lock]
      BY <1>2 DEF Types, WebType
  <2>3. /\ Holds(v)' <=> Holds(v)
        /\ \A pcs : At(v, pcs)' <=> At(v, pcs)
        /\ \A pcs : Saving(v, pcs)' <=> Saving(v, pcs)
        /\ Holds(v) => req'[lock] = req[lock]
      BY <1>1, <2>2 DEF At, Holds, Saving
  <2>4. SavedOf(v)'
      BY <1>1, <2>1, <2>3 DEF WatchOk, SavedOf
  <2>5. GoneOf(v)' /\ DownOf(v)'
      BY <1>1, <2>1, <2>3 DEF WatchOk, GoneOf, DownOf, DownIsTrue, At
  <2>6. ~ctxOver => SendingIsTrue(v)' /\ RetryingIsTrue(v)'
      BY <1>1, <2>1 DEF WatchOk, SendingIsTrue, RetryingIsTrue
  <2>7. ASSUME ~stale PROVE AboutOf(v)'
      BY <1>1, <2>1, <2>3, <2>7 DEF WatchOk, AboutOf, SamplesAre, At, Saving
  <2> QED BY <1>1, <2>4, <2>5, <2>6, <2>7 DEF WatchOk
<1> QED BY <1>4, <1>6, <1>7

LEMMA AsksStep ==
    ASSUME IInv, UNCHANGED bound, NEW h \in Handlers, NEW op, NEW w \in Names, NEW s,
           \/ op \in {"save", "create"} /\ s \in Settings
           \/ op \in {"remove", "move"} /\ s = Nothing,
           Asks(h, op, w, s)
    PROVE  IInv'
<1> DEFINE b == IF op = "save" THEN cfg[w] ELSE Nothing
           q == [NoRequest EXCEPT !.pc = "asked", !.op = op, !.name = w, !.base = b,
                                  !.updated = s]
<1>1. /\ phase = "up" /\ req[h] = NoRequest /\ req' = [req EXCEPT ![h] = q]
      /\ UNCHANGED <<cfg, told, lock, stale, supVars, reg, row, stopVars, alerts, bound>>
    BY DEF Asks
<1>2. b \in AnySetting /\ s \in AnySetting
    BY Zeros DEF IInv, Types, WebType, AnySetting
<1>3. lock # h
    BY <1>1, Zeros DEF IInv, Control, RequestsOk, RequestOk
<1> HIDE DEF b
<1>4. /\ q \in RequestType /\ q.pc = "asked" /\ q.op = op /\ q.name = w /\ q.updated = s
      /\ q.old = None
    BY <1>2, Zeros DEF RequestType, NoRequest
<1> HIDE DEF q
<1> QED BY <1>1, <1>3, <1>4, OutsideStep

LEMMA RefusedStep ==
    ASSUME IInv, UNCHANGED bound, NEW h \in Handlers, Refused(h)
    PROVE  IInv'
<1>1. /\ req[h].pc = "asked" /\ lock = None /\ req' = [req EXCEPT ![h] = NoRequest]
      /\ lock' = lock
      /\ UNCHANGED <<cfg, told, lock, stale, supVars, reg, row, stopVars, alerts, bound>>
    BY DEF Refused, Free, Done, Keeps, supVars
<1>2. phase # "boot" /\ lock # h
    BY <1>1, HandlerAssumption DEF IInv, Control, Boots
<1>3. NoRequest.old = None
    BY DEF NoRequest
<1> QED BY <1>1, <1>2, <1>3, Zeros, OutsideStep

\* The move of a box keeps the notify list and what is startable.
LEMMA MovedIs ==
    ASSUME NEW s, CanMove(s)
    PROVE  Moved(s) \in Settings /\ Moved(s).notify = s.notify
BY DEF CanMove, Moved

LEMMA PersistsStep ==
    ASSUME IInv, UNCHANGED bound, NEW h \in Handlers, NEW w, w = req[h].name, Persists(h)
    PROVE  IInv'
<1> USE DEF IInv
<1> DEFINE q == req[h]
           c == IF q.op = "move" THEN Moved(cfg[w]) ELSE q.updated
           pc == IF q.op = "create" THEN "start" ELSE "stop"
           x == [q EXCEPT !.pc = pc, !.updated = Nothing]
<1>1. /\ q.pc = "asked" /\ lock = None /\ Applicable(h) /\ lock' = h
      /\ cfg' = [cfg EXCEPT ![w] = c]
      /\ stale' = (stale \/ (q.op = "save" /\ q.base # cfg[w]))
      /\ req' = [req EXCEPT ![h] = x]
      /\ UNCHANGED <<told, running, runs, ended, started, booting, reg, row, phase, ctxOver,
                     joined, graceOver, cut, alerts, bound>>
    BY DEF Persists, Free, Keeps, stopVars
<1>2. /\ q \in RequestType /\ w \in Names /\ RequestOk(h) /\ stale \in BOOLEAN
      /\ cfg \in [Names -> AnySetting] /\ req \in [Handlers -> RequestType]
      /\ q.op \in {"save", "create", "remove", "move"}
      /\ phase # "boot" /\ booting = {} /\ h # None /\ lock # h
  <2>1. RequestOk(h) /\ q \in RequestType
      BY DEF Types, WebType, Control, RequestsOk
  <2>2. q.op \in {"save", "create", "remove", "move"} /\ w \in Names
      BY <1>1, <2>1 DEF RequestOk, RequestType
  <2> QED BY <1>1, <2>1, <2>2, HandlerAssumption DEF Types, WebType, Control, Boots
<1>3. /\ c \in AnySetting /\ (c = Nothing <=> q.op = "remove")
      /\ q.op # "remove" => c \in Settings
      /\ q.op = "move" => c.notify = cfg[w].notify
  <2>1. CASE q.op = "move"
      BY <1>1, <2>1, MovedIs, Zeros DEF Applicable, AnySetting
  <2>2. CASE q.op # "move"
      BY <1>1, <1>2, <2>2, Zeros DEF RequestOk, AnySetting
  <2> QED BY <2>1, <2>2
<1>4. cfg[w] = Nothing => q.op \in {"create", "remove"}
    BY <1>1, <1>2 DEF Applicable
<1>5. q.op = "create" => cfg[w] = Nothing
    BY <1>1 DEF Applicable
<1> HIDE DEF c
<1>6. /\ x \in RequestType /\ x.pc = pc /\ x.op = q.op /\ x.name = w /\ x.base = q.base
      /\ x.old = q.old /\ q.old = None
    BY <1>1, <1>2, Zeros DEF RequestType, RequestOk
<1> HIDE DEF x
<1>7. /\ req' \in [Handlers -> RequestType] /\ req'[h] = x
      /\ \A k \in Handlers : k # h => req'[k] = req[k]
      /\ cfg' \in [Names -> AnySetting] /\ cfg'[w] = c
      /\ \A v \in Names : v # w => cfg'[v] = cfg[v]
    BY <1>1, <1>2, <1>3, <1>6
<1>8. Types'
  <2>1. SupType' /\ StopType'
      BY <1>1, SameRuns
  <2>2. WebType' /\ PageType'
      BY <1>1, <1>2, <1>7 DEF Types, WebType, PageType
  <2> QED BY <2>1, <2>2 DEF Types
<1>9. RequestOk(h)'
    BY <1>1, <1>2, <1>6, <1>7 DEF RequestOk, Steps
<1>10. Control'
    BY <1>1, <1>2, <1>7, <1>9, RequestControl
<1>11. Elsewhere(w)
    BY <1>1, <1>2, <1>6, <1>7 DEF Elsewhere
<1>12. ASSUME Serving PROVE WatchOk(w)'
  <2>1. WatchOk(w) /\ ~Holds(w) /\ \A pcs : ~At(w, pcs) /\ ~Saving(w, pcs)
      BY <1>1, <1>2, <1>12 DEF WatchesOk, Holds, At, Saving
  <2>2. /\ Holds(w)' /\ \A pcs : At(w, pcs)' <=> pc \in pcs
        /\ \A pcs : Saving(w, pcs)' <=> pc \in pcs /\ q.op = "save"
        /\ req'[lock'] = x
      BY <1>1, <1>2, <1>6, <1>7 DEF Holds, At, Saving
  <2>3. q.op = "create" => running[w] = None /\ reg[w] = Blank /\ row[w] = NoRow
      BY <1>5, <2>1 DEF WatchOk, GoneOf
  <2>4. SavedOf(w)'
      BY <1>1, <1>3, <1>6, <1>7, <2>1, <2>2, <2>3 DEF SavedOf
  <2>5. GoneOf(w)' /\ DownOf(w)'
      BY <1>1, <1>6, <2>1, <2>2, <2>3 DEF WatchOk, GoneOf, DownOf, DownIsTrue
  <2>6. ~ctxOver => SendingIsTrue(w)' /\ RetryingIsTrue(w)'
      BY <1>1, <2>1 DEF WatchOk, SendingIsTrue, RetryingIsTrue
  <2>7. ASSUME ~stale' PROVE AboutOf(w)'
    <3>1. /\ AboutOf(w) /\ (q.op = "save" => q.base = cfg[w])
          /\ running[w] # None => cfg[w] = runs[running[w]].set
        BY <1>1, <1>2, <2>1, <2>7 DEF WatchOk, SavedOf
    <3>2. /\ cfg[w] # Nothing => SamplesAre(w, cfg[w].reads)
          /\ cfg[w] # Nothing /\ reg[w].delivery.ts # 0 => reg[w].delivery.list = cfg[w].notify
        BY <2>1, <3>1 DEF AboutOf
    <3>3. Saving(w, {"stop", "wait", "drop"})' => SamplesAre(w, req[lock].base.reads)'
        BY <1>1, <1>4, <1>6, <2>2, <3>1, <3>2 DEF SamplesAre
    <3>4. cfg'[w] # Nothing /\ ~At(w, {"stop", "wait", "drop"})' => SamplesAre(w, cfg[w].reads)'
        BY <1>1, <2>2, <2>3 DEF SamplesAre, Blank
    <3>5. CASE q.op = "create"
        BY <1>1, <2>2, <2>3, <3>3, <3>4, <3>5 DEF AboutOf, Blank, NoDelivery
    <3>6. CASE q.op # "create"
      <4>1. pc = "stop"
          BY <3>6
      <4>2. Saving(w, {"stop"})' /\ running'[w] # None =>
               runs'[running'[w]].set = req'[lock'].base
          BY <1>1, <1>6, <2>2, <3>1
      <4>3. /\ At(w, {"stop"})' /\ req'[lock'].op = "move" /\ running'[w] # None =>
                  runs'[running'[w]].set.notify = cfg'[w].notify
            /\ ~Saving(w, {"wait"})'
          BY <1>1, <1>3, <1>6, <1>7, <2>2, <3>1, <4>1
      <4>4. cfg'[w] # Nothing /\ reg'[w].delivery.ts # 0 =>
               \/ reg'[w].delivery.list = cfg'[w].notify
               \/ /\ Saving(w, {"stop", "wait", "drop", "start", "clear", "fail"})'
                  /\ reg'[w].delivery.list = req'[lock'].base.notify
        <5>1. CASE q.op = "remove"
            BY <1>3, <1>7, <5>1
        <5>2. CASE q.op = "move"
            BY <1>1, <1>3, <1>4, <1>7, <3>2, <5>2
        <5>3. CASE q.op = "save"
            BY <1>1, <1>4, <1>6, <2>2, <3>1, <3>2, <4>1, <5>3
        <5> QED BY <1>2, <3>6, <5>1, <5>2, <5>3
      <4> QED BY <3>3, <3>4, <4>2, <4>3, <4>4 DEF AboutOf
    <3> QED BY <3>5, <3>6
  <2> QED BY <1>1, <2>4, <2>5, <2>6, <2>7 DEF WatchOk
<1>13. stale' \in BOOLEAN
    BY <1>1, <1>2
<1>14. WatchesOk'
    BY <1>2, <1>11, <1>12, <1>13, OthersKept
<1> QED BY <1>8, <1>10, <1>14

\* A step of the holder of the lock which leaves runs and config alone: what becomes
\* of its request, and what is left to show.
LEMMA HolderStep ==
    ASSUME IInv, NEW h \in Handlers, req[h].pc \notin {"idle", "asked"},
           NEW w, w = req[h].name, NEW x \in RequestType, req' = [req EXCEPT ![h] = x],
           \/ x = NoRequest /\ lock' = None
           \/ /\ lock' = lock /\ x.name = w /\ x.op = req[h].op
              /\ x.pc \in Steps(x.op) /\ x.old = None,
           req[h].pc = "wait" => req[h].old = None \/ Over(req[h].old),
           UNCHANGED <<cfg, stale, running, runs, ended, started, booting, phase, ctxOver,
                       joined, graceOver, cut, alerts, bound>>,
           NEW g \in RegType, Len(g.samples) <= SamplesKept,
           reg' = [reg EXCEPT ![w] = g],
           told' \in [Names -> AnySetting], row' \in [Names -> RowType],
           \A v \in Names : v # w =>
              /\ told'[v] = told[v] \/ told'[v] = cfg[v]
              /\ row'[v] = row[v] \/ (row'[v] = NoRow /\ cfg[v] = Nothing),
           Serving => WatchOk(w)'
    PROVE  IInv'
<1> USE DEF IInv
<1>1. /\ lock = h /\ lock # None /\ w \in Names /\ phase # "boot" /\ booting = {}
    BY HolderIs
<1>2. /\ req' \in [Handlers -> RequestType] /\ req'[h] = x
      /\ \A k \in Handlers : k # h => req'[k] = req[k]
      /\ reg' \in [Names -> RegType] /\ reg'[w] = g
      /\ \A v \in Names : v # w => reg'[v] = reg[v]
      /\ \A v \in Names : Len(reg'[v].samples) <= SamplesKept
    BY <1>1 DEF Types, WebType, PageType
<1>3. \/ x.pc = "idle"
      \/ lock' = h /\ x.pc \notin {"idle", "asked"}
  <2>1. req[h].op \in {"save", "move", "remove", "create"}
      BY HolderIs
  <2>2. CASE x = NoRequest
      BY <2>2 DEF NoRequest
  <2>3. CASE lock' = lock /\ x.op = req[h].op /\ x.pc \in Steps(x.op)
      BY <1>1, <2>1, <2>3 DEF Steps
  <2> QED BY <2>2, <2>3
<1>4. Types'
  <2>1. SupType' /\ StopType'
      BY SameRuns
  <2>2. WebType' /\ PageType'
      BY <1>1, <1>2 DEF Types, WebType, PageType
  <2> QED BY <2>1, <2>2 DEF Types
<1>5. RequestOk(h)'
  <2>1. CASE x = NoRequest /\ lock' = None
      BY <1>1, <1>2, <2>1 DEF RequestOk, NoRequest
  <2>2. CASE /\ lock' = lock /\ x.name = w /\ x.op = req[h].op
             /\ x.pc \in Steps(x.op) /\ x.old = None
    <3>1. x.pc \notin {"idle", "asked"} /\ x.op # "none"
        BY <1>1, <2>2, HolderIs DEF Steps
    <3> QED BY <1>1, <1>2, <2>2, <3>1 DEF RequestOk
  <2> QED BY <2>1, <2>2
<1>6. Control'
  <2>1. lock' = lock \/ {lock, lock'} \subseteq {None, h}
      BY <1>1
  <2>2. lock = h /\ req[h].pc = "wait" => req[h].old = None \/ Over(req[h].old)
      OBVIOUS
  <2> QED BY <1>1, <1>2, <1>5, <2>1, <2>2, RequestControl
<1>7. lock' = None \/ req'[lock'].name = w
    BY <1>1, <1>2
<1>8. Elsewhere(w)
    BY <1>1, <1>2, <1>7 DEF Elsewhere
<1>9. stale \in BOOLEAN /\ stale' \in BOOLEAN
    BY DEF Types, WebType
<1>10. WatchesOk'
    BY <1>1, <1>8, <1>9, OthersKept
<1> QED BY <1>4, <1>6, <1>10

\* Where the watch stands when the request of its holder has become x, and when the
\* lock is free again.
LEMMA HolderNow ==
    ASSUME NEW h \in Handlers, NEW w, NEW x, lock' = h, req'[h] = x, x.name = w
    PROVE  /\ Holds(w)' /\ req'[lock'] = x
           /\ \A pcs : At(w, pcs)' <=> x.pc \in pcs
           /\ \A pcs : Saving(w, pcs)' <=> x.pc \in pcs /\ x.op = "save"
BY HandlerAssumption DEF Holds, At, Saving

LEMMA FreeNow ==
    ASSUME lock' = None
    PROVE  \A w \in Names : ~Holds(w)' /\ \A pcs : ~At(w, pcs)' /\ ~Saving(w, pcs)'
BY DEF Holds, At, Saving

\* What the holder's request becomes, but for where it is.
LEMMA NextRequest ==
    ASSUME NEW q \in RequestType,
           NEW pc \in {"stop", "wait", "drop", "start", "clear", "fail", "tell"}
    PROVE  /\ [q EXCEPT !.pc = pc] \in RequestType
           /\ [q EXCEPT !.pc = pc].pc = pc /\ [q EXCEPT !.pc = pc].op = q.op
           /\ [q EXCEPT !.pc = pc].name = q.name /\ [q EXCEPT !.pc = pc].base = q.base
           /\ [q EXCEPT !.pc = pc].old = q.old
BY DEF RequestType

LEMMA WaitsStep ==
    ASSUME IInv, UNCHANGED bound, NEW h \in Handlers, NEW w, w = req[h].name, Waits(h)
    PROVE  IInv'
<1> USE DEF IInv
<1> DEFINE x == [req[h] EXCEPT !.pc = "drop", !.old = None]
<1>1. /\ req[h].pc = "wait" /\ req' = [req EXCEPT ![h] = x] /\ lock' = lock
      /\ req[h].old = None \/ Over(req[h].old)
      /\ UNCHANGED <<cfg, stale, running, runs, ended, started, booting, phase, ctxOver,
                     joined, graceOver, cut, alerts, bound>>
      /\ UNCHANGED <<reg, row, told>>
    BY DEF Waits, Keeps, stopVars
<1>2. /\ lock = h /\ w \in Names /\ req[h] \in RequestType
      /\ req[h].op \in {"save", "move", "remove", "create"} /\ req[h].pc \in Steps(req[h].op)
      /\ \A pcs : At(w, pcs) <=> req[h].pc \in pcs
      /\ \A pcs : Saving(w, pcs) <=> req[h].pc \in pcs /\ req[h].op = "save"
      /\ Holds(w)
    BY <1>1, HolderIs
<1>3. x \in RequestType /\ x.pc = "drop" /\ x.op = req[h].op /\ x.name = w
      /\ x.base = req[h].base /\ x.old = None
    BY <1>2 DEF RequestType, None
<1> HIDE DEF x
<1>4. x.pc \in Steps(x.op)
    BY <1>1, <1>2, <1>3 DEF Steps
<1>5. /\ reg[w] \in RegType /\ Len(reg[w].samples) <= SamplesKept
      /\ reg' = [reg EXCEPT ![w] = reg[w]]
      /\ told \in [Names -> AnySetting] /\ row \in [Names -> RowType]
    BY <1>1, <1>2 DEF Types, WebType, PageType
<1>6. req'[h] = x
    BY <1>1 DEF Types, WebType
<1>7. ASSUME Serving PROVE WatchOk(w)'
  <2>1. WatchOk(w)
      BY <1>2, <1>7 DEF WatchesOk
  <2>2. /\ Holds(w)' /\ req'[lock'] = x
        /\ \A pcs : At(w, pcs)' <=> "drop" \in pcs
        /\ \A pcs : Saving(w, pcs)' <=> "drop" \in pcs /\ req[h].op = "save"
      BY <1>1, <1>2, <1>3, <1>6, HolderNow
  <2>3. SavedOf(w)'
      BY <1>1, <1>2, <1>3, <2>1, <2>2 DEF WatchOk, SavedOf
  <2>4. GoneOf(w)' /\ DownOf(w)'
      BY <1>1, <1>2, <1>3, <2>1, <2>2 DEF WatchOk, GoneOf, DownOf, DownIsTrue
  <2>5. ~ctxOver => SendingIsTrue(w)' /\ RetryingIsTrue(w)'
      BY <1>1, <2>1 DEF WatchOk, SendingIsTrue, RetryingIsTrue
  <2>6. ASSUME ~stale PROVE AboutOf(w)'
      BY <1>1, <1>2, <1>3, <2>1, <2>2, <2>6 DEF WatchOk, AboutOf, SamplesAre
  <2> QED BY <1>1, <2>3, <2>4, <2>5, <2>6 DEF WatchOk
<1> QED
  <2>1. lock' = lock /\ x.name = w /\ x.op = req[h].op /\ x.pc \in Steps(x.op) /\ x.old = None
      BY <1>1, <1>3, <1>4
  <2>2. req[h].pc \notin {"idle", "asked"}
      BY <1>1
  <2> QED BY <1>1, <1>3, <1>5, <1>7, <2>1, <2>2, HolderStep

LEMMA DropsStep ==
    ASSUME IInv, UNCHANGED bound, NEW h \in Handlers, NEW w, w = req[h].name, Drops(h)
    PROVE  IInv'
<1> USE DEF IInv
<1> DEFINE pc == IF req[h].op = "remove" THEN "tell" ELSE "start"
           x == [req[h] EXCEPT !.pc = pc]
           g == Forgets(h)
<1>1. /\ req[h].pc = "drop" /\ req' = [req EXCEPT ![h] = x] /\ lock' = lock
      /\ reg' = [reg EXCEPT ![w] = g]
      /\ UNCHANGED <<cfg, stale, running, runs, ended, started, booting, phase, ctxOver,
                     joined, graceOver, cut, alerts, bound>>
      /\ UNCHANGED <<row, told>>
    BY DEF Drops, Go, Keeps, stopVars
<1>2. /\ lock = h /\ w \in Names /\ req[h] \in RequestType
      /\ req[h].op \in {"save", "move", "remove", "create"} /\ req[h].pc \in Steps(req[h].op)
      /\ \A pcs : At(w, pcs) <=> req[h].pc \in pcs
      /\ \A pcs : Saving(w, pcs) <=> req[h].pc \in pcs /\ req[h].op = "save"
      /\ Holds(w)
    BY <1>1, HolderIs
<1>3. req[h].op \in {"save", "move", "remove"} /\ req[h].old = None
    BY <1>1, <1>2 DEF Steps, Control, RequestsOk, RequestOk
<1>4. x \in RequestType /\ x.pc = pc /\ x.op = req[h].op /\ x.name = w
      /\ x.base = req[h].base /\ x.old = None
  <2>1. pc \in {"stop", "wait", "drop", "start", "clear", "fail", "tell"}
      OBVIOUS
  <2>2. x = [req[h] EXCEPT !.pc = pc]
      OBVIOUS
  <2> HIDE DEF pc, x
  <2> QED BY <1>2, <1>3, <2>1, <2>2 DEF RequestType
<1> HIDE DEF x
<1>5. x.pc \in Steps(x.op)
    BY <1>3, <1>4 DEF Steps
<1>6. /\ reg[w] \in RegType /\ Len(reg[w].samples) <= SamplesKept /\ SamplesKept \in Nat
      /\ reg \in [Names -> RegType]
      /\ told \in [Names -> AnySetting] /\ row \in [Names -> RowType]
    BY <1>2, SettingAssumption DEF Types, WebType, PageType
<1>7. /\ req[h].op = "remove" => g = Blank
      /\ req[h].op = "move" => g = DropSamples(reg[w])
      /\ req[h].op = "save" =>
            \/ g = DropSamples(reg[w])
            \/ g = reg[w] /\ req[h].base.reads = cfg[w].reads
    BY DEF Forgets, readsDifferently
<1> HIDE DEF g
<1>8. /\ DropSamples(reg[w]) \in RegType /\ Blank \in RegType /\ Blank.samples = <<>>
      /\ DropSamples(reg[w]).samples = <<>> /\ DropSamples(reg[w]).down = reg[w].down
      /\ DropSamples(reg[w]).sending = reg[w].sending
      /\ DropSamples(reg[w]).delivery = reg[w].delivery
      /\ Blank.sending = 0 /\ Blank.delivery.state = "none" /\ Blank.down = FALSE
    BY <1>6, PageOps DEF DropSamples, RegType, Blank, NoDelivery
<1>9. g \in RegType /\ Len(g.samples) <= SamplesKept
    BY <1>3, <1>6, <1>7, <1>8
<1>10. req'[h] = x /\ reg'[w] = g
    BY <1>1, <1>2, <1>6 DEF Types, WebType
<1>11. ASSUME Serving PROVE WatchOk(w)'
  <2>1. WatchOk(w)
      BY <1>2, <1>11 DEF WatchesOk
  <2>2. /\ Holds(w)' /\ req'[lock'] = x
        /\ \A pcs : At(w, pcs)' <=> pc \in pcs
        /\ \A pcs : Saving(w, pcs)' <=> pc \in pcs /\ req[h].op = "save"
      BY <1>1, <1>2, <1>4, <1>10, HolderNow
  <2>3. running[w] = None /\ (cfg[w] = Nothing <=> req[h].op = "remove")
      BY <1>1, <1>2, <2>1 DEF WatchOk, SavedOf
  <2>4. SavedOf(w)'
      BY <1>1, <1>3, <1>4, <1>2, <2>1, <2>2, <2>3, Zeros DEF WatchOk, SavedOf
  <2>5. GoneOf(w)' /\ DownOf(w)'
    <3>1. GoneOf(w)'
        BY <1>1, <1>3, <1>4, <1>7, <1>10, <2>2, <2>3 DEF GoneOf
    <3>2. g.down => row[w].down
        BY <1>3, <1>7, <1>8, <2>1 DEF WatchOk, DownOf
    <3> QED BY <1>1, <1>10, <2>3, <3>1, <3>2 DEF DownOf, DownIsTrue
  <2>6. ~ctxOver => SendingIsTrue(w)' /\ RetryingIsTrue(w)'
    <3>1. ~ctxOver => reg[w].sending = 0 /\ reg[w].delivery.state # "retrying"
        BY <2>1, <2>3 DEF WatchOk, SendingIsTrue, RetryingIsTrue
    <3>2. ~ctxOver => g.sending = 0 /\ g.delivery.state # "retrying"
        BY <1>3, <1>7, <1>8, <3>1
    <3> QED BY <1>10, <3>2 DEF SendingIsTrue, RetryingIsTrue
  <2>7. ASSUME ~stale PROVE AboutOf(w)'
    <3>1. AboutOf(w)
        BY <2>1, <2>7 DEF WatchOk
    <3>2. cfg[w] # Nothing => \A i \in 1..Len(g.samples) : g.samples[i] = cfg[w].reads
      <4>1. CASE g = reg[w] /\ req[h].op = "save" /\ req[h].base.reads = cfg[w].reads
        <5>1. Saving(w, {"stop", "wait", "drop"})
            BY <1>1, <1>2, <4>1
        <5> QED BY <1>2, <3>1, <4>1, <5>1 DEF AboutOf, SamplesAre
      <4>2. CASE g = DropSamples(reg[w]) \/ req[h].op = "remove"
          BY <1>8, <2>3, <4>2
      <4> QED BY <1>3, <1>7, <4>1, <4>2
    <3>3. cfg[w] # Nothing /\ g.delivery.ts # 0 =>
             \/ g.delivery.list = cfg[w].notify
             \/ req[h].op = "save" /\ g.delivery.list = req[h].base.notify
      <4>1. req[h].op # "remove" => g.delivery = reg[w].delivery
          BY <1>3, <1>7, <1>8
      <4> QED BY <1>2, <2>3, <3>1, <4>1 DEF AboutOf
    <3>4. pc \notin {"stop", "wait", "drop"} /\ (req[h].op = "save" => pc = "start")
        OBVIOUS
    <3> HIDE DEF pc
    <3>5. /\ ~At(w, {"stop"})' /\ ~At(w, {"stop", "wait", "drop"})'
          /\ ~Saving(w, {"stop", "wait", "drop"})' /\ ~Saving(w, {"stop"})'
          /\ ~Saving(w, {"wait"})'
          /\ req[h].op = "save" =>
                Saving(w, {"stop", "wait", "drop", "start", "clear", "fail"})'
        BY <2>2, <3>4
    <3> QED BY <1>1, <1>4, <1>10, <2>2, <3>2, <3>3, <3>5 DEF AboutOf, SamplesAre
  <2> QED BY <1>1, <2>4, <2>5, <2>6, <2>7 DEF WatchOk
<1> QED
  <2>1. lock' = lock /\ x.name = w /\ x.op = req[h].op /\ x.pc \in Steps(x.op) /\ x.old = None
      BY <1>1, <1>4, <1>5
  <2>2. req[h].pc \notin {"idle", "asked"} /\ req[h].pc # "wait"
      BY <1>1
  <2> QED BY <1>1, <1>4, <1>6, <1>9, <1>11, <2>1, <2>2, HolderStep

LEMMA ClearsStep ==
    ASSUME IInv, UNCHANGED bound, NEW h \in Handlers, NEW w, w = req[h].name, Clears(h)
    PROVE  IInv'
<1> USE DEF IInv
<1> DEFINE x == IF req[h].pc = "clear" THEN [req[h] EXCEPT !.pc = "tell"] ELSE NoRequest
           g == IF req[h].base.notify = cfg[w].notify THEN reg[w] ELSE ClearDelivery(reg[w])
<1>1. /\ req[h].pc \in {"clear", "fail"} /\ req' = [req EXCEPT ![h] = x]
      /\ lock' = IF req[h].pc = "clear" THEN lock ELSE None
      /\ UNCHANGED <<cfg, stale, running, runs, ended, started, booting, phase, ctxOver,
                     joined, graceOver, cut, alerts, bound>>
      /\ UNCHANGED <<row, told>>
    BY DEF Clears, Go, Done, Keeps, stopVars
<1>2. /\ lock = h /\ w \in Names /\ req[h] \in RequestType
      /\ req[h].op \in {"save", "move", "remove", "create"} /\ req[h].pc \in Steps(req[h].op)
      /\ \A pcs : At(w, pcs) <=> req[h].pc \in pcs
      /\ \A pcs : Saving(w, pcs) <=> req[h].pc \in pcs /\ req[h].op = "save"
      /\ Holds(w)
    BY <1>1, HolderIs
<1>3. req[h].op = "save" /\ req[h].old = None
    BY <1>1, <1>2 DEF Steps, Control, RequestsOk, RequestOk
<1>4. /\ reg[w] \in RegType /\ Len(reg[w].samples) <= SamplesKept
      /\ reg \in [Names -> RegType]
      /\ told \in [Names -> AnySetting] /\ row \in [Names -> RowType]
    BY <1>2 DEF Types, WebType, PageType
<1>5. reg' = [reg EXCEPT ![w] = g]
    BY <1>4 DEF Clears, ClearsDelivery
<1>6. /\ x \in RequestType
      /\ \/ x = NoRequest /\ lock' = None /\ req[h].pc = "fail"
         \/ /\ lock' = lock /\ x.name = w /\ x.op = "save" /\ x.pc = "tell" /\ x.old = None
            /\ req[h].pc = "clear"
  <2>1. CASE req[h].pc = "clear"
    <3>1. x = [req[h] EXCEPT !.pc = "tell"]
        BY <2>1
    <3> HIDE DEF x
    <3> QED BY <1>1, <1>2, <1>3, <2>1, <3>1, NextRequest
  <2>2. CASE req[h].pc = "fail"
      BY <1>1, <2>2, Zeros
  <2> QED BY <1>1, <2>1, <2>2
<1> HIDE DEF x
<1>7. /\ g \in RegType /\ g.samples = reg[w].samples /\ g.down = reg[w].down
      /\ \/ g.delivery = reg[w].delivery /\ g.sending = reg[w].sending
            /\ req[h].base.notify = cfg[w].notify
         \/ g.delivery = NoDelivery /\ g.sending = 0
  <2>1. NoDelivery \in DeliveryType
      BY DEF NoDelivery, DeliveryType
  <2>2. CASE req[h].base.notify = cfg[w].notify
      BY <1>4, <2>2
  <2>3. CASE req[h].base.notify # cfg[w].notify
    <3>1. g = ClearDelivery(reg[w])
        BY <2>3
    <3> HIDE DEF g
    <3> QED BY <1>4, <2>1, <3>1 DEF ClearDelivery, RegType
  <2> QED BY <2>2, <2>3
<1> HIDE DEF g
<1>8. req'[h] = x /\ reg'[w] = g
    BY <1>1, <1>2, <1>4, <1>5 DEF Types, WebType
<1>9. ASSUME Serving PROVE WatchOk(w)'
  <2>1. WatchOk(w)
      BY <1>2, <1>9 DEF WatchesOk
  <2>2. \/ /\ Holds(w)' /\ req'[lock'] = x /\ req'[lock'].op = "save" /\ req[h].pc = "clear"
           /\ \A pcs : At(w, pcs)' <=> "tell" \in pcs
           /\ \A pcs : Saving(w, pcs)' <=> "tell" \in pcs
        \/ ~Holds(w)' /\ req[h].pc = "fail" /\ \A pcs : ~At(w, pcs)' /\ ~Saving(w, pcs)'
    <3>1. CASE /\ lock' = lock /\ x.name = w /\ x.op = "save" /\ x.pc = "tell"
               /\ req[h].pc = "clear"
        BY <1>2, <1>8, <3>1, HolderNow
    <3>2. CASE lock' = None /\ req[h].pc = "fail"
        BY <1>2, <3>2, FreeNow
    <3> QED BY <1>6, <3>1, <3>2
  <2>3. /\ cfg[w] # Nothing /\ (req[h].pc = "fail" => running[w] = None)
        /\ ~At(w, {"stop", "wait", "drop"})
        /\ cfg[w].starts /\ ~ctxOver => running[w] # None \/ w \in booting
    <3>1. SavedOf(w) /\ lock # None
        BY <1>2, <2>1, HandlerAssumption DEF WatchOk
    <3>2. ~At(w, {"stop", "wait", "drop", "start"}) /\ ~At(w, {"stop", "wait", "drop"})
        BY <1>1, <1>2
    <3> QED BY <1>1, <1>2, <1>3, <3>1, <3>2 DEF SavedOf
  <2>4. SavedOf(w)'
    <3>1. SavedOf(w) /\ ~At(w, {"stop"})
        BY <1>1, <1>2, <2>1 DEF WatchOk
    <3>2. CASE /\ Holds(w)' /\ req'[lock'].op = "save"
               /\ \A pcs : At(w, pcs)' <=> "tell" \in pcs
        BY <1>1, <2>3, <3>1, <3>2 DEF SavedOf
    <3>3. CASE ~Holds(w)' /\ running[w] = None
        BY <1>1, <2>3, <3>3 DEF SavedOf
    <3> QED BY <2>2, <2>3, <3>2, <3>3
  <2>5. GoneOf(w)' /\ DownOf(w)'
    <3>1. GoneOf(w)'
        BY <1>1, <2>2, <2>3 DEF GoneOf
    <3> QED BY <1>1, <1>7, <1>8, <2>1, <3>1 DEF WatchOk, DownOf, DownIsTrue
  <2>6. ~ctxOver => SendingIsTrue(w)' /\ RetryingIsTrue(w)'
      BY <1>1, <1>7, <1>8, <2>1 DEF WatchOk, SendingIsTrue, RetryingIsTrue, NoDelivery
  <2>7. ASSUME ~stale PROVE AboutOf(w)'
    <3>1. AboutOf(w)
        BY <2>1, <2>7 DEF WatchOk
    <3>2. /\ SamplesAre(w, cfg[w].reads)
          /\ g.delivery.ts # 0 => g.delivery.list = cfg[w].notify
        BY <1>2, <1>7, <2>3, <3>1 DEF AboutOf, NoDelivery
    <3>3. /\ ~Saving(w, {"stop", "wait", "drop"})' /\ ~Saving(w, {"stop"})'
          /\ ~Saving(w, {"wait"})' /\ ~At(w, {"stop"})'
        BY <2>2
    <3> QED BY <1>1, <1>7, <1>8, <3>2, <3>3 DEF AboutOf, SamplesAre
  <2> QED BY <1>1, <2>4, <2>5, <2>6, <2>7 DEF WatchOk
<1> QED
  <2>1. \/ x = NoRequest /\ lock' = None
        \/ lock' = lock /\ x.name = w /\ x.op = req[h].op /\ x.pc \in Steps(x.op) /\ x.old = None
      BY <1>3, <1>6 DEF Steps
  <2>2. req[h].pc \notin {"idle", "asked"} /\ req[h].pc # "wait"
      BY <1>1
  <2>3. Len(g.samples) <= SamplesKept
      BY <1>4, <1>7
  <2> QED BY <1>1, <1>4, <1>5, <1>6, <1>7, <1>9, <2>1, <2>2, <2>3, HolderStep

LEMMA TellsStep ==
    ASSUME IInv, UNCHANGED bound, NEW h \in Handlers, NEW w, w = req[h].name, Tells(h)
    PROVE  IInv'
<1> USE DEF IInv
<1>1. /\ req[h].pc = "tell" /\ req' = [req EXCEPT ![h] = NoRequest] /\ lock' = None
      /\ told' = cfg /\ row' = ForgetExcept(row, cfg) /\ reg' = reg
      /\ UNCHANGED <<cfg, stale, running, runs, ended, started, booting, phase, ctxOver,
                     joined, graceOver, cut, alerts, bound>>
    BY DEF Tells, Done, Keeps, stopVars
<1>2. /\ lock = h /\ w \in Names /\ req[h] \in RequestType
      /\ \A pcs : At(w, pcs) <=> req[h].pc \in pcs
      /\ \A pcs : Saving(w, pcs) <=> req[h].pc \in pcs /\ req[h].op = "save"
      /\ Holds(w)
    BY <1>1, HolderIs
<1>3. /\ reg[w] \in RegType /\ Len(reg[w].samples) <= SamplesKept
      /\ reg' = [reg EXCEPT ![w] = reg[w]]
      /\ cfg \in [Names -> AnySetting] /\ row \in [Names -> RowType]
    BY <1>1, <1>2 DEF Types, WebType, PageType
<1>4. /\ row' \in [Names -> RowType]
      /\ \A v \in Names : row'[v] = IF cfg[v] = Nothing THEN NoRow ELSE row[v]
    BY <1>1, <1>3, Zeros DEF ForgetExcept
<1>5. ~Holds(w)' /\ \A pcs : ~At(w, pcs)' /\ ~Saving(w, pcs)'
    BY <1>1, <1>2, FreeNow
<1>6. ASSUME Serving PROVE WatchOk(w)'
  <2>1. WatchOk(w)
      BY <1>2, <1>6 DEF WatchesOk
  <2>2. cfg[w] = Nothing => reg[w] = Blank /\ running[w] = None
      BY <1>1, <1>2, <2>1 DEF WatchOk, GoneOf, SavedOf
  <2>3. /\ ~At(w, {"stop"}) /\ ~At(w, {"stop", "wait", "drop", "start"})
        /\ ~At(w, {"stop", "wait", "drop"})
        /\ ~Saving(w, {"stop", "wait", "drop", "start", "clear", "fail"})
      BY <1>1, <1>2
  <2>4. SavedOf(w)'
      BY <1>1, <1>5, <2>1, <2>2, <2>3 DEF WatchOk, SavedOf
  <2>5. GoneOf(w)' /\ DownOf(w)'
    <3>1. CASE cfg[w] = Nothing
        BY <1>1, <1>2, <1>4, <1>5, <2>2, <3>1 DEF GoneOf, DownOf, DownIsTrue, Blank
    <3>2. CASE cfg[w] # Nothing
        BY <1>1, <1>2, <1>4, <1>5, <2>1, <3>2 DEF WatchOk, GoneOf, DownOf, DownIsTrue
    <3> QED BY <3>1, <3>2
  <2>6. ~ctxOver => SendingIsTrue(w)' /\ RetryingIsTrue(w)'
      BY <1>1, <2>1 DEF WatchOk, SendingIsTrue, RetryingIsTrue
  <2>7. ASSUME ~stale PROVE AboutOf(w)'
      BY <1>1, <1>5, <2>1, <2>3, <2>7 DEF WatchOk, AboutOf, SamplesAre
  <2> QED BY <1>1, <2>4, <2>5, <2>6, <2>7 DEF WatchOk
<1> QED
  <2>1. req[h].pc \notin {"idle", "asked"} /\ req[h].pc # "wait"
      BY <1>1
  <2>2. \A v \in Names : v # w =>
           /\ told'[v] = told[v] \/ told'[v] = cfg[v]
           /\ row'[v] = row[v] \/ (row'[v] = NoRow /\ cfg[v] = Nothing)
      BY <1>1, <1>4
  <2>3. told' \in [Names -> AnySetting]
      BY <1>1, <1>3
  <2> DEFINE x == NoRequest
             g == reg[w]
  <2>4. /\ x \in RequestType
        /\ \/ x = NoRequest /\ lock' = None
           \/ /\ lock' = lock /\ x.name = w /\ x.op = req[h].op
              /\ x.pc \in Steps(x.op) /\ x.old = None
      BY <1>1, Zeros
  <2>5. /\ req' = [req EXCEPT ![h] = x] /\ reg' = [reg EXCEPT ![w] = g]
        /\ g \in RegType /\ Len(g.samples) <= SamplesKept
      BY <1>1, <1>3
  <2>6. UNCHANGED <<cfg, stale, running, runs, ended, started, booting, phase, ctxOver, joined,
                    graceOver, cut, alerts, bound>>
      BY <1>1
  <2>7. row' \in [Names -> RowType]
      BY <1>4
  <2> HIDE DEF x, g
  <2> QED BY <1>6, <2>1, <2>2, <2>3, <2>4, <2>5, <2>6, <2>7, HolderStep

LEMMA StopsStep ==
    ASSUME IInv, UNCHANGED bound, NEW h \in Handlers, NEW w, w = req[h].name, Stops(h)
    PROVE  IInv'
<1> USE DEF IInv
<1> DEFINE r == running[w]
           x == [req[h] EXCEPT !.pc = "wait", !.old = r]
           g == IF r = None THEN reg[w] ELSE EndRetrying(ClearSending(reg[w]))
<1>1. /\ req[h].pc = "stop" /\ req' = [req EXCEPT ![h] = x] /\ lock' = lock
      /\ StopTakes(w)
      /\ UNCHANGED <<cfg, stale, ended, started, booting, phase, ctxOver,
                     joined, graceOver, cut, alerts, bound>>
      /\ UNCHANGED <<row, told>>
    BY DEF Stops, Keeps, stopVars
<1>2. /\ lock = h /\ w \in Names /\ req[h] \in RequestType
      /\ req[h].op \in {"save", "move", "remove", "create"} /\ req[h].pc \in Steps(req[h].op)
      /\ \A pcs : At(w, pcs) <=> req[h].pc \in pcs
      /\ \A pcs : Saving(w, pcs) <=> req[h].pc \in pcs /\ req[h].op = "save"
      /\ Holds(w) /\ phase # "boot" /\ booting = {}
    BY <1>1, HolderIs
<1>3. /\ reg[w] \in RegType /\ Len(reg[w].samples) <= SamplesKept /\ r \in Nat
      /\ reg \in [Names -> RegType] /\ running \in [Names -> Nat] /\ runs \in [RunIds -> RunType]
      /\ told \in [Names -> AnySetting] /\ row \in [Names -> RowType]
      /\ req \in [Handlers -> RequestType]
    BY <1>2 DEF Types, WebType, PageType, SupType
<1>4. /\ x \in RequestType /\ x.pc = "wait" /\ x.op = req[h].op /\ x.name = w
      /\ x.base = req[h].base /\ x.old = r
  <2> HIDE DEF r
  <2> QED BY <1>2, <1>3 DEF RequestType
<1>5. x.pc \in Steps(x.op)
  <2> HIDE DEF x
  <2> QED BY <1>1, <1>2, <1>4 DEF Steps
<1> HIDE DEF x
<1>6. /\ g \in RegType /\ g.samples = reg[w].samples /\ g.down = reg[w].down
      /\ r # None => g.sending = 0 /\ g.delivery.state # "retrying"
      /\ r = None => g = reg[w]
      /\ g.delivery.ts = reg[w].delivery.ts /\ g.delivery.list = reg[w].delivery.list
  <2>1. CASE r = None
      BY <1>3, <2>1
  <2>2. CASE r # None
    <3> DEFINE c == ClearSending(reg[w])
    <3>1. c \in RegType /\ c.samples = reg[w].samples /\ c.down = reg[w].down
          /\ c.sending = 0 /\ c.delivery = reg[w].delivery
        BY <1>3 DEF ClearSending, RegType
    <3>2. g = EndRetrying(c)
        BY <2>2
    <3> HIDE DEF c, g, r
    <3>3. CASE c.delivery.state = "retrying"
      <4>1. g = [c EXCEPT !.delivery.state = "dropped"]
          BY <3>2, <3>3 DEF EndRetrying
      <4>2. g \in RegType /\ g.samples = c.samples /\ g.down = c.down /\ g.sending = c.sending
            /\ g.delivery.state = "dropped" /\ g.delivery.ts = c.delivery.ts
            /\ g.delivery.list = c.delivery.list
          BY <3>1, <4>1 DEF RegType, DeliveryType
      <4> QED BY <2>2, <3>1, <4>2
    <3>4. CASE c.delivery.state # "retrying"
      <4>1. g = c
          BY <3>2, <3>4 DEF EndRetrying
      <4> QED BY <2>2, <3>1, <3>4, <4>1
    <3> QED BY <3>3, <3>4
  <2> QED BY <2>1, <2>2
<1>7. /\ running' = [running EXCEPT ![w] = None] /\ reg' = [reg EXCEPT ![w] = g]
      /\ r # None => runs' = [runs EXCEPT ![r].cancelled = TRUE]
      /\ r = None => runs' = runs
  <2>1. CASE r = None
      BY <1>1, <1>3, <2>1 DEF StopTakes
  <2>2. CASE r # None
      BY <1>1, <1>3, <2>2 DEF StopTakes
  <2> QED BY <2>1, <2>2
<1> HIDE DEF g
<1>8. r # None => /\ r \in 1..started /\ r \in RunIds /\ runs[r].name = w
                  /\ runs[r].pc \in Live /\ r \notin joined
    BY <1>2, RunIdsIs DEF Control, RunningOk
<1>9. /\ req'[h] = x /\ \A k \in Handlers : k # h => req'[k] = req[k]
      /\ req' \in [Handlers -> RequestType]
      /\ reg'[w] = g /\ \A v \in Names : v # w => reg'[v] = reg[v]
      /\ reg' \in [Names -> RegType]
      /\ running'[w] = None /\ \A v \in Names : v # w => running'[v] = running[v]
      /\ running' \in [Names -> Nat]
  <2> HIDE DEF r
  <2> QED BY <1>1, <1>2, <1>3, <1>4, <1>6, <1>7 DEF None
<1>10. /\ runs' \in [RunIds -> RunType]
       /\ \A q \in RunIds :
            /\ q # r => runs'[q] = runs[q]
            /\ runs'[q].pc = runs[q].pc /\ runs'[q].name = runs[q].name
            /\ runs'[q].set = runs[q].set /\ runs'[q].ts = runs[q].ts
            /\ runs'[q].box = runs[q].box /\ runs'[q].owed = runs[q].owed
            /\ runs[q].cancelled => runs'[q].cancelled
       /\ r # None => runs'[r].cancelled
  <2>1. CASE r = None
      BY <1>3, <1>7, <2>1
  <2>2. CASE r # None
    <3> DEFINE y == [runs[r] EXCEPT !.cancelled = TRUE]
    <3>1. /\ y \in RunType /\ y.pc = runs[r].pc /\ y.name = runs[r].name
          /\ y.set = runs[r].set /\ y.ts = runs[r].ts /\ y.box = runs[r].box
          /\ y.owed = runs[r].owed /\ y.cancelled = TRUE
      <4>1. runs[r] \in RunType
          BY <1>3, <1>8, <2>2
      <4> HIDE DEF r
      <4> QED BY <4>1 DEF RunType
    <3>2. runs' = [runs EXCEPT ![r] = y]
        BY <1>7, <2>2
    <3> HIDE DEF y, r
    <3> QED BY <1>3, <1>8, <2>2, <3>1, <3>2
  <2> QED BY <2>1, <2>2
<1> HIDE DEF r
<1>11. RunIds' = RunIds /\ Serving' = Serving
    BY <1>1 DEF RunIds, Serving
<1>12. Types'
  <2>1. SupType' /\ StopType'
      BY <1>1, <1>9, <1>10, <1>11 DEF Types, SupType, StopType
  <2>2. \A v \in Names : Len(reg'[v].samples) <= SamplesKept
      BY <1>3, <1>6, <1>9 DEF Types, PageType
  <2>3. WebType' /\ PageType'
      BY <1>1, <1>9, <2>2 DEF Types, WebType, PageType
  <2> QED BY <2>1, <2>3 DEF Types
<1>13. Control'
  <2>1. RequestsOk'
    <3> SUFFICES ASSUME NEW k \in Handlers PROVE RequestOk(k)'
        BY DEF RequestsOk
    <3>1. CASE k = h
      <4>1. x.pc \notin {"idle", "asked"} /\ x.op # "none"
          BY <1>2, <1>4
      <4> QED BY <1>1, <1>2, <1>4, <1>5, <1>8, <1>9, <1>10, <3>1, <4>1 DEF RequestOk
    <3>2. CASE k # h
      <4>1. RequestOk(k) /\ 1..started \subseteq RunIds
          BY RunIdsIs DEF Control, RequestsOk
      <4> QED BY <1>1, <1>9, <1>10, <3>2, <4>1 DEF RequestOk
    <3> QED BY <3>1, <3>2
  <2>2. RunsOk'
    <3> SUFFICES ASSUME NEW q \in RunIds PROVE RunOk(q)'
        BY <1>11 DEF RunsOk
    <3>1. RunOk(q)
        BY DEF Control, RunsOk
    <3>2. runs'[q].pc = "none" => runs'[q] = NoRun
      <4>1. q = r /\ r # None => runs[q].pc # "none"
          BY <1>8 DEF Live
      <4>2. q # None
          BY RunIdsIs DEF RunIds, None
      <4> QED BY <1>10, <3>1, <4>1, <4>2 DEF RunOk
    <3> QED BY <1>1, <1>10, <3>1, <3>2 DEF RunOk
  <2>3. RunningOk'
    <3> SUFFICES ASSUME NEW v \in Names, running'[v] # None
                 PROVE  LET q == running'[v] IN
                        /\ q \in 1..started /\ runs'[q].name = v /\ runs'[q].pc \in Live
                        /\ ~runs'[q].cancelled /\ q \notin joined
                        /\ runs'[q].pc = "returned" => ctxOver
        BY <1>1 DEF RunningOk
    <3>1. v # w /\ running'[v] = running[v]
        BY <1>9
    <3>2. running[v] \in RunIds /\ runs[running[v]].name = v
        BY <3>1, RunIdsIs DEF Control, RunningOk
    <3>3. running[v] # r
        BY <1>8, <3>1, <3>2
    <3> QED BY <1>10, <3>1, <3>2, <3>3 DEF Control, RunningOk
  <2>4. Reached'
    <3> SUFFICES ASSUME NEW q \in RunIds, runs[q].pc \in Live
                 PROVE  \/ q \in joined
                        \/ running'[runs[q].name] = q
                        \/ lock # None /\ req'[lock].pc = "wait" /\ req'[lock].old = q
        BY <1>1, <1>10, <1>11 DEF Reached
    <3>1. q \in joined \/ running[runs[q].name] = q
        BY <1>1, <1>2 DEF Control, Reached
    <3>2. runs[q].name \in Names /\ lock # None
        BY <1>2, HandlerAssumption DEF Control, RunsOk, RunOk, Live
    <3>3. CASE runs[q].name = w
        BY <1>2, <1>4, <1>9, <3>1, <3>2, <3>3 DEF r
    <3>4. CASE runs[q].name # w
        BY <1>9, <3>1, <3>2, <3>4
    <3> QED BY <3>3, <3>4
  <2>5. Known'
    <3> SUFFICES ASSUME NEW q \in RunIds, runs[q].pc # "none", ~runs'[q].cancelled
                 PROVE  q \in joined \/ q \in ended \/ running'[runs[q].name] = q
        BY <1>1, <1>10, <1>11 DEF Known
    <3>1. q # r /\ ~runs[q].cancelled
      <4>1. q # None
          BY RunIdsIs DEF RunIds, None
      <4> QED BY <1>10, <4>1
    <3>2. q \in joined \/ q \in ended \/ running[runs[q].name] = q
        BY <3>1 DEF Control, Known
    <3>3. runs[q].name \in Names
        BY DEF Control, RunsOk, RunOk
    <3> QED BY <1>9, <3>1, <3>2, <3>3 DEF r
  <2>6. Ended'
      BY <1>1, <1>10, RunIdsIs DEF Control, Ended, Types, SupType
  <2>7. StopsAll'
    <3>1. 1..cut \subseteq RunIds /\ joined \subseteq RunIds
        BY RunIdsIs DEF Types, SupType, StopType
    <3>2. \A q \in RunIds : (Over(q)' <=> Over(q)) /\ (Sent(q)' <=> Sent(q))
        BY <1>10 DEF Over, Sent
    <3> QED BY <1>1, <1>10, <1>11, <3>1, <3>2 DEF Control, StopsAll
  <2>8. Boots'
      BY <1>1, <1>2 DEF Boots
  <2> QED BY <2>1, <2>2, <2>3, <2>4, <2>5, <2>6, <2>7, <2>8 DEF Control
<1>14. Elsewhere(w)
  <2>1. \A v \in Names : v # w /\ running[v] # None => runs'[running[v]] = runs[running[v]]
    <3>1. \A v \in Names : running[v] # None =>
             running[v] \in RunIds /\ runs[running[v]].name = v
        BY RunIdsIs DEF Control, RunningOk
    <3> QED BY <1>8, <1>10, <3>1
  <2>2. lock = h /\ lock' = h /\ req[h].name = w /\ req'[h].name = w
      BY <1>1, <1>2, <1>4, <1>9
  <2> QED BY <1>1, <1>9, <2>1, <2>2 DEF Elsewhere
<1>15. ASSUME Serving PROVE WatchOk(w)'
  <2>1. WatchOk(w) /\ WatchOk(w)
      BY <1>2, <1>15 DEF WatchesOk
  <2>2. /\ Holds(w)' /\ req'[lock'] = x
        /\ \A pcs : At(w, pcs)' <=> "wait" \in pcs
        /\ \A pcs : Saving(w, pcs)' <=> "wait" \in pcs /\ req[h].op = "save"
      BY <1>1, <1>2, <1>4, <1>9, HolderNow
  <2>3. SavedOf(w)'
      BY <1>1, <1>2, <1>4, <1>9, <2>1, <2>2 DEF WatchOk, SavedOf
  <2>4. GoneOf(w)' /\ DownOf(w)'
      BY <1>1, <1>4, <1>6, <1>9, <2>1, <2>2 DEF WatchOk, GoneOf, DownOf, DownIsTrue
  <2>5. ~ctxOver => SendingIsTrue(w)' /\ RetryingIsTrue(w)'
    <3>1. ~ctxOver => g.sending = 0 /\ g.delivery.state # "retrying"
      <4>1. CASE r # None
          BY <1>6, <4>1
      <4>2. CASE r = None
          BY <1>6, <2>1, <4>2 DEF WatchOk, SendingIsTrue, RetryingIsTrue, r
      <4> QED BY <4>1, <4>2
    <3> QED BY <1>9, <3>1 DEF SendingIsTrue, RetryingIsTrue
  <2>6. ASSUME ~stale PROVE AboutOf(w)'
    <3>1. AboutOf(w) /\ At(w, {"stop"}) /\ At(w, {"stop", "wait", "drop"})
        BY <1>1, <1>2, <2>1, <2>6 DEF WatchOk
    <3>2. req[h].op = "save" => /\ Saving(w, {"stop"}) /\ Saving(w, {"stop", "wait", "drop"})
                                /\ SamplesAre(w, req[h].base.reads)
                                /\ r # None => runs[r].set = req[h].base
        BY <1>1, <1>2, <3>1 DEF AboutOf, r
    <3>3. cfg[w] # Nothing /\ g.delivery.ts # 0 =>
             \/ g.delivery.list = cfg[w].notify
             \/ req[h].op = "save" /\ g.delivery.list = req[h].base.notify
        BY <1>2, <1>6, <3>1 DEF AboutOf
    <3>4. Saving(w, {"wait"})' /\ req'[lock'].old # None =>
             runs'[req'[lock'].old].set = req'[lock'].base
        BY <1>4, <1>8, <1>10, <2>2, <3>2
    <3>5. Saving(w, {"stop", "wait", "drop"})' => SamplesAre(w, req[lock].base.reads)'
        BY <1>4, <1>6, <1>9, <2>2, <3>2 DEF SamplesAre
    <3>6. /\ At(w, {"stop", "wait", "drop"})' /\ ~At(w, {"stop"})' /\ ~Saving(w, {"stop"})'
          /\ req[h].op = "save" =>
                Saving(w, {"stop", "wait", "drop", "start", "clear", "fail"})'
        BY <2>2
    <3> QED BY <1>1, <1>4, <1>9, <2>2, <3>3, <3>4, <3>5, <3>6 DEF AboutOf
  <2> QED BY <1>1, <2>3, <2>4, <2>5, <2>6 DEF WatchOk
<1>16. WatchesOk'
  <2>1. stale \in BOOLEAN /\ stale' \in BOOLEAN
      BY <1>1 DEF Types, WebType
  <2> QED BY <1>2, <1>14, <1>15, <2>1, OthersKept
<1> QED BY <1>12, <1>13, <1>16

-----------------------------------------------------------------------------
(* The start of a watch, by a handler or by the boot. *)

\* Run r is the new run of w.
Launched(w, r) ==
    /\ r \in RunIds /\ r \notin 1..started /\ started \in Nat /\ r # None
    /\ running[w] = None /\ cfg[w] \in Settings /\ cfg[w].starts
    /\ started' = r /\ started' <= bound.runs
    /\ running' \in [Names -> Nat] /\ running'[w] = r
    /\ \A v \in Names : v # w => running'[v] = running[v]
    /\ runs' \in [RunIds -> RunType]
    /\ \A q \in RunIds : q # r => runs'[q] = runs[q]
    /\ runs[r].pc = "none"
    /\ runs'[r].pc = "idle" /\ runs'[r].name = w /\ runs'[r].set = cfg[w]
    /\ runs'[r].ts = 0 /\ runs'[r].down = (reg[w].down \/ row[w].down)
    /\ runs'[r].cancelled = FALSE /\ runs'[r].box = <<>> /\ runs'[r].owed = 0
    /\ reg' \in [Names -> RegType] /\ row' \in [Names -> RowType]
    /\ \A v \in Names : v # w => reg'[v] = reg[v] /\ row'[v] = row[v]
    /\ reg'[w].samples = reg[w].samples /\ reg'[w].delivery = reg[w].delivery
    /\ reg'[w].sending = 0
    /\ reg'[w].down = (reg[w].down \/ row[w].down) /\ row'[w].down = row[w].down

LEMMA LaunchIs ==
    ASSUME Types, UNCHANGED bound, NEW w \in Names, StartLaunches(w), NEW r, r = started + 1,
           \A q \in RunIds : runs[q].pc # "none" => q <= started
    PROVE  Launched(w, r)
<1> DEFINE d == reg[w].down \/ row[w].down
           x == [NoRun EXCEPT !.pc = "idle", !.name = w, !.set = cfg[w], !.down = d]
           g == SetHealth(SeedFired(ClearSending(reg[w]), RestoredFire(w)), d)
<1>1. /\ running[w] = None /\ cfg[w].starts /\ started < bound.runs
      /\ started' = started + 1 /\ running' = [running EXCEPT ![w] = started']
      /\ runs' = [runs EXCEPT ![started'] = x] /\ reg' = [reg EXCEPT ![w] = g]
    BY DEF StartLaunches, SeededDown
<1>2. PICK keep \in BOOLEAN : row' = [row EXCEPT ![w] = RestoredRow(w, keep)]
    BY DEF StartLaunches
<1>3. /\ started \in Nat /\ bound \in Bounds /\ bound.runs \in Nat
      /\ running \in [Names -> Nat] /\ runs \in [RunIds -> RunType] /\ reg \in [Names -> RegType]
      /\ row \in [Names -> RowType] /\ cfg[w] \in AnySetting
    BY SettingAssumption DEF Types, WebType, SupType, PageType
<1>4. r \in RunIds /\ r \notin 1..started /\ r # None /\ r \in Nat /\ r <= bound.runs
    BY <1>1, <1>3 DEF RunIds, None
<1>5. cfg[w] \in Settings
    BY <1>1, <1>3, Zeros DEF AnySetting
<1>6. /\ d \in BOOLEAN /\ RestoredFire(w) \in Nat
  <2>1. row[w] \in RowType /\ reg[w] \in RegType
      BY <1>3
  <2> QED BY <2>1 DEF RestoredFire, RowType, RegType
<1> HIDE DEF d
<1>7. /\ x \in RunType /\ x.pc = "idle" /\ x.name = w /\ x.set = cfg[w] /\ x.ts = 0
      /\ x.down = d /\ x.cancelled = FALSE /\ x.box = <<>> /\ x.owed = 0
    BY <1>3, <1>6, Zeros DEF NoRun, RunType, Live
<1>8. /\ g \in RegType /\ g.samples = reg[w].samples /\ g.delivery = reg[w].delivery
      /\ g.sending = 0 /\ g.down = d
  <2> DEFINE a == ClearSending(reg[w])
             b == SeedFired(a, RestoredFire(w))
  <2>1. /\ a \in RegType /\ a.samples = reg[w].samples /\ a.delivery = reg[w].delivery
        /\ a.sending = 0
      BY <1>3 DEF ClearSending, RegType
  <2> HIDE DEF a
  <2>2. /\ b \in RegType /\ b.samples = a.samples /\ b.delivery = a.delivery
        /\ b.sending = a.sending
      BY <1>6, <2>1 DEF SeedFired, RegType
  <2>3. g = SetHealth(b, d)
      BY DEF a, b
  <2> HIDE DEF b, g
  <2>4. /\ g \in RegType /\ g.samples = b.samples /\ g.delivery = b.delivery
        /\ g.sending = b.sending /\ g.down = d
      BY <1>6, <2>2, <2>3 DEF SetHealth, RegType
  <2> QED BY <2>1, <2>2, <2>4
<1>9. RestoredRow(w, keep) \in RowType /\ RestoredRow(w, keep).down = row[w].down
  <2>1. row[w] \in RowType /\ cfg[w].reads \in Nat
      BY <1>3, SettingIs
  <2> QED BY <2>1 DEF RestoredRow, RowType
<1> HIDE DEF x, g
<1>10. /\ running' \in [Names -> Nat] /\ running'[w] = r
       /\ \A v \in Names : v # w => running'[v] = running[v]
    BY <1>1, <1>3, <1>4
<1>11. /\ runs' \in [RunIds -> RunType] /\ runs'[r] = x
       /\ \A q \in RunIds : q # r => runs'[q] = runs[q]
    BY <1>1, <1>3, <1>4, <1>7
<1>12. /\ reg' \in [Names -> RegType] /\ reg'[w] = g
       /\ \A v \in Names : v # w => reg'[v] = reg[v]
    BY <1>1, <1>3, <1>8
<1>13. /\ row' \in [Names -> RowType] /\ row'[w].down = row[w].down
       /\ \A v \in Names : v # w => row'[v] = row[v]
    BY <1>2, <1>3, <1>9
<1>14. runs[r].pc = "none"
    BY <1>3, <1>4
<1> QED BY <1>1, <1>3, <1>4, <1>5, <1>7, <1>8, <1>10, <1>11, <1>12, <1>13, <1>14 DEF d, Launched

\* A start keeps Types and Control when what goes with it does.
LEMMA LaunchControl ==
    ASSUME Types, Control, UNCHANGED bound, NEW w \in Names, StartLaunches(w),
           UNCHANGED <<cfg, told, lock, stale, ended, phase, ctxOver, joined, graceOver, cut,
                       alerts>>,
           req' \in [Handlers -> RequestType],
           booting' \subseteq Names, w \notin booting',
           \A v \in booting' : v \in booting,
           phase # "boot" => booting' = {},
           phase = "boot" => req' = req,
           \A h \in Handlers : \/ req'[h] = req[h]
                               \/ RequestOk(h)' /\ req[h].pc # "wait"
    PROVE  Types' /\ Control'
<1> DEFINE r == started + 1
<1>1. \A q \in RunIds : runs[q].pc # "none" => q <= started
    BY DEF Control, RunsOk, RunOk
<1>2. /\ r \in RunIds /\ r \notin 1..started /\ started \in Nat /\ r # None
      /\ running[w] = None /\ cfg[w] \in Settings /\ cfg[w].starts
      /\ started' = r /\ started' <= bound.runs
      /\ running' \in [Names -> Nat] /\ running'[w] = r
      /\ \A v \in Names : v # w => running'[v] = running[v]
      /\ runs' \in [RunIds -> RunType]
      /\ \A q \in RunIds : q # r => runs'[q] = runs[q]
      /\ runs[r].pc = "none"
      /\ runs'[r].pc = "idle" /\ runs'[r].name = w /\ runs'[r].set = cfg[w]
      /\ runs'[r].ts = 0
      /\ runs'[r].cancelled = FALSE /\ runs'[r].box = <<>> /\ runs'[r].owed = 0
      /\ reg' \in [Names -> RegType] /\ row' \in [Names -> RowType]
      /\ \A v \in Names : v # w => reg'[v] = reg[v]
      /\ reg'[w].samples = reg[w].samples
  <2>1. Launched(w, started + 1)
      BY <1>1, LaunchIs
  <2> QED BY <2>1 DEF Launched
<1>3. RunIds' = RunIds /\ Serving' = Serving /\ 1..started \subseteq RunIds
      /\ 1..started \subseteq 1..started' /\ r = started + 1
    BY <1>2, RunIdsIs DEF RunIds, Serving
<1> HIDE DEF r
<1>4. Types'
  <2>1. WebType' /\ StopType'
    <3>1. cut \in 0..started /\ 0..started \subseteq 0..started'
        BY <1>2, <1>3 DEF Types, StopType
    <3> QED BY <3>1 DEF Types, WebType, StopType
  <2>2. SupType'
      BY <1>2, <1>3 DEF Types, SupType
  <2>3. PageType'
      BY <1>2 DEF Types, PageType
  <2> QED BY <2>1, <2>2, <2>3 DEF Types
<1>5. RequestsOk'
  <2> SUFFICES ASSUME NEW h \in Handlers, req'[h] = req[h] PROVE RequestOk(h)'
      BY DEF RequestsOk
  <2>1. RequestOk(h)
      BY DEF Control, RequestsOk
  <2>2. req[h].old \in 1..started => req[h].old \in RunIds /\ req[h].old # r
                                     /\ req[h].old \in 1..started'
      BY <1>2, <1>3
  <2> QED BY <1>2, <2>1, <2>2 DEF RequestOk
<1>6. RunsOk'
  <2> SUFFICES ASSUME NEW q \in RunIds PROVE RunOk(q)'
      BY <1>3 DEF RunsOk
  <2>1. CASE q = r
    <3>1. alerts \in Nat /\ r <= started'
        BY <1>2 DEF Types, SupType
    <3> QED BY <1>2, <2>1, <3>1 DEF RunOk
  <2>2. CASE q # r
    <3>1. RunOk(q) /\ (q <= started => q <= started') /\ q \in Nat
        BY <1>2, <1>3, RunIdsIs DEF Control, RunsOk
    <3> QED BY <1>2, <2>2, <3>1 DEF RunOk
  <2> QED BY <2>1, <2>2
<1>7. RunningOk'
  <2> SUFFICES ASSUME NEW v \in Names, running'[v] # None
               PROVE  LET q == running'[v] IN
                      /\ q \in 1..started' /\ runs'[q].name = v /\ runs'[q].pc \in Live
                      /\ ~runs'[q].cancelled /\ q \notin joined
                      /\ runs'[q].pc = "returned" => ctxOver
      BY DEF RunningOk
  <2>1. CASE v = w
    <3>1. r \in 1..started' /\ r \notin joined /\ "idle" \in Live
        BY <1>2, <1>3 DEF Types, SupType, Live
    <3> QED BY <1>2, <2>1, <3>1
  <2>2. CASE v # w
    <3>1. running'[v] = running[v]
        BY <1>2, <2>2
    <3>2. LET q == running[v] IN
          /\ q \in 1..started /\ runs[q].name = v /\ runs[q].pc \in Live
          /\ ~runs[q].cancelled /\ q \notin joined
          /\ runs[q].pc = "returned" => ctxOver
        BY <3>1 DEF Control, RunningOk
    <3>3. running[v] \in RunIds /\ running[v] # r /\ running[v] \in 1..started'
        BY <1>2, <1>3, <3>2
    <3> QED BY <1>2, <3>1, <3>2, <3>3
  <2> QED BY <2>1, <2>2
<1>8. \A q \in RunIds : q # r /\ runs[q].pc # "none" /\ running[runs[q].name] = q =>
         running'[runs[q].name] = q
  <2> SUFFICES ASSUME NEW q \in RunIds, q # r, runs[q].pc # "none", running[runs[q].name] = q
               PROVE  running'[runs[q].name] = q
      OBVIOUS
  <2>1. runs[q].name \in Names /\ q # None
      BY RunIdsIs DEF Control, RunsOk, RunOk, RunIds, None
  <2> QED BY <1>2, <2>1
<1>9. Reached'
  <2> SUFFICES ASSUME NEW q \in RunIds, runs'[q].pc \in Live
               PROVE  \/ q \in joined
                      \/ running'[runs'[q].name] = q
                      \/ lock # None /\ req'[lock].pc = "wait" /\ req'[lock].old = q
      BY <1>3 DEF Reached
  <2>1. CASE q = r
      BY <1>2, <2>1
  <2>2. CASE q # r
    <3>1. runs'[q] = runs[q] /\ runs[q].pc # "none"
        BY <1>2, <2>2 DEF Live
    <3>2. lock # None /\ req[lock].pc = "wait" => req'[lock] = req[lock]
        BY DEF Types, WebType
    <3> QED BY <1>8, <2>2, <3>1, <3>2 DEF Control, Reached
  <2> QED BY <2>1, <2>2
<1>10. Known'
  <2> SUFFICES ASSUME NEW q \in RunIds, runs'[q].pc # "none", ~runs'[q].cancelled
               PROVE  q \in joined \/ q \in ended \/ running'[runs'[q].name] = q
      BY <1>3 DEF Known
  <2>1. CASE q = r
      BY <1>2, <2>1
  <2>2. CASE q # r
      BY <1>2, <1>8, <2>2 DEF Control, Known
  <2> QED BY <2>1, <2>2
<1>11. Ended'
  <2>1. \A q \in ended : q \in RunIds /\ q # r
      BY <1>2, <1>3 DEF Types, SupType
  <2> QED BY <1>2, <2>1 DEF Control, Ended
<1>12. StopsAll'
  <2>1. \A q \in joined \cup (1..cut) : q \in RunIds /\ runs'[q] = runs[q]
    <3>1. joined \subseteq 1..started /\ 1..cut \subseteq 1..started
        BY <1>2 DEF Types, SupType, StopType
    <3> QED BY <1>2, <1>3, <3>1
  <2> QED BY <1>3, <2>1 DEF Control, StopsAll, Over, Sent
<1>13. Boots'
  <2>1. \A v \in booting' : v \in Names /\ v # w /\ running[v] = None /\ cfg[v] # Nothing
      BY DEF Control, Boots, Types, SupType
  <2> QED BY <1>2, <2>1 DEF Control, Boots
<1> QED BY <1>4, <1>5, <1>6, <1>7, <1>9, <1>10, <1>11, <1>12, <1>13 DEF Control

LEMMA StartsStep ==
    ASSUME IInv, UNCHANGED bound, NEW h \in Handlers, NEW w, w = req[h].name, Starts(h)
    PROVE  IInv'
<1> USE DEF IInv
<1> DEFINE pc == IF req[h].op = "save" THEN "clear" ELSE "tell"
           x == [req[h] EXCEPT !.pc = pc]
           r == started + 1
<1>1. /\ req[h].pc = "start" /\ req' = [req EXCEPT ![h] = x] /\ lock' = lock
      /\ StartLaunches(w)
      /\ UNCHANGED <<cfg, told, stale, ended, booting, phase, ctxOver,
                     joined, graceOver, cut, alerts, bound>>
    BY DEF Starts, Go, Keeps, stopVars
<1>2. /\ lock = h /\ w \in Names /\ req[h] \in RequestType
      /\ req[h].op \in {"save", "move", "remove", "create"} /\ req[h].pc \in Steps(req[h].op)
      /\ \A pcs : At(w, pcs) <=> req[h].pc \in pcs
      /\ \A pcs : Saving(w, pcs) <=> req[h].pc \in pcs /\ req[h].op = "save"
      /\ Holds(w) /\ phase # "boot" /\ booting = {}
    BY <1>1, HolderIs
<1>3. req[h].op \in {"save", "move", "create"} /\ req[h].old = None
    BY <1>1, <1>2 DEF Steps, Control, RequestsOk, RequestOk
<1>4. pc \in {"clear", "tell"} /\ pc \in Steps(req[h].op)
    BY <1>3 DEF Steps
<1>5. x \in RequestType /\ x.pc = pc /\ x.op = req[h].op /\ x.name = w
      /\ x.base = req[h].base /\ x.old = None
  <2> HIDE DEF pc
  <2> QED BY <1>2, <1>3, <1>4 DEF RequestType
<1> HIDE DEF x
<1>6. /\ req'[h] = x /\ \A k \in Handlers : k # h => req'[k] = req[k]
      /\ req' \in [Handlers -> RequestType]
    BY <1>1, <1>5 DEF Types, WebType
<1>7. RequestOk(h)'
  <2>1. pc \notin {"idle", "asked"} /\ req[h].op # "none"
      BY <1>3
  <2> HIDE DEF pc
  <2> QED BY <1>1, <1>2, <1>4, <1>5, <1>6, <2>1 DEF RequestOk
<1>8. Types' /\ Control'
  <2>1. \A k \in Handlers : \/ req'[k] = req[k]
                            \/ RequestOk(k)' /\ req[k].pc # "wait"
      BY <1>1, <1>6, <1>7
  <2>2. booting' \subseteq Names /\ w \notin booting' /\ (\A v \in booting' : v \in booting)
      BY <1>1, <1>2
  <2> QED BY <1>1, <1>2, <1>6, <2>1, <2>2, LaunchControl
<1>9. Launched(w, r)
  <2>1. \A q \in RunIds : runs[q].pc # "none" => q <= started
      BY DEF Control, RunsOk, RunOk
  <2> QED BY <1>1, <1>2, <2>1, LaunchIs
<1> HIDE DEF r
<1>10. Elsewhere(w)
  <2>1. \A v \in Names : v # w /\ running[v] # None => runs'[running[v]] = runs[running[v]]
    <3>1. \A v \in Names : running[v] # None => running[v] \in RunIds /\ running[v] \in 1..started
        BY RunIdsIs DEF Control, RunningOk
    <3> QED BY <1>9, <3>1 DEF Launched
  <2>2. lock = h /\ lock' = h /\ req[h].name = w /\ req'[h].name = w
      BY <1>1, <1>2, <1>5, <1>6
  <2> QED BY <1>1, <1>9, <2>1, <2>2 DEF Elsewhere, Launched
<1>11. ASSUME Serving PROVE WatchOk(w)'
  <2>1. WatchOk(w) /\ running[w] = None /\ r # None
      BY <1>2, <1>9, <1>11 DEF WatchesOk, Launched
  <2>2. /\ Holds(w)' /\ req'[lock'] = x
        /\ \A pcs : At(w, pcs)' <=> pc \in pcs
        /\ \A pcs : Saving(w, pcs)' <=> pc \in pcs /\ req[h].op = "save"
    <3> HIDE DEF pc
    <3> QED BY <1>1, <1>2, <1>5, <1>6, HolderNow
  <2>3. /\ running'[w] = r /\ runs'[r].set = cfg[w] /\ runs'[r].down = reg'[w].down
        /\ reg'[w].down = (reg[w].down \/ row[w].down) /\ row'[w].down = row[w].down
        /\ reg'[w].samples = reg[w].samples /\ reg'[w].delivery = reg[w].delivery
        /\ reg'[w].sending = 0 /\ cfg[w] # Nothing /\ cfg[w].starts
      BY <1>9, Zeros DEF Launched
  <2>4. /\ ~At(w, {"wait", "drop", "start", "fail"})' /\ ~At(w, {"stop"})'
        /\ ~At(w, {"start"})' /\ ~At(w, {"stop", "wait", "drop"})'
        /\ ~Saving(w, {"stop", "wait", "drop"})' /\ ~Saving(w, {"stop"})'
        /\ ~Saving(w, {"wait"})'
        /\ req[h].op = "save" => Saving(w, {"stop", "wait", "drop", "start", "clear", "fail"})'
      BY <1>4, <2>2
  <2> HIDE DEF pc
  <2>5. SavedOf(w)'
    <3>1. cfg[w] = Nothing <=> req[h].op = "remove"
        BY <1>2, <2>1 DEF WatchOk, SavedOf
    <3> QED BY <1>1, <1>5, <2>1, <2>2, <2>3, <2>4, <3>1 DEF SavedOf
  <2>6. GoneOf(w)' /\ DownOf(w)'
    <3>1. GoneOf(w)'
        BY <1>1, <1>3, <1>5, <2>2, <2>3, <2>4 DEF GoneOf
    <3>2. (reg[w].down => row[w].down) /\ row[w].down \in BOOLEAN /\ reg[w].down \in BOOLEAN
        BY <1>2, <2>1 DEF WatchOk, DownOf, Types, PageType, RegType, RowType
    <3>3. reg'[w].down = row'[w].down
        BY <2>3, <3>2
    <3> QED BY <2>3, <3>1, <3>3 DEF DownOf, DownIsTrue
  <2>7. ~ctxOver => SendingIsTrue(w)' /\ RetryingIsTrue(w)'
      BY <2>1, <2>3 DEF WatchOk, SendingIsTrue, RetryingIsTrue
  <2>8. ASSUME ~stale PROVE AboutOf(w)'
    <3>1. AboutOf(w) /\ ~At(w, {"stop", "wait", "drop"})
        BY <1>1, <1>2, <2>1, <2>8 DEF WatchOk
    <3>2. SamplesAre(w, cfg[w].reads)'
      <4>1. \A i \in 1..Len(reg[w].samples) : reg[w].samples[i] = cfg[w].reads
          BY <2>3, <3>1 DEF AboutOf, SamplesAre
      <4>2. cfg'[w] = cfg[w] /\ reg'[w].samples = reg[w].samples
          BY <1>1, <2>3
      <4> QED BY <4>1, <4>2 DEF SamplesAre
    <3>3. reg[w].delivery.ts # 0 =>
             \/ reg[w].delivery.list = cfg[w].notify
             \/ req[h].op = "save" /\ reg[w].delivery.list = req[h].base.notify
        BY <1>2, <2>3, <3>1 DEF AboutOf
    <3>4. cfg'[w] # Nothing /\ reg'[w].delivery.ts # 0 =>
             \/ reg'[w].delivery.list = cfg'[w].notify
             \/ /\ Saving(w, {"stop", "wait", "drop", "start", "clear", "fail"})'
                /\ reg'[w].delivery.list = req'[lock'].base.notify
        BY <1>1, <1>5, <2>2, <2>3, <2>4, <3>3
    <3>5. ~(Saving(w, {"wait"}) /\ req[lock].old # None)' /\ ~(At(w, {"stop"}) /\ req[lock].op = "move")'
        BY <2>4
    <3> QED BY <1>1, <2>4, <3>2, <3>4, <3>5 DEF AboutOf
  <2> QED BY <1>1, <2>5, <2>6, <2>7, <2>8 DEF WatchOk
<1>12. WatchesOk'
  <2>1. stale \in BOOLEAN /\ stale' \in BOOLEAN
      BY <1>1 DEF Types, WebType
  <2>2. Serving => WatchOk(w)'
      BY <1>11
  <2> QED BY <1>2, <1>10, <2>1, <2>2, OthersKept
<1> QED BY <1>8, <1>12

LEMMA StartFailedStep ==
    ASSUME IInv, UNCHANGED bound, NEW h \in Handlers, NEW w, w = req[h].name, StartFailed(h)
    PROVE  IInv'
<1> USE DEF IInv
<1> DEFINE pc == IF req[h].op = "save" THEN "fail" ELSE "tell"
           x == IF req[h].op = "move" THEN NoRequest ELSE [req[h] EXCEPT !.pc = pc]
           g == IF running[w] # None THEN reg[w] ELSE ClearSending(reg[w])
<1>1. /\ req[h].pc = "start" /\ StartFails(w)
      /\ UNCHANGED <<cfg, told, stale, ended, booting, phase, ctxOver,
                     joined, graceOver, cut, alerts, bound>>
      /\ UNCHANGED <<running, runs, started, row>>
    BY DEF StartFailed, StartFails, Keeps, stopVars
<1>2. /\ lock = h /\ w \in Names /\ req[h] \in RequestType
      /\ req[h].op \in {"save", "move", "remove", "create"} /\ req[h].pc \in Steps(req[h].op)
      /\ \A pcs : At(w, pcs) <=> req[h].pc \in pcs
      /\ \A pcs : Saving(w, pcs) <=> req[h].pc \in pcs /\ req[h].op = "save"
      /\ Holds(w) /\ phase # "boot" /\ booting = {}
    BY <1>1, HolderIs
<1>3. req[h].op \in {"save", "move", "create"} /\ req[h].old = None
    BY <1>1, <1>2 DEF Steps, Control, RequestsOk, RequestOk
<1>4. /\ req' = [req EXCEPT ![h] = x]
      /\ lock' = IF req[h].op = "move" THEN None ELSE lock
    BY <1>3 DEF StartFailed, Go, Done
<1>5. /\ x \in RequestType
      /\ \/ x = NoRequest /\ lock' = None /\ req[h].op = "move"
         \/ /\ lock' = lock /\ x.name = w /\ x.op = req[h].op /\ x.pc \in Steps(x.op)
            /\ x.old = None /\ x.pc = pc /\ x.base = req[h].base
            /\ req[h].op \in {"save", "create"}
  <2>1. CASE req[h].op = "move"
      BY <1>4, <2>1, Zeros
  <2>2. CASE req[h].op # "move"
    <3>1. pc \in {"fail", "tell"} /\ pc \in Steps(req[h].op)
        BY <1>3, <2>2 DEF Steps
    <3>2. x = [req[h] EXCEPT !.pc = pc]
        BY <2>2
    <3> HIDE DEF x, pc
    <3>3. x \in RequestType /\ x.pc = pc /\ x.op = req[h].op /\ x.name = w
          /\ x.base = req[h].base /\ x.old = None
        BY <1>2, <1>3, <3>1, <3>2 DEF RequestType
    <3> QED BY <1>3, <1>4, <2>2, <3>1, <3>3
  <2> QED BY <2>1, <2>2
<1> HIDE DEF x
<1>6. /\ reg[w] \in RegType /\ Len(reg[w].samples) <= SamplesKept
      /\ reg \in [Names -> RegType] /\ reg' = [reg EXCEPT ![w] = g]
      /\ told \in [Names -> AnySetting] /\ row \in [Names -> RowType]
  <2>1. /\ reg[w] \in RegType /\ Len(reg[w].samples) <= SamplesKept
        /\ reg \in [Names -> RegType]
        /\ told \in [Names -> AnySetting] /\ row \in [Names -> RowType]
      BY <1>2 DEF Types, WebType, PageType
  <2> QED BY <1>1, <2>1 DEF StartFails
<1>7. /\ g \in RegType /\ g.samples = reg[w].samples /\ g.down = reg[w].down
      /\ g.delivery = reg[w].delivery /\ (g.sending = 0 \/ g.sending = reg[w].sending)
    BY <1>6 DEF ClearSending, RegType
<1> HIDE DEF g
<1>8. req'[h] = x /\ reg'[w] = g
    BY <1>2, <1>4, <1>6 DEF Types, WebType
<1>9. ASSUME Serving PROVE WatchOk(w)'
  <2>1. WatchOk(w)
      BY <1>2, <1>9 DEF WatchesOk
  <2>2. /\ running[w] = None /\ ~cfg[w].starts /\ cfg[w] # Nothing
    <3>1. SavedOf(w) /\ At(w, {"wait", "drop", "start", "fail"})
        BY <1>1, <1>2, <2>1 DEF WatchOk
    <3> QED BY <1>1, <1>2, <1>3, <3>1 DEF SavedOf, StartFails
  <2>3. \/ /\ Holds(w)' /\ req'[lock'] = x /\ x.op = req[h].op /\ x.base = req[h].base
           /\ \A pcs : At(w, pcs)' <=> pc \in pcs
           /\ \A pcs : Saving(w, pcs)' <=> pc \in pcs /\ req[h].op = "save"
        \/ ~Holds(w)' /\ req[h].op = "move" /\ \A pcs : ~At(w, pcs)' /\ ~Saving(w, pcs)'
    <3> HIDE DEF pc
    <3>1. CASE lock' = lock /\ x.name = w /\ x.op = req[h].op /\ x.pc = pc /\ x.base = req[h].base
        BY <1>2, <1>8, <3>1, HolderNow
    <3>2. CASE lock' = None /\ req[h].op = "move"
        BY <1>2, <3>2, FreeNow
    <3> QED BY <1>5, <3>1, <3>2
  <2>4. /\ ~At(w, {"stop"})' /\ ~At(w, {"start"})' /\ ~At(w, {"stop", "wait", "drop"})'
        /\ ~Saving(w, {"stop", "wait", "drop"})' /\ ~Saving(w, {"stop"})'
        /\ ~Saving(w, {"wait"})'
        /\ req[h].op = "save" =>
              /\ Saving(w, {"stop", "wait", "drop", "start", "clear", "fail"})'
              /\ req'[lock'].base = req[h].base
      BY <2>3
  <2> HIDE DEF pc
  <2>5. SavedOf(w)'
    <3>1. Holds(w)' => (cfg[w] = Nothing <=> req'[lock'].op = "remove")
        BY <1>3, <2>2, <2>3
    <3> QED BY <1>1, <2>2, <3>1 DEF SavedOf
  <2>6. GoneOf(w)' /\ DownOf(w)'
    <3>1. GoneOf(w)'
        BY <1>1, <1>3, <2>2, <2>3, <2>4 DEF GoneOf, At
    <3> QED BY <1>1, <1>7, <1>8, <2>1, <2>2, <3>1 DEF WatchOk, DownOf, DownIsTrue
  <2>7. ~ctxOver => SendingIsTrue(w)' /\ RetryingIsTrue(w)'
      BY <1>1, <1>7, <1>8, <2>1, <2>2 DEF WatchOk, SendingIsTrue, RetryingIsTrue
  <2>8. ASSUME ~stale PROVE AboutOf(w)'
    <3>1. AboutOf(w) /\ ~At(w, {"stop", "wait", "drop"})
        BY <1>1, <1>2, <2>1, <2>8 DEF WatchOk
    <3>2. SamplesAre(w, cfg[w].reads)'
        BY <1>1, <1>7, <1>8, <2>2, <3>1 DEF AboutOf, SamplesAre
    <3>3. g.delivery.ts # 0 =>
             \/ g.delivery.list = cfg[w].notify
             \/ req[h].op = "save" /\ g.delivery.list = req[h].base.notify
        BY <1>2, <1>7, <2>2, <3>1 DEF AboutOf
    <3> QED BY <1>1, <1>8, <2>2, <2>4, <3>2, <3>3 DEF AboutOf
  <2> QED BY <1>1, <2>5, <2>6, <2>7, <2>8 DEF WatchOk
<1> QED
  <2>1. \/ x = NoRequest /\ lock' = None
        \/ lock' = lock /\ x.name = w /\ x.op = req[h].op /\ x.pc \in Steps(x.op) /\ x.old = None
      BY <1>5
  <2>2. req[h].pc \notin {"idle", "asked"} /\ req[h].pc # "wait"
      BY <1>1
  <2>3. x \in RequestType /\ g \in RegType /\ Len(g.samples) <= SamplesKept
      BY <1>5, <1>6, <1>7
  <2> HIDE DEF pc
  <2> QED BY <1>1, <1>4, <1>6, <1>9, <2>1, <2>2, <2>3, HolderStep

-----------------------------------------------------------------------------
(* The process. *)

\* A boot: the config, the rows of the watches in it, and nothing else.
Booted ==
    /\ cfg \in [Names -> AnySetting] /\ told = cfg /\ lock = None
    /\ req = [h \in Handlers |-> NoRequest]
    /\ booting = {w \in Names : cfg[w] # Nothing}
    /\ running = [w \in Names |-> None] /\ runs = [r \in RunIds |-> NoRun] /\ ended = {}
    /\ reg = [w \in Names |-> Blank] /\ row \in [Names -> RowType]
    /\ \A w \in Names : cfg[w] = Nothing => row[w] = NoRow
    /\ phase = "boot" /\ ctxOver = FALSE /\ joined = {} /\ stale = FALSE
    /\ graceOver = FALSE /\ cut = 0
    /\ bound \in Bounds /\ started \in Nat /\ started <= bound.runs /\ alerts \in Nat

LEMMA BlankIs ==
    /\ Blank \in RegType /\ Blank.samples = <<>> /\ Len(Blank.samples) = 0
    /\ Blank.sending = 0 /\ Blank.down = FALSE
    /\ Blank.delivery.ts = 0 /\ Blank.delivery.state = "none"
<1>1. /\ Blank.samples = <<>> /\ Blank.sending = 0 /\ Blank.down = FALSE
      /\ Blank.delivery.ts = 0 /\ Blank.delivery.state = "none" /\ Blank.fired = 0
      /\ Blank.delivery \in DeliveryType
    BY DEF Blank, NoDelivery, DeliveryType
<1>2. <<>> \in Seq(Nat) /\ Len(<<>>) = 0
    OBVIOUS
<1>3. Blank \in RegType
    BY <1>1, <1>2 DEF Blank, RegType
<1> QED BY <1>1, <1>2, <1>3

LEMMA BootedOk == Booted => IInv
<1> SUFFICES ASSUME Booted PROVE IInv
    OBVIOUS
<1> USE DEF Booted
<1>1. /\ \A h \in Handlers : req[h] = NoRequest
      /\ \A w \in Names : running[w] = None /\ reg[w] = Blank
      /\ \A r \in RunIds : runs[r] = NoRun
    OBVIOUS
<1>2. /\ NoRun.pc = "none" /\ NoRun.ts = 0 /\ NoRun.owed = 0 /\ NoRun.box = <<>>
      /\ NoRequest.pc = "idle" /\ NoRequest.old = None
    BY DEF NoRun, NoRequest
<1>3. Types
  <2>1. WebType
      BY Zeros DEF WebType
  <2>2. SupType
      BY Zeros DEF SupType, None
  <2>3. PageType
    <3>1. SamplesKept \in Nat
        BY SettingAssumption
    <3> QED BY <1>1, <3>1, BlankIs DEF PageType
  <2>4. StopType
    <3>1. cut \in 0..started
        OBVIOUS
    <3>2. ctxOver \in BOOLEAN /\ graceOver \in BOOLEAN /\ phase = "boot"
        OBVIOUS
    <3> QED BY <3>1, <3>2 DEF StopType
  <2> QED BY <2>1, <2>2, <2>3, <2>4 DEF Types
<1>4. Control
  <2>1. RequestsOk
      BY <1>1, <1>2, HandlerAssumption DEF RequestsOk, RequestOk
  <2>2. RunsOk
      BY <1>1, <1>2 DEF RunsOk, RunOk
  <2>3. RunningOk /\ Reached /\ Known
      BY <1>1, <1>2 DEF RunningOk, Reached, Known, Live
  <2>4. Ended /\ StopsAll
      BY DEF Ended, StopsAll, Serving
  <2>5. Boots
      BY <1>1, <1>2 DEF Boots
  <2> QED BY <2>1, <2>2, <2>3, <2>4, <2>5 DEF Control
<1>5. WatchesOk
  <2> SUFFICES ASSUME NEW w \in Names PROVE WatchOk(w)
      BY DEF WatchesOk
  <2>1. ~Holds(w) /\ \A pcs : ~At(w, pcs) /\ ~Saving(w, pcs)
      BY DEF Holds, At, Saving
  <2>2. SavedOf(w)
      BY <1>1, <2>1, Zeros DEF SavedOf
  <2>3. GoneOf(w) /\ DownOf(w)
      BY <1>1, <2>1, BlankIs DEF GoneOf, DownOf, DownIsTrue
  <2>4. SendingIsTrue(w) /\ RetryingIsTrue(w)
      BY <1>1, BlankIs DEF SendingIsTrue, RetryingIsTrue
  <2>5. AboutOf(w)
      BY <1>1, <2>1, BlankIs DEF AboutOf, SamplesAre
  <2> QED BY <2>2, <2>3, <2>4, <2>5 DEF WatchOk
<1> QED BY <1>3, <1>4, <1>5 DEF IInv

LEMMA InitOk == Init => IInv
<1>1. ASSUME Init PROVE Booted
  <2>1. cfg \in [Names -> AnySetting]
      BY <1>1, SettingAssumption DEF Init, AnySetting
  <2>2. row \in [Names -> RowType] /\ \A w \in Names : row[w] = NoRow
      BY <1>1, Zeros DEF Init
  <2>3. started \in Nat /\ started <= bound.runs /\ alerts \in Nat
      BY <1>1, SettingAssumption DEF Init
  <2> QED BY <1>1, <2>1, <2>2, <2>3 DEF Init, Booted
<1> QED BY <1>1, BootedOk

LEMMA RebootStep == ASSUME IInv, UNCHANGED bound, Reboot PROVE IInv'
<1>1. Booted'
  <2>1. /\ cfg \in [Names -> AnySetting] /\ row \in [Names -> RowType]
        /\ bound \in Bounds /\ started \in Nat /\ started <= bound.runs /\ alerts \in Nat
      BY DEF IInv, Types, WebType, SupType, PageType
  <2>2. /\ row' \in [Names -> RowType]
        /\ \A w \in Names : cfg[w] = Nothing => row'[w] = NoRow
      BY <2>1, Zeros DEF Reboot, ForgetExcept
  <2> QED BY <2>1, <2>2 DEF Reboot, Booted, RunIds
<1>2. Booted' => IInv'
    BY BootedOk, PTL
<1> QED BY <1>1, <1>2

LEMMA BootStartsStep ==
    ASSUME IInv, UNCHANGED bound, NEW w \in Names, BootStarts(w)
    PROVE  IInv'
<1> USE DEF IInv
<1>1. /\ phase = "boot" /\ w \in booting /\ booting' = booting \ {w}
      /\ UNCHANGED <<cfg, told, lock, req, stale, ended, phase, ctxOver, joined, graceOver,
                     cut, alerts, bound>>
    BY DEF BootStarts, webVars, stopVars
<1>2. /\ lock = None /\ told = cfg /\ running[w] = None /\ cfg[w] # Nothing
      /\ \A h \in Handlers : req[h].pc = "idle"
  <2>1. /\ \A h \in Handlers : req[h].pc = "idle" /\ RequestOk(h)
        /\ told = cfg /\ running[w] = None /\ cfg[w] # Nothing
      BY <1>1 DEF Control, Boots, RequestsOk
  <2>2. lock = None
      BY <2>1 DEF Types, WebType, RequestOk
  <2> QED BY <2>1, <2>2
<1>3. \A v \in Names : /\ ~Holds(v) /\ \A pcs : ~At(v, pcs) /\ ~Saving(v, pcs)
                       /\ ~Holds(v)' /\ \A pcs : ~At(v, pcs)' /\ ~Saving(v, pcs)'
    BY <1>1, <1>2 DEF Holds, At, Saving
<1>4. WatchOk(w) /\ stale \in BOOLEAN /\ stale' \in BOOLEAN
    BY <1>1 DEF WatchesOk, Serving, Types, WebType
<1>5. CASE StartLaunches(w)
  <2> DEFINE r == started + 1
  <2>1. Launched(w, r)
    <3>1. \A q \in RunIds : runs[q].pc # "none" => q <= started
        BY DEF Control, RunsOk, RunOk
    <3> QED BY <1>5, <3>1, LaunchIs
  <2> HIDE DEF r
  <2>2. Types' /\ Control'
    <3>1. req' \in [Handlers -> RequestType] /\ booting' \subseteq Names
        BY <1>1 DEF Types, WebType, SupType
    <3> QED BY <1>1, <1>5, <3>1, LaunchControl
  <2>3. Elsewhere(w)
    <3>1. \A v \in Names : v # w /\ running[v] # None => runs'[running[v]] = runs[running[v]]
      <4>1. \A v \in Names : running[v] # None => running[v] \in RunIds /\ running[v] \in 1..started
          BY RunIdsIs DEF Control, RunningOk
      <4> QED BY <2>1, <4>1 DEF Launched
    <3> QED BY <1>1, <1>2, <2>1, <3>1 DEF Elsewhere, Launched
  <2>4. WatchOk(w)'
    <3>1. /\ running'[w] = r /\ runs'[r].set = cfg[w] /\ runs'[r].down = reg'[w].down
          /\ reg'[w].down = (reg[w].down \/ row[w].down) /\ row'[w].down = row[w].down
          /\ reg'[w].samples = reg[w].samples /\ reg'[w].delivery = reg[w].delivery
          /\ reg'[w].sending = 0 /\ r # None
        BY <2>1 DEF Launched
    <3>2. SavedOf(w)'
        BY <1>1, <1>2, <1>3, <3>1 DEF SavedOf
    <3>3. GoneOf(w)' /\ DownOf(w)'
      <4>1. (reg[w].down => row[w].down) /\ row[w].down \in BOOLEAN /\ reg[w].down \in BOOLEAN
          BY <1>4 DEF WatchOk, DownOf, Types, PageType, RegType, RowType
      <4>2. reg'[w].down = row'[w].down
          BY <3>1, <4>1
      <4> QED BY <1>1, <1>2, <1>3, <3>1, <4>2 DEF GoneOf, DownOf, DownIsTrue
    <3>4. ~ctxOver => SendingIsTrue(w)' /\ RetryingIsTrue(w)'
        BY <1>2, <1>4, <3>1 DEF WatchOk, SendingIsTrue, RetryingIsTrue
    <3>5. ASSUME ~stale PROVE AboutOf(w)'
        BY <1>1, <1>2, <1>3, <1>4, <3>1, <3>5 DEF WatchOk, AboutOf, SamplesAre
    <3> QED BY <1>1, <3>2, <3>3, <3>4, <3>5 DEF WatchOk
  <2>5. WatchesOk'
      BY <1>4, <2>3, <2>4, OthersKept
  <2> QED BY <2>2, <2>5
<1>6. CASE StartFails(w)
  <2> DEFINE g == ClearSending(reg[w])
  <2>1. /\ ~cfg[w].starts /\ UNCHANGED <<running, runs, started, row>>
        /\ reg' = [reg EXCEPT ![w] = g]
      BY <1>2, <1>6 DEF StartFails
  <2>2. reg \in [Names -> RegType] /\ Len(reg[w].samples) <= SamplesKept
      BY DEF Types, PageType
  <2>3. /\ g \in RegType /\ g.samples = reg[w].samples /\ g.down = reg[w].down
        /\ g.delivery = reg[w].delivery /\ g.sending = 0
      BY <2>2 DEF ClearSending, RegType
  <2> HIDE DEF g
  <2>4. /\ reg'[w] = g /\ \A v \in Names : v # w => reg'[v] = reg[v]
        /\ reg' \in [Names -> RegType]
      BY <2>1, <2>2, <2>3
  <2>5. Types'
    <3>1. \A v \in Names : Len(reg'[v].samples) <= SamplesKept
        BY <2>2, <2>3, <2>4 DEF Types, PageType
    <3>2. WebType' /\ StopType'
        BY <1>1, <2>1 DEF Types, WebType, StopType
    <3>3. SupType' /\ PageType'
        BY <1>1, <2>1, <2>4, <3>1 DEF Types, SupType, PageType, RunIds
    <3> QED BY <3>2, <3>3 DEF Types
  <2>6. Control'
    <3>1. RunIds' = RunIds
        BY <1>1 DEF RunIds
    <3>2. RequestsOk' /\ RunsOk' /\ RunningOk'
        BY <1>1, <2>1, <3>1 DEF Control, RequestsOk, RequestOk, RunsOk, RunOk, RunningOk
    <3>3. Reached' /\ Known' /\ Ended'
        BY <1>1, <2>1, <3>1 DEF Control, Reached, Known, Ended
    <3>4. StopsAll' /\ Boots'
        BY <1>1, <2>1 DEF Control, StopsAll, Boots, Serving, Over, Sent
    <3> QED BY <3>2, <3>3, <3>4 DEF Control
  <2>7. Elsewhere(w)
      BY <1>1, <1>2, <2>1, <2>4 DEF Elsewhere
  <2>8. WatchOk(w)'
    <3>1. SavedOf(w)'
        BY <1>1, <1>2, <1>3, <2>1 DEF SavedOf
    <3>2. GoneOf(w)' /\ DownOf(w)'
        BY <1>1, <1>2, <1>3, <1>4, <2>1, <2>3, <2>4 DEF WatchOk, GoneOf, DownOf, DownIsTrue
    <3>3. ~ctxOver => SendingIsTrue(w)' /\ RetryingIsTrue(w)'
        BY <1>2, <1>4, <2>1, <2>3, <2>4 DEF WatchOk, SendingIsTrue, RetryingIsTrue
    <3>4. ASSUME ~stale PROVE AboutOf(w)'
        BY <1>1, <1>2, <1>3, <1>4, <2>1, <2>3, <2>4, <3>4 DEF WatchOk, AboutOf, SamplesAre
    <3> QED BY <1>1, <3>1, <3>2, <3>3, <3>4 DEF WatchOk
  <2>9. WatchesOk'
      BY <1>4, <2>7, <2>8, OthersKept
  <2> QED BY <2>5, <2>6, <2>9
<1> QED BY <1>5, <1>6 DEF BootStarts

\* What serving, a signal and the end of StopAll leave as it was.
LEMMA PhaseTypes ==
    ASSUME Types, UNCHANGED <<webVars, supVars, reg, row, joined, cut, alerts, bound>>,
           phase' \in {"boot", "up", "joining", "sends", "down"},
           ctxOver' \in BOOLEAN, graceOver' \in BOOLEAN
    PROVE  /\ Types'
           /\ UNCHANGED <<cfg, told, lock, req, stale, running, runs, ended, booting, started,
                          reg, row, joined, cut, alerts, bound>>
<1>1. UNCHANGED <<cfg, told, lock, req, stale, running, runs, ended, booting, started,
                  reg, row, joined, cut, alerts, bound>> /\ RunIds' = RunIds
    BY DEF webVars, supVars, RunIds
<1>2. WebType' /\ SupType' /\ PageType' /\ StopType'
    BY <1>1 DEF Types, WebType, SupType, PageType, StopType
<1> QED BY <1>1, <1>2 DEF Types

LEMMA PhaseControl ==
    ASSUME Types, Control,
           UNCHANGED <<cfg, told, lock, req, stale, running, runs, ended, booting, started,
                       reg, row, joined, cut, alerts, bound>>,
           ctxOver => ctxOver', StopsAll', Boots'
    PROVE  Control'
<1>1. RunIds' = RunIds
    BY DEF RunIds
<1>2. RequestsOk' /\ RunsOk' /\ RunningOk'
    BY <1>1 DEF Control, RequestsOk, RequestOk, RunsOk, RunOk, RunningOk
<1>3. Reached' /\ Known' /\ Ended'
    BY <1>1 DEF Control, Reached, Known, Ended
<1> QED BY <1>2, <1>3 DEF Control

LEMMA PhaseStep ==
    ASSUME IInv, UNCHANGED bound, Serves \/ Signal \/ StopAllJoins \/ StopAllReturns
    PROVE  IInv'
<1> USE DEF IInv
<1>1. /\ UNCHANGED <<webVars, supVars, reg, row, joined, cut, alerts, bound>>
      /\ phase' \in {"boot", "up", "joining", "sends", "down"}
      /\ ctxOver' \in BOOLEAN /\ graceOver' \in BOOLEAN /\ (ctxOver => ctxOver')
    BY DEF Serves, Signal, StopAllJoins, StopAllReturns, Types, StopType
<1>2. /\ Types'
      /\ UNCHANGED <<cfg, told, lock, req, stale, running, runs, ended, booting, started,
                     reg, row, joined, cut, alerts, bound>>
    BY <1>1, PhaseTypes
<1>3. StopsAll' /\ Boots'
  <2>1. CASE Serves
    <3>1. phase = "boot" /\ booting = {} /\ phase' = "up" /\ graceOver' = graceOver
        BY <2>1 DEF Serves
    <3> QED BY <1>2, <3>1 DEF Control, StopsAll, Boots, Serving
  <2>2. CASE Signal
    <3>1. phase = "up" /\ phase' = "up" /\ graceOver' = graceOver
        BY <2>2 DEF Signal
    <3> QED BY <1>2, <3>1 DEF Control, StopsAll, Boots, Serving
  <2>3. CASE StopAllJoins
    <3>1. /\ phase = "joining" /\ phase' = "sends" /\ (\A r \in joined : Over(r))
          /\ graceOver' = graceOver
        BY <2>3 DEF StopAllJoins
    <3> QED BY <1>2, <3>1 DEF Control, StopsAll, Boots, Serving, Over
  <2>4. CASE StopAllReturns
    <3>1. phase = "sends" /\ phase' = "down" /\ graceOver' = (\E r \in joined : ~Sent(r))
        BY <2>4 DEF StopAllReturns
    <3> QED BY <1>2, <3>1 DEF Control, StopsAll, Boots, Serving, Over, Sent
  <2> QED BY <2>1, <2>2, <2>3, <2>4
<1>4. Control'
    BY <1>1, <1>2, <1>3, PhaseControl
<1>5. WatchesOk'
  <2> SUFFICES ASSUME Serving', NEW w \in Names PROVE WatchOk(w)'
      BY DEF WatchesOk
  <2>1. Serving
      BY DEF Serving, Serves, Signal, StopAllJoins, StopAllReturns
  <2>2. WatchOk(w)
      BY <2>1 DEF WatchesOk
  <2>3. /\ Holds(w)' <=> Holds(w)
        /\ \A pcs : At(w, pcs)' <=> At(w, pcs)
        /\ \A pcs : Saving(w, pcs)' <=> Saving(w, pcs)
      BY <1>2 DEF Holds, At, Saving
  <2>4. SavedOf(w)'
      BY <1>1, <1>2, <2>2, <2>3 DEF WatchOk, SavedOf
  <2>5. GoneOf(w)' /\ DownOf(w)'
      BY <1>2, <2>2, <2>3 DEF WatchOk, GoneOf, DownOf, DownIsTrue
  <2>6. ~ctxOver' => SendingIsTrue(w)' /\ RetryingIsTrue(w)'
      BY <1>1, <1>2, <2>2 DEF WatchOk, SendingIsTrue, RetryingIsTrue
  <2>7. ~stale' => AboutOf(w)'
      BY <1>2, <2>2, <2>3 DEF WatchOk, AboutOf, SamplesAre
  <2> QED BY <2>4, <2>5, <2>6, <2>7 DEF WatchOk
<1> QED BY <1>2, <1>4, <1>5

LEMMA StopAllTakesStep == ASSUME IInv, UNCHANGED bound, StopAllTakes PROVE IInv'
<1> USE DEF IInv
<1>1. /\ phase = "up" /\ phase' = "joining" /\ ended' = {} /\ cut' = started
      /\ joined' = ended \cup ({running[w] : w \in Names} \ {None})
      /\ running' = [w \in Names |-> None]
      /\ reg' = [w \in Names |-> IF running[w] = None THEN reg[w] ELSE ClearSending(reg[w])]
      /\ UNCHANGED <<cfg, told, lock, req, stale, runs, booting, started, row, ctxOver,
                     graceOver, alerts, bound>>
    BY DEF StopAllTakes, webVars
<1>2. RunIds' = RunIds /\ joined = {} /\ ~Serving' /\ booting = {}
    BY <1>1 DEF RunIds, Control, StopsAll, Serving, Boots
<1>3. /\ \A w \in Names : running[w] # None => running[w] \in joined' /\ running[w] \in 1..started
      /\ ended \subseteq joined' /\ joined' \subseteq 1..started
      /\ \A w \in Names : running'[w] = None
    BY <1>1 DEF Control, RunningOk, Types, SupType
<1>4. Types'
  <2>1. running' \in [Names -> Nat]
      BY <1>1 DEF None
  <2>2. SupType'
      BY <1>1, <1>2, <1>3, <2>1 DEF Types, SupType
  <2>3. reg' \in [Names -> RegType] /\ \A w \in Names : Len(reg'[w].samples) <= SamplesKept
    <3>1. \A w \in Names : /\ reg[w] \in RegType /\ Len(reg[w].samples) <= SamplesKept
                           /\ ClearSending(reg[w]) \in RegType
                           /\ ClearSending(reg[w]).samples = reg[w].samples
      <4> SUFFICES ASSUME NEW w \in Names
                   PROVE  /\ reg[w] \in RegType /\ Len(reg[w].samples) <= SamplesKept
                          /\ ClearSending(reg[w]) \in RegType
                          /\ ClearSending(reg[w]).samples = reg[w].samples
          OBVIOUS
      <4>1. reg[w] \in RegType /\ Len(reg[w].samples) <= SamplesKept
          BY DEF Types, PageType
      <4> QED BY <4>1 DEF ClearSending, RegType
    <3> QED BY <1>1, <3>1
  <2>4. WebType' /\ PageType'
      BY <1>1, <2>3 DEF Types, WebType, PageType
  <2>5. StopType'
      BY <1>1 DEF Types, StopType, SupType
  <2> QED BY <2>2, <2>4, <2>5 DEF Types
<1>5. Control'
  <2>1. RequestsOk' /\ RunsOk'
      BY <1>1, <1>2 DEF Control, RequestsOk, RequestOk, RunsOk, RunOk
  <2>2. RunningOk' /\ Ended'
      BY <1>1, <1>3 DEF RunningOk, Ended
  <2>3. \A r \in RunIds : runs[r].pc # "none" /\ running[runs[r].name] = r => r \in joined'
    <3> SUFFICES ASSUME NEW r \in RunIds, runs[r].pc # "none", running[runs[r].name] = r
                 PROVE  r \in joined'
        OBVIOUS
    <3>1. runs[r].name \in Names /\ r # None
        BY RunIdsIs DEF Control, RunsOk, RunOk, RunIds, None
    <3> QED BY <1>3, <3>1
  <2>4. Reached'
      BY <1>1, <1>2, <2>3 DEF Control, Reached, Live
  <2>5. \A r \in RunIds : runs[r].pc # "none" /\ ~runs[r].cancelled => r \in joined'
      BY <1>2, <1>3, <2>3 DEF Control, Known
  <2>6. Known'
      BY <1>1, <1>2, <2>5 DEF Known
  <2>7. StopsAll'
    <3>1. \A r \in 1..started : r \in RunIds
        BY RunIdsIs
    <3> QED BY <1>1, <1>2, <2>5, <3>1 DEF StopsAll
  <2>8. Boots'
      BY <1>1, <1>2 DEF Boots
  <2> QED BY <2>1, <2>2, <2>4, <2>6, <2>7, <2>8 DEF Control
<1> QED BY <1>2, <1>4, <1>5 DEF WatchesOk

LEMMA HandleStep ==
    ASSUME IInv, UNCHANGED bound, NEW h \in Handlers, Handle(h)
    PROVE  IInv'
<1> DEFINE w == req[h].name
<1>1. CASE Saves(h) \/ Creates(h) \/ Removes(h) \/ MovesBox(h)
  <2>1. ASSUME NEW v \in Names, NEW s \in Settings, Asks(h, "save", v, s) PROVE IInv'
      BY <2>1, AsksStep
  <2>2. ASSUME NEW v \in Names, Asks(h, "create", v, Fresh) PROVE IInv'
    <3>1. Fresh \in Settings
        BY SettingAssumption
    <3> QED BY <2>2, <3>1, AsksStep
  <2>3. ASSUME NEW v \in Names, NEW op \in {"remove", "move"}, Asks(h, op, v, Nothing)
        PROVE  IInv'
      BY <2>3, AsksStep
  <2> QED BY <1>1, <2>1, <2>2, <2>3 DEF Saves, Creates, Removes, MovesBox
<1>2. CASE Persists(h)
    BY <1>2, PersistsStep
<1>3. CASE Refused(h)
    BY <1>3, RefusedStep
<1>4. CASE Stops(h)
    BY <1>4, StopsStep
<1>5. CASE Waits(h)
    BY <1>5, WaitsStep
<1>6. CASE Drops(h)
    BY <1>6, DropsStep
<1>7. CASE Starts(h)
    BY <1>7, StartsStep
<1>8. CASE StartFailed(h)
    BY <1>8, StartFailedStep
<1>9. CASE Clears(h)
    BY <1>9, ClearsStep
<1>10. CASE Tells(h)
    BY <1>10, TellsStep
<1> QED BY <1>1, <1>2, <1>3, <1>4, <1>5, <1>6, <1>7, <1>8, <1>9, <1>10 DEF Handle

LEMMA StutterStep == ASSUME IInv, UNCHANGED vars PROVE IInv'
<1>1. UNCHANGED <<cfg, told, lock, req, stale, running, runs, ended, booting, started, reg,
                  row, phase, ctxOver, joined, graceOver, cut, alerts, bound>>
    BY DEF vars, webVars, supVars, stopVars
<1>2. ctxOver' \in BOOLEAN /\ graceOver' \in BOOLEAN /\ RunIds' = RunIds
    BY <1>1 DEF IInv, Types, StopType, RunIds
<1>3. Types'
    BY <1>1, <1>2 DEF IInv, Types, WebType, SupType, PageType, StopType
<1>4. Control'
  <2>1. StopsAll' /\ Boots'
      BY <1>1 DEF IInv, Control, StopsAll, Boots, Serving, Over, Sent
  <2> QED BY <1>1, <2>1, PhaseControl DEF IInv
<1>5. WatchesOk'
  <2> SUFFICES ASSUME Serving, NEW w \in Names PROVE WatchOk(w)'
      BY <1>1 DEF WatchesOk, Serving
  <2>1. WatchOk(w)
      BY DEF IInv, WatchesOk
  <2>2. SavedOf(w)' /\ GoneOf(w)' /\ DownOf(w)'
      BY <1>1, <2>1 DEF WatchOk, SavedOf, GoneOf, DownOf, DownIsTrue, Holds, At
  <2>3. ~ctxOver => SendingIsTrue(w)' /\ RetryingIsTrue(w)'
      BY <1>1, <2>1 DEF WatchOk, SendingIsTrue, RetryingIsTrue
  <2>4. ~stale => AboutOf(w)'
      BY <1>1, <2>1 DEF WatchOk, AboutOf, SamplesAre, Saving, At, Holds
  <2> QED BY <1>1, <2>2, <2>3, <2>4 DEF WatchOk
<1> QED BY <1>3, <1>4, <1>5 DEF IInv

LEMMA NextOk == IInv /\ [Next]_vars => IInv'
<1> SUFFICES ASSUME IInv, [Next]_vars PROVE IInv'
    OBVIOUS
<1>1. CASE UNCHANGED vars
    BY <1>1, StutterStep
<1>2. CASE Next
  <2>1. UNCHANGED bound
      BY <1>2 DEF Next
  <2>2. ASSUME NEW h \in Handlers, Handle(h) PROVE IInv'
      BY <2>1, <2>2, HandleStep
  <2>3. ASSUME NEW r \in RunIds, Run(r), phase # "down" PROVE IInv'
      BY <2>1, <2>3, RunStep
  <2>4. ASSUME Process PROVE IInv'
    <3>1. ASSUME NEW w \in Names, BootStarts(w) PROVE IInv'
        BY <2>1, <3>1, BootStartsStep
    <3>2. CASE Serves \/ Signal \/ StopAllJoins \/ StopAllReturns
        BY <2>1, <3>2, PhaseStep
    <3>3. CASE StopAllTakes
        BY <2>1, <3>3, StopAllTakesStep
    <3>4. CASE Reboot
        BY <2>1, <3>4, RebootStep
    <3> QED BY <2>4, <3>1, <3>2, <3>3, <3>4 DEF Process
  <2> QED BY <1>2, <2>2, <2>3, <2>4 DEF Next
<1> QED BY <1>1, <1>2

-----------------------------------------------------------------------------
(* The theorems. *)

\* Every reachable state is one of the inductive invariant.
THEOREM Inductive == Spec => []IInv
<1>1. Init => IInv
    BY InitOk
<1>2. IInv /\ [Next]_vars => IInv'
    BY NextOk
<1> QED BY <1>1, <1>2, PTL DEF Spec

LEMMA TypeHolds == IInv => TypeOK
<1> SUFFICES ASSUME IInv PROVE TypeOK
    OBVIOUS
<1>1. \A w \in Names : {cfg[w], told[w]} \subseteq Settings \cup {Nothing}
    BY DEF IInv, Types, WebType, AnySetting
<1>2. \A h \in Handlers :
         /\ req[h].pc \in {"idle", "asked", "stop", "wait", "drop", "start",
                           "clear", "fail", "tell"}
         /\ lock = h <=> req[h].pc \notin {"idle", "asked"}
         /\ req[h].old \in 0..started
  <2> SUFFICES ASSUME NEW h \in Handlers
               PROVE  /\ req[h].pc \in {"idle", "asked", "stop", "wait", "drop", "start",
                                        "clear", "fail", "tell"}
                      /\ lock = h <=> req[h].pc \notin {"idle", "asked"}
                      /\ req[h].old \in 0..started
      OBVIOUS
  <2>1. req[h] \in RequestType /\ RequestOk(h) /\ started \in Nat
      BY DEF IInv, Types, WebType, SupType, Control, RequestsOk
  <2>2. req[h].old \in 0..started
      BY <2>1 DEF RequestOk, None
  <2> QED BY <2>1, <2>2 DEF RequestOk, RequestType
<1>3. \A w \in Names : running[w] \in 0..started
  <2>1. \A w \in Names : running[w] = 0 \/ running[w] \in 1..started
      BY DEF IInv, Control, RunningOk, None
  <2>2. started \in Nat
      BY DEF IInv, Types, SupType
  <2> QED BY <2>1, <2>2
<1>4. \A r \in RunIds :
         /\ runs[r].pc \in {"none", "idle", "read", "shown", "returned", "over"}
         /\ r > started => runs[r].pc = "none"
         /\ runs[r].box \in Seq(1..alerts) /\ runs[r].owed \in 0..alerts
  <2> SUFFICES ASSUME NEW r \in RunIds
               PROVE  /\ runs[r].pc \in {"none", "idle", "read", "shown", "returned", "over"}
                      /\ r > started => runs[r].pc = "none"
                      /\ runs[r].box \in Seq(1..alerts) /\ runs[r].owed \in 0..alerts
      OBVIOUS
  <2>1. runs[r] \in RunType /\ RunOk(r) /\ started \in Nat /\ r \in Nat /\ alerts \in Nat
      BY RunIdsIs DEF IInv, Types, SupType, Control, RunsOk
  <2>2. runs[r].box \in Seq(1..alerts)
    <3> DEFINE q == runs[r].box
    <3>1. q \in Seq(Nat) /\ \A i \in 1..Len(q) : q[i] \in 1..alerts
        BY <2>1 DEF RunType, RunOk
    <3> HIDE DEF q
    <3>2. Len(q) \in Nat /\ q = [i \in 1..Len(q) |-> q[i]]
        BY <3>1
    <3>3. [i \in 1..Len(q) |-> q[i]] \in Seq(1..alerts)
        BY <3>1, <3>2
    <3> QED BY <3>2, <3>3 DEF q
  <2>3. runs[r].owed \in 0..alerts
      BY <2>1 DEF RunType, RunOk
  <2>4. r > started => runs[r].pc = "none"
      BY <2>1 DEF RunOk
  <2> QED BY <2>1, <2>2, <2>3, <2>4 DEF RunType, Live
<1>5. /\ lock \in Handlers \cup {None} /\ joined \cup ended \subseteq 1..started
      /\ \A w \in Names : Len(reg[w].samples) <= SamplesKept
      /\ phase \in {"boot", "up", "joining", "sends", "down"}
    BY DEF IInv, Types, WebType, SupType, PageType, StopType
<1> QED BY <1>1, <1>2, <1>3, <1>4, <1>5 DEF TypeOK

LEMMA NothingLeftHolds == IInv => NothingLeft
<1> SUFFICES ASSUME IInv, phase = "up", NEW w \in Names,
                    \/ cfg[w] = Nothing /\ lock = None
                    \/ \E h \in Handlers : /\ req[h].op = "create" /\ req[h].name = w
                                           /\ req[h].pc = "start"
             PROVE  reg[w] = Blank /\ row[w] = NoRow
    BY DEF NothingLeft
<1>1. GoneOf(w)
    BY DEF IInv, WatchesOk, WatchOk, Serving
<1>2. CASE cfg[w] = Nothing /\ lock = None
    BY <1>1, <1>2 DEF GoneOf, Holds
<1>3. ASSUME NEW h \in Handlers, req[h].op = "create", req[h].name = w, req[h].pc = "start"
      PROVE  reg[w] = Blank /\ row[w] = NoRow
  <2>1. At(w, {"start"}) /\ req[lock].op = "create"
      BY <1>3, HolderIs DEF IInv
  <2> QED BY <1>1, <2>1 DEF GoneOf
<1> QED BY <1>2, <1>3

LEMMA SavedHolds == IInv => RunsWhatIsSaved
<1> SUFFICES ASSUME IInv, phase = "up", lock = None, NEW w \in Names
             PROVE  /\ running[w] # None => cfg[w] = runs[running[w]].set /\ told[w] = cfg[w]
                    /\ cfg[w].starts /\ ~ctxOver => running[w] # None
                    /\ cfg[w] = Nothing => told[w] = Nothing
    BY DEF RunsWhatIsSaved
<1>1. SavedOf(w) /\ booting = {}
    BY DEF IInv, WatchesOk, WatchOk, Serving, Control, Boots
<1>2. ~Holds(w) /\ \A pcs : ~At(w, pcs)
    BY DEF Holds, At
<1> QED BY <1>1, <1>2 DEF SavedOf

LEMMA PageHolds == IInv => PageTruthful
<1> SUFFICES ASSUME IInv, phase = "up", NEW w \in Names
             PROVE  /\ ~ctxOver => SendingIsTrue(w) /\ RetryingIsTrue(w)
                    /\ DownIsTrue(w)
                    /\ lock = None /\ ~stale /\ cfg[w] # Nothing => AboutThisWatch(w)
    BY DEF PageTruthful
<1>1. WatchOk(w)
    BY DEF IInv, WatchesOk, Serving
<1>2. ASSUME lock = None, ~stale, cfg[w] # Nothing PROVE AboutThisWatch(w)
  <2>1. AboutOf(w) /\ \A pcs : ~At(w, pcs) /\ ~Saving(w, pcs)
      BY <1>1, <1>2 DEF WatchOk, At, Holds, Saving
  <2> QED BY <1>2, <2>1 DEF AboutOf, SamplesAre, AboutThisWatch
<1> QED BY <1>1, <1>2 DEF WatchOk, DownOf

LEMMA NoRunForgottenHolds == IInv => NoRunForgotten
<1> SUFFICES ASSUME IInv PROVE NoRunForgotten
    OBVIOUS
<1>1. ASSUME NEW r \in RunIds PROVE InReach(r)
  <2>1. CASE runs[r].pc \in Live
    <3>1. \/ r \in joined
          \/ running[runs[r].name] = r /\ runs[r].name \in Names
          \/ lock # None /\ req[lock].pc = "wait" /\ req[lock].old = r /\ lock \in Handlers
        BY <2>1 DEF IInv, Control, Reached, RunsOk, RunOk, Live, Types, WebType
    <3> QED BY <3>1 DEF InReach
  <2>2. CASE runs[r].pc \notin Live
    <3>1. runs[r] \in RunType
        BY DEF IInv, Types, SupType
    <3> QED BY <2>2, <3>1 DEF InReach, Over, RunType
  <2> QED BY <2>1, <2>2
<1>2. ASSUME phase = "down", ~graceOver, NEW r \in 1..cut, ~runs[r].cancelled
      PROVE  Over(r) /\ Sent(r)
  <2>1. r \in RunIds
      BY RunIdsIs DEF IInv, Types, StopType, SupType
  <2>2. CASE runs[r].pc = "none"
      BY <2>1, <2>2 DEF IInv, Control, RunsOk, RunOk, NoRun, Over, Sent
  <2>3. CASE runs[r].pc # "none"
    <3>1. r \in joined
        BY <1>2, <2>3 DEF IInv, Control, StopsAll, Serving
    <3> QED BY <1>2, <3>1 DEF IInv, Control, StopsAll
  <2> QED BY <2>2, <2>3
<1> QED BY <1>1, <1>2 DEF NoRunForgotten, AllSent

\* Types hold, and nothing of a deleted watch is left when its deletion is done or a
\* watch of its name is about to start, even when the process ended halfway
\* (web.go, remove; main.go, configChanged and bootWatches).
THEOREM NothingIsLeft == Spec => []Inv
<1>1. IInv => Inv
    BY TypeHolds, NothingLeftHolds DEF Inv
<1> QED BY <1>1, Inductive, PTL

\* Between two changes every watch runs with the setting that is saved, every
\* watch that can run does, and Home Assistant was told of it: what a handler read
\* before it took applyMu never lets two changes persist in one order and apply in
\* the other (web.go, applyMu).
THEOREM RunsAsSaved == Spec => []RunsWhatIsSaved
BY SavedHolds, Inductive, PTL

\* What the page says of a watch is so of the run it has, whatever the reports of its
\* stopped runs, in every order of handlers, runs and reboots (supervisor.go,
\* OnDelivery, Stop and Start; web.go, save).
THEOREM PagesAreTruthful == Spec => []PageTruthful
BY PageHolds, Inductive, PTL

\* A run that polls is its watch's, or someone waits for it; and a stop in time
\* loses no alert of a run there was when it began (supervisor.go, StopAll).
THEOREM RunsStayInReach == Spec => []NoRunForgotten
BY NoRunForgottenHolds, Inductive, PTL
=============================================================================
