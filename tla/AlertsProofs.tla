---------------------------- MODULE AlertsProofs ----------------------------
(* Types and the safety properties of Alerts, for any notify URLs, trigger   *)
(* types, outbox size and bounds, with crashes at every step or without.     *)
EXTENDS Alerts, TLAPS

Attempt == [slot : SlotNames \cup {"none"}, first : BOOLEAN, asked : SUBSET Lines,
            ok : SUBSET Lines, soft : SUBSET Lines, hard : SUBSET Lines]
EmptySlots == [s \in SlotNames |-> EmptySlot]
FireOf(r) == slot[r]["fire"].cur.fired

-----------------------------------------------------------------------------
(* The inductive invariant. *)

\* Where a run and its sender are: what is over or has not begun holds nothing.
Current == poll # "off" => run > 0 /\ life[run] \in {"loop", "drain"}
LifeOk(r) ==
    /\ r > run => life[r] = "none" /\ box[r] = <<>>
    /\ life[r] \in {"none", "gone"} =>
          slot[r] = EmptySlots /\ trying[r] = Idle
    /\ visit[r] # {} => life[r] = "loop"
    /\ life[r] = "drain" => ctxDone[r]
    /\ life[r] \in {"loop", "drain"} /\ RunOver(r) => ctxDone[r]
LivesOk == Current /\ \A r \in Runs : LifeOk(r)

\* The evaluator, its row, and the fires there were.
WatchOk ==
    /\ row.fired = lastFired /\ row.stable = stable
    /\ lastFired \in {0, fires} /\ (stable = "met" => lastFired # 0)
    /\ stable \in Keys(type) \cup {"unset"}
    /\ poll = "raise" => lastFired = fires /\ fires > 0
    /\ again => fires > 0
    /\ \A l \in Lines : told[l] \subseteq 1..fires

\* What an alert on its way says of its URLs is so: those it skips and those its
\* slot or an attempt lists as takers took it.
HaveHeard(S, f) == \A l \in S : Heard(l, f)
AlertTrue(a) ==
    /\ a.kind = "fired" <=> a.fired # 0
    /\ a.fired <= fires
    /\ IF a.fired = 0 THEN a.skip = {} ELSE HaveHeard(a.skip, a.fired)
SlotTrue(sl) ==
    AlertTrue(sl.cur) /\ (sl.cur.fired # 0 => HaveHeard(sl.taken, sl.cur.fired))
AttemptTrue(sl, t) == sl.cur.fired # 0 => HaveHeard(t.ok, sl.cur.fired)
MailOk(r) ==
    /\ \A i \in 1..Len(box[r]) : AlertTrue(box[r][i])
    /\ \A s \in SlotNames : /\ SlotTrue(slot[r][s])
                            /\ trying[r].slot = s => AttemptTrue(slot[r][s], trying[r])
Mail == \A r \in Runs : MailOk(r)

\* Every URL of an alert being sent is accounted for: owed, taken, given up on, let
\* off or in the attempt under way; an attempt after the first is of owed URLs.
Asked(t) == t.asked \cup t.ok \cup t.soft \cup t.hard
Known(sl) == sl.owed \cup sl.failed \cup sl.taken \cup sl.dropped
SlotOk(s, sl, t, alive) ==
    \/ sl = EmptySlot /\ t.slot # s
    \/ /\ sl.cur # NoAlert /\ slotFor(sl.cur.kind) = s
       /\ sl.owed # {} \/ t.slot = s => sl.dropped = {}
       /\ t.slot = s => Lines \subseteq Known(sl) \cup Asked(t)
       /\ t.slot # s /\ alive => Lines \subseteq Known(sl)
       /\ t.slot = s /\ ~t.first => Asked(t) \subseteq sl.owed
AttemptOk(t) ==
    /\ t.slot = "none" => t = Idle
    /\ t.asked \cap (t.ok \cup t.soft \cup t.hard) = {}
    /\ t.ok \cap (t.soft \cup t.hard) = {}
CountsOk(r) ==
    /\ AttemptOk(trying[r])
    /\ \A s \in SlotNames : SlotOk(s, slot[r][s], trying[r], life[r] = "loop")
Counts == \A r \in Runs : CountsOk(r)

\* Fires are queued and sent in order, those of an earlier run before those of a
\* later one; one about to be raised is newer than all.
InOrder(r) ==
    \A i \in 1..Len(box[r]) : box[r][i].fired # 0 =>
        /\ FireOf(r) < box[r][i].fired
        /\ \A j \in 1..Len(box[r]) : j < i => box[r][j].fired < box[r][i].fired
Before(r, f) == FireOf(r) < f /\ \A i \in 1..Len(box[r]) : box[r][i].fired < f
RunsInOrder(q, r) ==
    /\ FireOf(r) # 0 => Before(q, FireOf(r))
    /\ \A i \in 1..Len(box[r]) : box[r][i].fired # 0 => Before(q, box[r][i].fired)
Order ==
    /\ \A r \in Runs : InOrder(r)
    /\ \A q, r \in Runs : q < r => RunsInOrder(q, r)
    /\ poll = "raise" => /\ \A r \in Runs : Before(r, fires)
                         /\ \A l \in Lines : fires \notin told[l]

\* No URL took what the current run has yet to ask it to take, nor anything newer.
NotTold(l, f) == \A g \in told[l] : g < f
MayAsk(l, sl, t) ==
    \/ l \in sl.owed /\ ~(t.slot = "fire" /\ l \in t.ok)
    \/ t.slot = "fire" /\ l \in t.asked \cup t.soft
BoxIsNews ==
    run > 0 =>
      \A i \in 1..Len(box[run]) : box[run][i].fired # 0 =>
         \A l \in Lines : NotTold(l, box[run][i].fired)
SlotIsNews ==
    run > 0 /\ FireOf(run) # 0 =>
      \A l \in Lines :
         /\ \A g \in told[l] : g <= FireOf(run)
         /\ MayAsk(l, slot[run]["fire"], trying[run]) => NotTold(l, FireOf(run))

\* What the next fire skips heard the alert it tells again.
Resend ==
    resendTaken # {} =>
      /\ poll = "raise" => HaveHeard(resendTaken, fires)
      /\ poll \notin {"off", "raise"} =>
            /\ type = "match"
            /\ \/ stable = "unset" /\ again /\ HaveHeard(resendTaken, fires)
               \/ poll = "note" /\ stable = "unmet"

\* The alert of a condition that stands is told, lost to a full outbox, or on its way.
OnItsWay ==
    \/ HaveHeard(Lines, lastFired) \/ lastFired \in overflowed
    \/ \E i \in 1..Len(box[run]) : box[run][i].fired = lastFired
    \/ FireOf(run) = lastFired
Kept ==
    poll \notin {"off", "raise"} /\ type = "match" /\ stable = "met" /\ ~ctxDone[run]
    => OnItsWay

IInv ==
    /\ TypeOK /\ LivesOk /\ WatchOk /\ Mail /\ Counts /\ Order /\ BoxIsNews /\ SlotIsNews
    /\ Resend /\ Kept /\ StoreTruthful

-----------------------------------------------------------------------------
(* Values. *)

LEMMA RunsAre == MaxRuns \in Nat /\ MaxFires \in Nat /\ Runs = 1..MaxRuns /\ Times = 0..MaxFires
BY AlertsAssumption DEF Runs, Times

LEMMA RunTypes ==
    ASSUME TypeOK, NEW r \in Runs
    PROVE  /\ box[r] \in Seq(Alert) /\ Len(box[r]) \in Nat
           /\ \A i \in 1..Len(box[r]) : box[r][i] \in Alert /\ box[r][i].fired \in Nat
           /\ slot[r] \in [SlotNames -> SlotType] /\ trying[r] \in Attempt
           /\ FireOf(r) \in Nat /\ ctxDone[r] \in BOOLEAN
<1>1. box[r] \in Seq(Alert) /\ slot[r] \in [SlotNames -> SlotType] /\ trying[r] \in Attempt
      /\ ctxDone[r] \in BOOLEAN
    BY DEF TypeOK, SenderType, Attempt
<1>2. \A i \in 1..Len(box[r]) : box[r][i] \in Alert
    BY <1>1
<1>3. \A a \in Alert \cup {NoAlert} : a.fired \in Nat
    BY RunsAre DEF Alert, NoAlert
<1>4. "fire" \in SlotNames /\ slot[r]["fire"].cur \in Alert \cup {NoAlert}
    BY <1>1 DEF SlotNames, SlotType
<1> QED BY <1>1, <1>2, <1>3, <1>4 DEF FireOf

LEMMA FiresIs == ASSUME TypeOK PROVE fires \in Nat
BY RunsAre DEF TypeOK, HistoryType

LEMMA EmptyIs ==
    /\ NoAlert \notin Alert /\ EmptySlot \in SlotType /\ EmptySlots \in [SlotNames -> SlotType]
    /\ EmptySlot.cur.fired = 0 /\ EmptySlot.cur.skip = {} /\ EmptySlot.cur.kind # "fired"
    /\ Idle \in Attempt /\ Idle.slot = "none"
    /\ EmptySlot.owed = {} /\ EmptySlot.taken = {}
<1>1. NoAlert \notin Alert
    BY DEF NoAlert, Alert
<1>2. EmptySlot \in SlotType
    BY DEF EmptySlot, SlotType
<1> QED BY <1>1, <1>2 DEF EmptySlot, EmptySlots, NoAlert, Idle, Attempt

LEMMA SlotForIs ==
    /\ slotFor("fired") = "fire"
    /\ \A k \in {"fired", "down", "recovered", "moved"} :
          slotFor(k) \in SlotNames /\ (slotFor(k) = "fire" <=> k = "fired")
BY DEF slotFor, SlotNames

\* What was heard stays heard, of the fires there were.
Grows ==
    /\ \A l \in Lines : told[l] \subseteq told'[l]
    /\ fires <= fires' /\ \A f \in 0..fires : root'[f] = root[f]

LEMMA HeardStays ==
    ASSUME TypeOK, WatchOk, Grows
    PROVE  \A l \in Lines : \A f \in 0..fires : Heard(l, f) => Heard(l, f)'
<1> SUFFICES ASSUME NEW l \in Lines, NEW f \in 0..fires, Heard(l, f) PROVE Heard(l, f)'
    OBVIOUS
<1>1. PICK g \in told[l] : root[g] = root[f]
    BY DEF Heard
<1>2. fires \in Nat /\ g \in 0..fires /\ g \in told'[l]
    BY RunsAre DEF TypeOK, HistoryType, WatchOk, Grows
<1> QED BY <1>1, <1>2 DEF Heard, Grows

LEMMA TrueStays ==
    ASSUME TypeOK, WatchOk, Grows, TypeOK'
    PROVE  /\ \A S \in SUBSET Lines : \A f \in 0..fires : HaveHeard(S, f) => HaveHeard(S, f)'
           /\ \A a \in Alert \cup {NoAlert} : AlertTrue(a) => AlertTrue(a)'
           /\ \A sl \in SlotType : SlotTrue(sl) => SlotTrue(sl)'
           /\ \A sl \in SlotType, t \in Attempt :
                 SlotTrue(sl) /\ AttemptTrue(sl, t) => AttemptTrue(sl, t)'
<1>0. fires \in Nat /\ fires' \in Nat /\ fires <= fires'
    BY RunsAre DEF TypeOK, HistoryType, Grows
<1>1. ASSUME NEW S \in SUBSET Lines, NEW f \in 0..fires, HaveHeard(S, f)
      PROVE  HaveHeard(S, f)'
    BY <1>1, HeardStays DEF HaveHeard
<1>2. ASSUME NEW a \in Alert \cup {NoAlert}, AlertTrue(a) PROVE AlertTrue(a)'
  <2>1. a.fired \in Nat /\ a.fired <= fires /\ a.skip \in SUBSET Lines
      BY <1>2, RunsAre DEF Alert, NoAlert, AlertTrue
  <2>2. HaveHeard(a.skip, a.fired) => HaveHeard(a.skip, a.fired)'
      BY <1>0, <1>1, <2>1
  <2> QED BY <1>0, <1>2, <2>1, <2>2 DEF AlertTrue
<1>3. ASSUME NEW sl \in SlotType, SlotTrue(sl) PROVE SlotTrue(sl)'
  <2>1. /\ sl.cur \in Alert \cup {NoAlert} /\ sl.taken \in SUBSET Lines /\ AlertTrue(sl.cur)
        /\ sl.cur.fired \in 0..fires
      BY <1>0, <1>3, RunsAre DEF SlotType, SlotTrue, AlertTrue, Alert, NoAlert
  <2>2. AlertTrue(sl.cur)'
      BY <1>2, <2>1
  <2>3. HaveHeard(sl.taken, sl.cur.fired) => HaveHeard(sl.taken, sl.cur.fired)'
      BY <1>1, <2>1
  <2> QED BY <1>3, <2>2, <2>3 DEF SlotTrue
<1>4. ASSUME NEW sl \in SlotType, NEW t \in Attempt, SlotTrue(sl), AttemptTrue(sl, t)
      PROVE  AttemptTrue(sl, t)'
  <2>1. sl.cur.fired \in 0..fires /\ t.ok \in SUBSET Lines
      BY <1>0, <1>4, RunsAre DEF SlotType, SlotTrue, AlertTrue, Alert, NoAlert, Attempt
  <2>2. HaveHeard(t.ok, sl.cur.fired) => HaveHeard(t.ok, sl.cur.fired)'
      BY <1>1, <2>1
  <2> QED BY <1>4, <2>2 DEF AttemptTrue
<1> QED BY <1>1, <1>2, <1>3, <1>4

-----------------------------------------------------------------------------
(* Frames: what a step that leaves the mail alone keeps. *)

\* a sits in a box or a slot of run r after the step.
LEMMA MailKeeps ==
    ASSUME TypeOK, TypeOK', WatchOk, Grows, NEW r \in Runs, MailOk(r),
           slot'[r] = slot[r], trying'[r] = trying[r],
           \A i \in 1..Len(box'[r]) : \E a \in Alert : a = box'[r][i] /\ AlertTrue(a)
    PROVE  MailOk(r)'
<1>1. ASSUME NEW i \in 1..Len(box'[r]), NEW a, a = box'[r][i] PROVE AlertTrue(a)'
  <2>1. a \in Alert /\ AlertTrue(a)
      BY <1>1
  <2> QED BY <2>1, TrueStays
<1>2. slot[r] \in [SlotNames -> SlotType] /\ trying[r] \in Attempt
    BY RunTypes
<1>3. ASSUME NEW s \in SlotNames, NEW sl, sl = slot'[r][s], NEW t, t = trying'[r]
      PROVE  SlotTrue(sl)' /\ (t.slot = s => AttemptTrue(sl, t)')
  <2>1. sl \in SlotType /\ t \in Attempt /\ sl = slot[r][s] /\ t = trying[r]
      BY <1>2, <1>3
  <2>2. SlotTrue(sl) /\ (t.slot = s => AttemptTrue(sl, t))
      BY <2>1 DEF MailOk
  <2> QED BY <2>1, <2>2, TrueStays
<1> QED BY <1>1, <1>3 DEF MailOk, SlotTrue, AttemptTrue, AlertTrue

\* The same boxes, slots and fires, and no new fire about to be raised.
LEMMA SameMail ==
    ASSUME IInv, TypeOK', poll' # "raise" \/ poll' = poll,
           UNCHANGED <<run, fires, told, root, box, slot, trying, life>>
    PROVE  Mail' /\ Counts' /\ Order' /\ BoxIsNews' /\ SlotIsNews'
<1>1. Grows
    BY FiresIs DEF IInv, Grows
<1>2. ASSUME NEW r \in Runs PROVE MailOk(r)'
  <2>1. \A i \in 1..Len(box'[r]) : \E a \in Alert : a = box'[r][i] /\ AlertTrue(a)
      BY RunTypes DEF IInv, Mail, MailOk
  <2> QED BY <1>1, <2>1, MailKeeps DEF IInv, Mail
<1>3. Mail'
    BY <1>2 DEF Mail
<1>4. Counts'
    BY DEF IInv, Counts, CountsOk
<1>5. Order'
    BY DEF IInv, Order, InOrder, RunsInOrder, Before, FireOf
<1>6. BoxIsNews' /\ SlotIsNews'
    BY DEF IInv, BoxIsNews, SlotIsNews, NotTold, FireOf
<1> QED BY <1>3, <1>4, <1>5, <1>6

LEMMA StoreKeeps ==
    ASSUME IInv, TypeOK', Grows,
           IF row'.fired = row.fired
           THEN (row'.delivered => row.delivered) /\ row'.taken \subseteq row.taken
           ELSE row'.fired = 0 \/ (~row'.delivered /\ row'.taken = {})
    PROVE  StoreTruthful'
<1> SUFFICES ASSUME row'.fired # 0, NEW l \in Lines, row'.delivered \/ l \in row'.taken,
                    NEW f, f = row'.fired
             PROVE  Heard(l, f)'
    BY DEF StoreTruthful, Heard
<1>1. f = row.fired /\ (row.delivered \/ l \in row.taken) /\ f # 0
    OBVIOUS
<1>2. Heard(l, f)
    BY <1>1 DEF IInv, StoreTruthful
<1>3. f \in 0..fires
    BY <1>1, RunsAre DEF IInv, WatchOk, TypeOK, HistoryType
<1> QED BY <1>2, <1>3, HeardStays DEF IInv

\* A step of the poll goroutine other than its return leaves every run where it is.
LEMMA PollLives ==
    ASSUME IInv, poll # "off", poll' # "off",
           UNCHANGED <<run, life, ctxDone, slot, trying, visit>>,
           \A r \in Runs : r # run => box'[r] = box[r]
    PROVE  LivesOk'
<1>1. Current'
    BY DEF IInv, LivesOk, Current
<1>2. ASSUME NEW r \in Runs PROVE LifeOk(r)'
  <2>1. RunOver(r)' => RunOver(r)
      BY DEF RunOver
  <2>2. r > run => box'[r] = box[r]
      BY RunsAre DEF IInv, TypeOK, WatcherType
  <2> QED BY <2>1, <2>2 DEF IInv, LivesOk, LifeOk
<1> QED BY <1>1, <1>2 DEF LivesOk

LEMMA SavedIs ==
    ASSUME TypeOK, NEW f \in Times, NEW s \in Stables
    PROVE  /\ Saved(f, s) \in [fired : Times, stable : Stables, delivered : BOOLEAN,
                               taken : SUBSET Lines]
           /\ Saved(f, s).fired = f /\ Saved(f, s).stable = s
           /\ IF f = row.fired
              THEN Saved(f, s).delivered = row.delivered /\ Saved(f, s).taken = row.taken
              ELSE ~Saved(f, s).delivered /\ Saved(f, s).taken = {}
<1>1. row.delivered \in BOOLEAN /\ row.taken \in SUBSET Lines
    BY DEF TypeOK
<1> DEFINE d == row.fired = f /\ row.delivered
           t == IF row.fired = f THEN row.taken ELSE {}
<1>2. d \in BOOLEAN /\ t \in SUBSET Lines
    BY <1>1
<1>3. Saved(f, s) = [fired |-> f, stable |-> s, delivered |-> d, taken |-> t]
    BY DEF Saved
<1>4. IF f = row.fired THEN d = row.delivered /\ t = row.taken ELSE ~d /\ t = {}
    BY <1>1, Zenon
<1> HIDE DEF d, t
<1> QED BY <1>2, <1>3, <1>4

LEMMA KeysAre == \A t \in TriggerTypes : Keys(t) \cup {"unset"} \subseteq Stables
BY DEF Keys, Stables, TriggerTypes

-----------------------------------------------------------------------------
(* The poll goroutine. *)

\* The outbox after raise: a is its last alert, or it was full.
LEMMA RaisedIs ==
    ASSUME IInv, NEW a \in Alert, Raised(a), poll # "off"
    PROVE  /\ run \in Runs /\ \A r \in Runs : r # run => box'[r] = box[r]
           /\ box' \in [Runs -> Seq(Alert)] /\ \A r \in Runs : Len(box'[r]) <= OutboxSize
           /\ \A i \in 1..Len(box[run]) :
                 i \in 1..Len(box'[run]) /\ box'[run][i] = box[run][i]
           /\ \/ box' = box /\ overflowed' = overflowed \cup {a.fired}
              \/ /\ overflowed' = overflowed /\ Len(box'[run]) = Len(box[run]) + 1
                 /\ box'[run][Len(box[run]) + 1] = a
<1>1. run \in Runs /\ Len(box[run]) \in Nat /\ box[run] \in Seq(Alert) /\ OutboxSize \in Nat
    BY RunsAre, RunTypes, AlertsAssumption DEF IInv, LivesOk, Current, TypeOK, WatcherType
<1>2. box \in [Runs -> Seq(Alert)] /\ \A r \in Runs : Len(box[r]) <= OutboxSize
    BY DEF IInv, TypeOK, SenderType
<1>3. CASE box' = box /\ overflowed' = overflowed \cup {a.fired}
    BY <1>1, <1>2, <1>3
<1>4. CASE /\ Len(box[run]) < OutboxSize /\ UNCHANGED overflowed
           /\ box' = [box EXCEPT ![run] = Append(@, a)]
  <2>1. /\ Append(box[run], a) \in Seq(Alert)
        /\ Len(Append(box[run], a)) = Len(box[run]) + 1
        /\ \A i \in 1..Len(box[run]) : Append(box[run], a)[i] = box[run][i]
        /\ Append(box[run], a)[Len(box[run]) + 1] = a
      BY <1>1
  <2>2. box'[run] = Append(box[run], a) /\ \A r \in Runs : r # run => box'[r] = box[r]
      BY <1>1, <1>4 DEF IInv, TypeOK, SenderType
  <2> QED BY <1>1, <1>2, <1>4, <2>1, <2>2
<1> QED BY <1>3, <1>4 DEF Raised

LEMMA RaiseMail ==
    ASSUME IInv, TypeOK', NEW a \in Alert, AlertTrue(a),
           a.fired = 0 \/ (poll = "raise" /\ a.fired = fires),
           poll # "off", poll' # "raise", Raised(a),
           UNCHANGED <<run, fires, told, root, slot, trying, life>>
    PROVE  Mail' /\ Counts' /\ Order' /\ BoxIsNews' /\ SlotIsNews'
<1>1. CASE box' = box
    BY <1>1, SameMail
<1>2. CASE box' # box
  <2> DEFINE n == Len(box[run]) + 1
  <2>1. /\ run \in Runs /\ \A r \in Runs : r # run => box'[r] = box[r]
        /\ \A i \in 1..Len(box[run]) : box'[run][i] = box[run][i]
        /\ Len(box'[run]) = n /\ box'[run][n] = a /\ Len(box[run]) \in Nat
      BY <1>2, RaisedIs, RunTypes DEF IInv
  <2>2. \A i \in 1..Len(box'[run]) : i \in 1..Len(box[run]) \/ i = n
      BY <2>1
  <2>3. /\ a.fired \in Nat /\ fires \in Nat
        /\ \A r \in Runs : FireOf(r) \in Nat
        /\ \A r \in Runs : \A i \in 1..Len(box[r]) : box[r][i].fired \in Nat
        /\ \A r \in Runs : FireOf(r)' = FireOf(r)
        /\ \A l \in Lines : told[l] \subseteq 1..fires
    <3>1. a.fired \in Nat /\ fires \in Nat /\ \A l \in Lines : told[l] \subseteq 1..fires
        BY RunsAre DEF IInv, Alert, TypeOK, HistoryType, WatchOk
    <3>2. \A r \in Runs : /\ FireOf(r) \in Nat
                           /\ \A i \in 1..Len(box[r]) : box[r][i].fired \in Nat
        BY RunTypes DEF IInv
    <3>3. \A r \in Runs : FireOf(r)' = FireOf(r)
        BY DEF FireOf
    <3> QED BY <3>1, <3>2, <3>3
  <2>4. a.fired # 0 => /\ \A r \in Runs : Before(r, a.fired)
                       /\ \A l \in Lines : fires \notin told[l] /\ a.fired = fires
      BY DEF IInv, Order
  <2>5. Grows
      BY <2>3 DEF Grows
  <2>6. ASSUME NEW r \in Runs PROVE MailOk(r)'
    <3>1. \A i \in 1..Len(box[r]) : \E b \in Alert : b = box[r][i] /\ AlertTrue(b)
        BY RunTypes DEF IInv, Mail, MailOk
    <3>2. \A i \in 1..Len(box'[r]) : \E b \in Alert : b = box'[r][i] /\ AlertTrue(b)
        BY <2>1, <2>2, <3>1
    <3> QED BY <2>5, <3>2, MailKeeps DEF IInv, Mail
  <2>7. Counts'
      BY DEF IInv, Counts, CountsOk
  <2>8. ASSUME NEW r \in Runs PROVE InOrder(r)'
    <3>1. CASE r # run
        BY <2>1, <2>3, <3>1 DEF IInv, Order, InOrder
    <3>2. CASE r = run
      <4>1. ASSUME NEW i \in 1..Len(box'[run]), box'[run][i].fired # 0
            PROVE  /\ FireOf(run) < box'[run][i].fired
                   /\ \A j \in 1..Len(box'[run]) : j < i =>
                         box'[run][j].fired < box'[run][i].fired
        <5>1. CASE i \in 1..Len(box[run])
          <6>1. InOrder(run)
              BY <2>1 DEF IInv, Order
          <6>2. \A j \in 1..Len(box'[run]) : j < i => j \in 1..Len(box[run])
              BY <2>1, <5>1
          <6>3. box'[run][i] = box[run][i] /\ \A j \in 1..Len(box[run]) : box'[run][j] = box[run][j]
              BY <2>1, <5>1
          <6> QED BY <4>1, <5>1, <6>1, <6>2, <6>3 DEF InOrder
        <5>2. CASE i = n
            BY <2>1, <2>2, <2>4, <4>1, <5>2 DEF Before
        <5> QED BY <2>2, <5>1, <5>2
      <4> QED BY <2>3, <3>2, <4>1 DEF InOrder
    <3> QED BY <3>1, <3>2
  <2>9. ASSUME NEW q \in Runs, NEW r \in Runs, q < r PROVE RunsInOrder(q, r)'
    <3>1. RunsInOrder(q, r)
        BY <2>9 DEF IInv, Order
    <3>2. q \in Nat /\ r \in Nat /\ run \in Nat /\ run <= MaxRuns
        BY <2>1, RunsAre
    <3>3. r > run => box[r] = <<>> /\ FireOf(r) = 0
        BY <3>2, EmptyIs DEF IInv, LivesOk, LifeOk, FireOf, EmptySlots, SlotNames
    <3>4. CASE q # run /\ r # run
        BY <2>1, <2>3, <3>1, <3>4 DEF RunsInOrder, Before
    <3>5. CASE r = run
      <4>1. box'[q] = box[q] /\ q # run
          BY <2>1, <2>9, <3>2, <3>5
      <4>2. \A i \in 1..Len(box'[run]) : box'[run][i].fired # 0 => Before(q, box'[run][i].fired)
          BY <2>1, <2>2, <2>4, <3>1, <3>5 DEF RunsInOrder
      <4>3. FireOf(run) # 0 => Before(q, FireOf(run))
          BY <3>1, <3>5 DEF RunsInOrder
      <4> QED BY <2>3, <3>5, <4>1, <4>2, <4>3 DEF RunsInOrder, Before
    <3>6. CASE q = run
        BY <2>1, <2>3, <2>9, <3>2, <3>3, <3>6 DEF RunsInOrder
    <3> QED BY <3>4, <3>5, <3>6
  <2>10. Order'
      BY <2>8, <2>9 DEF Order
  <2>11. BoxIsNews'
    <3> SUFFICES ASSUME NEW i \in 1..Len(box'[run]), box'[run][i].fired # 0, NEW l \in Lines,
                        NEW g \in told[l]
                 PROVE  g < box'[run][i].fired
        BY DEF BoxIsNews, NotTold
    <3>1. run > 0
        BY <2>1, RunsAre
    <3>2. CASE i \in 1..Len(box[run])
        BY <2>1, <3>1, <3>2 DEF IInv, BoxIsNews, NotTold
    <3>3. CASE i = n
      <4>1. g \in 1..fires /\ g # fires
          BY <2>1, <2>3, <2>4, <3>3
      <4> QED BY <2>1, <2>3, <2>4, <3>3, <4>1
    <3> QED BY <2>2, <3>2, <3>3
  <2>12. SlotIsNews'
      BY DEF IInv, SlotIsNews, NotTold, FireOf
  <2> QED BY <2>6, <2>7, <2>10, <2>11, <2>12 DEF Mail
<1> QED BY <1>1, <1>2

\* A poll's step that leaves the evaluator, the row and what was told alone.
LEMMA PollKeeps ==
    ASSUME IInv, TypeOK', poll \in {"idle", "drift", "eval"}, poll' \in {"drift", "eval", "note"},
           UNCHANGED <<type, run, stable, lastFired, resendTaken, row, life, ctxDone, slot,
                       trying, visit, fires, again, root, told>>,
           overflowed \subseteq overflowed',
           \A r \in Runs : r # run => box'[r] = box[r],
           \A i \in 1..Len(box[run]) : i \in 1..Len(box'[run]) /\ box'[run][i] = box[run][i]
    PROVE  LivesOk' /\ WatchOk' /\ Resend' /\ Kept' /\ StoreTruthful'
<1>1. LivesOk'
    BY PollLives
<1>2. WatchOk'
    BY DEF IInv, WatchOk
<1>3. Resend'
    BY DEF IInv, Resend, HaveHeard, Heard
<1>4. Kept'
    BY DEF IInv, Kept, OnItsWay, HaveHeard, Heard, FireOf
<1>5. StoreTruthful'
    BY DEF IInv, StoreTruthful, Heard
<1> QED BY <1>1, <1>2, <1>3, <1>4, <1>5

LEMMA BeginsOk == ASSUME IInv, Begins PROVE poll = "idle" /\ run \in Runs
BY RunsAre DEF IInv, Begins, LivesOk, Current, TypeOK, WatcherType

LEMMA ReadsOk ==
    ASSUME IInv, Reads PROVE poll \in {"idle", "drift", "eval"} /\ run \in Runs
BY RunsAre DEF IInv, Reads, ReadWell, Begins, LivesOk, Current, TypeOK, WatcherType

\* An alert about the stream or the position.
LEMMA HealthAlertIs ==
    ASSUME IInv, NEW k \in {"down", "recovered", "moved"}
    PROVE  StreamAlert(k) \in Alert /\ AlertTrue(StreamAlert(k)) /\ StreamAlert(k).fired = 0
<1>1. 0 \in Times /\ 0 <= fires
    BY RunsAre DEF IInv, TypeOK, HistoryType
<1> QED BY <1>1 DEF StreamAlert, Alert, AlertTrue

LEMMA HealthRaised ==
    ASSUME IInv, TypeOK', NEW k \in {"down", "recovered", "moved"}, Raised(StreamAlert(k)),
           poll \in {"idle", "drift", "eval"}, poll' \in {"drift", "eval", "note"},
           UNCHANGED <<type, run, stable, lastFired, resendTaken, row, life, ctxDone, slot,
                       trying, visit, fires, again, root, told>>
    PROVE  IInv'
<1> DEFINE a == StreamAlert(k)
<1>1. a \in Alert /\ AlertTrue(a) /\ a.fired = 0
    BY HealthAlertIs
<1>2. poll # "off" /\ poll' # "raise"
    OBVIOUS
<1> HIDE DEF a
<1>3. Raised(a)
    BY DEF a
<1>4. Mail' /\ Counts' /\ Order' /\ BoxIsNews' /\ SlotIsNews'
    BY <1>1, <1>2, <1>3, RaiseMail
<1>5. LivesOk' /\ WatchOk' /\ Resend' /\ Kept' /\ StoreTruthful'
  <2>1. /\ overflowed \subseteq overflowed' /\ \A r \in Runs : r # run => box'[r] = box[r]
        /\ \A i \in 1..Len(box[run]) : i \in 1..Len(box'[run]) /\ box'[run][i] = box[run][i]
      BY <1>1, <1>2, <1>3, RaisedIs
  <2> QED BY <2>1, PollKeeps
<1> QED BY <1>4, <1>5 DEF IInv

LEMMA RaisedTypes ==
    ASSUME IInv, NEW a \in Alert, Raised(a), poll # "off"
    PROVE  /\ box' \in [Runs -> Seq(Alert)] /\ \A r \in Runs : Len(box'[r]) <= OutboxSize
           /\ overflowed' \subseteq Times
<1>1. a.fired \in Times /\ overflowed \subseteq Times
    BY DEF Alert, IInv, TypeOK, HistoryType
<1> QED BY <1>1, RaisedIs

LEMMA GoesDownOk == ASSUME IInv, GoesDown PROVE IInv'
<1>1. poll = "idle" /\ run \in Runs /\ Raised(StreamAlert("down"))
    BY BeginsOk DEF GoesDown
<1>2. TypeOK'
  <2>1. /\ box' \in [Runs -> Seq(Alert)] /\ \A r \in Runs : Len(box'[r]) <= OutboxSize
        /\ overflowed' \subseteq Times
      BY <1>1, HealthAlertIs, RaisedTypes
  <2> QED BY <2>1, AlertsAssumption
         DEF GoesDown, IInv, TypeOK, WatcherType, SenderType, HistoryType
<1> QED BY <1>1, <1>2, HealthRaised DEF GoesDown

LEMMA RecoversOk == ASSUME IInv, Recovers PROVE IInv'
<1>1. poll = "idle" /\ run \in Runs /\ Raised(StreamAlert("recovered"))
    BY BeginsOk DEF Recovers
<1>2. TypeOK'
  <2>1. /\ box' \in [Runs -> Seq(Alert)] /\ \A r \in Runs : Len(box'[r]) <= OutboxSize
        /\ overflowed' \subseteq Times
      BY <1>1, HealthAlertIs, RaisedTypes
  <2> QED BY <2>1 DEF Recovers, IInv, TypeOK, WatcherType, SenderType, HistoryType
<1> QED BY <1>1, <1>2, HealthRaised DEF Recovers

LEMMA MovesOk == ASSUME IInv, NEW isNews \in BOOLEAN, Moves(isNews) PROVE IInv'
<1>1. poll \in {"idle", "drift", "eval"} /\ run \in Runs /\ poll' = "eval"
    BY ReadsOk DEF Moves, Reads
<1>2. CASE isNews
  <2>1. Raised(StreamAlert("moved"))
      BY <1>2 DEF Moves
  <2>2. /\ box' \in [Runs -> Seq(Alert)] /\ \A r \in Runs : Len(box'[r]) <= OutboxSize
        /\ overflowed' \subseteq Times
      BY <1>1, <2>1, HealthAlertIs, RaisedTypes
  <2>3. TypeOK'
      BY <2>2, AlertsAssumption
         DEF Moves, IInv, TypeOK, WatcherType, SenderType, HistoryType
  <2> QED BY <1>1, <2>1, <2>3, HealthRaised DEF Moves
<1>3. CASE ~isNews
  <2>1. box' = box /\ overflowed' = overflowed
      BY <1>3 DEF Moves
  <2>2. TypeOK'
      BY <2>1, AlertsAssumption
         DEF Moves, IInv, TypeOK, WatcherType, SenderType, HistoryType
  <2>3. LivesOk' /\ WatchOk' /\ Resend' /\ Kept' /\ StoreTruthful'
      BY <1>1, <2>1, <2>2, PollKeeps DEF Moves
  <2>4. Mail' /\ Counts' /\ Order' /\ BoxIsNews' /\ SlotIsNews'
      BY <1>1, <2>1, <2>2, SameMail DEF Moves
  <2> QED BY <2>2, <2>3, <2>4 DEF IInv
<1> QED BY <1>2, <1>3

LEMMA MovesBackOk == ASSUME IInv, MovesBack \/ ReadsNothingNew PROVE IInv'
<1>1. /\ poll \in {"idle", "drift", "eval"} /\ poll' \in {"eval", "note"}
      /\ UNCHANGED <<type, run, stable, lastFired, down, resendTaken, row, sending, history>>
      /\ moved' \in BOOLEAN
    BY ReadsOk DEF MovesBack, ReadsNothingNew, Reads, IInv, TypeOK, WatcherType
<1>2. TypeOK'
    BY <1>1 DEF IInv, TypeOK, WatcherType, SenderType, HistoryType, sending, history
<1>3. LivesOk' /\ WatchOk' /\ Resend' /\ Kept' /\ StoreTruthful'
    BY <1>1, <1>2, PollKeeps DEF sending, history
<1>4. Mail' /\ Counts' /\ Order' /\ BoxIsNews' /\ SlotIsNews'
    BY <1>1, <1>2, SameMail DEF sending, history
<1> QED BY <1>2, <1>3, <1>4 DEF IInv

\* A new fire, about to be raised, is newer than all on their way.
LEMMA FiresMail ==
    ASSUME IInv, TypeOK', fires' = fires + 1, \A f \in 0..fires : root'[f] = root[f],
           UNCHANGED <<run, told, box, slot, trying, life>>
    PROVE  Grows /\ Mail' /\ Counts' /\ Order' /\ BoxIsNews' /\ SlotIsNews'
<1>0. fires \in Nat /\ \A l \in Lines : told[l] \subseteq 1..fires
    BY RunsAre DEF IInv, TypeOK, HistoryType, WatchOk
<1>1. Grows
    BY <1>0 DEF Grows
<1>2. ASSUME NEW r \in Runs PROVE MailOk(r)'
  <2>1. \A i \in 1..Len(box'[r]) : \E a \in Alert : a = box'[r][i] /\ AlertTrue(a)
      BY RunTypes DEF IInv, Mail, MailOk
  <2> QED BY <1>1, <2>1, MailKeeps DEF IInv, Mail
<1>3. Counts'
    BY DEF IInv, Counts, CountsOk
<1>4. Order'
  <2>1. ASSUME NEW r \in Runs PROVE Before(r, fires')
    <3>1. FireOf(r) <= fires /\ \A i \in 1..Len(box[r]) : box[r][i].fired <= fires
        BY DEF IInv, Mail, MailOk, SlotTrue, AlertTrue, FireOf, SlotNames
    <3>2. FireOf(r) \in Nat /\ \A i \in 1..Len(box[r]) : box[r][i].fired \in Nat
        BY RunTypes DEF IInv
    <3> QED BY <1>0, <3>1, <3>2 DEF Before
  <2>2. \A l \in Lines : fires' \notin told[l]
      BY <1>0
  <2>3. \A r \in Runs : Before(r, fires)' <=> Before(r, fires')
      BY DEF Before, FireOf
  <2>4. (\A r \in Runs : InOrder(r)') /\ \A q, r \in Runs : q < r => RunsInOrder(q, r)'
      BY DEF IInv, Order, InOrder, RunsInOrder, Before, FireOf
  <2> QED BY <2>1, <2>2, <2>3, <2>4 DEF Order
<1>5. BoxIsNews' /\ SlotIsNews'
    BY DEF IInv, BoxIsNews, SlotIsNews, NotTold, FireOf
<1> QED BY <1>1, <1>2, <1>3, <1>4, <1>5 DEF Mail

\* What a poll knows when it settles or fires.
LEMMA PollKnows ==
    ASSUME IInv, Reads
    PROVE  /\ poll \in {"idle", "drift", "eval"} /\ run \in Runs
           /\ fires \in Nat /\ lastFired \in Times /\ lastFired \in {0, fires}
           /\ type \in TriggerTypes /\ resendTaken \in SUBSET Lines
           /\ row.fired = lastFired /\ (fires < MaxFires => fires + 1 \in Times)
           /\ resendTaken # {} => /\ type = "match" /\ stable = "unset" /\ again
                                  /\ HaveHeard(resendTaken, fires) /\ fires > 0
<1>1. poll \in {"idle", "drift", "eval"} /\ run \in Runs
    BY ReadsOk
<1>2. fires \in Nat /\ lastFired \in Times /\ (fires < MaxFires => fires + 1 \in Times)
      /\ resendTaken \in SUBSET Lines /\ type \in TriggerTypes
    BY RunsAre, AlertsAssumption DEF IInv, TypeOK, HistoryType, WatcherType
<1>3. row.fired = lastFired /\ lastFired \in {0, fires} /\ (again => fires > 0)
    BY DEF IInv, WatchOk
<1>4. resendTaken # {} => /\ type = "match" /\ stable = "unset" /\ again
                          /\ HaveHeard(resendTaken, fires)
    BY <1>1 DEF IInv, Resend
<1> QED BY <1>1, <1>2, <1>3, <1>4

LEMMA SettlesOk == ASSUME IInv, NEW k \in Keys(type), Settles(k) PROVE IInv'
<1> DEFINE isFire == IF type = "match" THEN k = "met" ELSE stable # "unset"
           f == IF isFire THEN fires + 1 ELSE lastFired
<1>1. /\ Reads /\ stable' = k /\ again' = FALSE
      /\ UNCHANGED <<type, run, down, moved, resendTaken, sending, downs, moves, told,
                     overflowed>>
    BY DEF Settles
<1>2. IF isFire THEN /\ fires < MaxFires /\ fires' = fires + 1 /\ lastFired' = fires + 1
                     /\ poll' = "raise"
                     /\ root' = [root EXCEPT ![fires + 1] = IF again THEN root[fires] ELSE @]
                     /\ early' = {}
      ELSE poll' = "note" /\ UNCHANGED <<fires, lastFired, root, early>>
    BY DEF Settles
<1>3. row' = Saved(f, k) /\ lastFired' = f
  <2>1. row' = Saved(lastFired', k)
      BY DEF Settles
  <2>2. lastFired' = f
      BY <1>2
  <2> QED BY <2>1, <2>2
<1>4. k \in Stables /\ f \in Times /\ (k = "met" => type = "match")
    BY <1>1, <1>2, PollKnows, KeysAre DEF Keys, TriggerTypes
<1>5. /\ row' \in [fired : Times, stable : Stables, delivered : BOOLEAN, taken : SUBSET Lines]
      /\ row'.fired = f /\ row'.stable = k
      /\ IF f = row.fired THEN row'.delivered = row.delivered /\ row'.taken = row.taken
         ELSE ~row'.delivered /\ row'.taken = {}
    BY <1>3, <1>4, SavedIs DEF IInv
<1>6. poll # "off" /\ poll' # "off" /\ type \in TriggerTypes
    BY <1>1, <1>2, PollKnows
<1>7. LivesOk'
    BY <1>1, <1>6, PollLives DEF sending
<1>8. CASE isFire
  <2>1. root' \in [Times -> Times] /\ (\A g \in 0..fires : root'[g] = root[g])
        /\ root'[fires + 1] = IF again THEN root[fires] ELSE root[fires + 1]
    <3>1. fires + 1 \in Times /\ fires \in Times
        BY <1>1, <1>2, <1>8, PollKnows, RunsAre
    <3>2. root \in [Times -> Times]
        BY DEF IInv, TypeOK, HistoryType
    <3> DEFINE v == IF again THEN root[fires] ELSE root[fires + 1]
    <3>3. v \in Times
        BY <3>1, <3>2
    <3>4. root' = [root EXCEPT ![fires + 1] = v]
        BY <1>2, <1>8
    <3> HIDE DEF v
    <3>5. root' \in [Times -> Times] /\ root'[fires + 1] = v
          /\ \A g \in Times : g # fires + 1 => root'[g] = root[g]
        BY <3>1, <3>2, <3>3, <3>4
    <3>6. \A g \in 0..fires : g \in Times /\ g # fires + 1
        BY <1>1, <3>1, RunsAre, PollKnows
    <3> QED BY <3>5, <3>6 DEF v
  <2>2. TypeOK'
      BY <1>1, <1>2, <1>4, <1>5, <1>8, <2>1, PollKnows
         DEF IInv, TypeOK, WatcherType, SenderType, HistoryType, sending
  <2>3. Grows /\ Mail' /\ Counts' /\ Order' /\ BoxIsNews' /\ SlotIsNews'
      BY <1>1, <1>2, <1>8, <2>1, <2>2, FiresMail DEF sending
  <2>4. WatchOk'
    <3>1. \A l \in Lines : told'[l] \subseteq 1..fires'
        BY <1>1, <1>2, <1>8, PollKnows DEF IInv, WatchOk
    <3> QED BY <1>1, <1>2, <1>3, <1>5, <1>8, <3>1, PollKnows DEF WatchOk
  <2>5. Resend'
    <3> SUFFICES ASSUME resendTaken # {} PROVE HaveHeard(resendTaken, fires)'
        BY <1>1, <1>2, <1>8 DEF Resend
    <3> SUFFICES ASSUME NEW l \in resendTaken PROVE \E g \in told'[l] : root'[g] = root'[fires']
        BY <1>1 DEF HaveHeard, Heard
    <3>1. again /\ l \in Lines /\ Heard(l, fires)
        BY <1>1, PollKnows DEF HaveHeard
    <3>2. PICK g \in told[l] : root[g] = root[fires]
        BY <3>1 DEF Heard
    <3>3. g \in 0..fires
        BY <3>1, <1>1, PollKnows DEF IInv, WatchOk
    <3> QED BY <1>1, <1>2, <1>8, <2>1, <3>1, <3>2, <3>3
  <2>6. Kept'
      BY <1>2, <1>8 DEF Kept
  <2>7. StoreTruthful'
      BY <1>5, <1>8, <2>2, <2>3, <1>1, PollKnows, StoreKeeps
  <2> QED BY <1>7, <2>2, <2>3, <2>4, <2>5, <2>6, <2>7 DEF IInv
<1>9. CASE ~isFire
  <2>1. f = row.fired /\ poll' = "note" /\ UNCHANGED <<fires, lastFired, root, early>>
      BY <1>1, <1>2, <1>9, PollKnows
  <2>2. TypeOK'
      BY <1>1, <1>4, <1>5, <2>1
         DEF IInv, TypeOK, WatcherType, SenderType, HistoryType, sending
  <2>3. Mail' /\ Counts' /\ Order' /\ BoxIsNews' /\ SlotIsNews'
      BY <1>1, <2>1, <2>2, SameMail DEF sending
  <2>4. type = "match" => k = "unmet"
      BY <1>9 DEF Keys
  <2>5. WatchOk'
      BY <1>1, <1>3, <1>4, <1>5, <1>9, <2>1 DEF IInv, WatchOk
  <2>6. Resend'
      BY <1>1, <2>1, <2>4, PollKnows DEF Resend
  <2>7. Kept'
      BY <1>1, <2>4 DEF Kept
  <2>8. Grows
      BY <1>1, <2>1, PollKnows DEF Grows
  <2>9. StoreTruthful'
      BY <1>5, <2>1, <2>2, <2>8, StoreKeeps
  <2> QED BY <1>7, <2>2, <2>3, <2>5, <2>6, <2>7, <2>9 DEF IInv
<1> QED BY <1>8, <1>9

LEMMA PixelFiresOk == ASSUME IInv, PixelFires PROVE IInv'
<1>1. /\ Reads /\ type = "pixel" /\ fires < MaxFires /\ fires' = fires + 1
      /\ lastFired' = fires + 1 /\ poll' = "raise" /\ row' = Saved(fires + 1, stable)
      /\ early' = {}
      /\ UNCHANGED <<type, run, stable, down, moved, resendTaken, sending,
                     downs, moves, again, root, told, overflowed>>
    BY DEF PixelFires
<1>2. /\ fires + 1 \in Times /\ stable \in Stables /\ resendTaken = {} /\ poll # "off"
      /\ fires \in Nat /\ row.fired # fires + 1
    BY <1>1, PollKnows DEF IInv, TypeOK, WatcherType
<1>3. /\ row' \in [fired : Times, stable : Stables, delivered : BOOLEAN, taken : SUBSET Lines]
      /\ row'.fired = fires + 1 /\ row'.stable = stable /\ ~row'.delivered /\ row'.taken = {}
    BY <1>1, <1>2, SavedIs DEF IInv
<1>4. TypeOK'
    BY <1>1, <1>2, <1>3 DEF IInv, TypeOK, WatcherType, SenderType, HistoryType, sending
<1>5. Grows /\ Mail' /\ Counts' /\ Order' /\ BoxIsNews' /\ SlotIsNews'
    BY <1>1, <1>4, FiresMail DEF sending
<1>6. LivesOk'
    BY <1>1, <1>2, PollLives DEF sending
<1>7. WatchOk'
  <2>1. \A l \in Lines : told'[l] \subseteq 1..fires'
      BY <1>1, <1>2 DEF IInv, WatchOk
  <2> QED BY <1>1, <1>2, <1>3, <2>1 DEF IInv, WatchOk
<1>8. Resend' /\ Kept'
    BY <1>1, <1>2 DEF Resend, Kept
<1>9. StoreTruthful'
    BY <1>2, <1>3, <1>4, <1>5, StoreKeeps
<1> QED BY <1>4, <1>5, <1>6, <1>7, <1>8, <1>9 DEF IInv

LEMMA ForgetsOk == ASSUME IInv, Forgets PROVE IInv'
<1>1. /\ Reads /\ stable # "unset" /\ stable' = "unset" /\ poll' = "note"
      /\ row' = Saved(lastFired, "unset")
      /\ UNCHANGED <<type, run, lastFired, down, moved, resendTaken, sending, history>>
    BY DEF Forgets
<1>2. lastFired \in Times /\ "unset" \in Stables /\ resendTaken = {} /\ poll # "off"
      /\ row.fired = lastFired /\ fires \in Nat
    BY <1>1, PollKnows DEF Stables
<1>3. /\ row' \in [fired : Times, stable : Stables, delivered : BOOLEAN, taken : SUBSET Lines]
      /\ row'.fired = lastFired /\ row'.stable = "unset"
      /\ row'.delivered = row.delivered /\ row'.taken = row.taken
    BY <1>1, <1>2, SavedIs DEF IInv
<1>4. TypeOK'
    BY <1>1, <1>2, <1>3
       DEF IInv, TypeOK, WatcherType, SenderType, HistoryType, sending, history
<1>5. Mail' /\ Counts' /\ Order' /\ BoxIsNews' /\ SlotIsNews'
    BY <1>1, <1>4, SameMail DEF sending, history
<1>6. LivesOk'
    BY <1>1, <1>2, PollLives DEF sending
<1>7. WatchOk' /\ Grows
    BY <1>1, <1>2, <1>3 DEF IInv, WatchOk, Grows, history
<1>8. Resend' /\ Kept'
    BY <1>1, <1>2 DEF Resend, Kept
<1>9. StoreTruthful'
    BY <1>2, <1>3, <1>4, <1>7, StoreKeeps
<1> QED BY <1>4, <1>5, <1>6, <1>7, <1>8, <1>9 DEF IInv

LEMMA RaisesFireOk == ASSUME IInv, RaisesFire PROVE IInv'
<1> DEFINE a == [kind |-> "fired", fired |-> lastFired, skip |-> resendTaken]
<1>1. /\ poll = "raise" /\ poll' = "note" /\ Raised(a) /\ resendTaken' = {}
      /\ UNCHANGED <<type, run, stable, lastFired, down, moved, row, life, ctxDone, cond, wake,
                     slot, trying, visit, fires, downs, moves, again, root, told, early>>
    BY DEF RaisesFire
<1>2. lastFired = fires /\ fires > 0 /\ lastFired \in Times /\ resendTaken \in SUBSET Lines
      /\ fires \in Nat
    BY <1>1, RunsAre DEF IInv, WatchOk, TypeOK, WatcherType, HistoryType
<1>3. a \in Alert /\ a.fired = fires /\ AlertTrue(a)
  <2>1. a \in Alert /\ a.fired = fires /\ a.kind = "fired" /\ a.skip = resendTaken
      BY <1>2 DEF Alert
  <2>2. HaveHeard(resendTaken, fires)
      BY <1>1 DEF IInv, Resend, HaveHeard
  <2> QED BY <1>2, <2>1, <2>2 DEF AlertTrue
<1> HIDE DEF a
<1>4. TypeOK'
  <2>1. /\ box' \in [Runs -> Seq(Alert)] /\ \A r \in Runs : Len(box'[r]) <= OutboxSize
        /\ overflowed' \subseteq Times
      BY <1>1, <1>3, RaisedTypes
  <2> QED BY <1>1, <2>1 DEF IInv, TypeOK, WatcherType, SenderType, HistoryType
<1>5. Mail' /\ Counts' /\ Order' /\ BoxIsNews' /\ SlotIsNews'
    BY <1>1, <1>3, <1>4, RaiseMail
<1>6. /\ run \in Runs /\ \A r \in Runs : r # run => box'[r] = box[r]
      /\ \/ box' = box /\ overflowed' = overflowed \cup {a.fired}
         \/ /\ overflowed' = overflowed /\ Len(box'[run]) = Len(box[run]) + 1
            /\ box'[run][Len(box[run]) + 1] = a /\ Len(box[run]) \in Nat
    BY <1>1, <1>3, RaisedIs, RunTypes DEF IInv
<1>7. LivesOk'
    BY <1>1, <1>6, PollLives
<1>8. WatchOk' /\ Resend'
    BY <1>1 DEF IInv, WatchOk, Resend
<1>9. Kept'
  <2>1. lastFired' \in overflowed' \/ \E i \in 1..Len(box'[run]) : box'[run][i].fired = lastFired'
      BY <1>1, <1>2, <1>3, <1>6
  <2> QED BY <1>1, <2>1 DEF Kept, OnItsWay
<1>10. StoreTruthful'
    BY <1>1 DEF IInv, StoreTruthful, Heard
<1> QED BY <1>4, <1>5, <1>7, <1>8, <1>9, <1>10 DEF IInv

LEMMA noteConditionOk == ASSUME IInv, noteCondition PROVE IInv'
<1>1. /\ poll = "note" /\ poll' = "idle"
      /\ cond' = [cond EXCEPT ![run] = Noted(stable, down, moved)]
      /\ wake' = [wake EXCEPT ![run] = @ \/ cond'[run] # cond[run]]
      /\ resendTaken' = IF StillTheSame(stable) THEN resendTaken ELSE {}
      /\ UNCHANGED <<type, run, stable, lastFired, down, moved, row, life, ctxDone,
                     box, slot, trying, visit, history>>
    BY DEF noteCondition
<1>2. TypeOK'
  <2>1. Noted(stable, down, moved) \in Condition /\ fireHolds(stable) \in BOOLEAN
      BY DEF Noted, Condition, fireHolds, IInv, TypeOK, WatcherType
  <2>2. cond' \in [Runs -> Condition] /\ wake' \in [Runs -> BOOLEAN]
    <3> DEFINE c == Noted(stable, down, moved)
               b == wake[run] \/ cond'[run] # cond[run]
    <3>1. cond' = [cond EXCEPT ![run] = c] /\ wake' = [wake EXCEPT ![run] = b]
        BY <1>1
    <3>2. c \in Condition /\ b \in BOOLEAN
      <4>1. run \in Runs
          BY <1>1, RunsAre DEF IInv, LivesOk, Current, TypeOK, WatcherType
      <4> QED BY <2>1, <4>1 DEF IInv, TypeOK, SenderType
    <3> HIDE DEF c, b
    <3> QED BY <3>1, <3>2 DEF IInv, TypeOK, SenderType
  <2> QED BY <1>1, <2>2 DEF IInv, TypeOK, WatcherType, SenderType, HistoryType, history
<1>3. Mail' /\ Counts' /\ Order' /\ BoxIsNews' /\ SlotIsNews'
    BY <1>1, <1>2, SameMail DEF history
<1>4. LivesOk'
    BY <1>1, PollLives
<1>5. WatchOk'
    BY <1>1 DEF IInv, WatchOk, history
<1>6. Resend'
    BY <1>1 DEF IInv, Resend, HaveHeard, Heard, StillTheSame, history
<1>7. Kept'
    BY <1>1 DEF IInv, Kept, OnItsWay, HaveHeard, Heard, FireOf, history
<1>8. StoreTruthful'
    BY <1>1 DEF IInv, StoreTruthful, Heard, history
<1> QED BY <1>2, <1>3, <1>4, <1>5, <1>6, <1>7, <1>8 DEF IInv

LEMMA RunReturnsOk == ASSUME IInv, RunReturns PROVE IInv'
<1>1. /\ poll = "idle" /\ ctxDone[run] /\ poll' = "off"
      /\ UNCHANGED <<type, run, stable, lastFired, down, moved, resendTaken, row, sending,
                     history>>
    BY DEF RunReturns
<1>2. TypeOK'
    BY <1>1 DEF IInv, TypeOK, WatcherType, SenderType, HistoryType, sending, history
<1>3. Mail' /\ Counts' /\ Order' /\ BoxIsNews' /\ SlotIsNews'
    BY <1>1, <1>2, SameMail DEF sending, history
<1>4. LivesOk'
  <2>1. ASSUME NEW r \in Runs PROVE LifeOk(r)'
    <3>1. RunOver(r)' => RunOver(r) \/ r = run \/ r > run
        BY <1>1, RunsAre DEF RunOver, IInv, TypeOK, WatcherType
    <3> QED BY <1>1, <3>1 DEF IInv, LivesOk, LifeOk, sending
  <2> QED BY <1>1, <2>1 DEF LivesOk, Current
<1>5. WatchOk' /\ Resend' /\ Kept'
    BY <1>1 DEF IInv, WatchOk, Resend, Kept, history
<1>6. StoreTruthful'
    BY <1>1 DEF IInv, StoreTruthful, Heard, history
<1> QED BY <1>2, <1>3, <1>4, <1>5, <1>6 DEF IInv

LEMMA StopOk == ASSUME IInv, Stop PROVE IInv'
<1>1. /\ poll # "off" /\ ctxDone' = [ctxDone EXCEPT ![run] = TRUE]
      /\ UNCHANGED <<watcher, row, life, box, cond, wake, slot, trying, visit, history>>
    BY DEF Stop
<1>2. TypeOK'
    BY <1>1 DEF IInv, TypeOK, WatcherType, SenderType, HistoryType, watcher, history
<1>3. Mail' /\ Counts' /\ Order' /\ BoxIsNews' /\ SlotIsNews'
    BY <1>1, <1>2, SameMail DEF watcher, history
<1>4. \A r \in Runs : ctxDone[r] => ctxDone'[r]
    BY <1>1 DEF IInv, TypeOK, SenderType
<1>5. LivesOk'
  <2>1. ASSUME NEW r \in Runs PROVE LifeOk(r)'
      BY <1>1, <1>4, <2>1 DEF IInv, LivesOk, LifeOk, RunOver, watcher
  <2> QED BY <1>1, <2>1 DEF IInv, LivesOk, Current, watcher
<1>6. WatchOk' /\ Resend'
    BY <1>1 DEF IInv, WatchOk, Resend, HaveHeard, Heard, watcher, history
<1>7. Kept'
  <2>1. run \in Runs
      BY <1>1, RunsAre DEF IInv, LivesOk, Current, TypeOK, WatcherType
  <2>2. ctxDone'[run]
      BY <1>1, <2>1 DEF IInv, TypeOK, SenderType
  <2> QED BY <1>1, <2>2 DEF Kept, watcher
<1>8. StoreTruthful'
    BY <1>1 DEF IInv, StoreTruthful, Heard, history
<1> QED BY <1>2, <1>3, <1>5, <1>6, <1>7, <1>8 DEF IInv

-----------------------------------------------------------------------------
(* The process and the supervisor. *)

LEMMA EmptyTrue == ASSUME TypeOK PROVE SlotTrue(EmptySlot) /\ AlertTrue(NoAlert)
<1>1. 0 <= fires
    BY RunsAre DEF TypeOK, HistoryType
<1> QED BY <1>1 DEF SlotTrue, AlertTrue, EmptySlot, NoAlert

LEMMA CrashOk == ASSUME IInv, Crash PROVE IInv'
<1>1. /\ run > 0 /\ poll' = "off"
      /\ life' = [r \in Runs |-> IF life[r] = "none" THEN "none" ELSE "gone"]
      /\ box' = [r \in Runs |-> <<>>] /\ slot' = [r \in Runs |-> EmptySlots]
      /\ trying' = [r \in Runs |-> Idle] /\ visit' = [r \in Runs |-> {}]
      /\ wake' = [r \in Runs |-> FALSE]
      /\ UNCHANGED <<type, run, stable, lastFired, down, moved, resendTaken, row,
                     ctxDone, cond, history>>
    BY DEF Crash, EmptySlots
<1>2. \A r \in Runs : /\ box'[r] = <<>> /\ slot'[r] = EmptySlots /\ trying'[r] = Idle
                      /\ visit'[r] = {} /\ life'[r] \in {"none", "gone"}
                      /\ (life[r] = "none" => life'[r] = "none") /\ FireOf(r)' = 0
                      /\ \A s \in SlotNames : slot'[r][s] = EmptySlot
    BY <1>1, EmptyIs DEF EmptySlots, FireOf, SlotNames
<1>3. TypeOK'
  <2>1. SenderType'
    <3>1. box' \in [Runs -> Seq(Alert)] /\ \A r \in Runs : Len(box'[r]) <= OutboxSize
      <4>1. << >> \in Seq(Alert) /\ Len(<< >>) = 0
          OBVIOUS
      <4>2. OutboxSize \in Nat /\ 0 <= OutboxSize
          BY AlertsAssumption
      <4>3. \A r \in Runs : box'[r] = << >>
          BY <1>2
      <4> QED BY <1>1, <4>1, <4>2, <4>3
    <3>2. life' \in [Runs -> {"none", "loop", "drain", "gone"}] /\ wake' \in [Runs -> BOOLEAN]
          /\ visit' \in [Runs -> SUBSET SlotNames]
          /\ slot' \in [Runs -> [SlotNames -> SlotType]] /\ trying' \in [Runs -> Attempt]
        BY <1>1, EmptyIs
    <3> QED BY <1>1, <3>1, <3>2 DEF IInv, TypeOK, SenderType, Attempt
  <2> QED BY <1>1, <2>1 DEF IInv, TypeOK, WatcherType, HistoryType, history
<1>4. LivesOk'
  <2>1. \A r \in Runs : LifeOk(r)'
      BY <1>1, <1>2 DEF IInv, LivesOk, LifeOk
  <2> QED BY <1>1, <2>1 DEF LivesOk, Current
<1>5. Mail'
  <2>1. SlotTrue(EmptySlot)'
      BY <1>3, EmptyTrue, PTL
  <2> SUFFICES ASSUME NEW r \in Runs PROVE MailOk(r)'
      BY DEF Mail
  <2>2. ASSUME NEW s \in SlotNames, NEW sl, sl = slot'[r][s] PROVE SlotTrue(sl)'
      BY <1>2, <2>1, <2>2
  <2> QED BY <1>2, <2>2, EmptyIs DEF MailOk, SlotTrue, AttemptTrue, AlertTrue
<1>6. Counts'
    BY <1>2, EmptyIs DEF Counts, CountsOk, SlotOk, AttemptOk, SlotNames, Idle
<1>7. Order' /\ BoxIsNews' /\ SlotIsNews'
  <2>1. run' > 0 /\ run' \in Runs
      BY <1>1, RunsAre DEF IInv, TypeOK, WatcherType
  <2> QED BY <1>1, <1>2, <2>1 DEF Order, InOrder, RunsInOrder, BoxIsNews, SlotIsNews
<1>8. WatchOk' /\ Resend' /\ Kept'
    BY <1>1 DEF IInv, WatchOk, Resend, Kept, history
<1>9. StoreTruthful'
    BY <1>1 DEF IInv, StoreTruthful, Heard, history
<1> QED BY <1>3, <1>4, <1>5, <1>6, <1>7, <1>8, <1>9 DEF IInv

LEMMA StartOk == ASSUME IInv, NEW same \in BOOLEAN, NEW recent \in BOOLEAN, Start(same, recent)
                 PROVE  IInv'
<1>0. PICK q \in Runs : q = run + 1
  <2>1. run \in Nat /\ run < MaxRuns
      BY RunsAre DEF IInv, TypeOK, WatcherType, Start
  <2> QED BY <2>1, RunsAre
<1> DEFINE st == IF same /\ recent /\ CarriesOn THEN row.stable ELSE "unset"
           lf == IF same /\ CarriesOn THEN row.fired ELSE 0
           rt == IF same /\ Unsent /\ row.stable = "met" THEN row.taken ELSE {}
           ag == same /\ (again \/ (Unsent /\ row.stable = "met"))
<1>1. /\ poll = "off" /\ run < MaxRuns /\ run' = q /\ poll' = "idle"
      /\ stable' = st /\ lastFired' = lf /\ resendTaken' = rt /\ moved' = FALSE
      /\ life' = [life EXCEPT ![q] = "loop"]
      /\ wake' = [wake EXCEPT ![q] = cond'[q] # cond[q]]
      /\ UNCHANGED <<type, down, ctxDone, box, slot, trying, visit,
                     fires, downs, moves, root, told, overflowed, early>>
    BY <1>0 DEF Start
<1>2. cond' = [cond EXCEPT ![q] = Noted(st, down, FALSE)]
  <2>1. cond' = [cond EXCEPT ![q] = Noted(stable', down, FALSE)]
      BY <1>0 DEF Start
  <2> QED BY <1>1, <2>1
<1>3. row' = Saved(lf, st)
  <2>1. row' = Saved(lastFired', stable')
      BY DEF Start
  <2> QED BY <1>1, <2>1
<1>4. again' = ag
    BY DEF Start
<1>5. /\ row.fired \in {0, fires} /\ row.fired \in Times /\ row.stable \in Stables
      /\ row.taken \in SUBSET Lines /\ row.delivered \in BOOLEAN /\ fires \in Nat
      /\ (row.stable = "met" => row.fired # 0) /\ row.stable \in Keys(type) \cup {"unset"}
      /\ (row.stable = "met" => type = "match") /\ (again => fires > 0)
  <2>1. type \in TriggerTypes
      BY AlertsAssumption DEF IInv, TypeOK, WatcherType
  <2>2. \A t \in TriggerTypes : "met" \in Keys(t) => t = "match"
      BY DEF Keys, TriggerTypes
  <2>3. /\ row.fired \in Times /\ row.stable \in Stables /\ row.taken \in SUBSET Lines
        /\ row.delivered \in BOOLEAN /\ fires \in Nat
      BY RunsAre DEF IInv, TypeOK, HistoryType
  <2>4. /\ row.fired \in {0, fires} /\ (row.stable = "met" => row.fired # 0)
        /\ row.stable \in Keys(type) \cup {"unset"} /\ (again => fires > 0)
      BY DEF IInv, WatchOk
  <2> QED BY <2>1, <2>2, <2>3, <2>4
<1>6. /\ st \in Stables /\ st \in Keys(type) \cup {"unset"} /\ lf \in Times /\ lf \in {0, row.fired}
      /\ rt \in SUBSET Lines
      /\ (ag => fires > 0) /\ ag \in BOOLEAN
      /\ (st = "met" => /\ row.stable = "met" /\ lf = row.fired /\ row.delivered
                        /\ row.fired # 0)
      /\ (rt # {} => /\ st = "unset" /\ ag /\ row.fired # 0 /\ row.stable = "met"
                     /\ rt = row.taken)
  <2>1. st \in Stables /\ st \in Keys(type) \cup {"unset"}
      BY <1>5 DEF Stables
  <2>2. lf \in Times /\ lf \in {0, row.fired} /\ rt \in SUBSET Lines
      BY <1>5, RunsAre
  <2>3. ag \in BOOLEAN
      BY <1>5
  <2>4. ag => fires > 0
    <3>1. row.stable = "met" => fires > 0
        BY <1>5
    <3> QED BY <1>5, <3>1
  <2>5. st = "met" => row.stable = "met" /\ lf = row.fired /\ row.delivered /\ row.fired # 0
      BY <1>5 DEF Unsent, CarriesOn
  <2>6. rt # {} => /\ st = "unset" /\ ag /\ row.fired # 0 /\ row.stable = "met"
                   /\ rt = row.taken
      BY <1>5 DEF Unsent, CarriesOn
  <2> QED BY <2>1, <2>2, <2>3, <2>4, <2>5, <2>6
<1>7. q \in Nat /\ run \in Nat
    BY RunsAre DEF IInv, TypeOK, WatcherType
<1> HIDE DEF st, lf, rt, ag
<1>8. /\ row' \in [fired : Times, stable : Stables, delivered : BOOLEAN, taken : SUBSET Lines]
      /\ row'.fired = lf /\ row'.stable = st
      /\ IF lf = row.fired THEN row'.delivered = row.delivered /\ row'.taken = row.taken
         ELSE ~row'.delivered /\ row'.taken = {}
    BY <1>3, <1>6, SavedIs DEF IInv
<1>9. TypeOK'
  <2>1. Noted(st, down, FALSE) \in Condition
    <3>1. fireHolds(st) \in BOOLEAN /\ down \in BOOLEAN
        BY DEF fireHolds, IInv, TypeOK, WatcherType
    <3> QED BY <3>1 DEF Noted, Condition
  <2>2. cond' \in [Runs -> Condition] /\ life' \in [Runs -> {"none", "loop", "drain", "gone"}]
      BY <1>1, <1>2, <1>7, <2>1 DEF IInv, TypeOK, SenderType
  <2>3. run' \in 0..MaxRuns
      BY <1>1, <1>7, RunsAre
  <2>4. wake' \in [Runs -> BOOLEAN]
    <3>1. wake \in [Runs -> BOOLEAN] /\ (cond'[q] # cond[q]) \in BOOLEAN
        BY DEF IInv, TypeOK, SenderType
    <3> QED BY <1>1, <3>1
  <2> QED BY <1>1, <1>4, <1>6, <1>8, <2>2, <2>3, <2>4
         DEF IInv, TypeOK, WatcherType, SenderType, HistoryType
<1>10. /\ box[q] = <<>> /\ slot[q] = EmptySlots /\ trying[q] = Idle /\ visit[q] = {}
       /\ life'[q] = "loop" /\ \A r \in Runs : r # q => life'[r] = life[r]
       /\ FireOf(q) = 0 /\ \A s \in SlotNames : slot[q][s] = EmptySlot
  <2>1. q > run
      BY <1>0, <1>7
  <2>2. box[q] = <<>> /\ slot[q] = EmptySlots /\ trying[q] = Idle /\ visit[q] = {}
      BY <1>7, <2>1 DEF IInv, LivesOk, LifeOk
  <2> QED BY <1>1, <1>7, <2>2, EmptyIs
         DEF IInv, TypeOK, SenderType, FireOf, EmptySlots, SlotNames
<1>11. LivesOk'
  <2>1. Current'
      BY <1>1, <1>7, <1>10, RunsAre DEF Current
  <2>2. ASSUME NEW r \in Runs, r # q PROVE LifeOk(r)'
    <3>1. RunOver(r)' => RunOver(r) \/ r > run
        BY <1>1, <1>7, <1>0, RunsAre DEF RunOver
    <3>2. r > run' => r > run
        BY <1>0, <1>1, <1>7, RunsAre
    <3> QED BY <1>1, <1>10, <2>2, <3>1, <3>2 DEF IInv, LivesOk, LifeOk
  <2>3. LifeOk(q)'
    <3>1. ~RunOver(q)' /\ ~(q > run')
        BY <1>1, <1>7 DEF RunOver
    <3> QED BY <1>10, <3>1 DEF LifeOk
  <2> QED BY <2>1, <2>2, <2>3 DEF LivesOk
<1>12. Grows
    BY <1>1, <1>5 DEF Grows
<1>13. Mail'
  <2> SUFFICES ASSUME NEW r \in Runs PROVE MailOk(r)'
      BY DEF Mail
  <2>1. \A i \in 1..Len(box'[r]) : \E a \in Alert : a = box'[r][i] /\ AlertTrue(a)
      BY <1>1, RunTypes DEF IInv, Mail, MailOk
  <2> QED BY <1>1, <1>9, <1>12, <2>1, MailKeeps DEF IInv, Mail
<1>14. Counts'
  <2>1. ASSUME NEW r \in Runs, r # q PROVE CountsOk(r)'
      BY <1>1, <1>10, <2>1 DEF IInv, Counts, CountsOk
  <2>2. CountsOk(q)'
      BY <1>1, <1>10, EmptyIs DEF CountsOk, SlotOk, AttemptOk, SlotNames, Idle
  <2> QED BY <2>1, <2>2 DEF Counts
<1>15. Order'
    BY <1>1 DEF IInv, Order, InOrder, RunsInOrder, Before, FireOf
<1>16. BoxIsNews' /\ SlotIsNews'
    BY <1>1, <1>10 DEF BoxIsNews, SlotIsNews, FireOf
<1>17. WatchOk'
  <2>1. \A l \in Lines : told'[l] \subseteq 1..fires'
      BY <1>1 DEF IInv, WatchOk
  <2> QED BY <1>1, <1>4, <1>5, <1>6, <1>8, <2>1 DEF WatchOk
<1>18. Resend'
  <2> SUFFICES ASSUME rt # {}, NEW l \in rt PROVE Heard(l, fires)
      BY <1>1, <1>4, <1>5, <1>6 DEF Resend, HaveHeard, Heard
  <2>1. row.fired = fires /\ row.fired # 0 /\ l \in row.taken /\ l \in Lines
      BY <1>5, <1>6
  <2> QED BY <2>1 DEF IInv, StoreTruthful, Heard
<1>19. Kept'
  <2> SUFFICES ASSUME st = "met" PROVE HaveHeard(Lines, lf)
      BY <1>1 DEF Kept, OnItsWay, HaveHeard, Heard
  <2>1. lf = row.fired /\ row.delivered /\ row.fired # 0
      BY <1>6
  <2> QED BY <2>1 DEF IInv, StoreTruthful, HaveHeard, Heard
<1>20. StoreTruthful'
    BY <1>6, <1>8, <1>9, <1>12, StoreKeeps
<1> QED BY <1>9, <1>11, <1>13, <1>14, <1>15, <1>16, <1>17, <1>18, <1>19, <1>20 DEF IInv

-----------------------------------------------------------------------------
(* The sender. *)

\* A step of run r's sender that takes nothing from the outbox and tells no one.
LEMMA SenderKeeps ==
    ASSUME IInv, TypeOK', NEW r \in Runs,
           UNCHANGED <<watcher, ctxDone, box, fires, again, root, told, overflowed>>,
           row'.fired = row.fired, row'.stable = row.stable, StoreTruthful',
           \A q \in Runs : q # r => /\ slot'[q] = slot[q] /\ trying'[q] = trying[q]
                                    /\ life'[q] = life[q] /\ visit'[q] = visit[q],
           MailOk(r)', CountsOk(r)', LifeOk(r)',
           life'[r] \in {"loop", "drain"} \/ RunOver(r),
           FireOf(r)' = FireOf(r) \/ (FireOf(r)' = 0 /\ RunOver(r)),
           \A l \in Lines : MayAsk(l, slot'[r]["fire"], trying'[r])
                               => MayAsk(l, slot[r]["fire"], trying[r])
    PROVE  IInv'
<1>1. /\ UNCHANGED <<type, run, poll, stable, lastFired, down, moved, resendTaken>>
      /\ Grows /\ fires \in Nat
    BY RunsAre DEF watcher, Grows, IInv, TypeOK, HistoryType
<1>2. LivesOk'
  <2>1. Current'
    <3>1. CASE run = r
        BY <1>1, <3>1, RunsAre DEF IInv, LivesOk, Current, RunOver, TypeOK, WatcherType
    <3>2. CASE run # r
      <4>1. poll # "off" => run \in Runs
          BY RunsAre DEF IInv, LivesOk, Current, TypeOK, WatcherType
      <4> QED BY <1>1, <3>2, <4>1 DEF IInv, LivesOk, Current
    <3> QED BY <3>1, <3>2
  <2>2. ASSUME NEW q \in Runs, q # r PROVE LifeOk(q)'
      BY <1>1, <2>2 DEF IInv, LivesOk, LifeOk, RunOver
  <2> QED BY <2>1, <2>2 DEF LivesOk
<1>3. WatchOk' /\ Resend'
    BY <1>1 DEF IInv, WatchOk, Resend, HaveHeard, Heard
<1>4. Mail'
  <2>1. ASSUME NEW q \in Runs, q # r PROVE MailOk(q)'
    <3>1. \A i \in 1..Len(box'[q]) : \E a \in Alert : a = box'[q][i] /\ AlertTrue(a)
        BY RunTypes DEF IInv, Mail, MailOk
    <3> QED BY <1>1, <2>1, <3>1, MailKeeps DEF IInv, Mail
  <2> QED BY <2>1 DEF Mail
<1>5. Counts'
    BY DEF IInv, Counts, CountsOk
<1>6. Order'
  <2>1. \A q \in Runs : FireOf(q) \in Nat /\ FireOf(q)' \in {FireOf(q), 0}
    <3>1. \A q \in Runs : q # r => FireOf(q)' = FireOf(q)
        BY DEF FireOf
    <3> QED BY <3>1, RunTypes DEF IInv
  <2>2. \A q \in Runs : \A i \in 1..Len(box[q]) : box[q][i].fired \in Nat
      BY RunTypes DEF IInv
  <2>3. ASSUME NEW q \in Runs, NEW f \in Nat, f # 0, Before(q, f)
        PROVE  FireOf(q)' < f /\ \A i \in 1..Len(box[q]) : box[q][i].fired < f
      BY <2>1, <2>3 DEF Before
  <2>4. ASSUME NEW q \in Runs PROVE InOrder(q)'
      BY <2>1, <2>2 DEF IInv, Order, InOrder
  <2>5. ASSUME NEW p \in Runs, NEW q \in Runs, p < q PROVE RunsInOrder(p, q)'
    <3>1. RunsInOrder(p, q)
        BY <2>5 DEF IInv, Order
    <3>2. ASSUME FireOf(q)' # 0 PROVE FireOf(q)' = FireOf(q) /\ Before(p, FireOf(q))
        BY <2>1, <3>1, <3>2 DEF RunsInOrder
    <3>3. FireOf(q)' # 0 => Before(p, FireOf(q))'
        BY <2>1, <2>3, <3>2 DEF Before
    <3>4. \A i \in 1..Len(box[q]) : box[q][i].fired # 0 =>
             FireOf(p)' < box[q][i].fired /\ \A j \in 1..Len(box[p]) : box[p][j].fired < box[q][i].fired
        BY <2>2, <2>3, <3>1 DEF RunsInOrder
    <3> QED BY <3>3, <3>4 DEF RunsInOrder, Before
  <2>6. poll = "raise" => /\ \A q \in Runs : Before(q, fires)'
                          /\ \A l \in Lines : fires \notin told[l]
    <3> SUFFICES ASSUME poll = "raise" PROVE /\ \A q \in Runs : Before(q, fires)'
                                             /\ \A l \in Lines : fires \notin told[l]
        OBVIOUS
    <3>1. fires # 0
        BY DEF IInv, WatchOk
    <3> QED BY <1>1, <2>3, <3>1 DEF IInv, Order, Before
  <2> QED BY <1>1, <2>4, <2>5, <2>6 DEF Order
<1>7. BoxIsNews'
    BY <1>1 DEF IInv, BoxIsNews, NotTold
<1>8. SlotIsNews'
  <2>1. CASE run = r
      BY <1>1, <2>1, RunTypes DEF IInv, SlotIsNews, NotTold
  <2>2. CASE run # r
    <3>1. run > 0 => run \in Runs
        BY RunsAre DEF IInv, TypeOK, WatcherType
    <3> QED BY <1>1, <2>2, <3>1 DEF IInv, SlotIsNews, NotTold, FireOf
  <2> QED BY <2>1, <2>2
<1>9. Kept'
  <2> SUFFICES ASSUME poll \notin {"off", "raise"}, type = "match", stable = "met", ~ctxDone[run]
               PROVE  OnItsWay'
      BY <1>1 DEF Kept
  <2>1. OnItsWay /\ run \in Runs
      BY RunsAre DEF IInv, Kept, LivesOk, Current, TypeOK, WatcherType
  <2>2. FireOf(run)' = FireOf(run)
    <3>1. run \in Nat /\ run' = run
        BY <1>1, <2>1, RunsAre
    <3>2. run = r => ~RunOver(r)
        BY <2>1, <3>1 DEF RunOver
    <3> QED BY <3>1, <3>2, <2>1 DEF FireOf
  <2> QED BY <1>1, <2>1, <2>2 DEF OnItsWay, HaveHeard, Heard
<1> QED BY <1>2, <1>3, <1>4, <1>5, <1>6, <1>7, <1>8, <1>9 DEF IInv

\* What was told stays as it is: a slot says what it said before.
LEMMA SlotsSay ==
    ASSUME IInv, NEW r \in Runs, UNCHANGED <<fires, root, told>>, box'[r] = box[r],
           \A s \in SlotNames :
              /\ \/ slot'[r][s] = EmptySlot
                 \/ /\ slot'[r][s].cur = slot[r][s].cur
                    /\ \A l \in slot'[r][s].taken :
                          \/ l \in slot[r][s].taken
                          \/ trying[r].slot = s /\ l \in trying[r].ok
              /\ trying'[r].slot = s => trying'[r].ok = {}
    PROVE  MailOk(r)'
<1>1. \A s \in SlotNames :
         /\ AlertTrue(slot[r][s].cur)
         /\ slot[r][s].cur.fired # 0 =>
               /\ \A l \in slot[r][s].taken : Heard(l, slot[r][s].cur.fired)
               /\ trying[r].slot = s =>
                     \A l \in trying[r].ok : Heard(l, slot[r][s].cur.fired)
    BY DEF IInv, Mail, MailOk, SlotTrue, AttemptTrue, HaveHeard
<1>2. SlotTrue(EmptySlot)
    BY EmptyTrue DEF IInv
<1>3. ASSUME NEW s \in SlotNames, NEW sl, sl = slot'[r][s] PROVE SlotTrue(sl)
    BY <1>1, <1>2, <1>3 DEF SlotTrue, HaveHeard
<1>4. ASSUME NEW s \in SlotNames, trying'[r].slot = s PROVE trying'[r].ok = {}
    BY <1>4
<1>5. \A i \in 1..Len(box[r]) : AlertTrue(box[r][i])
    BY DEF IInv, Mail, MailOk
<1>6. \A S, f : HaveHeard(S, f)' <=> HaveHeard(S, f)
    BY DEF HaveHeard, Heard
<1>7. \A a : AlertTrue(a)' <=> AlertTrue(a)
    BY <1>6 DEF AlertTrue
<1>8. \A sl : SlotTrue(sl)' <=> SlotTrue(sl)
    BY <1>6, <1>7 DEF SlotTrue
<1>9. ASSUME NEW s \in SlotNames, NEW sl, sl = slot'[r][s] PROVE SlotTrue(sl)'
    BY <1>3, <1>8, <1>9
<1>10. ASSUME NEW i \in 1..Len(box'[r]), NEW a, a = box'[r][i] PROVE AlertTrue(a)'
    BY <1>5, <1>7, <1>10
<1> QED BY <1>4, <1>9, <1>10 DEF MailOk, SlotTrue, AttemptTrue, AlertTrue, HaveHeard

LEMMA StoreSame ==
    ASSUME IInv, UNCHANGED <<fires, root, told, row>> PROVE StoreTruthful'
BY DEF IInv, StoreTruthful, Heard

LEMMA WaitingIs ==
    ASSUME IInv, NEW r \in Runs, trying[r] = Idle, NEW s \in SlotNames
    PROVE  /\ slot[r][s] \in SlotType /\ trying[r].slot # s
           /\ \/ slot[r][s] = EmptySlot
              \/ /\ slot[r][s].cur # NoAlert /\ slotFor(slot[r][s].cur.kind) = s
                 /\ (slot[r][s].owed # {} => slot[r][s].dropped = {})
                 /\ (life[r] = "loop" => Lines \subseteq Known(slot[r][s]))
<1>1. slot[r][s] \in SlotType /\ trying[r].slot # s
    BY RunTypes, EmptyIs DEF IInv, SlotNames
<1>2. SlotOk(s, slot[r][s], trying[r], life[r] = "loop")
    BY DEF IInv, Counts, CountsOk
<1> QED BY <1>1, <1>2 DEF SlotOk

\* prune changes who is owed and let off, and nothing else.
LEMMA PrunedIs ==
    ASSUME IInv, NEW r \in Runs, trying[r] = Idle, NEW s \in SlotNames
    PROVE  LET new == Pruned(r)[s]
               old == slot[r][s]
           IN  /\ new \in SlotType /\ new.cur = old.cur /\ new.taken = old.taken
               /\ new.failed = old.failed /\ new.owed \subseteq old.owed
               /\ new = old \/ /\ old.owed # {} /\ new.owed = {} /\ new.dropped = old.owed
                               /\ ~condHolds(r, old.cur.kind)
               /\ SlotOk(s, new, Idle, life[r] = "loop")
<1> DEFINE old == slot[r][s]
           new == [old EXCEPT !.dropped = old.owed, !.owed = {}]
<1>1. old \in SlotType
    BY WaitingIs
<1>2. /\ new \in SlotType /\ new.cur = old.cur /\ new.taken = old.taken
      /\ new.failed = old.failed /\ new.owed = {} /\ new.dropped = old.owed
    BY <1>1 DEF SlotType
<1>3. SlotOk(s, old, Idle, life[r] = "loop")
    BY DEF IInv, Counts, CountsOk
<1>4. Pruned(r)[s] = IF retrying(r, s) /\ ~condHolds(r, old.cur.kind) THEN new ELSE old
    BY DEF Pruned
<1>5. CASE retrying(r, s) /\ ~condHolds(r, old.cur.kind)
  <2>1. Pruned(r)[s] = new /\ old.owed # {}
      BY <1>4, <1>5 DEF retrying
  <2>2. /\ old.cur # NoAlert /\ slotFor(old.cur.kind) = s /\ old.dropped = {}
        /\ (life[r] = "loop" => Lines \subseteq Known(old))
      BY <2>1, WaitingIs, EmptyIs
  <2> HIDE DEF new, old
  <2>3. SlotOk(s, new, Idle, life[r] = "loop")
      BY <1>2, <2>2, EmptyIs DEF SlotOk, Known, SlotNames
  <2> QED BY <1>2, <1>5, <2>1, <2>3 DEF old
<1>6. CASE ~(retrying(r, s) /\ ~condHolds(r, old.cur.kind))
    BY <1>1, <1>3, <1>4, <1>6
<1> QED BY <1>5, <1>6

LEMMA PruneTypes ==
    ASSUME IInv, NEW r \in Runs, Prunes(r) PROVE early \subseteq early' /\ early' \subseteq Lines
<1>1. early \subseteq Lines /\ slot[r]["fire"].owed \subseteq Lines
    BY DEF IInv, TypeOK, SenderType, HistoryType, SlotNames, SlotType
<1> QED BY <1>1 DEF Prunes

LEMMA WakesOk == ASSUME IInv, NEW r \in Runs, Wakes(r) PROVE IInv'
<1>1. /\ life[r] = "loop" /\ trying[r] = Idle /\ visit[r] = {}
      /\ wake' = [wake EXCEPT ![r] = FALSE] /\ slot' = [slot EXCEPT ![r] = Pruned(r)]
      /\ UNCHANGED <<watcher, row, life, ctxDone, box, cond, trying, visit>>
      /\ UNCHANGED <<fires, downs, moves, again, root, told, overflowed>>
    BY DEF Wakes, Waiting, Prunes
<1>2. Pruned(r) \in [SlotNames -> SlotType]
    BY <1>1, PrunedIs DEF Pruned
<1>3. slot'[r] = Pruned(r) /\ \A q \in Runs : q # r => slot'[q] = slot[q]
    BY <1>1 DEF IInv, TypeOK, SenderType
<1>4. TypeOK'
  <2>1. early' \subseteq Lines
      BY PruneTypes DEF Wakes
  <2> QED BY <1>1, <1>2, <2>1 DEF IInv, TypeOK, WatcherType, SenderType, HistoryType, watcher
<1>5. UNCHANGED <<fires, again, root, told, overflowed>> /\ run' = run /\ poll' = poll
    BY <1>1 DEF watcher
<1>6. MailOk(r)'
  <2>1. \A s \in SlotNames : slot'[r][s].cur = slot[r][s].cur /\ slot'[r][s].taken = slot[r][s].taken
      BY <1>1, <1>3, PrunedIs
  <2> QED BY <1>1, <1>5, <2>1, EmptyIs, SlotsSay DEF SlotNames
<1>7. CountsOk(r)'
  <2>1. \A s \in SlotNames : SlotOk(s, slot'[r][s], Idle, life[r] = "loop")
      BY <1>1, <1>3, PrunedIs
  <2>2. AttemptOk(trying[r])
      BY DEF IInv, Counts, CountsOk
  <2> QED BY <1>1, <2>1, <2>2 DEF CountsOk
<1>8. LifeOk(r)'
    BY <1>1, <1>5 DEF IInv, LivesOk, LifeOk, RunOver
<1>9. FireOf(r)' = FireOf(r) /\ slot'[r]["fire"].owed \subseteq slot[r]["fire"].owed
    BY <1>1, <1>3, PrunedIs DEF FireOf, SlotNames
<1>10. \A l \in Lines : MayAsk(l, slot'[r]["fire"], trying'[r])
                           => MayAsk(l, slot[r]["fire"], trying[r])
    BY <1>1, <1>9 DEF MayAsk
<1>11. StoreTruthful'
    BY <1>1, <1>5, StoreSame
<1> QED BY <1>1, <1>3, <1>4, <1>5, <1>6, <1>7, <1>8, <1>9, <1>10, <1>11, SenderKeeps

LEMMA DueOk == ASSUME IInv, NEW r \in Runs, Due(r) PROVE IInv'
<1>1. /\ life[r] = "loop" /\ trying[r] = Idle
      /\ visit' = [visit EXCEPT ![r] = {s \in SlotNames : retrying(r, s)}]
      /\ UNCHANGED <<watcher, row, life, ctxDone, box, cond, wake, slot, trying, history>>
    BY DEF Due, Waiting
<1>2. TypeOK'
    BY <1>1 DEF IInv, TypeOK, WatcherType, SenderType, HistoryType, watcher, history
<1>3. UNCHANGED <<fires, again, root, told, overflowed>> /\ run' = run /\ poll' = poll
    BY <1>1 DEF history, watcher
<1>4. MailOk(r)'
    BY <1>1, <1>3, EmptyIs, SlotsSay DEF SlotNames
<1>5. CountsOk(r)'
    BY <1>1 DEF IInv, Counts, CountsOk
<1>6. LifeOk(r)'
    BY <1>1, <1>3 DEF IInv, LivesOk, LifeOk, RunOver
<1>7. \A q \in Runs : q # r => visit'[q] = visit[q]
    BY <1>1 DEF IInv, TypeOK, SenderType
<1>8. StoreTruthful'
    BY <1>1, <1>3, StoreSame
<1>9. FireOf(r)' = FireOf(r)
    BY <1>1 DEF FireOf
<1> QED BY <1>1, <1>2, <1>3, <1>4, <1>5, <1>6, <1>7, <1>8, <1>9, SenderKeeps

LEMMA StopsTryingOk == ASSUME IInv, NEW r \in Runs, StopsTrying(r) PROVE IInv'
<1>1. /\ life[r] = "loop" /\ trying[r] = Idle /\ ctxDone[r]
      /\ life' = [life EXCEPT ![r] = "drain"] /\ slot' = [slot EXCEPT ![r] = LetGo(r)]
      /\ UNCHANGED <<watcher, row, ctxDone, box, cond, wake, trying, visit, history>>
    BY DEF StopsTrying, Waiting
<1> DEFINE new(s) == [slot[r][s] EXCEPT !.owed = {}]
<1>2. \A s \in SlotNames : /\ new(s) \in SlotType /\ new(s).cur = slot[r][s].cur
                           /\ new(s).taken = slot[r][s].taken /\ new(s).owed = {}
    BY <1>1, WaitingIs DEF SlotType
<1>3. \A s \in SlotNames : slot[r][s] = EmptySlot => new(s) = EmptySlot
    BY DEF EmptySlot
<1>4. LetGo(r) = [s \in SlotNames |-> new(s)]
    BY DEF LetGo
<1> HIDE DEF new
<1>5. /\ LetGo(r) \in [SlotNames -> SlotType]
      /\ \A s \in SlotNames : LetGo(r)[s] = new(s)
    BY <1>2, <1>4
<1>6. /\ slot'[r] = LetGo(r) /\ life'[r] = "drain"
      /\ \A q \in Runs : q # r => slot'[q] = slot[q] /\ life'[q] = life[q]
    BY <1>1 DEF IInv, TypeOK, SenderType
<1>7. TypeOK'
    BY <1>1, <1>5 DEF IInv, TypeOK, WatcherType, SenderType, HistoryType, watcher, history
<1>8. UNCHANGED <<fires, again, root, told, overflowed>> /\ run' = run /\ poll' = poll
    BY <1>1 DEF history, watcher
<1>9. MailOk(r)'
  <2>1. \A s \in SlotNames : slot'[r][s].cur = slot[r][s].cur /\ slot'[r][s].taken = slot[r][s].taken
      BY <1>2, <1>5, <1>6
  <2> QED BY <1>1, <1>8, <2>1, EmptyIs, SlotsSay DEF SlotNames
<1>10. CountsOk(r)'
  <2>1. ASSUME NEW s \in SlotNames PROVE SlotOk(s, new(s), Idle, FALSE)
    <3>1. trying[r].slot # s /\ Idle.slot # s
        BY <1>1, WaitingIs
    <3>2. CASE slot[r][s] = EmptySlot
        BY <1>3, <3>1, <3>2 DEF SlotOk
    <3>3. CASE slot[r][s] # EmptySlot
      <4>1. new(s).cur # NoAlert /\ slotFor(new(s).cur.kind) = s /\ new(s).owed = {}
          BY <1>1, <1>2, <3>3, WaitingIs
      <4> QED BY <3>1, <4>1 DEF SlotOk
    <3> QED BY <3>2, <3>3
  <2>2. AttemptOk(trying[r])
      BY DEF IInv, Counts, CountsOk
  <2>3. (life'[r] = "loop") = FALSE
      BY <1>6
  <2> QED BY <1>1, <1>5, <1>6, <2>1, <2>2, <2>3 DEF CountsOk
<1>11. LifeOk(r)'
  <2>1. LifeOk(r)
      BY DEF IInv, LivesOk
  <2>2. ~(r > run)
      BY <1>1, <2>1 DEF LifeOk
  <2>3. visit[r] = {}
      BY DEF StopsTrying, Waiting
  <2>4. visit'[r] = {} /\ ctxDone'[r] /\ life'[r] = "drain" /\ run' = run
      BY <1>1, <1>6, <1>8, <2>3
  <2> QED BY <2>2, <2>4 DEF LifeOk
<1>12. FireOf(r)' = FireOf(r) /\ slot'[r]["fire"].owed = {}
    BY <1>2, <1>5, <1>6 DEF FireOf, SlotNames
<1>13. \A l \in Lines : ~MayAsk(l, slot'[r]["fire"], trying'[r])
    BY <1>1, <1>12, EmptyIs DEF MayAsk
<1>14. StoreTruthful'
    BY <1>1, <1>8, StoreSame
<1> QED BY <1>1, <1>6, <1>7, <1>8, <1>9, <1>10, <1>11, <1>12, <1>13, <1>14, SenderKeeps

LEMMA EndsOk == ASSUME IInv, NEW r \in Runs, Ends(r) PROVE IInv'
<1>1. /\ life[r] \in {"loop", "drain"} /\ trying[r] = Idle /\ visit[r] = {} /\ RunOver(r)
      /\ life' = [life EXCEPT ![r] = "gone"] /\ slot' = [slot EXCEPT ![r] = EmptySlots]
      /\ wake' = [wake EXCEPT ![r] = FALSE]
      /\ UNCHANGED <<watcher, row, ctxDone, box, cond, trying, visit, history>>
    BY DEF Ends, Waiting, BoxClosed, EmptySlots
<1>2. /\ slot'[r] = EmptySlots /\ life'[r] = "gone"
      /\ \A q \in Runs : q # r => slot'[q] = slot[q] /\ life'[q] = life[q]
      /\ \A s \in SlotNames : slot'[r][s] = EmptySlot
    BY <1>1 DEF IInv, TypeOK, SenderType, EmptySlots
<1>3. TypeOK'
    BY <1>1, EmptyIs DEF IInv, TypeOK, WatcherType, SenderType, HistoryType, watcher, history
<1>4. UNCHANGED <<fires, again, root, told, overflowed>> /\ run' = run /\ poll' = poll
    BY <1>1 DEF history, watcher
<1>5. MailOk(r)'
    BY <1>1, <1>2, <1>4, EmptyIs, SlotsSay DEF SlotNames
<1>6. CountsOk(r)'
    BY <1>1, <1>2, EmptyIs DEF CountsOk, SlotOk, AttemptOk, SlotNames, Idle
<1>7. LifeOk(r)'
    BY <1>1, <1>2, <1>4 DEF IInv, LivesOk, LifeOk, RunOver
<1>8. FireOf(r)' = 0 /\ \A l \in Lines : ~MayAsk(l, slot'[r]["fire"], trying'[r])
    BY <1>1, <1>2, EmptyIs DEF FireOf, SlotNames, MayAsk
<1>9. StoreTruthful'
    BY <1>1, <1>4, StoreSame
<1> QED BY <1>1, <1>2, <1>3, <1>4, <1>5, <1>6, <1>7, <1>8, <1>9, SenderKeeps

LEMMA RetryOk == ASSUME IInv, NEW r \in Runs, NEW due \in SUBSET Lines, Retry(r, due) PROVE IInv'
<1> DEFINE s0 == First(visit[r])
           t0 == [Idle EXCEPT !.slot = s0, !.first = FALSE, !.asked = due]
<1>1. /\ trying[r] = Idle /\ visit[r] # {} /\ due \subseteq slot[r][s0].owed
      /\ visit' = [visit EXCEPT ![r] = @ \ {s0}]
      /\ UNCHANGED <<watcher, row, life, ctxDone, box, cond, wake>>
      /\ UNCHANGED <<fires, downs, moves, again, root, told, overflowed>>
    BY DEF Retry
<1>2. \/ due = {} /\ Prunes(r) /\ trying' = trying
      \/ slot' = slot /\ early' = early
                      /\ (\/ due = {} /\ trying' = trying
                          \/ due # {} /\ trying' = [trying EXCEPT ![r] = t0])
  <2>1. CASE retrying(r, s0) /\ ~condHolds(r, slot[r][s0].cur.kind)
      BY <2>1, Zenon DEF Retry, Tries
  <2>2. CASE ~(retrying(r, s0) /\ ~condHolds(r, slot[r][s0].cur.kind))
    <3>1. (IF due = {} THEN UNCHANGED trying ELSE Tries(r, s0, due, FALSE))
          /\ UNCHANGED <<slot, early>>
        BY <2>2, Zenon DEF Retry
    <3> QED BY <3>1 DEF Tries
  <2> QED BY <2>1, <2>2
<1>3. s0 \in SlotNames /\ s0 # "none"
    BY DEF First, SlotNames
<1>4. /\ t0 \in Attempt /\ t0.slot = s0 /\ ~t0.first /\ t0.asked = due /\ t0.ok = {}
      /\ t0.soft = {} /\ t0.hard = {}
    BY <1>3 DEF Idle, Attempt
<1>5. life[r] = "loop"
    BY <1>1 DEF IInv, LivesOk, LifeOk
<1> HIDE DEF s0, t0
<1>6. UNCHANGED <<fires, again, root, told, overflowed>> /\ run' = run /\ poll' = poll
    BY <1>1 DEF watcher
<1>7. visit' \in [Runs -> SUBSET SlotNames] /\ \A q \in Runs : q # r => visit'[q] = visit[q]
    BY <1>1 DEF IInv, TypeOK, SenderType
<1>8. StoreTruthful'
    BY <1>1, <1>6, StoreSame
<1>9. LifeOk(r)'
    BY <1>1, <1>5, <1>6 DEF IInv, LivesOk, LifeOk, RunOver
<1>10. CASE Prunes(r) /\ trying' = trying
  <2>0. slot' = [slot EXCEPT ![r] = Pruned(r)] /\ early' \subseteq Lines
      BY <1>10, PruneTypes DEF Prunes
  <2>1. Pruned(r) \in [SlotNames -> SlotType]
      BY <1>1, PrunedIs DEF Pruned
  <2>2. slot'[r] = Pruned(r) /\ \A q \in Runs : q # r => slot'[q] = slot[q]
      BY <2>0 DEF IInv, TypeOK, SenderType
  <2>3. TypeOK'
      BY <1>1, <1>7, <1>10, <2>0, <2>1
         DEF IInv, TypeOK, WatcherType, SenderType, HistoryType, watcher
  <2>4. MailOk(r)'
    <3>1. \A s \in SlotNames : slot'[r][s].cur = slot[r][s].cur /\ slot'[r][s].taken = slot[r][s].taken
        BY <1>1, <2>2, PrunedIs
    <3> QED BY <1>1, <1>6, <1>10, <3>1, EmptyIs, SlotsSay DEF SlotNames
  <2>5. CountsOk(r)'
    <3>1. \A s \in SlotNames : SlotOk(s, slot'[r][s], Idle, life[r] = "loop")
        BY <1>1, <2>2, PrunedIs
    <3>2. AttemptOk(trying[r])
        BY DEF IInv, Counts, CountsOk
    <3> QED BY <1>1, <1>10, <3>1, <3>2 DEF CountsOk
  <2>6. FireOf(r)' = FireOf(r) /\ slot'[r]["fire"].owed \subseteq slot[r]["fire"].owed
      BY <1>1, <2>2, PrunedIs DEF FireOf, SlotNames
  <2>7. \A l \in Lines : MayAsk(l, slot'[r]["fire"], trying'[r])
                            => MayAsk(l, slot[r]["fire"], trying[r])
      BY <1>10, <2>6 DEF MayAsk
  <2> QED BY <1>1, <1>5, <1>6, <1>7, <1>8, <1>9, <1>10, <2>2, <2>3, <2>4, <2>5, <2>6, <2>7,
             SenderKeeps
<1>11. CASE slot' = slot /\ early' = early /\ trying' = trying
  <2>1. TypeOK'
      BY <1>1, <1>7, <1>11
         DEF IInv, TypeOK, WatcherType, SenderType, HistoryType, watcher
  <2>2. MailOk(r)'
      BY <1>1, <1>6, <1>11, EmptyIs, SlotsSay DEF SlotNames
  <2>3. CountsOk(r)'
      BY <1>1, <1>11 DEF IInv, Counts, CountsOk
  <2>4. FireOf(r)' = FireOf(r)
      BY <1>11 DEF FireOf
  <2> QED BY <1>1, <1>5, <1>6, <1>7, <1>8, <1>9, <1>11, <2>1, <2>2, <2>3, <2>4, SenderKeeps
<1>12. CASE slot' = slot /\ early' = early /\ due # {} /\ trying' = [trying EXCEPT ![r] = t0]
  <2>1. trying'[r] = t0 /\ \A q \in Runs : q # r => trying'[q] = trying[q]
      BY <1>12 DEF IInv, TypeOK, SenderType
  <2>2. TypeOK'
      BY <1>1, <1>4, <1>7, <1>12
         DEF IInv, TypeOK, WatcherType, SenderType, HistoryType, watcher, Attempt
  <2>3. MailOk(r)'
      BY <1>1, <1>4, <1>6, <1>12, <2>1, SlotsSay
  <2>4. CountsOk(r)'
    <3>1. AttemptOk(t0)
        BY <1>3, <1>4 DEF AttemptOk
    <3>2. ASSUME NEW s \in SlotNames PROVE SlotOk(s, slot[r][s], t0, life[r] = "loop")
      <4>1. CASE slot[r][s] = EmptySlot
        <5>1. s # s0
            BY <1>1, <1>12, <4>1, EmptyIs
        <5> QED BY <1>4, <4>1, <5>1 DEF SlotOk
      <4>2. CASE slot[r][s] # EmptySlot
        <5>1. /\ slot[r][s].cur # NoAlert /\ slotFor(slot[r][s].cur.kind) = s
              /\ (slot[r][s].owed # {} => slot[r][s].dropped = {})
              /\ (life[r] = "loop" => Lines \subseteq Known(slot[r][s]))
            BY <1>1, <4>2, WaitingIs
        <5>2. s = s0 => slot[r][s].owed # {} /\ Asked(t0) \subseteq slot[r][s].owed
            BY <1>1, <1>4, <1>12 DEF Asked
        <5>3. Lines \subseteq Known(slot[r][s])
            BY <1>5, <5>1
        <5> QED BY <1>4, <5>1, <5>2, <5>3 DEF SlotOk
      <4> QED BY <4>1, <4>2
    <3> QED BY <1>1, <1>12, <2>1, <3>1, <3>2 DEF CountsOk
  <2>5. FireOf(r)' = FireOf(r)
      BY <1>12 DEF FireOf
  <2>6. \A l \in Lines : MayAsk(l, slot'[r]["fire"], trying'[r])
                            => MayAsk(l, slot[r]["fire"], trying[r])
    <3>1. t0.slot = "fire" => due \subseteq slot[r]["fire"].owed
        BY <1>1, <1>4
    <3> QED BY <1>1, <1>4, <1>12, <2>1, <3>1, EmptyIs DEF MayAsk
  <2> QED BY <1>1, <1>5, <1>6, <1>7, <1>8, <1>9, <1>12, <2>1, <2>2, <2>3, <2>4, <2>5, <2>6,
             SenderKeeps
<1> QED BY <1>2, <1>10, <1>11, <1>12

\* report: what the row says stays so.
LEMMA ReportedIs ==
    ASSUME IInv, NEW new \in SlotType, row' = Reported(new), UNCHANGED <<fires, root, told>>,
           new.cur.fired # 0 => HaveHeard(new.taken, new.cur.fired),
           done(new) => Lines \subseteq new.taken
    PROVE  /\ row' \in [fired : Times, stable : Stables, delivered : BOOLEAN, taken : SUBSET Lines]
           /\ row'.fired = row.fired /\ row'.stable = row.stable /\ StoreTruthful'
<1>1. /\ row \in [fired : Times, stable : Stables, delivered : BOOLEAN, taken : SUBSET Lines]
      /\ new.taken \in SUBSET Lines
    BY DEF IInv, TypeOK, SlotType
<1>2. \/ row' = row
      \/ AboutFire(new.cur.fired) /\ done(new) /\ row' = [row EXCEPT !.delivered = TRUE]
      \/ AboutFire(new.cur.fired) /\ row' = [row EXCEPT !.taken = new.taken]
    BY DEF Reported
<1>3. CASE row' = row
    BY <1>1, <1>3, StoreSame
<1>4. CASE AboutFire(new.cur.fired) /\ done(new) /\ row' = [row EXCEPT !.delivered = TRUE]
  <2>1. /\ row' \in [fired : Times, stable : Stables, delivered : BOOLEAN, taken : SUBSET Lines]
        /\ row'.fired = row.fired /\ row'.stable = row.stable
      BY <1>1, <1>4
  <2>2. \A l \in Lines : Heard(l, row.fired)
      BY <1>4 DEF AboutFire, HaveHeard
  <2> QED BY <2>1, <2>2 DEF StoreTruthful, Heard
<1>5. CASE AboutFire(new.cur.fired) /\ row' = [row EXCEPT !.taken = new.taken]
  <2>1. /\ row' \in [fired : Times, stable : Stables, delivered : BOOLEAN, taken : SUBSET Lines]
        /\ row'.fired = row.fired /\ row'.stable = row.stable
        /\ row'.delivered = row.delivered /\ row'.taken = new.taken
      BY <1>1, <1>5
  <2>2. \A l \in new.taken : Heard(l, row.fired)
      BY <1>5 DEF AboutFire, HaveHeard
  <2>3. row.fired # 0 => \A l \in Lines : row.delivered => Heard(l, row.fired)
      BY DEF IInv, StoreTruthful
  <2> QED BY <2>1, <2>2, <2>3 DEF StoreTruthful, Heard
<1> QED BY <1>2, <1>3, <1>4, <1>5

\* The slot of an attempt that is sorted: o still owed, f given up on, k took it.
Sorted(sl, o, f, k) == [sl EXCEPT !.owed = o, !.failed = f, !.taken = k]

LEMMA SortedIs ==
    ASSUME NEW sl \in SlotType, NEW o \in SUBSET Lines, NEW f \in SUBSET Lines,
           NEW k \in SUBSET Lines
    PROVE  /\ Sorted(sl, o, f, k) \in SlotType /\ Sorted(sl, o, f, k).cur = sl.cur
           /\ Sorted(sl, o, f, k).owed = o /\ Sorted(sl, o, f, k).failed = f
           /\ Sorted(sl, o, f, k).taken = k /\ Sorted(sl, o, f, k).dropped = sl.dropped
BY DEF SlotType, Sorted

LEMMA SortOk == ASSUME IInv, NEW r \in Runs, Sort(r) PROVE IInv'
<1> DEFINE t    == trying[r]
           s0   == t.slot
           sl   == slot[r][s0]
           cut  == ~t.first /\ ctxDone[r]
           soft == IF cut \/ life[r] = "drain" THEN {} ELSE t.soft
           hard == IF cut THEN {} ELSE t.hard \cup (t.soft \ soft)
           new  == [sl EXCEPT !.owed = StillOwed(sl, t.ok, soft, hard),
                              !.failed = @ \cup hard, !.taken = @ \cup t.ok]
<1>1. /\ s0 # "none" /\ t.asked = {} /\ slot' = [slot EXCEPT ![r][s0] = new]
      /\ row' = Reported(new) /\ trying' = [trying EXCEPT ![r] = Idle]
      /\ UNCHANGED <<watcher, life, ctxDone, box, cond, wake, visit, history>>
    BY DEF Sort
<1>2. t \in Attempt /\ slot[r] \in [SlotNames -> SlotType]
    BY RunTypes DEF IInv
<1>3. s0 \in SlotNames /\ sl \in SlotType
    BY <1>1, <1>2 DEF Attempt
<1>4. /\ soft \subseteq t.soft /\ hard \subseteq t.hard \cup t.soft
      /\ soft \subseteq Lines /\ hard \subseteq Lines /\ t.ok \subseteq Lines
      /\ \/ t.soft \cup t.hard = soft \cup hard
         \/ ~t.first
    BY <1>2 DEF Attempt
<1> DEFINE owed   == StillOwed(sl, t.ok, soft, hard)
           failed == sl.failed \cup hard
           taken  == sl.taken \cup t.ok
<1>5. new = [sl EXCEPT !.owed = owed, !.failed = failed, !.taken = taken]
    OBVIOUS
<1> HIDE DEF new, soft, hard, cut
<1>6. /\ owed = (sl.owed \ (t.ok \cup hard)) \cup soft
      /\ owed \in SUBSET Lines /\ failed \in SUBSET Lines /\ taken \in SUBSET Lines
    BY <1>3, <1>4 DEF SlotType, StillOwed
<1>7. /\ new \in SlotType /\ new.cur = sl.cur /\ new.owed = owed
      /\ new.failed = failed /\ new.taken = taken /\ new.dropped = sl.dropped
  <2> HIDE DEF owed, failed, taken, sl, t
  <2>1. new = Sorted(sl, owed, failed, taken)
      BY <1>5 DEF Sorted
  <2>2. /\ sl \in SlotType
        /\ owed \in SUBSET Lines /\ failed \in SUBSET Lines /\ taken \in SUBSET Lines
      BY <1>3, <1>6
  <2> QED BY <2>1, <2>2, SortedIs
<1>8. /\ slot'[r] = [slot[r] EXCEPT ![s0] = new]
      /\ \A q \in Runs : q # r => slot'[q] = slot[q]
      /\ trying'[r] = Idle /\ \A q \in Runs : q # r => trying'[q] = trying[q]
    BY <1>1 DEF IInv, TypeOK, SenderType
<1>9. /\ slot'[r][s0] = new /\ \A s \in SlotNames : s # s0 => slot'[r][s] = slot[r][s]
      /\ slot'[r] \in [SlotNames -> SlotType]
    BY <1>2, <1>3, <1>6, <1>7, <1>8
<1>10. /\ AttemptOk(t) /\ SlotOk(s0, sl, t, life[r] = "loop")
      /\ \A s \in SlotNames : SlotOk(s, slot[r][s], t, life[r] = "loop")
    BY <1>3 DEF IInv, Counts, CountsOk
<1>11. /\ sl.cur # NoAlert /\ slotFor(sl.cur.kind) = s0 /\ sl.dropped = {}
       /\ Lines \subseteq Known(sl) \cup Asked(t) /\ (~t.first => Asked(t) \subseteq sl.owed)
    BY <1>10 DEF SlotOk
<1>12. Lines \subseteq Known(new)
    BY <1>1, <1>4, <1>6, <1>7, <1>11 DEF Known, Asked
<1>13. UNCHANGED <<fires, again, root, told, overflowed>> /\ run' = run /\ poll' = poll
    BY <1>1 DEF history, watcher
<1>14. life[r] \in {"loop", "drain"}
    BY <1>1, EmptyIs DEF IInv, LivesOk, LifeOk, TypeOK, SenderType
<1>15. /\ row' \in [fired : Times, stable : Stables, delivered : BOOLEAN, taken : SUBSET Lines]
       /\ row'.fired = row.fired /\ row'.stable = row.stable /\ StoreTruthful'
  <2>1. new.cur.fired # 0 => HaveHeard(new.taken, new.cur.fired)
      BY <1>3, <1>6, <1>7 DEF IInv, Mail, MailOk, SlotTrue, AttemptTrue, HaveHeard
  <2>2. done(new) => Lines \subseteq new.taken
      BY <1>12 DEF done, Known
  <2> QED BY <1>1, <1>6, <1>7, <1>13, <2>1, <2>2, ReportedIs
<1> HIDE DEF t, s0, sl
<1>16. TypeOK'
  <2>1. slot' \in [Runs -> [SlotNames -> SlotType]] /\ trying' \in [Runs -> Attempt]
    <3>1. \A q \in Runs : slot'[q] \in [SlotNames -> SlotType]
        BY <1>8, <1>9, RunTypes DEF IInv
    <3>2. trying \in [Runs -> Attempt] /\ DOMAIN slot = Runs
        BY DEF IInv, TypeOK, SenderType, Attempt
    <3>3. slot' = [q \in Runs |-> slot'[q]]
        BY <1>1, <3>2
    <3> QED BY <1>1, <3>1, <3>2, <3>3, EmptyIs
  <2> QED BY <1>1, <1>15, <2>1
         DEF IInv, TypeOK, WatcherType, SenderType, HistoryType, watcher, history, Attempt
<1>17. MailOk(r)'
  <2>1. ASSUME NEW s \in SlotNames
        PROVE  /\ \/ slot'[r][s] = EmptySlot
                  \/ /\ slot'[r][s].cur = slot[r][s].cur
                     /\ \A l \in slot'[r][s].taken :
                           \/ l \in slot[r][s].taken
                           \/ trying[r].slot = s /\ l \in trying[r].ok
               /\ trying'[r].slot = s => trying'[r].ok = {}
      BY <1>6, <1>7, <1>8, <1>9, EmptyIs DEF SlotNames, t, s0, sl
  <2>2. box'[r] = box[r]
      BY <1>1
  <2> QED BY <1>13, <2>1, <2>2, SlotsSay
<1>18. CountsOk(r)'
  <2>1. AttemptOk(Idle)
      BY DEF AttemptOk, Idle
  <2>2. SlotOk(s0, new, Idle, life[r] = "loop")
      BY <1>1, <1>6, <1>7, <1>11, <1>12, EmptyIs DEF SlotOk
  <2>3. ASSUME NEW s \in SlotNames, s # s0 PROVE SlotOk(s, slot[r][s], Idle, life[r] = "loop")
    <3>1. SlotOk(s, slot[r][s], t, life[r] = "loop") /\ t.slot # s /\ Idle.slot # s
        BY <1>10, <2>3, EmptyIs DEF SlotNames, s0
    <3> QED BY <3>1 DEF SlotOk
  <2>4. \A s \in SlotNames : SlotOk(s, slot'[r][s], Idle, life[r] = "loop")
      BY <1>9, <2>2, <2>3
  <2> QED BY <1>1, <1>8, <2>1, <2>4 DEF CountsOk
<1>19. LifeOk(r)'
    BY <1>1, <1>13, <1>14 DEF IInv, LivesOk, LifeOk, RunOver
<1>20. FireOf(r)' = FireOf(r)
    BY <1>6, <1>7, <1>9 DEF FireOf, SlotNames, sl
<1>21. \A l \in Lines : MayAsk(l, slot'[r]["fire"], trying'[r])
                            => MayAsk(l, slot[r]["fire"], trying[r])
  <2>1. CASE s0 = "fire"
      BY <1>4, <1>6, <1>7, <1>8, <1>9, <2>1, EmptyIs DEF MayAsk, t, s0, sl
  <2>2. CASE s0 # "fire"
    <3>1. slot'[r]["fire"] = slot[r]["fire"]
        BY <1>9, <2>2 DEF SlotNames
    <3> QED BY <1>8, <2>2, <3>1, EmptyIs DEF MayAsk, t, s0
  <2> QED BY <2>1, <2>2
<1>22. \A q \in Runs : q # r => life'[q] = life[q] /\ visit'[q] = visit[q]
    BY <1>1
<1>23. life'[r] \in {"loop", "drain"}
    BY <1>1, <1>14
<1> QED BY <1>1, <1>8, <1>13, <1>15, <1>16, <1>17, <1>18, <1>19, <1>20, <1>21, <1>22, <1>23,
           SenderKeeps

\* The head of an outbox, and what is behind it.
LEMMA HeadIs ==
    ASSUME IInv, NEW r \in Runs, box[r] # << >>
    PROVE  /\ Head(box[r]) = box[r][1] /\ Head(box[r]) \in Alert /\ 1 \in 1..Len(box[r])
           /\ AlertTrue(Head(box[r])) /\ Tail(box[r]) \in Seq(Alert)
           /\ Len(Tail(box[r])) = Len(box[r]) - 1
           /\ \A i \in 1..Len(Tail(box[r])) :
                 i + 1 \in 1..Len(box[r]) /\ Tail(box[r])[i] = box[r][i + 1]
<1>1. box[r] \in Seq(Alert) /\ Len(box[r]) \in Nat /\ Len(box[r]) # 0
    BY RunTypes DEF IInv
<1>2. Head(box[r]) = box[r][1] /\ Head(box[r]) \in Alert /\ 1 \in 1..Len(box[r])
    BY <1>1
<1>3. /\ Tail(box[r]) \in Seq(Alert) /\ Len(Tail(box[r])) = Len(box[r]) - 1
      /\ \A i \in 1..Len(Tail(box[r])) :
            i + 1 \in 1..Len(box[r]) /\ Tail(box[r])[i] = box[r][i + 1]
    BY <1>1
<1>4. AlertTrue(Head(box[r]))
    BY <1>2 DEF IInv, Mail, MailOk
<1> QED BY <1>2, <1>3, <1>4

\* The slot an alert is put in, before its first try.
Fresh(a) == [EmptySlot EXCEPT !.cur = a, !.taken = a.skip]

LEMMA FreshIs ==
    ASSUME NEW a \in Alert
    PROVE  /\ Fresh(a) \in SlotType /\ Fresh(a).cur = a /\ Fresh(a).taken = a.skip
           /\ Fresh(a).owed = {} /\ Fresh(a).failed = {} /\ Fresh(a).dropped = {}
           /\ a # NoAlert /\ slotFor(a.kind) \in SlotNames /\ a.skip \in SUBSET Lines
           /\ (slotFor(a.kind) = "fire" <=> a.kind = "fired") /\ slotFor(a.kind) # "none"
<1>1. a.skip \in SUBSET Lines /\ a.kind \in {"fired", "down", "recovered", "moved"}
    BY DEF Alert
<1>2. a # NoAlert
    BY EmptyIs
<1>3. /\ EmptySlot \in SlotType /\ EmptySlot.owed = {} /\ EmptySlot.failed = {}
      /\ EmptySlot.dropped = {}
    BY EmptyIs DEF EmptySlot
<1>4. ASSUME NEW k \in SUBSET Lines, NEW new, new = [EmptySlot EXCEPT !.cur = a, !.taken = k]
      PROVE  /\ new \in SlotType /\ new.cur = a /\ new.taken = k
             /\ new.owed = {} /\ new.failed = {} /\ new.dropped = {}
    BY <1>3, <1>4 DEF SlotType
<1>5. /\ Fresh(a) \in SlotType /\ Fresh(a).cur = a /\ Fresh(a).taken = a.skip
      /\ Fresh(a).owed = {} /\ Fresh(a).failed = {} /\ Fresh(a).dropped = {}
    BY <1>1, <1>4 DEF Fresh
<1> QED BY <1>1, <1>2, <1>5, SlotForIs DEF SlotNames

LEMMA TakeOk == ASSUME IInv, NEW r \in Runs, Take(r) PROVE IInv'
<1> DEFINE a    == Head(box[r])
           s0   == slotFor(a.kind)
           todo == Lines \ a.skip
           new  == Fresh(a)
           t0   == [Idle EXCEPT !.slot = s0, !.first = TRUE, !.asked = todo]
<1>1. /\ life[r] \in {"loop", "drain"} /\ trying[r] = Idle /\ visit[r] = {} /\ box[r] # << >>
      /\ box' = [box EXCEPT ![r] = Tail(@)] /\ slot' = [slot EXCEPT ![r][s0] = new]
      /\ UNCHANGED <<watcher, life, ctxDone, cond, wake, visit, history>>
    BY DEF Take, Waiting, Fresh
<1>2. \/ todo = {} /\ row' = Reported(new) /\ trying' = trying
      \/ todo # {} /\ row' = row /\ trying' = [trying EXCEPT ![r] = t0]
    BY Zenon DEF Take, Tries, Fresh
<1>3. /\ a = box[r][1] /\ a \in Alert /\ 1 \in 1..Len(box[r]) /\ AlertTrue(a)
      /\ box'[r] \in Seq(Alert) /\ Len(box'[r]) = Len(box[r]) - 1 /\ Len(box[r]) \in Nat
      /\ \A i \in 1..Len(box'[r]) : i + 1 \in 1..Len(box[r]) /\ box'[r][i] = box[r][i + 1]
      /\ \A q \in Runs : q # r => box'[q] = box[q]
  <2>1. box'[r] = Tail(box[r]) /\ \A q \in Runs : q # r => box'[q] = box[q]
      BY <1>1 DEF IInv, TypeOK, SenderType
  <2> QED BY <1>1, <2>1, HeadIs, RunTypes DEF IInv
<1>4. /\ new \in SlotType /\ new.cur = a /\ new.taken = a.skip /\ new.owed = {}
      /\ new.failed = {} /\ new.dropped = {} /\ a # NoAlert /\ s0 \in SlotNames /\ s0 # "none"
      /\ a.skip \in SUBSET Lines /\ (s0 = "fire" <=> a.kind = "fired")
    BY <1>3, FreshIs
<1>5. /\ t0 \in Attempt /\ t0.slot = s0 /\ t0.first /\ t0.asked = todo /\ t0.ok = {}
      /\ t0.soft = {} /\ t0.hard = {}
    BY <1>4 DEF Idle, Attempt
<1> HIDE DEF new, t0
<1>6. /\ (a.kind = "fired" <=> a.fired # 0) /\ a.fired \in Nat /\ a.fired <= fires
      /\ (a.fired # 0 => HaveHeard(a.skip, a.fired)) /\ fires \in Nat
  <2>1. \A b \in Alert : b.fired \in Nat
      BY RunsAre DEF Alert
  <2>2. a.fired \in Nat /\ fires \in Nat
      BY <1>3, <2>1, FiresIs DEF IInv
  <2> QED BY <1>3, <2>2 DEF AlertTrue
<1> HIDE DEF a, s0
<1>7. /\ slot'[r][s0] = new /\ \A s \in SlotNames : s # s0 => slot'[r][s] = slot[r][s]
      /\ slot' \in [Runs -> [SlotNames -> SlotType]]
      /\ \A q \in Runs : q # r => slot'[q] = slot[q]
  <2>1. slot \in [Runs -> [SlotNames -> SlotType]]
      BY DEF IInv, TypeOK, SenderType
  <2> QED BY <1>1, <1>4, <2>1
<1>8. /\ trying' \in [Runs -> Attempt] /\ \A q \in Runs : q # r => trying'[q] = trying[q]
      /\ trying'[r] = IF todo = {} THEN Idle ELSE t0
  <2>1. trying \in [Runs -> Attempt]
      BY DEF IInv, TypeOK, SenderType, Attempt
  <2> QED BY <1>1, <1>2, <1>5, <2>1
<1>9. UNCHANGED <<type, run, poll, stable, lastFired, resendTaken, fires, again, root, told,
                  overflowed>>
    BY <1>1 DEF history, watcher
<1>10. \A S, f : HaveHeard(S, f)' <=> HaveHeard(S, f)
    BY <1>9 DEF HaveHeard, Heard
<1>11. \A b : AlertTrue(b)' <=> AlertTrue(b)
    BY <1>9, <1>10 DEF AlertTrue
<1>12. \A sl : SlotTrue(sl)' <=> SlotTrue(sl)
    BY <1>10, <1>11 DEF SlotTrue
<1>13. /\ row' \in [fired : Times, stable : Stables, delivered : BOOLEAN, taken : SUBSET Lines]
       /\ row'.fired = row.fired /\ row'.stable = row.stable /\ StoreTruthful'
  <2>1. CASE row' = row
      BY <1>9, <2>1, StoreSame DEF IInv, TypeOK
  <2>2. CASE todo = {} /\ row' = Reported(new)
    <3>1. new.cur.fired # 0 => HaveHeard(new.taken, new.cur.fired)
        BY <1>4, <1>6
    <3>2. done(new) => Lines \subseteq new.taken
        BY <1>4, <2>2
    <3> QED BY <1>4, <1>9, <2>2, <3>1, <3>2, ReportedIs
  <2> QED BY <1>2, <2>1, <2>2
<1>14. TypeOK'
  <2>1. box' \in [Runs -> Seq(Alert)] /\ \A q \in Runs : Len(box'[q]) <= OutboxSize
    <3>1. /\ OutboxSize \in Nat /\ box \in [Runs -> Seq(Alert)]
          /\ \A q \in Runs : Len(box[q]) <= OutboxSize
        BY AlertsAssumption DEF IInv, TypeOK, SenderType
    <3>2. box' = [q \in Runs |-> box'[q]] /\ \A q \in Runs : box'[q] \in Seq(Alert)
        BY <1>1, <1>3, <3>1
    <3> QED BY <1>3, <3>1, <3>2
  <2> QED BY <1>1, <1>7, <1>8, <1>13, <2>1
         DEF IInv, TypeOK, WatcherType, SenderType, HistoryType, watcher, history, Attempt
<1>15. LivesOk'
  <2>1. Current'
      BY <1>1, <1>9 DEF IInv, LivesOk, Current
  <2>2. ASSUME NEW q \in Runs, q # r PROVE LifeOk(q)'
      BY <1>1, <1>3, <1>7, <1>8, <1>9, <2>2 DEF IInv, LivesOk, LifeOk, RunOver
  <2>3. LifeOk(r)'
      BY <1>1, <1>9 DEF IInv, LivesOk, LifeOk, RunOver
  <2> QED BY <2>1, <2>2, <2>3 DEF LivesOk
<1>16. WatchOk' /\ Resend'
    BY <1>9, <1>10, <1>13 DEF IInv, WatchOk, Resend
<1>17. Mail'
  <2>1. ASSUME NEW q \in Runs, q # r PROVE MailOk(q)'
      BY <1>3, <1>7, <1>8, <1>10, <1>11, <1>12, <2>1 DEF IInv, Mail, MailOk, AttemptTrue
  <2>2. ASSUME NEW i \in 1..Len(box'[r]), NEW b, b = box'[r][i] PROVE AlertTrue(b)
      BY <1>3, <2>2 DEF IInv, Mail, MailOk
  <2>3. ASSUME NEW s \in SlotNames, NEW sl, sl = slot'[r][s] PROVE SlotTrue(sl)
    <3>1. CASE s = s0
        BY <1>3, <1>4, <1>6, <1>7, <2>3, <3>1 DEF SlotTrue
    <3>2. CASE s # s0
        BY <1>7, <2>3, <3>2 DEF IInv, Mail, MailOk
    <3> QED BY <3>1, <3>2
  <2>4. trying'[r].ok = {}
      BY <1>5, <1>8 DEF Idle
  <2>5. ASSUME NEW i \in 1..Len(box'[r]), NEW b, b = box'[r][i] PROVE AlertTrue(b)'
      BY <1>11, <2>2, <2>5
  <2>6. ASSUME NEW s \in SlotNames, NEW sl, sl = slot'[r][s] PROVE SlotTrue(sl)'
      BY <1>12, <2>3, <2>6
  <2>7. MailOk(r)'
      BY <2>4, <2>5, <2>6 DEF MailOk, SlotTrue, AttemptTrue, AlertTrue, HaveHeard
  <2> QED BY <2>1, <2>7 DEF Mail
<1>18. Counts'
  <2>1. ASSUME NEW q \in Runs, q # r PROVE CountsOk(q)'
      BY <1>1, <1>7, <1>8, <2>1 DEF IInv, Counts, CountsOk
  <2>2. AttemptOk(trying'[r])
    <3>1. AttemptOk(Idle)
        BY DEF AttemptOk, Idle
    <3>2. AttemptOk(t0)
        BY <1>4, <1>5 DEF AttemptOk
    <3> QED BY <1>8, <3>1, <3>2
  <2>3. SlotOk(s0, new, trying'[r], life[r] = "loop")
    <3>1. CASE todo = {}
      <4>1. Lines \subseteq Known(new) /\ trying'[r].slot # s0
          BY <1>4, <1>8, <3>1, EmptyIs DEF Known
      <4> QED BY <1>4, <4>1 DEF SlotOk, s0
    <3>2. CASE todo # {}
      <4>1. trying'[r] = t0 /\ Lines \subseteq Known(new) \cup Asked(t0)
          BY <1>4, <1>5, <1>8, <3>2 DEF Known, Asked
      <4> QED BY <1>4, <1>5, <4>1 DEF SlotOk, s0
    <3> QED BY <3>1, <3>2
  <2>4. ASSUME NEW s \in SlotNames, s # s0
        PROVE  SlotOk(s, slot'[r][s], trying'[r], life[r] = "loop")
    <3>1. SlotOk(s, slot[r][s], Idle, life[r] = "loop") /\ Idle.slot # s
        BY <1>1, EmptyIs DEF IInv, Counts, CountsOk, SlotNames
    <3>2. slot'[r][s] = slot[r][s] /\ trying'[r].slot # s
        BY <1>5, <1>7, <1>8, <2>4, <3>1
    <3> QED BY <3>1, <3>2 DEF SlotOk
  <2>5. CountsOk(r)'
      BY <1>1, <1>7, <2>2, <2>3, <2>4 DEF CountsOk
  <2> QED BY <2>1, <2>5 DEF Counts
<1>19. /\ \A q \in Runs : q # r => FireOf(q)' = FireOf(q)
       /\ FireOf(r)' = (IF a.fired # 0 THEN box[r][1].fired ELSE FireOf(r))
       /\ \A q \in Runs : FireOf(q) \in Nat /\ FireOf(q)' \in Nat
       /\ \A q \in Runs : \A i \in 1..Len(box[q]) : box[q][i].fired \in Nat
  <2>1. \A q \in Runs : q # r => FireOf(q)' = FireOf(q)
      BY <1>7 DEF FireOf
  <2>2. FireOf(r)' = (IF a.fired # 0 THEN box[r][1].fired ELSE FireOf(r))
    <3>1. CASE s0 = "fire"
        BY <1>3, <1>4, <1>6, <1>7, <3>1 DEF FireOf
    <3>2. CASE s0 # "fire"
        BY <1>4, <1>6, <1>7, <3>2 DEF FireOf, SlotNames
    <3> QED BY <3>1, <3>2
  <2>3. \A q \in Runs : FireOf(q) \in Nat /\ \A i \in 1..Len(box[q]) : box[q][i].fired \in Nat
      BY RunTypes DEF IInv
  <2> QED BY <1>3, <2>1, <2>2, <2>3
<1>20. ASSUME NEW q \in Runs, NEW f \in Nat, f # 0, Before(q, f)
       PROVE  FireOf(q)' < f /\ \A i \in 1..Len(box'[q]) : box'[q][i].fired < f
  <2>1. CASE q # r
      BY <1>3, <1>19, <1>20, <2>1 DEF Before
  <2>2. CASE q = r
      BY <1>3, <1>19, <1>20, <2>2 DEF Before
  <2> QED BY <2>1, <2>2
<1>21. Order'
  <2>1. ASSUME NEW q \in Runs PROVE InOrder(q)'
    <3>1. InOrder(q)
        BY DEF IInv, Order
    <3>2. CASE q # r
        BY <1>3, <1>19, <3>1, <3>2 DEF InOrder
    <3>3. CASE q = r
      <4>1. ASSUME NEW i \in 1..Len(box'[r]), box'[r][i].fired # 0
            PROVE  /\ FireOf(r)' < box'[r][i].fired
                   /\ \A j \in 1..Len(box'[r]) : j < i => box'[r][j].fired < box'[r][i].fired
        <5>1. i + 1 \in 1..Len(box[r]) /\ box'[r][i] = box[r][i + 1] /\ 1 < i + 1 /\ i \in Nat
            BY <1>3, <4>1
        <5>2. FireOf(r) < box[r][i + 1].fired /\ box[r][1].fired < box[r][i + 1].fired
            BY <1>3, <3>1, <3>3, <4>1, <5>1 DEF InOrder
        <5>3. ASSUME NEW j \in 1..Len(box'[r]), j < i PROVE box'[r][j].fired < box'[r][i].fired
          <6>1. j + 1 \in 1..Len(box[r]) /\ box'[r][j] = box[r][j + 1] /\ j + 1 < i + 1
              BY <1>3, <5>1, <5>3
          <6> QED BY <3>1, <3>3, <4>1, <5>1, <6>1 DEF InOrder
        <5> QED BY <1>19, <5>1, <5>2, <5>3
      <4> QED BY <3>3, <4>1 DEF InOrder
    <3> QED BY <3>2, <3>3
  <2>2. ASSUME NEW p \in Runs, NEW q \in Runs, p < q PROVE RunsInOrder(p, q)'
    <3>1. RunsInOrder(p, q)
        BY <2>2 DEF IInv, Order
    <3>2. ASSUME FireOf(q)' # 0 PROVE Before(p, FireOf(q)')
      <4>1. CASE q = r /\ a.fired # 0
          BY <1>3, <1>19, <3>1, <4>1 DEF RunsInOrder, a
      <4>2. CASE ~(q = r /\ a.fired # 0)
          BY <1>19, <3>1, <3>2, <4>2 DEF RunsInOrder
      <4> QED BY <4>1, <4>2
    <3>3. FireOf(q)' # 0 => Before(p, FireOf(q))'
        BY <1>19, <1>20, <3>2 DEF Before
    <3>4. ASSUME NEW i \in 1..Len(box'[q]), box'[q][i].fired # 0
          PROVE  Before(p, box'[q][i].fired) /\ box'[q][i].fired \in Nat
      <4>1. CASE q # r
          BY <1>3, <1>19, <3>1, <3>4, <4>1 DEF RunsInOrder
      <4>2. CASE q = r
          BY <1>3, <1>19, <3>1, <3>4, <4>2 DEF RunsInOrder
      <4> QED BY <4>1, <4>2
    <3>5. ASSUME NEW i \in 1..Len(box'[q]), NEW f, f = box'[q][i].fired, f # 0
          PROVE  FireOf(p)' < f /\ \A j \in 1..Len(box'[p]) : box'[p][j].fired < f
        BY <1>20, <3>4, <3>5
    <3> QED BY <3>3, <3>5 DEF RunsInOrder, Before
  <2>3. poll = "raise" => /\ \A q \in Runs : Before(q, fires)'
                          /\ \A l \in Lines : fires \notin told[l]
    <3> SUFFICES ASSUME poll = "raise" PROVE /\ \A q \in Runs : Before(q, fires)'
                                             /\ \A l \in Lines : fires \notin told[l]
        OBVIOUS
    <3>1. fires # 0
        BY DEF IInv, WatchOk
    <3> QED BY <1>6, <1>9, <1>20, <3>1 DEF IInv, Order, Before
  <2> QED BY <1>9, <2>1, <2>2, <2>3 DEF Order
<1>22. run > 0 => run \in Runs
    BY RunsAre DEF IInv, TypeOK, WatcherType
<1>23. BoxIsNews'
  <2>1. CASE run = r
      BY <1>3, <1>9, <2>1 DEF IInv, BoxIsNews, NotTold
  <2>2. CASE run # r
      BY <1>3, <1>9, <1>22, <2>2 DEF IInv, BoxIsNews, NotTold
  <2> QED BY <2>1, <2>2
<1>24. SlotIsNews'
  <2> SUFFICES ASSUME run > 0, FireOf(run)' # 0, NEW l \in Lines
               PROVE  /\ \A g \in told[l] : g <= FireOf(run)'
                      /\ MayAsk(l, slot'[run]["fire"], trying'[run])
                            => \A g \in told[l] : g < FireOf(run)'
      BY <1>9 DEF SlotIsNews, NotTold, FireOf
  <2>0. \A g \in told[l] : g \in Nat
      BY RunsAre DEF IInv, TypeOK, HistoryType
  <2>1. CASE run = r /\ a.fired # 0
    <3>1. \A g \in told[l] : g < box[r][1].fired
        BY <1>3, <2>1 DEF IInv, BoxIsNews, NotTold, a
    <3>2. box[r][1].fired \in Nat /\ FireOf(run)' = box[r][1].fired
        BY <1>3, <1>9, <1>19, <2>1
    <3> QED BY <2>0, <3>1, <3>2
  <2>2. CASE run = r /\ a.fired = 0
    <3>1. slot'[r]["fire"] = slot[r]["fire"] /\ trying'[r].slot # "fire"
      <4>1. s0 # "fire"
          BY <1>4, <1>6, <2>2
      <4> QED BY <1>5, <1>7, <1>8, <4>1, EmptyIs DEF SlotNames
    <3>2. MayAsk(l, slot'[r]["fire"], trying'[r]) => MayAsk(l, slot[r]["fire"], trying[r])
        BY <1>1, <3>1, EmptyIs DEF MayAsk
    <3>3. FireOf(run)' = FireOf(run)
        BY <1>9, <1>19, <2>2
    <3> QED BY <2>2, <3>2, <3>3 DEF IInv, SlotIsNews, NotTold
  <2>3. CASE run # r
      BY <1>7, <1>8, <1>9, <1>19, <1>22, <2>3 DEF IInv, SlotIsNews, NotTold
  <2> QED BY <2>1, <2>2, <2>3
<1>25. Kept'
  <2> SUFFICES ASSUME poll \notin {"off", "raise"}, type = "match", stable = "met", ~ctxDone[run]
               PROVE  OnItsWay'
      BY <1>1, <1>9 DEF Kept
  <2>1. OnItsWay /\ run \in Runs /\ lastFired = fires /\ lastFired # 0 /\ run' = run
      BY <1>9, RunsAre DEF IInv, Kept, LivesOk, Current, TypeOK, WatcherType, WatchOk
  <2>2. CASE HaveHeard(Lines, lastFired) \/ lastFired \in overflowed
      BY <1>9, <1>10, <2>2 DEF OnItsWay
  <2>3. ASSUME NEW i \in 1..Len(box[run]), box[run][i].fired = lastFired
        PROVE  OnItsWay'
    <3>1. CASE run = r /\ i = 1
      <4>1. FireOf(run)' = lastFired'
          BY <1>3, <1>9, <1>19, <2>1, <2>3, <3>1 DEF a
      <4> QED BY <4>1 DEF OnItsWay
    <3>2. CASE run = r /\ i # 1
      <4>1. i - 1 \in 1..Len(box'[r]) /\ box'[r][i - 1] = box[r][i]
        <5>1. i \in Nat /\ i >= 2 /\ i <= Len(box[r]) /\ Len(box'[r]) = Len(box[r]) - 1
            BY <1>3, <2>3, <3>2
        <5>2. i - 1 \in 1..Len(box'[r]) /\ (i - 1) + 1 = i
            BY <1>3, <5>1
        <5> QED BY <1>3, <5>2
      <4> QED BY <1>9, <2>1, <2>3, <3>2, <4>1 DEF OnItsWay
    <3>3. CASE run # r
        BY <1>3, <1>9, <2>1, <2>3, <3>3 DEF OnItsWay
    <3> QED BY <3>1, <3>2, <3>3
  <2>4. CASE FireOf(run) = lastFired
    <3>1. run = r => a.fired = 0
      <4> SUFFICES ASSUME run = r, a.fired # 0 PROVE FALSE
          OBVIOUS
      <4>1. FireOf(r) < a.fired
          BY <1>3 DEF IInv, Order, InOrder, a
      <4> QED BY <1>6, <2>1, <2>4, <4>1
    <3>2. FireOf(run)' = FireOf(run)
        BY <1>9, <1>19, <2>1, <3>1
    <3> QED BY <1>9, <2>4, <3>2 DEF OnItsWay
  <2> QED BY <2>1, <2>2, <2>3, <2>4 DEF OnItsWay
<1> QED BY <1>13, <1>14, <1>15, <1>16, <1>17, <1>18, <1>21, <1>23, <1>24, <1>25 DEF IInv

LEMMA AnsweredIs ==
    ASSUME NEW t \in Attempt, NEW l \in t.asked, NEW how \in Answers, AttemptOk(t)
    PROVE  /\ Answered(t, l, how) \in Attempt /\ Answered(t, l, how).slot = t.slot
           /\ Answered(t, l, how).first = t.first
           /\ Answered(t, l, how).asked = t.asked \ {l}
           /\ Answered(t, l, how).ok = IF how = "ok" THEN t.ok \cup {l} ELSE t.ok
           /\ Asked(Answered(t, l, how)) = Asked(t) /\ AttemptOk(Answered(t, l, how))
           /\ Answered(t, l, how).soft \subseteq t.soft \cup {l}
           /\ (how = "ok" => l \notin Answered(t, l, how).soft)
           /\ t.slot \in SlotNames
<1>1. /\ l \in Lines /\ t.asked \subseteq Lines /\ t.ok \subseteq Lines /\ t.soft \subseteq Lines
      /\ t.hard \subseteq Lines /\ t.slot \in SlotNames \cup {"none"} /\ t.first \in BOOLEAN
    BY DEF Attempt
<1> DEFINE a == t.asked \ {l}
           o == IF how = "ok"   THEN t.ok \cup {l} ELSE t.ok
           s == IF how = "soft" THEN t.soft \cup {l} ELSE t.soft
           h == IF how = "hard" THEN t.hard \cup {l} ELSE t.hard
           u == Answered(t, l, how)
<1>2. a \subseteq Lines /\ o \subseteq Lines /\ s \subseteq Lines /\ h \subseteq Lines
    BY <1>1
<1>3. u = [t EXCEPT !.asked = a, !.ok = o, !.soft = s, !.hard = h]
    BY DEF Answered
<1>4. \/ how = "ok" /\ o = t.ok \cup {l} /\ s = t.soft /\ h = t.hard
      \/ how = "soft" /\ o = t.ok /\ s = t.soft \cup {l} /\ h = t.hard
      \/ how = "hard" /\ o = t.ok /\ s = t.soft /\ h = t.hard \cup {l}
    BY DEF Answers
<1>5. o = IF how = "ok" THEN t.ok \cup {l} ELSE t.ok
    OBVIOUS
<1>6. a = t.asked \ {l}
    OBVIOUS
<1> HIDE DEF a, o, s, h, u
<1>7. /\ u \in Attempt /\ u.slot = t.slot /\ u.first = t.first /\ u.asked = a /\ u.ok = o
      /\ u.soft = s /\ u.hard = h
    BY <1>2, <1>3 DEF Attempt
<1>8. /\ t.asked \cap (t.ok \cup t.soft \cup t.hard) = {} /\ t.ok \cap (t.soft \cup t.hard) = {}
    BY DEF AttemptOk
<1>9. t.slot # "none"
    BY DEF AttemptOk, Idle
<1>10. Asked(u) = Asked(t)
    BY <1>4, <1>6, <1>7 DEF Asked
<1>11. AttemptOk(u)
  <2>1. u.asked \cap (u.ok \cup u.soft \cup u.hard) = {}
      BY <1>4, <1>6, <1>7, <1>8
  <2>2. u.ok \cap (u.soft \cup u.hard) = {}
      BY <1>4, <1>7, <1>8
  <2> QED BY <1>7, <1>9, <2>1, <2>2 DEF AttemptOk
<1>12. u.soft \subseteq t.soft \cup {l} /\ (how = "ok" => l \notin u.soft)
    BY <1>4, <1>7, <1>8
<1>13. u.ok = IF how = "ok" THEN t.ok \cup {l} ELSE t.ok
    BY <1>5, <1>7
<1>14. u.asked = t.asked \ {l}
    BY <1>6, <1>7
<1> QED BY <1>1, <1>7, <1>9, <1>10, <1>11, <1>12, <1>13, <1>14 DEF u

LEMMA AnswerAsks ==
    \A t \in Attempt : \A l \in Lines, how \in Answers :
       Answered(t, l, how).asked \subseteq t.asked
<1> SUFFICES ASSUME NEW t \in Attempt, NEW l \in Lines, NEW how \in Answers
             PROVE  Answered(t, l, how).asked \subseteq t.asked
    OBVIOUS
<1> DEFINE a == t.asked \ {l}
           o == IF how = "ok"   THEN t.ok \cup {l} ELSE t.ok
           s == IF how = "soft" THEN t.soft \cup {l} ELSE t.soft
           h == IF how = "hard" THEN t.hard \cup {l} ELSE t.hard
<1>1. Answered(t, l, how) = [t EXCEPT !.asked = a, !.ok = o, !.soft = s, !.hard = h]
    BY DEF Answered
<1>2. a \subseteq t.asked
    OBVIOUS
<1> HIDE DEF a, o, s, h
<1>3. Answered(t, l, how).asked = a
    BY <1>1 DEF Attempt
<1> QED BY <1>2, <1>3

LEMMA AnswerOk ==
    ASSUME IInv, NEW r \in Runs, NEW l \in Lines, NEW how \in Answers, Answer(r, l, how)
    PROVE  IInv'
<1> DEFINE t   == trying[r]
           s0  == t.slot
           sl  == slot[r][s0]
           f   == sl.cur.fired
           new == Answered(t, l, how)
<1>1. /\ l \in t.asked /\ trying' = [trying EXCEPT ![r] = new]
      /\ told' = IF how = "ok" /\ f # 0 THEN [told EXCEPT ![l] = @ \cup {f}] ELSE told
      /\ UNCHANGED <<watcher, row, life, ctxDone, box, cond, wake, slot, visit,
                     fires, downs, moves, again, root, overflowed, early>>
  <2>1. /\ l \in t.asked
        /\ UNCHANGED <<watcher, row, life, ctxDone, box, cond, wake, slot, visit,
                       fires, downs, moves, again, root, overflowed, early>>
      BY Zenon DEF Answer
  <2>3. trying' = [trying EXCEPT ![r] = new]
      BY Zenon DEF Answer
  <2>2. told' = IF how = "ok" /\ f # 0 THEN [told EXCEPT ![l] = @ \cup {f}] ELSE told
      BY Zenon DEF Answer
  <2> QED BY <2>1, <2>2, <2>3
<1>2. t \in Attempt /\ slot[r] \in [SlotNames -> SlotType] /\ AttemptOk(t)
    BY RunTypes DEF IInv, Counts, CountsOk
<1>3. /\ new \in Attempt /\ new.slot = s0 /\ new.first = t.first /\ new.asked = t.asked \ {l}
      /\ new.ok = (IF how = "ok" THEN t.ok \cup {l} ELSE t.ok) /\ Asked(new) = Asked(t)
      /\ AttemptOk(new) /\ new.soft \subseteq t.soft \cup {l} /\ s0 \in SlotNames
      /\ (how = "ok" => l \notin new.soft)
  <2>1. l \in t.asked /\ t \in Attempt /\ AttemptOk(t)
      BY <1>1, <1>2
  <2> HIDE DEF t
  <2> QED BY <2>1, AnsweredIs
<1>4. /\ sl \in SlotType /\ SlotTrue(sl) /\ AttemptTrue(sl, t)
      /\ SlotOk(s0, sl, t, life[r] = "loop")
    BY <1>2, <1>3 DEF IInv, Mail, MailOk, Counts, CountsOk
<1> HIDE DEF new
<1>5. /\ f \in Times /\ f <= fires /\ f \in Nat /\ fires \in Nat
      /\ (f # 0 => s0 = "fire" /\ f = FireOf(r))
  <2>1. f \in Times /\ f \in Nat
    <3>1. \A b \in Alert \cup {NoAlert} : b.fired \in Times /\ b.fired \in Nat
        BY RunsAre DEF Alert, NoAlert
    <3> QED BY <1>4, <3>1 DEF SlotType
  <2>2. f <= fires /\ (f # 0 => sl.cur.kind = "fired")
      BY <1>4 DEF SlotTrue, AlertTrue
  <2>3. slotFor(sl.cur.kind) = s0
      BY <1>4 DEF SlotOk
  <2>4. f # 0 => s0 = "fire"
      BY <2>2, <2>3, SlotForIs
  <2> QED BY <2>1, <2>2, <2>4, FiresIs DEF IInv, FireOf
<1> HIDE DEF t, s0, sl, f
<1>6. /\ trying' \in [Runs -> Attempt] /\ trying'[r] = new
      /\ \A q \in Runs : q # r => trying'[q] = trying[q]
    BY <1>1, <1>3 DEF IInv, TypeOK, SenderType, Attempt
<1>7. UNCHANGED <<type, run, poll, stable, lastFired, resendTaken, row, life, ctxDone, box,
                  slot, visit, fires, again, root, overflowed>>
    BY <1>1 DEF watcher
<1>8. /\ told' \in [Lines -> SUBSET Times] /\ \A m \in Lines : m # l => told'[m] = told[m]
      /\ told'[l] = IF how = "ok" /\ f # 0 THEN told[l] \cup {f} ELSE told[l]
  <2>1. told \in [Lines -> SUBSET Times]
      BY DEF IInv, TypeOK, HistoryType
  <2> QED BY <1>1, <1>5, <2>1
<1>9. TypeOK'
    BY <1>1, <1>6, <1>8 DEF IInv, TypeOK, WatcherType, SenderType, HistoryType, watcher, Attempt
<1>10. Grows
    BY <1>5, <1>7, <1>8 DEF Grows
<1>11. life[r] \in {"loop", "drain"} /\ ~(r > run)
  <2>1. trying[r] # Idle /\ LifeOk(r)
      BY <1>1 DEF t, Idle, IInv, LivesOk
  <2>2. life[r] \in {"none", "loop", "drain", "gone"}
      BY DEF IInv, TypeOK, SenderType
  <2> QED BY <2>1, <2>2 DEF LifeOk
<1>12. LivesOk'
  <2>1. Current'
      BY <1>7 DEF IInv, LivesOk, Current
  <2>2. ASSUME NEW q \in Runs, q # r PROVE LifeOk(q)'
      BY <1>6, <1>7, <2>2 DEF IInv, LivesOk, LifeOk, RunOver
  <2>3. LifeOk(r)'
      BY <1>7, <1>11 DEF IInv, LivesOk, LifeOk, RunOver
  <2> QED BY <2>1, <2>2, <2>3 DEF LivesOk
<1>13. WatchOk'
  <2>1. \A m \in Lines : told'[m] \subseteq 1..fires
      BY <1>5, <1>8 DEF IInv, WatchOk
  <2> QED BY <1>7, <2>1 DEF IInv, WatchOk
<1>14. Mail'
  <2>1. ASSUME NEW q \in Runs, q # r PROVE MailOk(q)'
    <3>1. \A i \in 1..Len(box'[q]) : \E b \in Alert : b = box'[q][i] /\ AlertTrue(b)
        BY <1>7, RunTypes DEF IInv, Mail, MailOk
    <3> QED BY <1>6, <1>7, <1>9, <1>10, <2>1, <3>1, MailKeeps DEF IInv, Mail
  <2>2. ASSUME NEW i \in 1..Len(box'[r]), NEW b, b = box'[r][i] PROVE AlertTrue(b)'
    <3>1. b \in Alert /\ AlertTrue(b)
        BY <1>7, <2>2, RunTypes DEF IInv, Mail, MailOk
    <3> QED BY <1>9, <1>10, <3>1, TrueStays DEF IInv
  <2>3. ASSUME NEW s \in SlotNames, NEW x, x = slot'[r][s] PROVE SlotTrue(x)'
    <3>1. x \in SlotType /\ SlotTrue(x)
        BY <1>2, <1>7, <2>3 DEF IInv, Mail, MailOk
    <3> QED BY <1>9, <1>10, <3>1, TrueStays DEF IInv
  <2>4. ASSUME NEW x, x = slot'[r][s0], x.cur.fired # 0
        PROVE  \A m \in new.ok : \E g \in told'[m] : root'[g] = root'[x.cur.fired]
    <3>1. x = sl /\ x.cur.fired = f /\ f # 0
        BY <1>7, <2>4 DEF sl, f
    <3>2. \A m \in t.ok : Heard(m, f)
        BY <1>4, <3>1 DEF AttemptTrue, HaveHeard, f
    <3>3. t.ok \subseteq Lines /\ f \in 0..fires
        BY <1>2, <1>5 DEF Attempt
    <3>4. \A m \in Lines : Heard(m, f) => \E g \in told'[m] : root'[g] = root'[f]
        BY <1>10, <3>3, HeardStays DEF IInv, Heard
    <3>5. how = "ok" => \E g \in told'[l] : root'[g] = root'[f]
        BY <1>8, <3>1
    <3>6. \A m \in new.ok : \E g \in told'[m] : root'[g] = root'[f]
        BY <1>3, <3>2, <3>3, <3>4, <3>5
    <3> QED BY <3>1, <3>6
  <2>5. MailOk(r)'
    <3>1. ASSUME NEW s \in SlotNames, trying'[r].slot = s PROVE s = s0 /\ trying'[r].ok = new.ok
        BY <1>3, <1>6, <3>1
    <3>2. ASSUME NEW s \in SlotNames, trying'[r].slot = s
          PROVE  AttemptTrue(slot[r][s], trying[r])'
      <4>1. slot'[r][s].cur.fired # 0 =>
               \A m \in new.ok : \E g \in told'[m] : root'[g] = root'[slot'[r][s].cur.fired]
          BY <2>4, <3>1, <3>2
      <4> QED BY <3>1, <3>2, <4>1 DEF AttemptTrue, HaveHeard, Heard
    <3>3. \A s \in SlotNames : SlotTrue(slot[r][s])'
        BY <2>3 DEF SlotTrue, AlertTrue, HaveHeard, Heard
    <3>4. \A i \in 1..Len(box'[r]) : AlertTrue(box[r][i])'
        BY <2>2 DEF AlertTrue, HaveHeard, Heard
    <3> QED BY <3>2, <3>3, <3>4 DEF MailOk
  <2> QED BY <2>1, <2>5 DEF Mail
<1>15. Counts'
  <2>1. ASSUME NEW q \in Runs, q # r PROVE CountsOk(q)'
      BY <1>6, <1>7, <2>1 DEF IInv, Counts, CountsOk
  <2>2. ASSUME NEW s \in SlotNames PROVE SlotOk(s, slot[r][s], new, life[r] = "loop")
    <3>1. SlotOk(s, slot[r][s], t, life[r] = "loop")
        BY DEF IInv, Counts, CountsOk, t
    <3> QED BY <1>3, <3>1 DEF SlotOk, s0
  <2>3. CountsOk(r)'
      BY <1>3, <1>6, <1>7, <2>2 DEF CountsOk
  <2> QED BY <2>1, <2>3 DEF Counts
<1>16. Order'
  <2>1. (\A q \in Runs : InOrder(q)') /\ \A p, q \in Runs : p < q => RunsInOrder(p, q)'
      BY <1>7 DEF IInv, Order, InOrder, RunsInOrder, Before, FireOf
  <2>2. poll = "raise" => \A q \in Runs : Before(q, fires)'
      BY <1>7 DEF IInv, Order, Before, FireOf
  <2>3. ASSUME poll = "raise", NEW m \in Lines PROVE fires \notin told'[m]
    <3>1. fires \notin told[m] /\ FireOf(r) < fires /\ FireOf(r) \in Nat
        BY <2>3, RunTypes DEF IInv, Order, Before
    <3>2. f # 0 => f # fires
        BY <1>5, <3>1
    <3> QED BY <1>8, <3>1, <3>2
  <2> QED BY <1>7, <2>1, <2>2, <2>3 DEF Order
<1>17. r \in Nat /\ run \in Nat /\ (run > 0 => run \in Runs)
    BY RunsAre DEF IInv, TypeOK, WatcherType
<1>18. BoxIsNews'
  <2> SUFFICES ASSUME run > 0, NEW i \in 1..Len(box[run]), box[run][i].fired # 0, NEW m \in Lines,
                      NEW g \in told'[m]
               PROVE  g < box[run][i].fired
      BY <1>7 DEF BoxIsNews, NotTold
  <2>1. CASE g \in told[m]
      BY <2>1 DEF IInv, BoxIsNews, NotTold
  <2>2. CASE g \notin told[m]
    <3>1. g = f /\ f # 0 /\ f = FireOf(r)
        BY <1>5, <1>8, <2>2
    <3>2. CASE run = r
        BY <3>1, <3>2 DEF IInv, Order, InOrder
    <3>3. CASE run # r
      <4>1. RunsInOrder(r, run)
          BY <1>11, <1>17, <3>3 DEF IInv, Order
      <4> QED BY <3>1, <4>1 DEF RunsInOrder, Before
    <3> QED BY <3>2, <3>3
  <2> QED BY <2>1, <2>2
<1>19. SlotIsNews'
  <2> SUFFICES ASSUME run > 0, FireOf(run) # 0, NEW m \in Lines
               PROVE  /\ \A g \in told'[m] : g <= FireOf(run)
                      /\ MayAsk(m, slot[run]["fire"], trying'[run])
                            => \A g \in told'[m] : g < FireOf(run)
      BY <1>7 DEF SlotIsNews, NotTold, FireOf
  <2>1. /\ \A g \in told[m] : g <= FireOf(run)
        /\ MayAsk(m, slot[run]["fire"], trying[run]) => \A g \in told[m] : g < FireOf(run)
      BY DEF IInv, SlotIsNews, NotTold
  <2>2. FireOf(r) \in Nat /\ FireOf(run) \in Nat
      BY <1>17, RunTypes DEF IInv
  <2>3. f # 0 /\ run # r => f < FireOf(run)
    <3> SUFFICES ASSUME f # 0, run # r PROVE f < FireOf(run)
        OBVIOUS
    <3>1. RunsInOrder(r, run)
        BY <1>11, <1>17 DEF IInv, Order
    <3> QED BY <1>5, <3>1 DEF RunsInOrder, Before
  <2>4. \A g \in told'[m] : g \in told[m] \/ (g = f /\ f # 0 /\ m = l /\ how = "ok")
      BY <1>8
  <2>5. \A g \in told'[m] : g <= FireOf(run)
      BY <1>5, <2>1, <2>2, <2>3, <2>4
  <2>6. ASSUME MayAsk(m, slot[run]["fire"], trying'[run]), NEW g \in told'[m]
        PROVE  g < FireOf(run)
    <3>1. CASE run # r
      <4>1. trying'[run] = trying[run]
          BY <1>6, <1>17, <3>1
      <4> QED BY <2>1, <2>3, <2>4, <2>6, <3>1, <4>1
    <3>2. CASE run = r
      <4>1. MayAsk(m, slot[r]["fire"], new)
          BY <1>6, <2>6, <3>2
      <4>2. MayAsk(m, slot[r]["fire"], t)
          BY <1>1, <1>3, <4>1 DEF MayAsk, s0
      <4>3. ~(m = l /\ how = "ok" /\ f # 0)
          BY <1>3, <1>5, <4>1 DEF MayAsk
      <4> QED BY <2>1, <2>4, <3>2, <4>2, <4>3 DEF t
    <3> QED BY <3>1, <3>2
  <2> QED BY <2>5, <2>6
<1>20. ASSUME NEW S \in SUBSET Lines, NEW g \in 0..fires, HaveHeard(S, g)
       PROVE  \A m \in S : \E h \in told'[m] : root'[h] = root'[g]
    BY <1>10, <1>20, HeardStays DEF IInv, HaveHeard, Heard
<1>21. Resend'
  <2>1. resendTaken \in SUBSET Lines /\ fires \in 0..fires
      BY <1>5 DEF IInv, TypeOK, WatcherType
  <2>2. HaveHeard(resendTaken, fires)
           => \A m \in resendTaken : \E h \in told'[m] : root'[h] = root'[fires]
      BY <1>20, <2>1
  <2> QED BY <1>7, <2>2 DEF IInv, Resend, HaveHeard, Heard
<1>22. Kept'
  <2>1. Lines \in SUBSET Lines /\ lastFired \in 0..fires
      BY <1>5 DEF IInv, WatchOk
  <2>2. HaveHeard(Lines, lastFired)
           => \A m \in Lines : \E h \in told'[m] : root'[h] = root'[lastFired]
      BY <1>20, <2>1
  <2> QED BY <1>7, <2>2 DEF IInv, Kept, OnItsWay, HaveHeard, Heard, FireOf
<1>23. StoreTruthful'
    BY <1>7, <1>9, <1>10, StoreKeeps
<1> QED BY <1>9, <1>12, <1>13, <1>14, <1>15, <1>16, <1>18, <1>19, <1>21, <1>22, <1>23 DEF IInv

-----------------------------------------------------------------------------
(* Every step, and what follows. *)

LEMMA InitOk == ASSUME Init PROVE IInv
<1>1. /\ type \in Types /\ run = 0 /\ poll = "off" /\ stable = "unset" /\ lastFired = 0
      /\ down = FALSE /\ moved = FALSE /\ resendTaken = {} /\ row = NoRow
      /\ life = [r \in Runs |-> "none"] /\ ctxDone = [r \in Runs |-> FALSE]
      /\ box = [r \in Runs |-> << >>] /\ wake = [r \in Runs |-> FALSE]
      /\ cond = [r \in Runs |-> [fire |-> FALSE, down |-> FALSE, moved |-> FALSE]]
      /\ slot = [r \in Runs |-> EmptySlots]
      /\ trying = [r \in Runs |-> Idle] /\ visit = [r \in Runs |-> {}]
      /\ fires = 0 /\ downs = 0 /\ moves = 0 /\ again = FALSE
      /\ root = [f \in Times |-> f] /\ told = [l \in Lines |-> {}] /\ overflowed = {}
      /\ early = {}
    BY DEF Init, EmptySlots
<1>2. \A r \in Runs : /\ box[r] = << >> /\ slot[r] = EmptySlots /\ trying[r] = Idle
                      /\ visit[r] = {} /\ life[r] = "none" /\ FireOf(r) = 0
                      /\ \A s \in SlotNames : slot[r][s] = EmptySlot
    BY <1>1, EmptyIs DEF EmptySlots, FireOf, SlotNames
<1>3. TypeOK
  <2>1. WatcherType
    <3>1. run \in 0..MaxRuns /\ lastFired \in Times
        BY <1>1, RunsAre
    <3>2. stable \in Stables /\ resendTaken \subseteq Lines
        BY <1>1 DEF Stables
    <3> QED BY <1>1, <3>1, <3>2, Zenon DEF WatcherType
  <2>2. SenderType
    <3>1. << >> \in Seq(Alert) /\ Len(<< >>) = 0 /\ OutboxSize \in Nat /\ 0 <= OutboxSize
        BY AlertsAssumption
    <3>2. box \in [Runs -> Seq(Alert)] /\ \A r \in Runs : Len(box[r]) <= OutboxSize
        BY <1>1, <3>1
    <3>3. [fire |-> FALSE, down |-> FALSE, moved |-> FALSE] \in Condition
        BY DEF Condition
    <3>4. cond \in [Runs -> Condition]
        BY <1>1, <3>3
    <3>5. /\ life \in [Runs -> {"none", "loop", "drain", "gone"}] /\ wake \in [Runs -> BOOLEAN]
          /\ ctxDone \in [Runs -> BOOLEAN] /\ visit \in [Runs -> SUBSET SlotNames]
          /\ slot \in [Runs -> [SlotNames -> SlotType]] /\ trying \in [Runs -> Attempt]
        BY <1>1, EmptyIs
    <3> QED BY <3>2, <3>4, <3>5 DEF SenderType, Attempt
  <2>3. HistoryType
    <3>1. 0 \in Times /\ 0 \in 0..MaxDowns /\ 0 \in 0..MaxMoves
        BY AlertsAssumption DEF Times
    <3> QED BY <1>1, <3>1 DEF HistoryType
  <2>4. row \in [fired : Times, stable : Stables, delivered : BOOLEAN, taken : SUBSET Lines]
      BY <1>1, RunsAre DEF NoRow, Stables
  <2> QED BY <2>1, <2>2, <2>3, <2>4 DEF TypeOK
<1>4. LivesOk
    BY <1>1, <1>2 DEF LivesOk, Current, LifeOk
<1>5. WatchOk
    BY <1>1 DEF WatchOk, NoRow
<1>6. Mail
    BY <1>2, <1>3, EmptyTrue, EmptyIs DEF Mail, MailOk, SlotNames
<1>7. Counts
    BY <1>2, EmptyIs DEF Counts, CountsOk, SlotOk, AttemptOk, SlotNames, Idle
<1>8. Order /\ BoxIsNews /\ SlotIsNews
    BY <1>1, <1>2 DEF Order, InOrder, RunsInOrder, BoxIsNews, SlotIsNews
<1>9. Resend /\ Kept /\ StoreTruthful
    BY <1>1 DEF Resend, Kept, StoreTruthful, NoRow
<1> QED BY <1>3, <1>4, <1>5, <1>6, <1>7, <1>8, <1>9 DEF IInv

LEMMA StutterOk == ASSUME IInv, UNCHANGED vars PROVE IInv'
<1>1. /\ UNCHANGED <<type, run, poll, stable, lastFired, down, moved, resendTaken, row>>
      /\ UNCHANGED <<life, ctxDone, box, cond, wake, slot, trying, visit>>
      /\ UNCHANGED <<fires, downs, moves, again, root, told, overflowed, early>>
    BY DEF vars, watcher, sending, history
<1>2. TypeOK'
    BY <1>1 DEF IInv, TypeOK, WatcherType, SenderType, HistoryType
<1>3. Mail' /\ Counts' /\ Order' /\ BoxIsNews' /\ SlotIsNews'
    BY <1>1, <1>2, SameMail
<1>4. LivesOk'
    BY <1>1 DEF IInv, LivesOk, Current, LifeOk, RunOver
<1>5. WatchOk' /\ Resend' /\ StoreTruthful'
    BY <1>1 DEF IInv, WatchOk, Resend, StoreTruthful, HaveHeard, Heard
<1>6. Kept'
    BY <1>1 DEF IInv, Kept, OnItsWay, HaveHeard, Heard, FireOf
<1> QED BY <1>2, <1>3, <1>4, <1>5, <1>6 DEF IInv

LEMMA PollOk == ASSUME IInv, Poll PROVE IInv'
BY GoesDownOk, RecoversOk, MovesOk, MovesBackOk, SettlesOk, PixelFiresOk, ForgetsOk,
   RaisesFireOk, noteConditionOk, RunReturnsOk DEF Poll

LEMMA SenderOk == ASSUME IInv, NEW r \in Runs, Sender(r) PROVE IInv'
BY TakeOk, SortOk, WakesOk, DueOk, StopsTryingOk, EndsOk, AnswerOk, RetryOk DEF Sender

LEMMA NextOk == IInv /\ [Next]_vars => IInv'
<1> SUFFICES ASSUME IInv, [Next]_vars PROVE IInv'
    OBVIOUS
<1> QED BY PollOk, StopOk, CrashOk, StartOk, SenderOk, StutterOk DEF Next

\* The inductive invariant: every part of IInv holds at every step of every
\* behaviour, crashes included.
THEOREM Inductive == Spec => []IInv
<1>1. Init => IInv
    BY InitOk
<1> QED BY <1>1, NextOk, PTL DEF Spec

\* What the row says of the last alert is so, and every variable has its type:
\* a row marked delivered was taken by every URL, a URL listed as a taker took
\* it (report, MarkDelivered, MarkTaken, SaveTriggerState), whichever run's
\* sender wrote it and whatever stopped or crashed in between.
THEOREM StoreIsTruthful == Spec => []Inv
<1>1. IInv => Inv
    BY DEF IInv, Inv
<1> QED BY <1>1, Inductive, PTL

-----------------------------------------------------------------------------
(* Who lets a URL off, and when. *)

\* Between polls what was noted is what the evaluator settled on; and while the
\* condition stands no URL was let off its fire, but those of early.
NotedOk == poll \in {"idle", "drift", "eval"} => (cond[run].fire <=> fireHolds(stable))
LetOffOk ==
    poll \notin {"off", "raise"} /\ stable = "met" /\ FireOf(run) = lastFired
    => slot[run]["fire"].dropped \subseteq early
EInv == NotedOk /\ LetOffOk

\* A sender that takes a step is at work, on a run that has begun.
LEMMA SenderIs ==
    ASSUME IInv, NEW r \in Runs, Sender(r)
    PROVE  life[r] \in {"loop", "drain"} /\ run \in Runs /\ r <= run /\ run' = run
<1>1. LifeOk(r) /\ life[r] \in {"none", "loop", "drain", "gone"}
    BY DEF IInv, LivesOk, TypeOK, SenderType
<1>2. trying[r] # Idle \/ visit[r] # {} \/ life[r] \in {"loop", "drain"}
  <2>1. CASE \E l \in Lines, how \in Answers : Answer(r, l, how)
      BY <2>1 DEF Answer, Idle
  <2>2. CASE \E due \in SUBSET Lines : Retry(r, due)
      BY <2>2 DEF Retry
  <2>3. CASE Sort(r)
      BY <2>3 DEF Sort, Idle
  <2>4. CASE Take(r) \/ Wakes(r) \/ Due(r) \/ StopsTrying(r) \/ Ends(r)
      BY <2>4 DEF Take, Wakes, Due, StopsTrying, Ends
  <2> QED BY <2>1, <2>2, <2>3, <2>4 DEF Sender
<1>3. life[r] \in {"loop", "drain"}
    BY <1>1, <1>2 DEF LifeOk
<1>4. ~(r > run)
    BY <1>1, <1>3 DEF LifeOk
<1>5. run' = run
    BY DEF Sender, Take, Sort, Wakes, Due, StopsTrying, Ends, Answer, Retry, watcher
<1> QED BY <1>3, <1>4, <1>5, RunsAre DEF IInv, TypeOK, WatcherType

\* attempt lets no URL off.
LEMMA SortLeaves ==
    ASSUME IInv, NEW q \in Runs, NEW r \in Runs, Sort(q)
    PROVE  /\ \/ slot'[r]["fire"] = slot[r]["fire"]
              \/ /\ slot'[r]["fire"].dropped = slot[r]["fire"].dropped
                 /\ slot'[r]["fire"].cur = slot[r]["fire"].cur
           /\ UNCHANGED <<watcher, cond, history>>
<1> DEFINE t    == trying[q]
           s0   == t.slot
           sl   == slot[q][s0]
           cut  == ~t.first /\ ctxDone[q]
           soft == IF cut \/ life[q] = "drain" THEN {} ELSE t.soft
           hard == IF cut THEN {} ELSE t.hard \cup (t.soft \ soft)
           new  == [sl EXCEPT !.owed = StillOwed(sl, t.ok, soft, hard),
                              !.failed = @ \cup hard, !.taken = @ \cup t.ok]
<1>1. slot' = [slot EXCEPT ![q][s0] = new] /\ s0 # "none" /\ UNCHANGED <<watcher, cond, history>>
    BY DEF Sort
<1>2. slot \in [Runs -> [SlotNames -> SlotType]] /\ t \in Attempt
    BY RunTypes DEF IInv, TypeOK, SenderType
<1>3. s0 \in SlotNames /\ sl \in SlotType /\ "fire" \in SlotNames
    BY <1>1, <1>2 DEF Attempt, SlotNames
<1>4. new.dropped = sl.dropped /\ new.cur = sl.cur
    BY <1>3 DEF SlotType
<1> HIDE DEF new
<1>5. CASE q = r /\ s0 = "fire"
  <2>1. slot'[r]["fire"] = new
      BY <1>1, <1>2, <1>3, <1>5
  <2> QED BY <1>1, <1>4, <1>5, <2>1
<1>6. CASE ~(q = r /\ s0 = "fire")
  <2>1. slot'[r]["fire"] = slot[r]["fire"]
      BY <1>1, <1>2, <1>3, <1>6
  <2> QED BY <1>1, <2>1
<1> QED BY <1>5, <1>6

\* A step of a sender leaves the watcher alone.
LEMMA SenderLeaves ==
    ASSUME IInv, EInv, UNCHANGED <<watcher, cond>>, early \subseteq early',
           \/ slot'[run]["fire"] = slot[run]["fire"]
           \/ /\ slot'[run]["fire"].dropped \subseteq slot[run]["fire"].dropped
              /\ slot'[run]["fire"].cur = slot[run]["fire"].cur
           \/ slot'[run]["fire"].dropped = {}
    PROVE  EInv'
BY DEF EInv, NotedOk, LetOffOk, FireOf, fireHolds, watcher

\* A fire's slot in the current run, as long as its condition stands, is not
\* pruned but in the poll that raised it, before that noted what it read.
LEMMA PruneEarly ==
    ASSUME IInv, EInv, NEW r \in Runs, trying[r] = Idle, Prunes(r), life[r] = "loop"
    PROVE  \/ slot'[r]["fire"] = slot[r]["fire"]
           \/ /\ slot[r]["fire"].owed # {} /\ slot'[r]["fire"].dropped = slot[r]["fire"].owed
              /\ slot'[r]["fire"].cur = slot[r]["fire"].cur
              /\ \/ RunOver(r)
                 \/ r = run /\ ~FireStands
                 \/ r = run /\ Unnoted /\ FireStands /\ slot'[r]["fire"].dropped \subseteq early'
<1>1. slot'[r] = Pruned(r) /\ "fire" \in SlotNames /\ run \in 0..MaxRuns
    BY DEF Prunes, IInv, TypeOK, SenderType, WatcherType, SlotNames
<1> DEFINE old == slot[r]["fire"]
           new == Pruned(r)["fire"]
<1>2. new.cur = old.cur
      /\ \/ new = old
         \/ /\ old.owed # {} /\ new.dropped = old.owed /\ ~condHolds(r, old.cur.kind)
    BY <1>1, PrunedIs
<1> SUFFICES ASSUME old.owed # {}, new.dropped = old.owed, ~condHolds(r, old.cur.kind),
                    ~RunOver(r)
             PROVE  r = run /\ (~FireStands \/ (Unnoted /\ FireStands /\ new.dropped \subseteq early'))
    BY <1>1, <1>2
<1>3. old.cur.kind = "fired"
  <2>1. old # EmptySlot
      BY EmptyIs
  <2>2. /\ SlotTrue(old) /\ slotFor(old.cur.kind) = "fire" /\ old.cur # NoAlert
        /\ old \in SlotType
      BY <1>1, <2>1, WaitingIs DEF IInv, Mail, MailOk
  <2>3. old.cur.kind \in {"fired", "down", "recovered", "moved"}
      BY <2>2 DEF SlotType, Alert
  <2> QED BY <2>2, <2>3, SlotForIs
<1>4. ~cond[r].fire
    BY <1>3 DEF condHolds
<1>5. r = run /\ poll # "off"
  <2>1. ~(r > run)
      BY DEF IInv, LivesOk, LifeOk
  <2> QED BY <1>1, <2>1, RunsAre DEF RunOver
<1>6. SUFFICES ASSUME FireStands PROVE Unnoted /\ new.dropped \subseteq early'
    BY <1>5
<1>7. poll # "raise"
  <2>1. poll = "raise" => FireOf(run) < fires /\ lastFired = fires
      BY <1>5 DEF IInv, Order, Before, WatchOk
  <2>2. FireOf(run) = lastFired /\ FireOf(run) \in Nat
      BY <1>5, <1>6, RunTypes DEF FireStands, FireOf, IInv
  <2> QED BY <2>1, <2>2
<1>8. poll = "note"
    BY <1>4, <1>5, <1>6, <1>7 DEF EInv, NotedOk, FireStands, IInv, TypeOK, WatcherType
<1>9. Unnoted
    BY <1>4, <1>5, <1>8 DEF Unnoted
<1>10. early' = early \cup (old.owed \cap new.dropped)
    BY <1>5, <1>6, <1>9 DEF Prunes
<1> QED BY <1>9, <1>10

LEMMA PollEarly == ASSUME IInv, EInv, Poll PROVE EInv'
<1>1. CASE GoesDown \/ Recovers \/ MovesBack \/ ReadsNothingNew \/ \E b \in BOOLEAN : Moves(b)
  <2>1. /\ poll \in {"idle", "drift", "eval"} /\ poll' \in {"drift", "eval", "note"}
        /\ UNCHANGED <<type, run, stable, lastFired, cond, slot, early>>
      BY <1>1, BeginsOk, ReadsOk
         DEF GoesDown, Recovers, MovesBack, Moves, ReadsNothingNew, Reads, sending, history
  <2> QED BY <2>1 DEF EInv, NotedOk, LetOffOk, FireOf, fireHolds
<1>2. CASE \E k \in Keys(type) : Settles(k)
  <2>1. PICK k \in Keys(type) : Settles(k)
      BY <1>2
  <2>2. poll' = "raise" \/ (poll' = "note" /\ stable' # "met")
    <3>1. CASE type = "match"
        BY <2>1, <3>1 DEF Settles
    <3>2. CASE type # "match"
      <4>1. type \in TriggerTypes
          BY AlertsAssumption DEF IInv, TypeOK, WatcherType
      <4>2. k # "met"
          BY <2>1, <3>2, <4>1 DEF Keys, TriggerTypes
      <4>3. poll' \in {"raise", "note"} /\ stable' = k
          BY <2>1 DEF Settles
      <4> QED BY <4>2, <4>3
    <3> QED BY <3>1, <3>2
  <2> QED BY <2>2 DEF EInv, NotedOk, LetOffOk
<1>3. CASE PixelFires \/ Forgets \/ RunReturns
  <2>1. poll' = "raise" \/ poll' = "off" \/ (poll' = "note" /\ stable' = "unset")
      BY <1>3 DEF PixelFires, Forgets, RunReturns
  <2> QED BY <2>1 DEF EInv, NotedOk, LetOffOk
<1>4. CASE RaisesFire
  <2>1. poll = "raise" /\ poll' = "note" /\ UNCHANGED <<run, lastFired, slot>>
      BY <1>4 DEF RaisesFire
  <2>2. run \in Runs
      BY <2>1, RunsAre DEF IInv, LivesOk, Current, TypeOK, WatcherType
  <2>3. FireOf(run) < lastFired /\ FireOf(run) \in Nat /\ lastFired \in Nat
      BY <2>1, <2>2, RunTypes, FiresIs DEF IInv, Order, Before, WatchOk
  <2> QED BY <2>1, <2>3 DEF EInv, NotedOk, LetOffOk, FireOf
<1>5. CASE noteCondition
  <2>1. /\ poll = "note" /\ poll' = "idle" /\ cond' = [cond EXCEPT ![run] = Noted(stable, down, moved)]
        /\ UNCHANGED <<type, run, stable, lastFired, slot, early>>
      BY <1>5 DEF noteCondition, history
  <2>2. run \in Runs
      BY <2>1, RunsAre DEF IInv, LivesOk, Current, TypeOK, WatcherType
  <2>3. cond'[run] = Noted(stable, down, moved)
      BY <2>1, <2>2 DEF IInv, TypeOK, SenderType
  <2>4. cond'[run].fire = fireHolds(stable)
      BY <2>3 DEF Noted
  <2> QED BY <2>1, <2>4 DEF EInv, NotedOk, LetOffOk, FireOf, fireHolds
<1> QED BY <1>1, <1>2, <1>3, <1>4, <1>5 DEF Poll

LEMMA StartEarly ==
    ASSUME IInv, EInv, NEW same \in BOOLEAN, NEW recent \in BOOLEAN, Start(same, recent)
    PROVE  EInv'
<1>1. PICK q \in Runs : q = run + 1
  <2>1. run \in Nat /\ run < MaxRuns
      BY RunsAre DEF IInv, TypeOK, WatcherType, Start
  <2> QED BY <2>1, RunsAre
<1>2. /\ run' = q /\ poll' = "idle" /\ UNCHANGED <<type, slot>>
      /\ cond' = [cond EXCEPT ![q] = Noted(stable', down, FALSE)]
    BY <1>1 DEF Start
<1>3. cond'[q] = Noted(stable', down, FALSE)
    BY <1>2 DEF IInv, TypeOK, SenderType
<1>4. cond'[q].fire = fireHolds(stable')
    BY <1>3 DEF Noted
<1>5. slot[q]["fire"].dropped = {}
  <2>1. q > run
      BY <1>1, RunsAre DEF IInv, TypeOK, WatcherType
  <2>2. slot[q] = EmptySlots
      BY <2>1 DEF IInv, LivesOk, LifeOk
  <2> QED BY <2>2 DEF EmptySlots, EmptySlot, SlotNames
<1>6. NotedOk'
    BY <1>2, <1>4 DEF NotedOk, fireHolds
<1>7. LetOffOk'
    BY <1>2, <1>5 DEF LetOffOk
<1> QED BY <1>6, <1>7 DEF EInv

LEMMA SenderEarly == ASSUME IInv, EInv, NEW q \in Runs, Sender(q) PROVE EInv'
<1>0. slot \in [Runs -> [SlotNames -> SlotType]] /\ "fire" \in SlotNames /\ run \in Runs
    BY SenderIs DEF IInv, TypeOK, SenderType, SlotNames
<1>1. CASE Take(q)
  <2> DEFINE a == Head(box[q])
             new == Fresh(a)
  <2>1. /\ slot' = [slot EXCEPT ![q][slotFor(a.kind)] = new]
        /\ UNCHANGED <<watcher, cond, history>>
      BY <1>1, Zenon DEF Take, Fresh
  <2>2. new.dropped = {}
      BY DEF Fresh, EmptySlot
  <2> HIDE DEF a, new
  <2>3. slot'[run]["fire"] = slot[run]["fire"] \/ slot'[run]["fire"] = new
      BY <1>0, <2>1
  <2> QED BY <2>1, <2>2, <2>3, SenderLeaves DEF history
<1>2. CASE Sort(q)
  <2>1. /\ \/ slot'[run]["fire"] = slot[run]["fire"]
           \/ /\ slot'[run]["fire"].dropped = slot[run]["fire"].dropped
              /\ slot'[run]["fire"].cur = slot[run]["fire"].cur
        /\ UNCHANGED <<watcher, cond, history>>
      BY <1>0, <1>2, SortLeaves
  <2> QED BY <2>1, SenderLeaves DEF history
<1>3. CASE Wakes(q) \/ \E due \in SUBSET Lines : Retry(q, due)
  <2>1. \/ trying[q] = Idle /\ Prunes(q)
        \/ slot' = slot /\ early' = early
      BY <1>3, Zenon DEF Wakes, Waiting, Retry
  <2>2. UNCHANGED <<watcher, cond>> /\ life[q] = "loop"
      BY <1>3 DEF Wakes, Retry, IInv, LivesOk, LifeOk
  <2>3. CASE slot' = slot /\ early' = early
      BY <2>2, <2>3, SenderLeaves
  <2>4. CASE trying[q] = Idle /\ Prunes(q)
    <3>1. early \subseteq early'
        BY <2>4, PruneTypes
    <3>2. slot' = [slot EXCEPT ![q] = Pruned(q)]
        BY <2>4 DEF Prunes
    <3>3. CASE q # run
      <4>1. slot'[run] = slot[run]
          BY <1>0, <3>2, <3>3
      <4> QED BY <2>2, <3>1, <4>1, SenderLeaves
    <3>4. CASE q = run
      <4>1. \/ slot'[run]["fire"] = slot[run]["fire"]
            \/ /\ slot'[run]["fire"].cur = slot[run]["fire"].cur
               /\ \/ poll = "off" \/ ~FireStands
                  \/ slot'[run]["fire"].dropped \subseteq early'
        <5>1. RunOver(run) => poll = "off"
            BY <1>0, RunsAre DEF RunOver
        <5> QED BY <2>2, <2>4, <3>4, <5>1, PruneEarly
      <4>2. CASE slot'[run]["fire"] = slot[run]["fire"]
          BY <2>2, <3>1, <4>2, SenderLeaves
      <4>3. CASE /\ slot'[run]["fire"].cur = slot[run]["fire"].cur
                 /\ \/ poll = "off" \/ ~FireStands
                    \/ slot'[run]["fire"].dropped \subseteq early'
          BY <2>2, <4>3 DEF EInv, NotedOk, LetOffOk, FireOf, FireStands, fireHolds, watcher
      <4> QED BY <4>1, <4>2, <4>3
    <3> QED BY <3>3, <3>4
  <2> QED BY <2>1, <2>3, <2>4
<1>4. CASE StopsTrying(q)
  <2>1. slot' = [slot EXCEPT ![q] = LetGo(q)] /\ UNCHANGED <<watcher, cond, history>>
      BY <1>4 DEF StopsTrying
  <2>2. \/ slot'[run]["fire"] = slot[run]["fire"]
        \/ slot'[run]["fire"] = [slot[run]["fire"] EXCEPT !.owed = {}]
      BY <1>0, <2>1 DEF LetGo
  <2>3. /\ [slot[run]["fire"] EXCEPT !.owed = {}].dropped = slot[run]["fire"].dropped
        /\ [slot[run]["fire"] EXCEPT !.owed = {}].cur = slot[run]["fire"].cur
      BY <1>0 DEF SlotType
  <2> QED BY <2>1, <2>2, <2>3, SenderLeaves DEF history
<1>5. CASE Ends(q)
  <2>1. slot' = [slot EXCEPT ![q] = EmptySlots] /\ UNCHANGED <<watcher, cond, history>>
      BY <1>5 DEF Ends, EmptySlots
  <2>2. EmptySlots["fire"].dropped = {}
      BY DEF EmptySlots, EmptySlot, SlotNames
  <2>3. slot'[run]["fire"] = slot[run]["fire"] \/ slot'[run]["fire"].dropped = {}
      BY <1>0, <2>1, <2>2
  <2> QED BY <2>1, <2>3, SenderLeaves DEF history
<1>6. CASE Due(q) \/ \E m \in Lines, how \in Answers : Answer(q, m, how)
  <2>1. UNCHANGED <<watcher, cond, slot, early>>
      BY <1>6 DEF Due, Answer, history
  <2> QED BY <2>1, SenderLeaves
<1> QED BY <1>1, <1>2, <1>3, <1>4, <1>5, <1>6 DEF Sender

LEMMA EarlyNext == IInv /\ EInv /\ [Next]_vars => EInv'
<1> SUFFICES ASSUME IInv, EInv, [Next]_vars PROVE EInv'
    OBVIOUS
<1>1. CASE UNCHANGED vars
    BY <1>1 DEF vars, watcher, sending, history, EInv, NotedOk, LetOffOk, FireOf, fireHolds
<1>2. CASE Stop
    BY <1>2 DEF Stop, watcher, history, EInv, NotedOk, LetOffOk, FireOf, fireHolds
<1>3. CASE Crash
    BY <1>3 DEF Crash, EInv, NotedOk, LetOffOk
<1> QED BY <1>1, <1>2, <1>3, PollEarly, StartEarly, SenderEarly DEF Next

LEMMA EarlyHolds == Spec => []EInv
<1>1. Init => EInv
    BY DEF Init, EInv, NotedOk, LetOffOk
<1> QED BY <1>1, EarlyNext, Inductive, PTL DEF Spec

-----------------------------------------------------------------------------
(* No URL is forgotten. *)

LEMMA NothingLostHolds == IInv /\ EInv => NothingLost
<1> SUFFICES ASSUME IInv, EInv, type = "match", stable = "met", poll = "idle", NEW l \in Lines
             PROVE  \/ Heard(l, lastFired) \/ lastFired \in overflowed
                    \/ Queued(l, lastFired) \/ Standing(l, lastFired) \/ l \in early
                    \/ ctxDone[run] /\ row.fired = lastFired /\ ~row.delivered
    BY DEF NothingLost
<1>1. run \in Runs /\ lastFired # 0 /\ row.fired = lastFired
    BY RunsAre DEF IInv, LivesOk, Current, TypeOK, WatcherType, WatchOk
<1>2. CASE ctxDone[run]
    BY <1>1, <1>2 DEF IInv, StoreTruthful
<1>3. CASE ~ctxDone[run]
  <2>1. OnItsWay
      BY <1>3 DEF IInv, Kept
  <2>2. CASE HaveHeard(Lines, lastFired) \/ lastFired \in overflowed
      BY <2>2 DEF HaveHeard
  <2>3. ASSUME NEW i \in 1..Len(box[run]), box[run][i].fired = lastFired
        PROVE  Heard(l, lastFired) \/ Queued(l, lastFired)
    <3>1. AlertTrue(box[run][i]) /\ DOMAIN box[run] = 1..Len(box[run])
        BY <1>1, RunTypes DEF IInv, Mail, MailOk
    <3>2. l \in box[run][i].skip => Heard(l, lastFired)
        BY <1>1, <2>3, <3>1 DEF AlertTrue, HaveHeard
    <3>3. l \notin box[run][i].skip => Queued(l, lastFired)
        BY <2>3, <3>1 DEF Queued
    <3> QED BY <3>2, <3>3
  <2>4. CASE FireOf(run) = lastFired
    <3> DEFINE sl == slot[run]["fire"]
               t  == trying[run]
    <3>1. life[run] = "loop"
        BY <1>1, <1>3 DEF IInv, LivesOk, Current, LifeOk
    <3>2. /\ SlotOk("fire", sl, t, life[run] = "loop") /\ SlotTrue(sl)
          /\ (t.slot = "fire" => AttemptTrue(sl, t))
        BY <1>1 DEF IInv, Counts, CountsOk, Mail, MailOk, SlotNames
    <3>3. sl.cur.fired = lastFired
        BY <2>4 DEF FireOf
    <3> HIDE DEF sl, t
    <3>4. sl # EmptySlot
        BY <1>1, <3>3, EmptyIs
    <3>5. l \in Known(sl) \/ (t.slot = "fire" /\ l \in Asked(t))
        BY <3>1, <3>2, <3>4 DEF SlotOk
    <3>6. l \in sl.taken => Heard(l, lastFired)
        BY <1>1, <3>2, <3>3 DEF SlotTrue, HaveHeard
    <3>7. t.slot = "fire" /\ l \in t.ok => Heard(l, lastFired)
        BY <1>1, <3>2, <3>3 DEF AttemptTrue, HaveHeard
    <3>8. \/ l \in sl.owed \cup sl.failed \/ l \in early
          \/ t.slot = "fire" /\ l \in t.asked \cup t.soft \cup t.hard
          \/ Heard(l, lastFired)
      <4>1. sl.dropped \subseteq early
          BY <2>4 DEF EInv, LetOffOk, sl
      <4> QED BY <3>5, <3>6, <3>7, <4>1 DEF Known, Asked
    <3> QED BY <3>3, <3>8 DEF Standing, sl, t
  <2> QED BY <2>1, <2>2, <2>3, <2>4 DEF OnItsWay
<1> QED BY <1>2, <1>3

\* While the condition stands as met, no URL has been forgotten or let off: it
\* took the alert or refused it, or the alert waits for it or was lost to a full
\* outbox, or the sender is stopping and the row says the alert is still to be
\* delivered (restoreState sends it again).  The one exception is a URL let off
\* in the poll that raised the fire, before that poll noted what it had read.
THEOREM NoUrlForgotten == Spec => []NothingLost
BY Inductive, EarlyHolds, NothingLostHolds, PTL

-----------------------------------------------------------------------------
(* What a step may never do. *)

\* The only steps that begin an attempt are the first try and a retry.
LEMMA AsksIs ==
    ASSUME IInv, Next, NEW l, l \in trying'[run'].asked \ trying[run'].asked
    PROVE  /\ run \in Runs /\ run' = run
           /\ Take(run) \/ \E due \in SUBSET Lines : Retry(run, due)
<1>1. trying' # trying
    OBVIOUS
<1>2. ~Poll /\ ~Stop /\ ~\E same, recent \in BOOLEAN : Start(same, recent)
    BY <1>1 DEF Poll, Stop, Start, GoesDown, Recovers, MovesBack, Moves, Settles, PixelFires,
       Forgets, ReadsNothingNew, RaisesFire, noteCondition, RunReturns, sending
<1>3. ~Crash
  <2> SUFFICES ASSUME Crash PROVE FALSE
      OBVIOUS
  <2>1. run' = run /\ run > 0 /\ trying' = [r \in Runs |-> Idle]
      BY DEF Crash
  <2>2. run \in Runs
      BY <2>1, RunsAre DEF IInv, TypeOK, WatcherType
  <2> QED BY <2>1, <2>2 DEF Idle
<1>4. PICK r \in Runs : Sender(r)
    BY <1>2, <1>3 DEF Next
<1>5. run \in Runs /\ run' = run /\ r <= run
    BY <1>4, SenderIs
<1>6. CASE Take(r) \/ \E due \in SUBSET Lines : Retry(r, due)
  <2>1. r = run
    <3> SUFFICES ASSUME r # run PROVE trying'[run] = trying[run]
        BY <1>5
    <3>1. \A q \in Runs : q # r => trying'[q] = trying[q]
      <4>1. trying \in [Runs -> Attempt]
          BY DEF IInv, TypeOK, SenderType, Attempt
      <4>2. trying' = trying \/ \E t : trying' = [trying EXCEPT ![r] = t]
          BY <1>6, Zenon DEF Take, Retry, Tries
      <4> QED BY <4>1, <4>2
    <3> QED BY <1>5, <3>1
  <2> QED BY <1>5, <1>6, <2>1
<1>7. CASE \E m \in Lines, how \in Answers : Answer(r, m, how)
  <2>1. PICK m \in Lines, how \in Answers : Answer(r, m, how)
      BY <1>7
  <2>2. m \in trying[r].asked /\ trying' = [trying EXCEPT ![r] = Answered(trying[r], m, how)]
      BY <2>1 DEF Answer
  <2>3. trying[r] \in Attempt /\ AttemptOk(trying[r]) /\ trying \in [Runs -> Attempt]
      BY RunTypes DEF IInv, Counts, CountsOk, TypeOK, SenderType, Attempt
  <2>4. Answered(trying[r], m, how).asked \subseteq trying[r].asked
      BY <2>2, <2>3, AnswerAsks
  <2>5. trying'[run].asked \subseteq trying[run].asked
      BY <1>5, <2>2, <2>3, <2>4
  <2> QED BY <1>5, <2>5
<1>8. CASE Sort(r)
  <2>1. trying' = [trying EXCEPT ![r] = Idle] /\ trying \in [Runs -> Attempt]
      BY <1>8 DEF Sort, IInv, TypeOK, SenderType, Attempt
  <2>2. trying'[run].asked \subseteq trying[run].asked
      BY <1>5, <2>1 DEF Idle
  <2> QED BY <1>5, <2>2
<1>9. CASE Wakes(r) \/ Due(r) \/ StopsTrying(r) \/ Ends(r)
    BY <1>1, <1>9 DEF Wakes, Due, StopsTrying, Ends
<1> QED BY <1>4, <1>6, <1>7, <1>8, <1>9 DEF Sender

LEMMA AsksNews ==
    ASSUME IInv, Next, NEW l \in Lines, NEW s \in SlotNames, trying'[run'].slot = s,
           l \in trying'[run'].asked \ trying[run'].asked, slot'[run'][s].cur.fired # 0
    PROVE  \A g \in told[l] : g < slot'[run'][s].cur.fired
<1>1. /\ run \in Runs /\ run' = run
      /\ Take(run) \/ \E due \in SUBSET Lines : Retry(run, due)
    BY AsksIs
<1>2. run > 0 /\ slot \in [Runs -> [SlotNames -> SlotType]] /\ trying \in [Runs -> Attempt]
    BY <1>1, RunsAre DEF IInv, TypeOK, SenderType, Attempt
<1>3. CASE Take(run)
  <2> DEFINE a == Head(box[run])
             new == Fresh(a)
             t0 == [Idle EXCEPT !.slot = slotFor(a.kind), !.first = TRUE, !.asked = Lines \ a.skip]
  <2>1. box[run] # << >> /\ slot' = [slot EXCEPT ![run][slotFor(a.kind)] = new]
      BY <1>3, Zenon DEF Take, Fresh
  <2>2. trying' = trying \/ trying' = [trying EXCEPT ![run] = t0]
      BY <1>3, Zenon DEF Take, Tries
  <2>3. t0.slot = slotFor(a.kind)
      BY DEF Idle
  <2>4. /\ a = box[run][1] /\ a \in Alert /\ 1 \in 1..Len(box[run])
        /\ new.cur = a /\ slotFor(a.kind) \in SlotNames
      BY <1>1, <2>1, HeadIs, FreshIs
  <2> HIDE DEF a, new, t0
  <2>5. trying'[run] = t0
      BY <1>1, <1>2, <2>2
  <2>6. slot'[run][s] = new
      BY <1>1, <1>2, <2>1, <2>3, <2>4, <2>5
  <2>7. slot'[run'][s].cur.fired = box[run][1].fired
      BY <1>1, <2>4, <2>6
  <2> QED BY <1>2, <2>4, <2>7 DEF IInv, BoxIsNews, NotTold
<1>4. CASE \E due \in SUBSET Lines : Retry(run, due)
  <2>1. PICK due \in SUBSET Lines : Retry(run, due)
      BY <1>4
  <2> DEFINE s0 == First(visit[run])
             t0 == [Idle EXCEPT !.slot = s0, !.first = FALSE, !.asked = due]
  <2>2. trying[run] = Idle /\ due \subseteq slot[run][s0].owed
      BY <2>1 DEF Retry
  <2>3. trying' = trying \/ (slot' = slot /\ trying' = [trying EXCEPT ![run] = t0])
      BY <2>1, Zenon DEF Retry, Tries
  <2>4. t0.slot = s0 /\ t0.asked = due
      BY DEF Idle
  <2> HIDE DEF t0, s0
  <2>5. slot' = slot /\ trying'[run] = t0
      BY <1>1, <1>2, <2>3
  <2>6. s = s0 /\ l \in slot[run][s].owed
      BY <1>1, <2>2, <2>4, <2>5
  <2>7. s = "fire"
    <3>1. SlotTrue(slot[run][s]) /\ slot[run][s].cur.fired # 0
        BY <1>1, <2>5 DEF IInv, Mail, MailOk
    <3>2. slot[run][s] # EmptySlot
        BY <3>1, EmptyIs
    <3>3. slot[run][s].cur.kind = "fired" /\ slotFor(slot[run][s].cur.kind) = s
        BY <1>1, <2>2, <3>1, <3>2, WaitingIs DEF SlotTrue, AlertTrue
    <3> QED BY <3>3, SlotForIs
  <2>8. MayAsk(l, slot[run]["fire"], trying[run]) /\ FireOf(run) # 0
      BY <1>1, <2>2, <2>5, <2>6, <2>7, EmptyIs DEF MayAsk, FireOf
  <2>9. FireOf(run) = slot'[run'][s].cur.fired
      BY <1>1, <2>5, <2>7 DEF FireOf
  <2> QED BY <1>2, <2>8, <2>9 DEF IInv, SlotIsNews, NotTold
<1> QED BY <1>1, <1>3, <1>4

\* The current run never asks a URL to take a fire it took already, nor one
\* older than one it took: whatever the restart skipped, the outbox held and
\* the retries went through (take, retry).
THEOREM AsksOnlyNews == Spec => OnlyNews
<1> DEFINE News ==
        \A l \in Lines, s \in SlotNames :
           LET f == slot'[run'][s].cur.fired
           IN  trying'[run'].slot = s /\ l \in trying'[run'].asked \ trying[run'].asked /\ f # 0
               => \A g \in told[l] : g < f
<1>1. IInv /\ [Next]_vars => [News]_vars
  <2> SUFFICES ASSUME IInv, Next PROVE News
      OBVIOUS
  <2> QED BY AsksNews
<1> HIDE DEF News
<1>2. Spec => [][News]_vars
    BY <1>1, Inductive, PTL DEF Spec
<1> QED BY <1>2 DEF OnlyNews, News

\* What a step does to a URL that owes a fire.
KeptOrGone(r, l) ==
    LET new == slot'[r]["fire"]
    IN  \/ l \in new.owed \cup new.taken \cup new.failed
        \/ l \in new.dropped /\ r = run /\ (~FireStands \/ Unnoted)
        \/ new.cur.fired > slot[r]["fire"].cur.fired
        \/ ctxDone[r]

LEMMA SortKeeps ==
    ASSUME IInv, NEW r \in Runs, Sort(r), NEW l \in slot[r]["fire"].owed
    PROVE  \/ l \in slot'[r]["fire"].owed \cup slot'[r]["fire"].taken
           \/ l \in slot'[r]["fire"].failed
<1> DEFINE t    == trying[r]
           s0   == t.slot
           sl   == slot[r][s0]
           cut  == ~t.first /\ ctxDone[r]
           soft == IF cut \/ life[r] = "drain" THEN {} ELSE t.soft
           hard == IF cut THEN {} ELSE t.hard \cup (t.soft \ soft)
           owed   == StillOwed(sl, t.ok, soft, hard)
           failed == sl.failed \cup hard
           taken  == sl.taken \cup t.ok
           new  == [sl EXCEPT !.owed = owed, !.failed = failed, !.taken = taken]
<1>1. s0 # "none" /\ slot' = [slot EXCEPT ![r][s0] = new]
    BY DEF Sort
<1>2. slot \in [Runs -> [SlotNames -> SlotType]] /\ t \in Attempt
    BY RunTypes DEF IInv, TypeOK, SenderType
<1>3. s0 \in SlotNames /\ sl \in SlotType /\ "fire" \in SlotNames
    BY <1>1, <1>2 DEF Attempt, SlotNames
<1>4. soft \subseteq Lines /\ hard \subseteq Lines /\ t.ok \subseteq Lines
    BY <1>2 DEF Attempt
<1> HIDE DEF soft, hard, cut
<1>5. /\ owed = (sl.owed \ (t.ok \cup hard)) \cup soft
      /\ owed \in SUBSET Lines /\ failed \in SUBSET Lines /\ taken \in SUBSET Lines
    BY <1>3, <1>4 DEF SlotType, StillOwed
<1>6. new.owed = owed /\ new.failed = failed /\ new.taken = taken
  <2>1. new = Sorted(sl, owed, failed, taken)
      BY DEF Sorted
  <2> HIDE DEF new, owed, failed, taken, sl, t
  <2> QED BY <1>3, <1>5, <2>1, SortedIs
<1> HIDE DEF new, owed
<1>7. CASE s0 = "fire"
  <2>1. slot'[r]["fire"] = new
      BY <1>1, <1>2, <1>3, <1>7
  <2> QED BY <1>5, <1>6, <1>7, <2>1
<1>8. CASE s0 # "fire"
  <2>1. slot'[r]["fire"] = slot[r]["fire"]
      BY <1>1, <1>2, <1>3, <1>8
  <2> QED BY <2>1
<1> QED BY <1>7, <1>8

LEMMA BlipKeeps ==
    ASSUME IInv, EInv, Next, ~MayCrash, NEW r \in Runs, NEW l \in slot[r]["fire"].owed
    PROVE  KeptOrGone(r, l)
<1>0. slot \in [Runs -> [SlotNames -> SlotType]] /\ "fire" \in SlotNames
    BY DEF IInv, TypeOK, SenderType, SlotNames
<1>1. CASE slot'[r]["fire"] = slot[r]["fire"]
    BY <1>1 DEF KeptOrGone
<1>2. CASE slot'[r]["fire"] # slot[r]["fire"]
  <2>1. ~Poll /\ ~Stop /\ ~Crash /\ ~\E same, recent \in BOOLEAN : Start(same, recent)
      BY <1>2 DEF Poll, Stop, Start, Crash, GoesDown, Recovers, MovesBack, Moves, Settles,
         PixelFires, Forgets, ReadsNothingNew, RaisesFire, noteCondition, RunReturns, sending
  <2>2. PICK q \in Runs : Sender(q)
      BY <2>1 DEF Next
  <2>3. q = r
    <3>1. slot' = slot \/ (\E x : slot' = [slot EXCEPT ![q] = x])
      <4>1. CASE Take(q)
          BY <4>1, Zenon DEF Take
      <4>2. CASE Sort(q)
          BY <4>2, Zenon DEF Sort
      <4>3. CASE Wakes(q) \/ Due(q) \/ StopsTrying(q) \/ Ends(q)
          BY <4>3, Zenon DEF Wakes, Due, StopsTrying, Ends, Prunes
      <4>4. CASE \E m \in Lines, how \in Answers : Answer(q, m, how)
          BY <4>4, Zenon DEF Answer
      <4>5. CASE \E due \in SUBSET Lines : Retry(q, due)
          BY <4>5, Zenon DEF Retry, Prunes
      <4> QED BY <2>2, <4>1, <4>2, <4>3, <4>4, <4>5 DEF Sender
    <3> QED BY <1>0, <1>2, <3>1
  <2>4. CASE Take(r)
    <3> DEFINE a == Head(box[r])
               new == Fresh(a)
    <3>1. box[r] # << >> /\ slot' = [slot EXCEPT ![r][slotFor(a.kind)] = new]
        BY <2>4, Zenon DEF Take, Fresh
    <3>2. /\ a = box[r][1] /\ 1 \in 1..Len(box[r]) /\ AlertTrue(a) /\ new.cur = a
          /\ slotFor(a.kind) \in SlotNames /\ (slotFor(a.kind) = "fire" <=> a.kind = "fired")
        BY <3>1, HeadIs, FreshIs
    <3> HIDE DEF a, new
    <3>3. slotFor(a.kind) = "fire" /\ slot'[r]["fire"] = new
        BY <1>0, <1>2, <3>1, <3>2
    <3>4. a.fired # 0 /\ FireOf(r) < a.fired
        BY <3>2, <3>3 DEF AlertTrue, IInv, Order, InOrder
    <3> QED BY <3>2, <3>3, <3>4 DEF KeptOrGone, FireOf
  <2>5. CASE Sort(r)
      BY <2>5, SortKeeps DEF KeptOrGone
  <2>6. CASE Wakes(r)
    <3>1. trying[r] = Idle /\ Prunes(r) /\ life[r] = "loop"
        BY <2>6 DEF Wakes, Waiting
    <3>2. RunOver(r) => ctxDone[r]
        BY <3>1 DEF IInv, LivesOk, LifeOk
    <3> QED BY <1>2, <3>1, <3>2, PruneEarly DEF KeptOrGone
  <2>7. CASE \E due \in SUBSET Lines : Retry(r, due)
    <3>1. trying[r] = Idle /\ Prunes(r) /\ visit[r] # {}
        BY <1>2, <2>7, Zenon DEF Retry
    <3>2. life[r] = "loop"
        BY <3>1 DEF IInv, LivesOk, LifeOk
    <3>3. RunOver(r) => ctxDone[r]
        BY <3>2 DEF IInv, LivesOk, LifeOk
    <3> QED BY <1>2, <3>1, <3>2, <3>3, PruneEarly DEF KeptOrGone
  <2>8. CASE StopsTrying(r)
      BY <2>8 DEF StopsTrying, KeptOrGone
  <2>9. CASE Ends(r)
    <3>1. life[r] \in {"loop", "drain"} /\ RunOver(r)
        BY <2>9 DEF Ends, BoxClosed
    <3>2. ctxDone[r]
        BY <3>1 DEF IInv, LivesOk, LifeOk
    <3> QED BY <3>2 DEF KeptOrGone
  <2>10. CASE Due(r) \/ \E m \in Lines, how \in Answers : Answer(r, m, how)
      BY <1>2, <2>10 DEF Due, Answer
  <2> QED BY <2>2, <2>3, <2>4, <2>5, <2>6, <2>7, <2>8, <2>9, <2>10 DEF Sender
<1> QED BY <1>1, <1>2

\* Unless the process dies (a crash empties the slots, and the row tells the
\* restart), a URL stops owing a fire only by taking or refusing it, by its
\* condition having cleared as the evaluator has it, for a newer fire, or when
\* the watch stops: no alert of the stream or of a moved camera pushes it out
\* (take, prune, attempt, stop).  The one exception is a prune in the poll that
\* raised the fire, before that poll noted what it had read.
THEOREM BlipsKeepFires == ~MayCrash => (Spec => BlipKeepsFire)
<1> SUFFICES ASSUME ~MayCrash PROVE Spec => BlipKeepsFire
    OBVIOUS
<1> DEFINE Keeps == \A r \in Runs : \A l \in slot[r]["fire"].owed : KeptOrGone(r, l)
<1>1. IInv /\ EInv /\ [Next]_vars => [Keeps]_vars
  <2> SUFFICES ASSUME IInv, EInv, Next PROVE Keeps
      OBVIOUS
  <2> QED BY BlipKeeps
<1> HIDE DEF Keeps
<1>2. Spec => [][Keeps]_vars
    BY <1>1, Inductive, EarlyHolds, PTL DEF Spec
<1> QED BY <1>2 DEF BlipKeepsFire, Keeps, KeptOrGone
=============================================================================
