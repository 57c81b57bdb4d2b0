------------------------------- MODULE Meter -------------------------------
(***************************************************************************)
(* The value of one numeric or value watch that is a counter: a number     *)
(* that only goes up.  Three parties share it.  The poll goroutine reads   *)
(* numbers, takes their median and passes it through the gate of           *)
(* trigger/counter.go; the store keeps the last value and a waiting accept *)
(* in counter_state across restarts; a person on the watch page may accept *)
(* a lower value (a replaced meter), from another goroutine, at any point  *)
(* of a poll.  What comes out is published to Home Assistant, which takes  *)
(* any drop for a new meter.                                               *)
(*                                                                         *)
(* Numbers are natural numbers.  A poll is cut where another goroutine, or *)
(* a crash, can come between: at the mutex of runner/meter.go and at each  *)
(* write to the store.                                                     *)
(***************************************************************************)
EXTENDS Integers, Sequences, FiniteSetsExt, Functions

CONSTANTS
    Watches,     \* the watches checked: [confirm, maxRise, top, accepts, restarts]
    PaceKept,    \* trusted steps kept (4 in the code)
    RecentKept   \* bound: readings the history variable recent goes back

NoValue == -1

ASSUME WatchAssumption ==
    Watches \subseteq [confirm : Nat \ {0}, maxRise : Nat, top : Nat,
                       accepts : Nat, restarts : Nat]

VARIABLES
    watch,       \* the watch, with the bounds it is checked under
    counter,     \* IsCounter of the config the run was started with
    c,           \* the evaluator's counterGate
    nums,        \* the median window
    status,      \* meter.status: what the page is told
    pending,     \* meter.pending and meter.restored
    savedLast,   \* meter.savedLast, NoValue when the store has none
    row,         \* the watch's row of counter_state
    pc,          \* where the poll goroutine is
    took,        \* what takeAccept took and found out, while it runs
    value,       \* the value this poll is to publish, NoValue for none
    post         \* an accept the page has posted and the handler is carrying out

\* History variables: no action's guard reads them, except for the bounds
\* on how often a person accepts and the process restarts.
VARIABLES
    told,        \* the value Home Assistant was last sent
    licence,     \* accepts not yet used up by a drop: [v, n], the value and which
    fresh,       \* the lowest value accepted and not overtaken since: the
                 \* display has not been back up after it
    recent,      \* the latest readings of this run judged against a last
                 \* value, newest last
    stray,       \* the latest accept came from a page that reached a run
                 \* already over, or was of the value being taken
    accepts,     \* accepts so far
    restarts     \* runs ended so far

runVars == <<counter, c, nums, status, pending, savedLast>>
historyVars == <<told, licence, fresh, recent, stray, accepts, restarts>>
vars == <<watch, runVars, row, pc, took, value, post, historyVars>>

Values == 0..watch.top

-----------------------------------------------------------------------------
(* The gate.                                                               *)

\* Every reading the median is taken from, and at least two.
RiseConfirm(w) == IF 2 * w.confirm - 1 > 2 THEN 2 * w.confirm - 1 ELSE 2
ASSUME KeptAssumption ==
    /\ PaceKept \in Nat \ {0}
    /\ RecentKept \in Nat /\ \A w \in Watches : RiseConfirm(w) <= RecentKept

Need   == RiseConfirm(watch)
Window == 2 * watch.confirm - 1

Abs(n) == IF n < 0 THEN -n ELSE n

NewGate == [has |-> FALSE, last |-> 0, run |-> 0, jump |-> 0, jumpStep |-> 0,
            jumpPaced |-> FALSE, prev |-> 0, prevOK |-> FALSE,
            paces |-> [i \in 1..PaceKept |-> 0]]

Over(g, v) == g.has /\ watch.maxRise > 0 /\ v - g.last > watch.maxRise

addPace(paces, step) == Append(Tail(paces), IF step > 0 THEN step ELSE 0)
paceOf(g) == Max({g.paces[i] : i \in 1..PaceKept})

\* v, read after the jump's latest reading, carries on the same jump.
agrees(g, v) ==
    LET d == v - g.jump IN
    \/ Abs(d) <= watch.maxRise
    \/ /\ d >= 0
       /\ \/ d <= watch.maxRise + 2 * paceOf(g)
          \/ g.jumpPaced /\ Abs(d - g.jumpStep) <= watch.maxRise

\* The bound on run: counts above Need are not told apart.
Agreed(g, v) == g.run > 0 /\ agrees(g, v)
RunAfter(g, v) == IF ~Agreed(g, v) THEN 1
                  ELSE IF g.run < Need THEN g.run + 1 ELSE Need

\* A reading the gate can trust, and one on the way to a jump.
ObserveTrusted(g, v) ==
    LET ok == ~g.has \/ v >= g.last IN
    [g EXCEPT !.run = 0, !.prev = v, !.prevOK = ok,
              !.paces = IF ok /\ g.prevOK /\ g.has
                        THEN addPace(@, v - g.prev) ELSE @]

ObserveJump(g, v) ==
    [g EXCEPT !.run = RunAfter(g, v), !.jump = v, !.jumpStep = v - g.prev,
              !.jumpPaced = g.prevOK \/ Agreed(g, v),
              !.prev = v, !.prevOK = Agreed(g, v),
              !.paces = IF Agreed(g, v) THEN addPace(@, v - g.prev) ELSE @]

observe_CountsEveryRise(g, v) ==
    IF Over(g, v) THEN [ObserveJump(g, v) EXCEPT
                            !.run = IF g.run < Need THEN g.run + 1 ELSE Need]
    ELSE ObserveTrusted(g, v)
observe(g, v) == IF Over(g, v) THEN ObserveJump(g, v) ELSE ObserveTrusted(g, v)

\* Does the alert's condition skip v?  Asked before v is observed.
holds(g, v) ==
    /\ g.has
    /\ \/ v < g.last
       \/ Over(g, v) /\ RunAfter(g, v) < Need

\* What check says of the median: "none" (the empty reason) lets it through.
check(g, v) ==
    IF ~g.has THEN "none"
    ELSE IF v < g.last THEN "lower"
    ELSE IF Over(g, v) /\ g.run < Need THEN "rise" ELSE "none"

Passed(g, v) == [g EXCEPT !.last = v, !.has = TRUE, !.run = IF g.has THEN @ ELSE 0]

RestoreCounter(g, v) == [g EXCEPT !.last = v, !.has = TRUE, !.run = 0]
AcceptedLower(g, v)  == [g EXCEPT !.last = v, !.run = 0]

\* The latest n entries of s.
Latest(s, n) == IF Len(s) <= n THEN s ELSE SubSeq(s, Len(s) - n + 1, Len(s))

Median(s) ==
    CHOOSE v \in {s[i] : i \in 1..Len(s)} :
        /\ 2 * Cardinality({i \in 1..Len(s) : s[i] < v}) < Len(s)
        /\ 2 * Cardinality({i \in 1..Len(s) : s[i] > v}) < Len(s)

-----------------------------------------------------------------------------
(* The run.                                                                *)

NoStatus == [last |-> NoValue, held |-> "none", accepting |-> NoValue]
NoRow    == [has |-> FALSE, last |-> NoValue, accept |-> NoValue]
NoPending == [v |-> NoValue, restored |-> FALSE]
NoTake   == [v |-> NoValue, drop |-> FALSE, last |-> NoValue]
NoPost   == [v |-> NoValue, alive |-> FALSE, counter |-> FALSE,
             status |-> NoStatus]

Init ==
    /\ watch \in Watches
    /\ counter = FALSE /\ c = NewGate /\ nums = <<>>
    /\ status = NoStatus /\ pending = NoPending /\ savedLast = NoValue
    /\ row = NoRow
    /\ pc = "down" /\ took = NoTake /\ value = NoValue /\ post = NoPost
    /\ told = NoValue /\ licence = {} /\ fresh = NoValue
    /\ recent = <<>> /\ stray = FALSE /\ accepts = 0 /\ restarts = 0

\* restoreCounter, before the first poll.  A run of the watch as a plain
\* number drops the row, and Home Assistant's total starts over.
StartPlain ==
    /\ pc = "down"
    /\ counter' = FALSE /\ c' = NewGate /\ nums' = <<>>
    /\ status' = NoStatus /\ pending' = NoPending /\ savedLast' = NoValue
    /\ row' = NoRow /\ pc' = "plain"
    /\ told' = NoValue /\ fresh' = NoValue /\ recent' = <<>>
    /\ licence' = {} /\ stray' = FALSE
    /\ UNCHANGED <<watch, took, value, post, accepts, restarts>>

StartCounter ==
    /\ pc = "down"
    /\ counter' = TRUE /\ nums' = <<>> /\ recent' = <<>> /\ pc' = "idle"
    /\ c' = IF row.has THEN RestoreCounter(NewGate, row.last) ELSE NewGate
    /\ savedLast' = row.last
    /\ pending' = [v |-> row.accept, restored |-> row.accept # NoValue]
    /\ status' = [last |-> row.last, held |-> "none", accepting |-> row.accept]
    /\ stray' = FALSE
    /\ UNCHANGED <<watch, row, took, value, post, told, licence, fresh,
                   accepts, restarts>>

\* takeAccept, up to the unlock: what was accepted, and is it stale?
TakeAccept_NeverStale ==
    /\ pc = "idle"
    /\ took' = [v |-> pending.v, last |-> NoValue, drop |-> FALSE]
    /\ pending' = NoPending
    /\ pc' = IF pending.v = NoValue THEN "read" ELSE "take"
    /\ UNCHANGED <<watch, counter, c, nums, status, savedLast, row, value,
                   post, historyVars>>
TakeAccept ==
    /\ pc = "idle"
    /\ took' = [v |-> pending.v, last |-> NoValue,
                drop |-> /\ pending.v # NoValue /\ c.has
                         /\ status.held # "lower" /\ ~pending.restored]
    /\ pending' = NoPending
    /\ pc' = IF pending.v = NoValue THEN "read" ELSE "take"
    /\ UNCHANGED <<watch, counter, c, nums, status, savedLast, row, value,
                   post, historyVars>>

\* The gate takes it, starts from it, or carries on from where it is.
Taken(v) ==
    IF took.drop THEN c
    ELSE IF ~c.has THEN RestoreCounter(c, v)
    ELSE IF v < c.last THEN AcceptedLower(c, v)
    ELSE c

\* TakeCounterAccept: only if it is still the accept that waits.
RowTaken_LeavesIt(v, last) == row
RowTaken(v, last) ==
    IF row.accept = v THEN [row EXCEPT !.last = last, !.accept = NoValue] ELSE row

TakeSaved ==
    /\ pc = "take"
    /\ c' = Taken(took.v)
    /\ row' = RowTaken(took.v, Taken(took.v).last)
    /\ savedLast' = Taken(took.v).last
    /\ took' = [took EXCEPT !.last = Taken(took.v).last]
    /\ recent' = IF Taken(took.v) = c THEN recent ELSE <<>>
    /\ stray' = (stray /\ (row'.accept # NoValue \/ pending.v # NoValue))
    /\ pc' = "taken"
    /\ UNCHANGED <<watch, counter, nums, status, pending, value, post, told,
                   licence, fresh, accepts, restarts>>

TakeShown ==
    /\ pc = "taken"
    /\ status' = IF took.drop THEN [status EXCEPT !.accepting = NoValue]
                 ELSE [last |-> took.last, held |-> "none", accepting |-> NoValue]
    /\ took' = NoTake /\ pc' = "read"
    /\ UNCHANGED <<watch, counter, c, nums, pending, savedLast, row, value,
                   post, historyVars>>

\* The frame is read: the gate observes the number, the median of a full
\* window is checked, and the page's status is brought up to date.
Outcome(g, window, v) ==
    IF Len(window) < Window THEN [gate |-> g, held |-> "none", v |-> NoValue]
    ELSE IF check(g, Median(window)) = "none"
    THEN [gate |-> Passed(g, Median(window)), held |-> "none", v |-> Median(window)]
    ELSE [gate |-> g, held |-> check(g, Median(window)), v |-> NoValue]

Reads(v) ==
    LET window == Latest(Append(nums, v), Window)
        out    == Outcome(observe(c, v), window, v)
    IN
    /\ pc = "read"
    /\ nums' = window /\ c' = out.gate /\ value' = out.v
    /\ status' = [last |-> IF out.gate.has THEN out.gate.last ELSE NoValue,
                  held |-> IF out.v # NoValue \/ out.held # "none" THEN out.held
                           ELSE status.held,
                  accepting |-> status.accepting]
    /\ recent' = IF c.has THEN Latest(Append(recent, [v |-> v, rise |-> v - c.last]), RecentKept)
               ELSE <<>>
    /\ pc' = "save"
    /\ UNCHANGED <<watch, counter, pending, savedLast, row, took, post, told,
                   licence, fresh, stray, accepts, restarts>>

\* No frame, a closed gate or no number in the frame: nothing to note.
ReadsNothing ==
    /\ pc = "read"
    /\ pc' = "idle"
    /\ UNCHANGED <<watch, runVars, row, took, value, post, historyVars>>

\* SaveCounterLast, when the last value moved: a waiting accept is left.
SavesLast ==
    /\ pc = "save"
    /\ IF c.has /\ c.last # savedLast
       THEN /\ row' = [row EXCEPT !.has = TRUE, !.last = c.last]
            /\ savedLast' = c.last
       ELSE UNCHANGED <<row, savedLast>>
    /\ pc' = "publish"
    /\ UNCHANGED <<watch, counter, c, nums, status, pending, took, value, post,
                   historyVars>>

\* The accepts that allow a drop to v; the drop uses up the highest one.
Backing(v) == {a \in licence : a.v <= v}
Highest(S) == CHOOSE a \in S : \A b \in S : b.v <= a.v

\* OnReading hands the value to Home Assistant.
Publishes ==
    /\ pc = "publish"
    /\ told' = IF value # NoValue THEN value ELSE told
    /\ licence' = IF value # NoValue /\ value < told /\ Backing(value) # {}
                  THEN licence \ {Highest(Backing(value))}
                  ELSE licence
    /\ fresh' = IF value # NoValue /\ value >= told THEN NoValue ELSE fresh
    /\ value' = NoValue
    /\ pc' = "idle"
    /\ UNCHANGED <<watch, runVars, row, took, post, recent, stray, accepts,
                   restarts>>

\* The polls of a plain number publish what they read and keep none of this.
PlainPoll == pc = "plain" /\ UNCHANGED vars

-----------------------------------------------------------------------------
(* The watch page, and the end of a run.                                   *)

\* The handler finds the running watch; the run may end before it goes on.
PostAccept(v) ==
    /\ pc # "down" /\ post = NoPost /\ accepts < watch.accepts
    /\ post' = [v |-> v, alive |-> TRUE, counter |-> FALSE, status |-> NoStatus]
    /\ accepts' = accepts + 1
    /\ UNCHANGED <<watch, runVars, row, pc, took, value, told, licence, fresh,
                   recent, stray, restarts>>

\* The run a post found: the one running, or what an ended one left behind.
Found == IF post.alive THEN status ELSE post.status
FoundCounter == IF post.alive THEN counter ELSE post.counter

Acceptable(v) ==
    /\ FoundCounter
    /\ Found.last # NoValue => v < Found.last /\ Found.held = "lower"

SavesAccept(v) ==
    row' = [has |-> TRUE, accept |-> v, last |-> IF row.has THEN row.last ELSE v]

\* runner.AcceptLower, under meter.mu.
AcceptLower ==
    /\ post # NoPost
    /\ IF Acceptable(post.v)
       THEN /\ SavesAccept(post.v)
            /\ IF post.alive
               THEN /\ pending' = [v |-> post.v, restored |-> FALSE]
                    /\ status' = [status EXCEPT !.accepting = post.v]
               ELSE UNCHANGED <<pending, status>>
            /\ stray' = (~post.alive \/ (pc = "take" /\ post.v = took.v))
            /\ licence' = licence \cup {[v |-> post.v, n |-> accepts]}
            /\ fresh' = IF fresh = NoValue \/ post.v < fresh THEN post.v ELSE fresh
       ELSE UNCHANGED <<row, pending, status, licence, fresh, stray>>
    /\ post' = NoPost
    /\ UNCHANGED <<watch, counter, c, nums, savedLast, pc, took, value, told,
                   recent, accepts, restarts>>

RunGone ==
    /\ restarts < watch.restarts /\ restarts' = restarts + 1
    /\ pc' = "down" /\ took' = NoTake /\ value' = NoValue
    /\ counter' = FALSE /\ c' = NewGate /\ nums' = <<>>
    /\ status' = NoStatus /\ pending' = NoPending /\ savedLast' = NoValue
    /\ recent' = <<>>
    /\ UNCHANGED <<watch, row, told, licence, fresh, stray, accepts>>

\* The supervisor stops the run between two polls; a post that found it
\* still has it in hand.
Stop ==
    /\ pc \in {"idle", "plain"}
    /\ RunGone
    /\ post' = IF post.alive
               THEN [post EXCEPT !.alive = FALSE, !.counter = counter, !.status = status]
               ELSE post

\* The process dies, wherever the poll is, and the post with it.
Crash == pc # "down" /\ RunGone /\ post' = NoPost

Poll ==
    \/ TakeAccept \/ TakeSaved \/ TakeShown
    \/ \E v \in Values : Reads(v)
    \/ ReadsNothing \/ SavesLast \/ Publishes \/ PlainPoll

Start == StartPlain \/ StartCounter

Next ==
    \/ Start \/ Poll
    \/ \E v \in Values : PostAccept(v)
    \/ AcceptLower \/ Stop \/ Crash

Spec == Init /\ [][Next]_vars

-----------------------------------------------------------------------------
(* What must hold.                                                         *)

TypeOK ==
    /\ watch \in Watches
    /\ counter \in BOOLEAN
    /\ c \in [has : BOOLEAN, last : Nat, run : 0..Need, jump : Nat,
              jumpStep : Int, jumpPaced : BOOLEAN, prev : Nat,
              prevOK : BOOLEAN, paces : Seq(Nat)]
    /\ Len(c.paces) = PaceKept
    /\ nums \in Seq(Nat) /\ Len(nums) <= Window
    /\ status.held \in {"none", "lower", "rise"}
    /\ pc \in {"down", "plain", "idle", "take", "taken", "read", "save", "publish"}
    /\ row.has \in BOOLEAN /\ (row.accept # NoValue => row.has)

\* Home Assistant sees the counter drop only because a person accepted a
\* value no higher than what it drops to, and one accept stands for one drop:
\* through restarts, accepts that cross a poll, and a page that reaches a run
\* that is already over.  As long as the watch is not restarted, a page shown
\* before the display came back up does not move it down: an accept counts
\* only until a value at or above the one Home Assistant has is published
\* (trigger/counter.go, runner/meter.go takeAccept).
DropBacked ==
    [][told # NoValue /\ told' # NoValue /\ told' < told
       => /\ Backing(told') # {}
          /\ restarts = 0 => fresh # NoValue /\ fresh <= told']_vars

\* A rise over the limit reaches Home Assistant only once as many readings in
\* a row as the median is taken from, and at least two, rose over the limit
\* when they were read, none dropping back from the one before: misreads of a
\* top digit that last less never get through (counterGate.observe).
JumpNeedsWindow ==
    [][/\ pc = "read" /\ value' # NoValue
       /\ c.has /\ watch.maxRise > 0 /\ value' - c.last > watch.maxRise
       => /\ Len(recent') >= Need
          /\ \A r \in Range(Latest(recent', Need)) : r.rise > watch.maxRise
          /\ \A i \in 2..Need : LET r == Latest(recent', Need) IN
                r[i].v >= r[i - 1].v - watch.maxRise]_vars

\* A real jump stays, and gets through: once the display has read the same
\* number, not below the last one, on every reading it takes, that is the
\* counter's value (counterGate.observe, check).
SteadyGetsThrough ==
    [][LET r == Latest(recent', Need) IN
       /\ pc = "read" /\ pc' = "save" /\ Len(r) = Need
       /\ \A i \in 1..Need : r[i].v = r[Need].v
       /\ r[Need].v >= c.last
       => c'.last = r[Need].v /\ status'.held = "none"]_vars

\* On a watch that believes one reading, the alert's condition skips exactly
\* the readings the Value then holds back: holds, asked before the gate has
\* seen the number, and observe and check, after, are two pieces of code that
\* must not disagree.
AlertSkipsWhatValueHolds ==
    watch.confirm = 1 =>
        \A v \in Values : holds(c, v) <=> check(observe(c, v), v) # "none"

\* Between two polls the store has the counter's last value, unless an accept
\* still waits in the row: a restart now holds back what this run would.
RowFollows ==
    pc = "idle" /\ row.accept = NoValue /\ pending.v = NoValue
    => row.has = c.has /\ (c.has => row.last = c.last)

\* An accept waits in the store exactly as long as the run has it in hand: a
\* restart neither loses one nor brings one back that was already taken or
\* dropped (AcceptLower, takeAccept, restoreCounter).  The exceptions are a page
\* that reached a run already over, whose accept the next run does not know of,
\* and one that accepts again the very value being taken.
AcceptKept ==
    pc \notin {"down", "plain"} /\ ~stray =>
        row.accept = CASE pending.v # NoValue -> pending.v
                       [] pending.v = NoValue /\ pc = "take" -> took.v
                       [] OTHER -> NoValue

\* A restart at any point carries on where the run was.
StoreKept == RowFollows /\ AcceptKept

\* Between two polls the meter, its store and its alerts agree.
Inv == TypeOK /\ AlertSkipsWhatValueHolds /\ StoreKept

\* A rise is held back as long as it may be a misread and no longer
\* (trigger/counter.go).
RisesJudged == JumpNeedsWindow /\ SteadyGetsThrough
=============================================================================
