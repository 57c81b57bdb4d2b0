-------------------------------- MODULE Drift --------------------------------
(***************************************************************************)
(* The position check of one watch (internal/drift): has the picture       *)
(* around its box moved?  The tracker runs on the poll goroutine, a new    *)
(* one for every run; the store keeps its reference and what it last said  *)
(* across restarts; the board holds what the page shows and a request to   *)
(* take a new reference, and is written by the tracker and by the page's   *)
(* handlers (web/drift.go) at the same time.                               *)
(*                                                                         *)
(* Positions are on one axis.  A check finds how far the picture is from   *)
(* the reference, trusted, only found, or not found at all.  The threshold *)
(* is any value the camera's shake may raise it to; the means that refine  *)
(* an offset are its window's median.  Writes to the store succeed.        *)
(***************************************************************************)
EXTENDS Integers, Sequences, FiniteSetsExt, SequencesExt, TLC

CONSTANTS
    Places,         \* where the picture can be: even, so that medians are whole
    Sizes,          \* frame sizes
    Keys, Narrow,   \* camera and box of the watch; those with too little around
    LearnReadings, SettleChecks, SettleGiveUp, Window, ReadRun,
    LostAfter, LostChecks,
    MoveMin, MaxMove, Agree,
    Bounds          \* bounds, to choose from: [moves, restarts, crashes, saves,
                    \* asks, sizes]

ASSUME DriftAssumption ==
    /\ Places \subseteq Int /\ \A x \in Places : x % 2 = 0
    /\ {LearnReadings, SettleChecks, SettleGiveUp, Window, ReadRun, LostAfter,
        LostChecks} \subseteq Nat \ {0}
    /\ MoveMin <= MaxMove

VARIABLES
    left,       \* bounds: how much may still happen
    cam, size,  \* where the picture is, and the frames' size
    key,        \* the config's camera and box, "" when the watch is deleted
    t,          \* the running tracker, Off without one
    pc,         \* the poll: "down", "idle", or what its frame is for: "learn",
                \* "forget", "take", "resize", "check", "news"
    row,        \* the watch's row of drift_ref
    board,      \* its slot on the board
    keeping, moving   \* the handlers keepBox and moveBox, under way

\* History variables.
VARIABLES
    told,       \* a move was told and has not been settled since
    home,       \* where the picture rests, once that is known
    recent,     \* the trusted checks in a row, newest last
    unseen,     \* since the last check that found the reference: how long,
                \* how many checks, and whether no run of clean readings came
    asked       \* someone asked for a new reference, and none was taken since

history == <<told, home, recent, unseen, asked>>
vars == <<left, cam, size, key, t, pc, row, board, keeping, moving, history>>

Views == {"trusted", "found", "missing"}
Reads == {"clean", "bad", "none"}

Abs(n) == IF n < 0 THEN -n ELSE n
Least(a, b) == IF a < b THEN a ELSE b

Median(s) ==
    LET o == SortSeq(s, LAMBDA a, b : a < b)
        n == Len(s)
    IN IF n % 2 = 1 THEN o[(n + 1) \div 2] ELSE (o[n \div 2] + o[n \div 2 + 1]) \div 2

NoRef == [at |-> 0, size |-> 0]
Status(state, dx) == [state |-> state, dx |-> dx]
Learning == Status("learning", 0)
Steady   == Status("steady", 0)
Unusable == Status("unusable", 0)
Lost     == Status("lost", 0)
SeenNow == [age |-> 0, checks |-> 0, unread |-> TRUE]
Nowhere == [seen |-> FALSE, at |-> 0]
NoSince == -1

NoRow == [key |-> "", ref |-> NoRef, rest |-> 0, st |-> Learning, before |-> Steady]
NoSlot == [st |-> Status("none", 0), retake |-> FALSE]
Off == [st |-> Status("off", 0)]
On == t # Off

\* reset: the reference and all that was measured by it.
NewTracker(k) ==
    [key |-> k, ref |-> NoRef, rest |-> 0, st |-> Learning, before |-> Steady,
     settle |-> <<>>, settled |-> 0, clean |-> 0, cleanRun |-> 0, win |-> <<>>,
     lostSince |-> NoSince, lostN |-> 0, cleanSince |-> FALSE]
reset(u) == [NewTracker(u.key) EXCEPT !.st = u.st, !.cleanRun = u.cleanRun]

\* Board.Tracker: what the store kept, when it is of the same camera and box
\* and had settled, and nobody asked for a new reference.
Restored_Steady(r) ==
    [NewTracker(r.key) EXCEPT !.ref = r.ref, !.rest = r.rest, !.st = Steady]
Restored(r) ==
    [NewTracker(r.key) EXCEPT !.ref = r.ref, !.rest = r.rest, !.st = r.st,
                       !.before = r.before,
                       !.lostSince = IF r.st.state = "lost" THEN LostAfter ELSE NoSince]

Restores(k, slot) ==
    ~slot.retake /\ row.key = k /\ row.st.state \notin {"learning", "unusable"}

Tracker(k, slot) == IF Restores(k, slot) THEN Restored(row) ELSE NewTracker(k)

Puts(slot, st) == [slot EXCEPT !.st = st]

-----------------------------------------------------------------------------
(* judge: one due check.  It ends with the tracker after it, whether that  *)
(* was saved and shown, and whether it is news.                            *)

End(u, saved, shown, news) == [t |-> u, saved |-> saved, shown |-> shown, news |-> news]
Quiet(u) == End(u, FALSE, FALSE, FALSE)

Settles(u, view, dx) ==
    LET v == [u EXCEPT !.settled = @ + 1,
                       !.settle = IF view = "trusted" THEN Append(@, dx) ELSE @]
        m == Median(v.settle)
    IN
    IF Len(v.settle) >= SettleChecks
    THEN End([v EXCEPT !.settle = <<>>, !.st = Steady,
                       !.rest = IF Abs(m) > MaxMove THEN 0 ELSE m],
             TRUE, TRUE, FALSE)
    ELSE IF v.settled >= SettleGiveUp
    THEN End([v EXCEPT !.st = Unusable], TRUE, TRUE, FALSE)
    ELSE Quiet(v)

\* The reference is not in the picture; long and often enough, and nothing
\* read meanwhile, it is lost.
LongMissing_AnyReads(u) == u.lostN >= LostChecks /\ u.lostSince >= LostAfter
LongMissing(u) ==
    u.lostN >= LostChecks /\ u.lostSince >= LostAfter /\ ~u.cleanSince

Missing(u) ==
    LET first == u.lostSince = NoSince
        v == [u EXCEPT !.win = <<>>,
                       !.lostSince = IF first THEN 0 ELSE @,
                       !.cleanSince = IF first THEN u.cleanRun >= ReadRun ELSE @,
                       !.lostN = IF first THEN 1 ELSE Least(@ + 1, LostChecks)]
    IN
    IF u.st.state # "lost" /\ LongMissing(v)
    THEN End([v EXCEPT !.before = u.st, !.st = Lost], TRUE, TRUE, TRUE)
    ELSE Quiet(v)

Found(u) == [u EXCEPT !.lostSince = NoSince, !.lostN = 0, !.cleanSince = FALSE]

\* Back in view: as it was before, a move then is still the same move.
Back(u) == [Found(u) EXCEPT !.st = IF u.before.state = "moved" THEN u.before ELSE Steady,
                            !.before = Steady]

\* The window, once full and of one mind, decides.
Decides(u, limit) ==
    LET w == Median(u.win)
        mag == Abs(w - u.rest)
    IN
    IF Len(u.win) < Window \/ \E i \in 1..Window : Abs(u.win[i] - w) > Agree
    THEN Quiet(u)
    ELSE IF u.st.state = "steady" /\ mag >= limit
    THEN End([u EXCEPT !.st = Status("moved", w - u.rest)], TRUE, TRUE, TRUE)
    ELSE IF u.st.state = "moved" /\ 2 * mag < limit
    THEN End([u EXCEPT !.st = Steady], TRUE, TRUE, FALSE)
    ELSE IF u.st.state = "moved" /\ 3 * Abs(w - u.rest - u.st.dx) > limit
    THEN End([u EXCEPT !.st = Status("moved", w - u.rest)], TRUE, TRUE, FALSE)
    ELSE IF u.st.state = "moved" THEN End(u, FALSE, TRUE, FALSE)
    ELSE Quiet(u)

Latest(s, n) == IF Len(s) <= n THEN s ELSE SubSeq(s, Len(s) - n + 1, Len(s))

Trusted(u, dx, limit) ==
    LET back == u.st.state = "lost"
        v == IF back THEN Back(u) ELSE Found(u)
        out == Decides([v EXCEPT !.win = Latest(Append(@, dx), Window)], limit)
    IN IF back THEN [out EXCEPT !.saved = TRUE, !.shown = TRUE] ELSE out

judge(u, view, dx, limit) ==
    IF u.st.state = "learning" THEN Settles(u, view, dx)
    ELSE IF view = "missing" THEN Missing(u)
    ELSE IF view = "trusted" THEN Trusted(u, dx, limit)
    ELSE Quiet([(IF u.st.state = "lost" THEN u ELSE Found(u)) EXCEPT !.win = <<>>])

\* saveRef: nothing without a reference.
SavedAs(u, ref) ==
    [key |-> u.key, ref |-> ref, rest |-> u.rest, st |-> u.st, before |-> u.before]

-----------------------------------------------------------------------------
Init ==
    /\ left \in Bounds
    /\ cam \in Places /\ size \in Sizes /\ key \in Keys
    /\ t = Off /\ pc = "down"
    /\ row = NoRow /\ board = NoSlot /\ keeping = FALSE /\ moving = FALSE
    /\ told = FALSE /\ home = Nowhere /\ recent = <<>>
    /\ unseen = SeenNow /\ asked = FALSE

Spend(what) == left[what] > 0 /\ left' = [left EXCEPT ![what] = @ - 1]

\* A frame comes.  Observe counts its reading and takes a request.
Seen(u, rd, dt) ==
    LET run == IF rd = "clean" THEN Least(u.cleanRun + 1, ReadRun) ELSE 0 IN
    [u EXCEPT !.cleanRun = run,
              !.cleanSince = @ \/ (u.lostSince # NoSince /\ run >= ReadRun),
              !.lostSince = IF @ = NoSince THEN @ ELSE Least(@ + dt, LostAfter)]

Unread(rd) ==
    unseen.unread /\ ~(rd = "clean" /\ t.cleanRun + 1 >= ReadRun)

Frame(rd, dt) ==
    /\ pc = "idle" /\ On
    /\ t' = Seen(t, rd, dt)
    /\ unseen' = [unseen EXCEPT !.age = Least(@ + dt, LostAfter), !.unread = Unread(rd)]
    /\ board' = [board EXCEPT !.retake = FALSE]
    /\ pc' = IF board.retake THEN "take"
             ELSE IF t.st.state = "unusable" THEN "idle"
             ELSE IF t.ref # NoRef THEN IF size # t.ref.size THEN "resize"
                                        ELSE IF dt > 0 THEN "check" ELSE "idle"
             ELSE IF rd = "bad" THEN "forget"
             ELSE IF t.clean + 1 >= LearnReadings THEN "take" ELSE "learn"
    /\ UNCHANGED <<left, cam, size, key, row, keeping, moving, told, home, recent,
                   asked>>

\* A clean reading more on the way to a reference, or back to none.
Learns ==
    /\ pc \in {"learn", "forget"}
    /\ t' = [t EXCEPT !.clean = IF pc = "learn" THEN @ + 1 ELSE 0]
    /\ pc' = "idle"
    /\ UNCHANGED <<left, cam, size, key, row, board, keeping, moving, history>>

Resized ==
    /\ pc = "resize"
    /\ t' = [reset(t) EXCEPT !.st = Learning]
    /\ board' = Puts(board, Learning)
    /\ told' = FALSE /\ home' = Nowhere /\ recent' = <<>>
    /\ pc' = "idle"
    /\ UNCHANGED <<left, cam, size, key, row, keeping, moving, unseen, asked>>

\* take: what was saved is overwritten at once.
TakeRow(u) == IF u.ref # NoRef THEN SavedAs(u, u.ref)
              ELSE IF t.ref # NoRef THEN SavedAs(u, t.ref) ELSE row
Take ==
    /\ pc = "take"
    /\ t' = IF t.key \in Narrow THEN [reset(t) EXCEPT !.st = Unusable]
            ELSE [reset(t) EXCEPT !.st = Learning, !.ref = [at |-> cam, size |-> size]]
    /\ board' = Puts(board, t'.st)
    /\ row' = TakeRow(t')
    /\ told' = FALSE /\ home' = Nowhere /\ recent' = <<>> /\ asked' = board.retake
    /\ pc' = "idle"
    /\ UNCHANGED <<left, cam, size, key, keeping, moving, unseen>>

SeenBack(places) ==
    Len(places) = Window /\ 2 * Abs(Median(places) - t.ref.at - t.rest) < MaxMove

\* A check.  Saved before it is shown, and shown before it is told.
Check(view, limit) ==
    LET dx == cam - t.ref.at
        out == judge(t, view, dx, limit)
        settled == t.st.state = "learning" /\ out.t.st.state = "steady"
        gaveUp == out.t.st.state = "unusable"
    IN
    /\ pc = "check"
    /\ t' = IF gaveUp THEN [out.t EXCEPT !.ref = NoRef] ELSE out.t
    /\ row' = IF out.saved THEN SavedAs(out.t, t.ref) ELSE row
    /\ board' = IF out.shown THEN Puts(board, out.t.st) ELSE board
    /\ pc' = IF out.news THEN "news" ELSE "idle"
    /\ home' = IF settled THEN [seen |-> TRUE, at |-> t.ref.at + out.t.rest] ELSE home
    /\ recent' = IF view = "trusted" /\ t.st.state # "learning"
                 THEN Latest(Append(recent, cam), Window) ELSE <<>>
    /\ told' = (told /\ ~SeenBack(recent'))
    /\ unseen' = IF view = "missing" /\ t.st.state # "learning"
                 THEN [age |-> IF unseen.checks = 0 THEN 0 ELSE unseen.age,
                       checks |-> Least(unseen.checks + 1, LostChecks),
                       unread |-> IF unseen.checks = 0 THEN t.cleanRun < ReadRun
                                  ELSE unseen.unread]
                 ELSE SeenNow
    /\ UNCHANGED <<left, cam, size, key, keeping, moving, asked>>

Tells ==
    /\ pc = "news"
    /\ told' = (told \/ t.st.state = "moved")
    /\ pc' = "idle"
    /\ UNCHANGED <<left, cam, size, key, t, row, board, keeping, moving, home,
                   recent, unseen, asked>>

-----------------------------------------------------------------------------
(* Runs, and the page.                                                     *)

\* A run starts, with the check on or off.
Start(on) ==
    /\ pc = "down" /\ key # "" /\ ~moving
    /\ t' = IF on THEN Tracker(key, board) ELSE Off
    /\ board' = Puts(board, t'.st)
    /\ pc' = "idle"
    /\ recent' = <<>>
    /\ unseen' = SeenNow
    /\ UNCHANGED <<left, cam, size, key, row, keeping, moving, told, home,
                   asked>>

Gone == t' = Off /\ pc' = "down" /\ recent' = <<>>

Stop ==
    /\ pc = "idle" /\ Spend("restarts") /\ Gone
    /\ UNCHANGED <<cam, size, key, row, board, keeping, moving, told, home, unseen,
                   asked>>

\* The process dies, with the board and what the handlers were doing.
Crash ==
    /\ pc # "down" /\ Spend("crashes") /\ Gone
    /\ board' = NoSlot /\ keeping' = FALSE /\ moving' = FALSE /\ asked' = FALSE
    /\ UNCHANGED <<cam, size, key, row, told, home, unseen>>

\* A save that changes the camera or the box, and restarts the watch.
SaveBox(k) ==
    /\ pc = "idle" /\ key # "" /\ k # key /\ ~moving /\ Spend("saves") /\ Gone
    /\ key' = k /\ told' = FALSE /\ home' = Nowhere
    /\ UNCHANGED <<cam, size, row, board, keeping, moving, unseen, asked>>

Delete ==
    /\ pc = "idle" /\ key # "" /\ ~moving /\ Spend("saves") /\ Gone
    /\ key' = "" /\ board' = NoSlot /\ row' = NoRow
    /\ told' = FALSE /\ home' = Nowhere /\ asked' = FALSE
    /\ UNCHANGED <<cam, size, keeping, moving, unseen>>

Create(k) ==
    /\ key = "" /\ key' = k
    /\ UNCHANGED <<left, cam, size, t, pc, row, board, keeping, moving, history>>

\* keepBox: reads the status, and asks for a new reference without a lock
\* that keeps the check, or a delete, out in between.
KeepReads ==
    /\ ~keeping /\ key # "" /\ board.st.state \in {"moved", "lost"} /\ Spend("asks")
    /\ keeping' = TRUE
    /\ UNCHANGED <<cam, size, key, t, pc, row, board, moving, history>>

KeepAsks ==
    /\ keeping /\ keeping' = FALSE
    /\ board' = [st |-> Learning, retake |-> TRUE] /\ asked' = TRUE
    /\ UNCHANGED <<left, cam, size, key, t, pc, row, moving, told, home, recent,
                   unseen>>

\* moveBox: the config has the new box before the run is stopped; the new run
\* takes a new reference.
MoveReads(k) ==
    /\ ~moving /\ key # "" /\ k # key /\ pc # "down"
    /\ board.st.state = "moved" /\ Spend("asks")
    /\ moving' = TRUE /\ key' = k
    /\ UNCHANGED <<cam, size, t, pc, row, board, keeping, history>>

MoveRestarts ==
    /\ moving /\ pc = "idle" /\ Gone
    /\ moving' = FALSE
    /\ board' = [st |-> Learning, retake |-> TRUE] /\ asked' = TRUE
    /\ told' = FALSE /\ home' = Nowhere
    /\ UNCHANGED <<left, cam, size, key, row, keeping, unseen>>

Bumped(place) ==
    /\ place # cam /\ Spend("moves")
    /\ cam' = place
    /\ UNCHANGED <<size, key, t, pc, row, board, keeping, moving, history>>

Turned(s) ==
    /\ s # size /\ Spend("sizes")
    /\ size' = s
    /\ UNCHANGED <<cam, key, t, pc, row, board, keeping, moving, history>>

Poll ==
    \/ \E rd \in Reads, dt \in 0..1 : Frame(rd, dt)
    \/ Learns \/ Resized \/ Take
    \/ \E view \in Views, limit \in {MoveMin, MaxMove} : Check(view, limit)
    \/ Tells

Page == KeepReads \/ KeepAsks \/ (\E k \in Keys : MoveReads(k)) \/ MoveRestarts

Next ==
    \/ Poll \/ Page
    \/ \E on \in BOOLEAN : Start(on)
    \/ Stop \/ Crash \/ Delete
    \/ \E k \in Keys : SaveBox(k) \/ Create(k)
    \/ \E place \in Places : Bumped(place)
    \/ \E s \in Sizes : Turned(s)

Spec == Init /\ [][Next]_vars

-----------------------------------------------------------------------------
(* Properties.                                                             *)

StatusType == [state : {"learning", "steady", "moved", "lost", "unusable"}, dx : Int]
RefType == {NoRef} \cup [at : Places, size : Sizes]
TrackerType ==
    [key : Keys, ref : RefType, rest : Int, st : StatusType,
     before : StatusType,
     settle : Seq(Int), settled : 0..SettleGiveUp, clean : 0..LearnReadings,
     cleanRun : 0..ReadRun, win : Seq(Int), lostSince : NoSince..LostAfter,
     lostN : 0..LostChecks, cleanSince : BOOLEAN]

\* Every variable keeps its type; a tracker that watches has a reference, its
\* window never outgrows Window, and a saved row is of a reference.
TypeOK ==
    /\ cam \in Places /\ size \in Sizes /\ key \in Keys \cup {""}
    /\ t = Off \/ t \in TrackerType
    /\ pc \in {"down", "idle", "learn", "forget", "take", "resize", "check", "news"}
    /\ On => /\ t.st.state \in {"steady", "moved", "lost"} => t.ref # NoRef
             /\ Len(t.settle) < SettleChecks /\ Len(t.win) <= Window
    /\ row # NoRow => row.key \in Keys /\ row.ref # NoRef
    /\ {keeping, moving, board.retake} \subseteq BOOLEAN

\* A move is told once, until the picture was seen back where it rests or a
\* new reference was taken: not again after the picture was lost and is back
\* in view, nor by a run that starts after a restart or a crash
\* (tracker.go's "before" and what saveRef keeps).
ToldOnce ==
    [][pc = "news" /\ pc' = "idle" /\ t.st.state = "moved" => ~told]_vars

\* Checks that trusted one place, a windowful of them, have found the picture
\* moved when it is far from where it rests, by about that much, and steady
\* when it is close, whatever came before: a lost view, a saved move.
MoveShown ==
    On /\ home.seen /\ Len(recent) = Window
    /\ (\A i \in 1..Window : recent[i] = recent[1]) /\ pc # "take" =>
        LET off == recent[1] - home.at IN
        /\ Abs(off) >= MaxMove =>
               t.st.state = "moved" /\ 3 * Abs(t.st.dx - off) <= MaxMove
        /\ 2 * Abs(off) < MoveMin => t.st.state = "steady"

\* "Not in view" is told of a picture that was missing from LostChecks checks
\* over LostAfter, and of which no run of clean readings came meanwhile.
LostEarned ==
    pc = "news" /\ t.st.state = "lost" =>
        unseen.age >= LostAfter /\ unseen.checks >= LostChecks /\ unseen.unread

\* The page says what the check of the running watch found, unless a new
\* reference was asked for and is not taken yet.
BoardAgrees == On /\ pc = "idle" => board.st = t.st \/ board.retake

\* Who asks for a new reference, or has the box moved, gets one: the request
\* waits through the checks under way, a stop and a save until a frame is
\* taken for it, and only the end of the process or of the watch drops it
\* (Board.Retake, takeRetake, what Tracker restores).
RequestKept == asked => board.retake \/ pc = "take"

\* The page's position line follows the picture.
PageFollowsPicture == MoveShown /\ LostEarned /\ BoardAgrees /\ RequestKept

Inv == TypeOK /\ PageFollowsPicture
=============================================================================
