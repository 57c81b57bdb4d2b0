---------------------------- MODULE GrabsProofs -----------------------------
(* That Grabs gives every slot back, keeps its deadlines, asks the camera    *)
(* no second time with a wrong password and is not refused with the right    *)
(* one, for every set of callers, every number of slots and every timeout.   *)
EXTENDS Grabs, FiniteSetTheorems, TLAPS

Places  == {"idle", "slotWait", "deviceWait", "ffmpeg", "asking", "retrying", "reads"}
Request == [at : Places, age : Nat, off : BOOLEAN, again : BOOLEAN,
            sent : Nat, count : Nat, heard : Challenge \cup {Silence}]
Memory  == [BOOLEAN -> [ch : 0..MaxNonces, nc : 0..MaxAnswers]]
Answers == [digest : BOOLEAN, last : Nat, live : SUBSET (Nat \ {0}), used : SUBSET (Nat \X Nat)]

Types ==
    /\ scene \in Scenes /\ frames \in 0..FrameSlots /\ device \in BOOLEAN
    /\ grab \in [Callers -> Request] /\ mem \in Memory /\ cam \in Answers
    /\ took \in [Callers -> Nat] /\ misses \in [Callers -> Nat]

OnTheWire(g)  == g.at \in {"asking", "retrying"}
Holds(c, g) == Page(c) /\ g.at \in {"deviceWait", "ffmpeg", "asking", "retrying", "reads"}

\* Only an HTTP request asks the camera, and only who asks hears of it; a
\* poll waits for no frame slot.
QuietOk(c) ==
    /\ ~OnTheWire(grab[c]) => grab[c].heard = Silence
    /\ scene.device => ~OnTheWire(grab[c])
    /\ grab[c].heard.nonce <= MaxNonces
    /\ At(c, "slotWait") => Page(c)

\* A grab's context is as old as the grab.
TimeOk(c) ==
    /\ Grabbing(c) => took[c] = grab[c].age
    /\ ~scene.device => took[c] = 0
    /\ took[c] <= Budget(c) + (IF scene.device THEN WaitDelay ELSE 0)

Holders == {c \in Callers : Holds(c, grab[c])}
Openers == {c \in Callers : grab[c].at = "ffmpeg"}

SlotsAgree ==
    /\ frames = Cardinality(Holders)
    /\ Cardinality(Openers) = IF device THEN 1 ELSE 0

IInv ==
    /\ Types /\ SlotsAgree
    /\ \A c \in Callers : QuietOk(c) /\ TimeOk(c)

-----------------------------------------------------------------------------
(* Callers. *)

\* A set of callers that one of them joins, leaves or does neither.
LEMMA CountOne ==
    ASSUME NEW S, IsFiniteSet(S), NEW c \in S, NEW A \in SUBSET S, NEW B \in SUBSET S,
           \A d \in S \ {c} : d \in A <=> d \in B
    PROVE  /\ Cardinality(A) \in Nat /\ Cardinality(A) <= Cardinality(S)
           /\ (c \in A => Cardinality(A) > 0)
           /\ (c \in A /\ c \notin B => Cardinality(B) = Cardinality(A) - 1)
           /\ (c \notin A /\ c \in B => Cardinality(B) = Cardinality(A) + 1)
           /\ ((c \in A <=> c \in B) => Cardinality(B) = Cardinality(A))
<1>1. IsFiniteSet(A) /\ Cardinality(A) \in Nat /\ Cardinality(A) <= Cardinality(S)
    BY FS_Subset, FS_CardinalityType
<1>2. c \in A => Cardinality(A) > 0
    BY <1>1, FS_EmptySet
<1>3. CASE c \in A /\ c \notin B
  <2>1. B = A \ {c}
      BY <1>3
  <2> QED BY <1>1, <1>2, <1>3, <2>1, FS_RemoveElement
<1>4. CASE c \notin A /\ c \in B
  <2>1. B = A \cup {c}
      BY <1>4
  <2> QED BY <1>1, <1>4, <2>1, FS_AddElement
<1>5. CASE c \in A <=> c \in B
  <2>1. B = A
      BY <1>5
  <2> QED BY <1>1, <1>2, <1>5, <2>1
<1> QED BY <1>3, <1>4, <1>5

LEMMA CallersAre ==
    ASSUME IInv
    PROVE  /\ IsFiniteSet(Callers) /\ \A c \in Callers : c \in Caller
           /\ scene.device \in BOOLEAN /\ scene.camera \in Cameras
           /\ FrameSlots \in Nat \ {0} /\ SlotWait \in Nat \ {0} /\ GrabTimeout \in Nat \ {0}
           /\ FFmpegTimeout \in Nat \ {0} /\ ReadBudget \in Nat \ {0} /\ WaitDelay \in Nat
           /\ GrabTimeout <= FFmpegTimeout
           /\ MaxAnswers \in Nat \ {0} /\ MaxNonces \in Nat
BY GrabsAssumption DEF IInv, Types, Callers

\* One caller's step, the slots it takes or gives back with it, and the rest
\* of IInv for that caller: then IInv holds after it.
LEMMA OneMoves ==
    ASSUME IInv, NEW c \in Callers, NEW g \in Request,
           grab' = [grab EXCEPT ![c] = g], scene' = scene,
           frames' = frames - (IF Holds(c, grab[c]) THEN 1 ELSE 0) + (IF Holds(c, g) THEN 1 ELSE 0),
           Holds(c, g) /\ ~Holds(c, grab[c]) => frames < FrameSlots,
           \/ device' = device /\ (g.at = "ffmpeg" <=> grab[c].at = "ffmpeg")
           \/ ~device /\ device' = TRUE /\ g.at = "ffmpeg" /\ grab[c].at # "ffmpeg"
           \/ device' = FALSE /\ g.at # "ffmpeg" /\ grab[c].at = "ffmpeg",
           mem' \in Memory, cam' \in Answers, misses' \in [Callers -> Nat],
           took' = took \/ took' = [took EXCEPT ![c] = 0],
           QuietOk(c)', TimeOk(c)'
    PROVE  IInv'
<1>1. Callers' = Callers
    BY DEF Callers
<1>2. /\ grab \in [Callers -> Request] /\ took \in [Callers -> Nat]
      /\ frames \in 0..FrameSlots /\ device \in BOOLEAN /\ FrameSlots \in Nat
    BY CallersAre DEF IInv, Types
<1>3. /\ grab' \in [Callers -> Request] /\ grab'[c] = g
      /\ \A d \in Callers : d # c => grab'[d] = grab[d]
    BY <1>2
<1>4. took' \in [Callers -> Nat] /\ \A d \in Callers : d # c => took'[d] = took[d]
    BY <1>2
<1>5. ASSUME NEW d \in Callers PROVE QuietOk(d)' /\ TimeOk(d)'
  <2>1. CASE d = c
      BY <2>1
  <2>2. CASE d # c
      BY <1>3, <1>4, <2>2 DEF IInv, QuietOk, TimeOk, Grabbing, Budget, At
  <2> QED BY <2>1, <2>2
<1>6. /\ Cardinality(Holders) \in Nat
      /\ frames' = Cardinality(Holders') /\ frames' \in 0..FrameSlots
  <2>1. Holders \in SUBSET Callers /\ Holders' \in SUBSET Callers
      BY <1>1 DEF Holders
  <2>2. /\ c \in Holders <=> Holds(c, grab[c])
        /\ c \in Holders' <=> Holds(c, g)
        /\ \A d \in Callers \ {c} : d \in Holders <=> d \in Holders'
      BY <1>1, <1>3 DEF Holders
  <2>3. /\ Cardinality(Holders) \in Nat
        /\ (Holds(c, grab[c]) => Cardinality(Holders) > 0)
        /\ (Holds(c, grab[c]) /\ ~Holds(c, g) => Cardinality(Holders') = Cardinality(Holders) - 1)
        /\ (~Holds(c, grab[c]) /\ Holds(c, g) => Cardinality(Holders') = Cardinality(Holders) + 1)
        /\ ((Holds(c, grab[c]) <=> Holds(c, g)) => Cardinality(Holders') = Cardinality(Holders))
      BY <2>1, <2>2, CallersAre, CountOne
  <2>4. frames = Cardinality(Holders)
      BY DEF IInv, SlotsAgree
  <2> QED BY <1>2, <2>3, <2>4
<1>7. Cardinality(Openers') = (IF device' THEN 1 ELSE 0) /\ device' \in BOOLEAN
  <2>1. Openers \in SUBSET Callers /\ Openers' \in SUBSET Callers
      BY <1>1 DEF Openers
  <2>2. /\ c \in Openers <=> grab[c].at = "ffmpeg"
        /\ c \in Openers' <=> g.at = "ffmpeg"
        /\ \A d \in Callers \ {c} : d \in Openers <=> d \in Openers'
      BY <1>1, <1>3 DEF Openers
  <2>3. /\ Cardinality(Openers) \in Nat
        /\ (c \in Openers /\ c \notin Openers' => Cardinality(Openers') = Cardinality(Openers) - 1)
        /\ (c \notin Openers /\ c \in Openers' => Cardinality(Openers') = Cardinality(Openers) + 1)
        /\ ((c \in Openers <=> c \in Openers') => Cardinality(Openers') = Cardinality(Openers))
        /\ (c \in Openers => Cardinality(Openers) > 0)
      BY <2>1, <2>2, CallersAre, CountOne
  <2>4. Cardinality(Openers) = IF device THEN 1 ELSE 0
      BY DEF IInv, SlotsAgree
  <2>5. CASE device' = device /\ (g.at = "ffmpeg" <=> grab[c].at = "ffmpeg")
      BY <1>2, <2>2, <2>3, <2>4, <2>5
  <2>6. CASE ~device /\ device' = TRUE /\ g.at = "ffmpeg" /\ grab[c].at # "ffmpeg"
      BY <2>2, <2>3, <2>4, <2>6
  <2>7. CASE device' = FALSE /\ g.at # "ffmpeg" /\ grab[c].at = "ffmpeg"
    <3>1. device = TRUE
        BY <1>2, <2>2, <2>3, <2>4, <2>7
    <3>2. Cardinality(Openers) = 1
        BY <2>4, <3>1
    <3>3. Cardinality(Openers') = 0
        BY <2>2, <2>3, <2>7, <3>2
    <3> QED BY <2>7, <3>3
  <2> QED BY <2>5, <2>6, <2>7
<1>8. Types'
    BY <1>1, <1>3, <1>4, <1>6, <1>7 DEF IInv, Types
<1> QED BY <1>1, <1>5, <1>6, <1>7, <1>8 DEF IInv, SlotsAgree

\* What a grab may still last is a number, and no less than nothing.
LEMMA BudgetIs ==
    ASSUME IInv, NEW c \in Callers
    PROVE  Budget(c) \in Nat \ {0} /\ Budget(c)' = (IF scene'.device /\ ~Page(c) THEN FFmpegTimeout ELSE GrabTimeout)
BY CallersAre DEF Budget

LEMMA CallerIs ==
    ASSUME IInv, NEW c \in Callers
    PROVE  /\ c.kind \in Kinds /\ c.right \in BOOLEAN /\ c \in Caller
           /\ grab[c] \in Request /\ took[c] \in Nat /\ misses[c] \in Nat
           /\ grab \in [Callers -> Request] /\ took \in [Callers -> Nat]
           /\ misses \in [Callers -> Nat] /\ mem \in Memory /\ cam \in Answers
           /\ mem[c.right].ch \in 0..MaxNonces /\ mem[c.right].nc \in 0..MaxAnswers
           /\ scene.device \in BOOLEAN /\ frames \in 0..FrameSlots /\ device \in BOOLEAN
<1>1. c \in Caller
    BY CallersAre
<1>2. c.kind \in Kinds /\ c.right \in BOOLEAN
    BY <1>1 DEF Caller
<1> QED BY <1>1, <1>2, CallersAre DEF IInv, Types, Memory

-----------------------------------------------------------------------------
(* The steps keep IInv. *)

LEMMA IdleIs ==
    /\ Idle \in Request /\ Idle.at = "idle" /\ Idle.age = 0 /\ Idle.heard = Silence
    /\ Idle.sent = NoNonce /\ Idle.off = FALSE /\ Idle.again = FALSE
    /\ Silence.nonce = 0 /\ Silence.status = 0
BY DEF Idle, Request, Places, Silence, NoNonce

\* What the steps make of a request.
LEMMA RequestIs ==
    ASSUME NEW g \in Request, NEW b \in BOOLEAN, NEW o \in BOOLEAN, NEW p \in Places,
           NEW n \in Nat, NEW k \in Nat, NEW h \in Challenge \cup {Silence}
    PROVE  /\ [[g EXCEPT !.again = b, !.off = o] EXCEPT !.at = p]
                = [g EXCEPT !.again = b, !.off = o, !.at = p]
           /\ [g EXCEPT !.again = b, !.off = o, !.at = p] \in Request
           /\ [g EXCEPT !.at = p, !.off = o] \in Request
           /\ authorization(g, n, k) \in Request
           /\ [g EXCEPT !.at = p] \in Request
           /\ [g EXCEPT !.off = o] \in Request
           /\ [g EXCEPT !.heard = h] \in Request
           /\ [g EXCEPT !.at = p, !.heard = h] \in Request
<1>1. [[g EXCEPT !.again = b, !.off = o] EXCEPT !.at = p] = [g EXCEPT !.again = b, !.off = o, !.at = p]
    BY DEF Request
<1>2. [g EXCEPT !.again = b, !.off = o, !.at = p] \in Request /\ [g EXCEPT !.at = p, !.off = o] \in Request
    BY DEF Request
<1>3. authorization(g, n, k) \in Request
    BY DEF Request, authorization
<1> QED BY <1>1, <1>2, <1>3 DEF Request

\* A grab that begins holds a page's slot and no device yet.
LEMMA BeginsKeeps ==
    ASSUME IInv, NEW c \in Callers, NEW again \in BOOLEAN, Begins(c, again),
           grab[c].at \in {"idle", "slotWait", "reads"},
           UNCHANGED <<scene, device, cam>>,
           frames' = frames - (IF Holds(c, grab[c]) THEN 1 ELSE 0) + (IF Page(c) THEN 1 ELSE 0),
           Page(c) /\ ~Holds(c, grab[c]) => frames < FrameSlots
    PROVE  IInv'
<1> DEFINE n   == cachedDigest(c.right)
           new == [Idle EXCEPT !.again = again, !.off = grab[c].off]
           g   == IF scene.device THEN [new EXCEPT !.at = "deviceWait"]
                  ELSE authorization([new EXCEPT !.at = "asking"], mem[c.right].ch, n)
<1>1. grab' = [grab EXCEPT ![c] = g] /\ took' = [took EXCEPT ![c] = 0] /\ misses' = [misses EXCEPT ![c] = 0]
    BY CallerIs DEF Begins, Goes
<1>2. mem' = mem \/ (n <= MaxAnswers /\ mem' = [mem EXCEPT ![c.right].nc = n])
  <2>1. CASE scene.device
      BY <2>1 DEF Begins
  <2>2. CASE ~scene.device
      BY <2>2 DEF Begins
  <2> QED BY <2>1, <2>2
<1>3. n \in Nat
    BY CallerIs DEF cachedDigest
<1>4. /\ g \in Request /\ g.at = (IF scene.device THEN "deviceWait" ELSE "asking")
      /\ g.age = 0 /\ g.heard = Silence
  <2>1. mem[c.right].ch \in Nat /\ grab[c].off \in BOOLEAN /\ scene.device \in BOOLEAN
      BY CallerIs, CallersAre DEF Request
  <2>2. new \in Request /\ new.age = 0 /\ new.heard = Silence
      BY <2>1, IdleIs DEF Request
  <2> HIDE DEF new, n
  <2>3. CASE scene.device
      BY <2>1, <2>2, <2>3 DEF Request, Places
  <2>4. CASE ~scene.device
      BY <1>3, <2>1, <2>2, <2>4 DEF Request, Places, authorization
  <2> QED BY <2>1, <2>3, <2>4
<1> HIDE DEF g, n, new
<1>5. mem' \in Memory
  <2>1. CASE mem' = mem
      BY <2>1, CallerIs
  <2>2. CASE n <= MaxAnswers /\ mem' = [mem EXCEPT ![c.right].nc = n]
    <3>1. n \in 0..MaxAnswers
        BY <1>3, <2>2, CallersAre
    <3> QED BY <2>2, <3>1, CallerIs DEF Memory
  <2> QED BY <1>2, <2>1, <2>2
<1>6. grab'[c] = g /\ took'[c] = 0 /\ misses' \in [Callers -> Nat]
    BY <1>1, CallerIs
<1>7. QuietOk(c)'
    BY <1>4, <1>6, CallersAre, IdleIs DEF QuietOk, OnTheWire, At
<1>8. TimeOk(c)'
    BY <1>4, <1>6, CallersAre, BudgetIs DEF TimeOk, Budget
<1>9. Holds(c, g) <=> Page(c)
    BY <1>4 DEF Holds
<1>10. g.at # "ffmpeg" /\ grab[c].at # "ffmpeg"
    BY <1>4
<1>11. cam' \in Answers
    BY CallerIs
<1>12. /\ frames' = frames - (IF Holds(c, grab[c]) THEN 1 ELSE 0) + (IF Holds(c, g) THEN 1 ELSE 0)
       /\ Holds(c, g) /\ ~Holds(c, grab[c]) => frames < FrameSlots
    BY <1>9
<1> QED BY <1>1, <1>4, <1>5, <1>6, <1>7, <1>8, <1>10, <1>11, <1>12, OneMoves

\* A request that ends, and one that has its frame, let go of what they hold.
LEMMA EndsKeeps ==
    ASSUME IInv, NEW c \in Callers,
           Ends(c) \/ HasFrame(c),
           grab[c].at \in {"deviceWait", "ffmpeg", "asking", "retrying", "reads"},
           UNCHANGED <<scene, cam, took, misses>>, mem' \in Memory,
           device' = IF At(c, "ffmpeg") THEN FALSE ELSE device
    PROVE  IInv'
<1> DEFINE r == [Idle EXCEPT !.at = "reads", !.off = grab[c].off]
<1>1. Holds(c, grab[c]) <=> Page(c)
    BY DEF Holds
<1>2. PICK g \in {Idle, r} :
        /\ grab' = [grab EXCEPT ![c] = g]
        /\ \/ g = Idle /\ frames' = Released(c)
           \/ g = r /\ frames' = frames /\ c.kind \in {"test", "pixel"}
    BY DEF Ends, HasFrame, Goes
<1>3. g \in Request /\ g.at = (IF g = Idle THEN "idle" ELSE "reads") /\ g.age = 0 /\ g.heard = Silence
  <2>1. grab[c].off \in BOOLEAN
      BY CallerIs DEF Request
  <2>2. "reads" \in Places
      BY DEF Places
  <2>3. r \in Request /\ r.at = "reads" /\ r.age = 0 /\ r.heard = Silence
      BY <2>1, <2>2, IdleIs DEF Request
  <2>4. Idle \in Request /\ Idle.at = "idle" /\ Idle.age = 0 /\ Idle.heard = Silence
      BY IdleIs DEF Idle
  <2> QED BY <1>2, <2>3, <2>4
<1>4. frames' = frames - (IF Holds(c, grab[c]) THEN 1 ELSE 0) + (IF Holds(c, g) THEN 1 ELSE 0)
  <2>1. frames \in Nat
      BY CallerIs
  <2>2. CASE g = Idle /\ frames' = Released(c)
      BY <1>1, <1>3, <2>1, <2>2 DEF Holds, Released
  <2>3. CASE g = r /\ frames' = frames /\ c.kind \in {"test", "pixel"}
    <3>1. r # Idle
        BY DEF Idle
    <3> QED BY <1>1, <1>3, <2>1, <2>3, <3>1 DEF Holds, Page
  <2> QED BY <1>2, <2>2, <2>3
<1>5. grab'[c] = g /\ took'[c] = took[c]
    BY <1>2, CallerIs
<1>6. QuietOk(c)'
    BY <1>3, <1>5, CallersAre, IdleIs DEF QuietOk, OnTheWire, At
<1>7. TimeOk(c)'
    BY <1>3, <1>5 DEF IInv, TimeOk, Budget, Grabbing
<1>8. \/ device' = device /\ (g.at = "ffmpeg" <=> grab[c].at = "ffmpeg")
      \/ device' = FALSE /\ g.at # "ffmpeg" /\ grab[c].at = "ffmpeg"
    BY <1>3 DEF At
<1>9. cam' \in Answers /\ misses' \in [Callers -> Nat]
    BY CallerIs
<1> HIDE DEF r
<1> QED BY <1>1, <1>2, <1>3, <1>4, <1>6, <1>7, <1>8, <1>9, OneMoves DEF Holds

\* A caller that holds what it held and is heard of as it was.
LEMMA StaysKeeps ==
    ASSUME IInv, NEW c \in Callers, NEW g \in Request,
           grab' = [grab EXCEPT ![c] = g], UNCHANGED <<scene, frames, device, took>>,
           g.age = grab[c].age, g.at = grab[c].at \/ (g.at = "retrying" /\ grab[c].at = "asking"),
           g.heard = grab[c].heard \/ OnTheWire(g), g.heard.nonce <= MaxNonces,
           mem' \in Memory, cam' \in Answers, misses' \in [Callers -> Nat]
    PROVE  IInv'
<1>1. grab'[c] = g /\ took'[c] = took[c]
    BY CallerIs
<1>2. QuietOk(c)'
    BY <1>1 DEF IInv, QuietOk, OnTheWire, At
<1>3. TimeOk(c)'
    BY <1>1 DEF IInv, TimeOk, Budget, Grabbing
<1>4. Holds(c, g) <=> Holds(c, grab[c])
    BY DEF Holds
<1>5. g.at = "ffmpeg" <=> grab[c].at = "ffmpeg"
    OBVIOUS
<1>6. frames' = frames - (IF Holds(c, grab[c]) THEN 1 ELSE 0) + (IF Holds(c, g) THEN 1 ELSE 0)
    BY <1>4, CallerIs
<1> QED BY <1>2, <1>3, <1>4, <1>5, <1>6, OneMoves

LEMMA ComesKeeps == ASSUME IInv, NEW c \in Callers, Comes(c) PROVE IInv'
<1> DEFINE g == [Idle EXCEPT !.at = "slotWait"]
<1>1. g \in Request /\ g.at = "slotWait" /\ g.age = 0 /\ g.heard = Silence
    BY IdleIs DEF Request, Places
<1>2. grab' = [grab EXCEPT ![c] = g] /\ took' = [took EXCEPT ![c] = 0]
    BY DEF Comes, Goes
<1> HIDE DEF g
<1>3. grab'[c] = g /\ took'[c] = 0 /\ grab[c].at = "idle"
    BY <1>2, CallerIs DEF Comes, At
<1>4. QuietOk(c)' /\ TimeOk(c)'
    BY <1>1, <1>3, CallersAre, IdleIs, BudgetIs
       DEF QuietOk, OnTheWire, At, TimeOk, Grabbing, Budget, Comes
<1>5. ~Holds(c, g) /\ ~Holds(c, grab[c])
    BY <1>1, <1>3 DEF Holds
<1>6. /\ UNCHANGED <<scene, frames, device>>
      /\ mem' \in Memory /\ cam' \in Answers /\ misses' \in [Callers -> Nat]
    BY CallerIs DEF Comes
<1>7. frames' = frames - (IF Holds(c, grab[c]) THEN 1 ELSE 0) + (IF Holds(c, g) THEN 1 ELSE 0)
    BY <1>5, <1>6, CallerIs
<1> QED BY <1>1, <1>2, <1>3, <1>4, <1>5, <1>6, <1>7, OneMoves

LEMMA BusyKeeps == ASSUME IInv, NEW c \in Callers, Busy(c) PROVE IInv'
<1>1. grab' = [grab EXCEPT ![c] = Idle] /\ grab'[c] = Idle /\ grab[c].at = "slotWait"
    BY CallerIs DEF Busy, Goes, At
<1>2. UNCHANGED <<scene, frames, device, mem, cam, took, misses>>
    BY DEF Busy
<1>3. QuietOk(c)' /\ TimeOk(c)'
    BY <1>1, <1>2, CallersAre, IdleIs DEF IInv, QuietOk, OnTheWire, At, TimeOk, Grabbing, Budget
<1>4. ~Holds(c, Idle) /\ ~Holds(c, grab[c])
    BY <1>1, IdleIs DEF Holds
<1>5. mem' \in Memory /\ cam' \in Answers /\ misses' \in [Callers -> Nat]
    BY <1>2, CallerIs
<1>6. frames' = frames - (IF Holds(c, grab[c]) THEN 1 ELSE 0) + (IF Holds(c, Idle) THEN 1 ELSE 0)
    BY <1>2, <1>4, CallerIs
<1> QED BY <1>1, <1>2, <1>3, <1>4, <1>5, <1>6, IdleIs, OneMoves

LEMMA BeginningsKeep ==
    ASSUME IInv, NEW c \in Callers, TakesSlot(c) \/ Polls(c) \/ GrabsAgain(c)
    PROVE  IInv'
<1>1. CASE TakesSlot(c)
  <2>1. grab[c].at = "slotWait" /\ frames' = frames + 1 /\ frames < FrameSlots /\ Begins(c, FALSE)
        /\ UNCHANGED <<scene, device, cam>>
      BY <1>1 DEF TakesSlot, At
  <2>2. Page(c) /\ ~Holds(c, grab[c])
      BY <2>1 DEF IInv, QuietOk, At, Holds
  <2>3. frames' = frames - (IF Holds(c, grab[c]) THEN 1 ELSE 0) + (IF Page(c) THEN 1 ELSE 0)
      BY <2>1, <2>2, CallerIs
  <2> QED BY <2>1, <2>2, <2>3, BeginsKeeps
<1>2. CASE Polls(c)
  <2>1. grab[c].at = "idle" /\ frames' = frames /\ ~Page(c) /\ Begins(c, FALSE)
        /\ UNCHANGED <<scene, device, cam>>
      BY <1>2 DEF Polls, At
  <2>2. ~Holds(c, grab[c])
      BY <2>1 DEF Holds
  <2>3. frames' = frames - (IF Holds(c, grab[c]) THEN 1 ELSE 0) + (IF Page(c) THEN 1 ELSE 0)
      BY <2>1, <2>2, CallerIs
  <2> QED BY <2>1, <2>3, BeginsKeeps
<1>3. CASE GrabsAgain(c)
  <2>1. grab[c].at = "reads" /\ frames' = frames /\ c.kind = "pixel" /\ Begins(c, TRUE)
        /\ UNCHANGED <<scene, device, cam>>
      BY <1>3 DEF GrabsAgain, At
  <2>2. Page(c) /\ Holds(c, grab[c])
      BY <2>1 DEF Holds, Page
  <2>3. frames' = frames - (IF Holds(c, grab[c]) THEN 1 ELSE 0) + (IF Page(c) THEN 1 ELSE 0)
      BY <2>1, <2>2, CallerIs
  <2> QED BY <2>1, <2>2, <2>3, BeginsKeeps
<1> QED BY <1>1, <1>2, <1>3

LEMMA EndingsKeep ==
    ASSUME IInv, NEW c \in Callers,
           DeviceTooLate(c) \/ FFmpegExits(c) \/ Reads(c) \/ Refused(c) \/ Accepted(c) \/ GrabFails(c)
    PROVE  IInv'
<1>1. mem' \in Memory
  <2>1. CASE Refused(c)
    <3>1. mem' = mem \/ mem' = [mem EXCEPT ![c.right] = [ch |-> NoNonce, nc |-> 0]]
        BY <2>1 DEF Refused
    <3>2. NoNonce \in 0..MaxNonces /\ 0 \in 0..MaxAnswers
        BY CallersAre DEF NoNonce
    <3> QED BY <3>1, <3>2, CallerIs DEF Memory
  <2> QED BY <2>1, CallerIs DEF DeviceTooLate, FFmpegExits, Reads, Accepted, GrabFails
<1>2. Ends(c) \/ HasFrame(c)
    BY DEF DeviceTooLate, FFmpegExits, Reads, Refused, Accepted, GrabFails
<1>3. grab[c].heard # Silence => grab[c].at \in {"asking", "retrying"}
    BY DEF IInv, QuietOk, OnTheWire, At
<1>4. grab[c].at \in {"deviceWait", "ffmpeg", "asking", "retrying", "reads"}
    BY <1>3, IdleIs DEF DeviceTooLate, FFmpegExits, Reads, Refused, Accepted, GrabFails, At
<1>5. UNCHANGED <<scene, cam, took, misses>>
    BY DEF DeviceTooLate, FFmpegExits, Reads, Refused, Accepted, GrabFails
<1>6. device' = IF At(c, "ffmpeg") THEN FALSE ELSE device
  <2>1. CASE FFmpegExits(c)
      BY <2>1 DEF FFmpegExits
  <2>2. CASE ~FFmpegExits(c)
    <3>1. grab[c].at # "ffmpeg"
        BY <1>3, <2>2, IdleIs DEF DeviceTooLate, Reads, Refused, Accepted, GrabFails, At
    <3> QED BY <2>2, <3>1 DEF DeviceTooLate, Reads, Refused, Accepted, GrabFails, At
  <2> QED BY <2>1, <2>2
<1> QED BY <1>1, <1>2, <1>4, <1>5, <1>6, EndsKeeps

LEMMA TakesDeviceKeeps == ASSUME IInv, NEW c \in Callers, TakesDevice(c) PROVE IInv'
<1> DEFINE g == [grab[c] EXCEPT !.at = "ffmpeg"]
<1>1. g \in Request /\ g.at = "ffmpeg" /\ g.age = grab[c].age /\ g.heard = grab[c].heard
    BY CallerIs DEF Request, Places
<1>2. grab' = [grab EXCEPT ![c] = g] /\ grab[c].at = "deviceWait" /\ ~device /\ device' = TRUE
      /\ UNCHANGED <<scene, frames, mem, cam, took, misses>>
    BY DEF TakesDevice, Goes, At
<1> HIDE DEF g
<1>3. grab'[c] = g
    BY <1>2, CallerIs
<1>4. QuietOk(c)' /\ TimeOk(c)'
    BY <1>1, <1>2, <1>3 DEF IInv, QuietOk, OnTheWire, At, TimeOk, Grabbing, Budget
<1>5. Holds(c, g) <=> Holds(c, grab[c])
    BY <1>1, <1>2 DEF Holds
<1>6. frames' = frames - (IF Holds(c, grab[c]) THEN 1 ELSE 0) + (IF Holds(c, g) THEN 1 ELSE 0)
    BY <1>2, <1>5, CallerIs
<1>7. mem' \in Memory /\ cam' \in Answers /\ misses' \in [Callers -> Nat] /\ took' = took
      /\ scene' = scene
    BY <1>2, CallerIs
<1>8. ~device /\ device' = TRUE /\ g.at = "ffmpeg" /\ grab[c].at # "ffmpeg"
    BY <1>1, <1>2
<1> QED BY <1>1, <1>2, <1>4, <1>5, <1>6, <1>7, <1>8, OneMoves

LEMMA CalledOffKeeps == ASSUME IInv, NEW c \in Callers, CalledOff(c) PROVE IInv'
<1> DEFINE g == [grab[c] EXCEPT !.off = TRUE]
<1>1. g \in Request /\ g.at = grab[c].at /\ g.age = grab[c].age /\ g.heard = grab[c].heard
    BY CallerIs DEF Request
<1>2. grab' = [grab EXCEPT ![c] = g] /\ UNCHANGED <<scene, frames, device, mem, cam, took, misses>>
    BY DEF CalledOff, Goes
<1> HIDE DEF g
<1>3. mem' \in Memory /\ cam' \in Answers /\ misses' \in [Callers -> Nat]
    BY <1>2, CallerIs
<1>4. grab[c].heard.nonce <= MaxNonces
    BY DEF IInv, QuietOk
<1> QED BY <1>1, <1>2, <1>3, <1>4, StaysKeeps

LEMMA DigestRetryKeeps == ASSUME IInv, NEW c \in Callers, digestRetry(c) PROVE IInv'
<1> DEFINE h == grab[c].heard
           g == authorization([grab[c] EXCEPT !.at = "retrying", !.heard = Silence], h.nonce, 1)
<1>1. h \in Challenge \cup {Silence} /\ h.nonce \in 0..MaxNonces /\ h.nonce \in Nat
  <2>1. h \in Challenge \cup {Silence} /\ h.nonce <= MaxNonces
      BY CallerIs DEF IInv, QuietOk, Request
  <2>2. h.nonce \in Nat
      BY <2>1, IdleIs DEF Challenge
  <2> QED BY <2>1, <2>2, CallersAre
<1> DEFINE n == h.nonce
<1>2. grab' = [grab EXCEPT ![c] = g] /\ mem' = [mem EXCEPT ![c.right] = [ch |-> n, nc |-> 1]]
      /\ grab[c].at = "asking" /\ UNCHANGED <<scene, frames, device, cam, took, misses>>
    BY DEF digestRetry, Goes, Challenged, At
<1>3. n \in Nat
    BY <1>1
<1> HIDE DEF h
<1>4. g \in Request /\ g.at = "retrying" /\ g.age = grab[c].age /\ g.heard = Silence
  <2> HIDE DEF n
  <2> DEFINE w == [grab[c] EXCEPT !.at = "retrying", !.heard = Silence]
  <2>1. w \in Request /\ w.at = "retrying" /\ w.age = grab[c].age /\ w.heard = Silence
      BY CallerIs DEF Request, Places
  <2>2. g = authorization(w, n, 1)
      BY DEF n
  <2> HIDE DEF w, g
  <2> QED BY <1>3, <2>1, <2>2 DEF Request, authorization
<1> HIDE DEF g
<1>5. mem' \in Memory
  <2>1. n \in 0..MaxNonces /\ 1 \in 0..MaxAnswers
      BY <1>1, CallersAre
  <2> HIDE DEF n
  <2> QED BY <1>2, <2>1, CallerIs DEF Memory
<1>6. OnTheWire(g) /\ g.heard.nonce <= MaxNonces
    BY <1>4, IdleIs, CallersAre DEF OnTheWire
<1>7. cam' \in Answers /\ misses' \in [Callers -> Nat]
    BY <1>2, CallerIs
<1> QED BY <1>2, <1>4, <1>5, <1>6, <1>7, StaysKeeps

\* What the camera says, and what it remembers of the answer.
Heard(c, n) ==
    CASE Taken(c) -> [status |-> 200, nonce |-> NoNonce, stale |-> FALSE]
      [] ~Taken(c) /\ cam.digest ->
            [status |-> 401, nonce |-> n, stale |-> grab[c].sent \notin cam.live \cup {NoNonce}]
      [] OTHER -> [status |-> 401, nonce |-> NoNonce, stale |-> FALSE]

Remembers(c, n) ==
    [cam EXCEPT !.last = IF n > @ THEN n ELSE @,
                !.live = IF n # NoNonce THEN @ \cup {n} ELSE @,
                !.used = @ \cup {p \in {<<grab[c].sent, grab[c].count>>} : p[1] \in cam.live}]

Missed(c) == ~c.right /\ (IF cam.digest THEN grab[c].sent \in cam.live ELSE grab[c].sent = NoNonce)

LEMMA OffersIs ==
    ASSUME IInv, NEW c \in Callers
    PROVE  /\ Offers(c) \in Nat \ {0} /\ cam.last \in Nat
           /\ Offers(c) \in cam.live \/ Offers(c) = cam.last + 1
           /\ (scene.camera.offers = "shared" /\ cam.live # {} => Offers(c) \in cam.live)
           /\ (scene.camera.offers = "session" /\ grab[c].sent \in cam.live => Offers(c) = grab[c].sent)
           /\ (scene.camera.offers = "each" => Offers(c) = cam.last + 1)
           /\ (scene.camera.offers # "shared" =>
                  \/ Offers(c) = cam.last + 1
                  \/ Offers(c) = grab[c].sent /\ grab[c].sent \in cam.live)
<1>1. cam.last \in Nat /\ cam.live \subseteq Nat \ {0}
    BY CallerIs DEF Answers
<1>2. CASE scene.camera.offers = "shared" /\ cam.live # {}
  <2>1. Offers(c) = CHOOSE n \in cam.live : TRUE
      BY <1>2 DEF Offers
  <2>2. Offers(c) \in cam.live
      BY <1>2, <2>1
  <2> QED BY <1>1, <1>2, <2>2
<1>3. CASE scene.camera.offers = "session" /\ grab[c].sent \in cam.live
    BY <1>1, <1>3 DEF Offers
<1>4. CASE /\ ~(scene.camera.offers = "shared" /\ cam.live # {})
           /\ ~(scene.camera.offers = "session" /\ grab[c].sent \in cam.live)
  <2>1. Offers(c) = cam.last + 1
      BY <1>4 DEF Offers
  <2> QED BY <1>1, <1>4, <2>1
<1> QED BY <1>2, <1>3, <1>4

LEMMA CameraIs ==
    ASSUME IInv, NEW c \in Callers, CameraAnswers(c)
    PROVE  \E h \in Challenge :
               /\ h = Heard(c, Offers(c)) /\ h.nonce <= MaxNonces
               /\ h.nonce \in {NoNonce, Offers(c)}
               /\ grab' = [grab EXCEPT ![c] = [grab[c] EXCEPT !.heard = h]]
               /\ cam' = Remembers(c, h.nonce)
               /\ misses' = IF Missed(c) THEN [misses EXCEPT ![c] = @ + 1] ELSE misses
               /\ grab[c].at \in {"asking", "retrying"} /\ grab[c].heard = Silence
               /\ UNCHANGED <<scene, frames, device, mem, took>>
<1> DEFINE h == Heard(c, Offers(c))
<1>1. Offers(c) \in Nat
    BY OffersIs
<1>2. h \in Challenge /\ h.nonce \in {NoNonce, Offers(c)}
  <2> DEFINE o == Offers(c)
             b == grab[c].sent \notin cam.live \cup {NoNonce}
  <2>1. o \in Nat /\ b \in BOOLEAN /\ NoNonce \in Nat
      BY <1>1 DEF NoNonce
  <2>2. h \in {[status |-> 200, nonce |-> NoNonce, stale |-> FALSE],
               [status |-> 401, nonce |-> o, stale |-> b],
               [status |-> 401, nonce |-> NoNonce, stale |-> FALSE]}
    <3>1. CASE Taken(c)
        BY <3>1 DEF Heard
    <3>2. CASE ~Taken(c) /\ cam.digest
        BY <3>2 DEF Heard
    <3>3. CASE ~Taken(c) /\ ~cam.digest
        BY <3>3 DEF Heard
    <3> QED BY <3>1, <3>2, <3>3
  <2> HIDE DEF h, o, b
  <2>3. h \in Challenge /\ h.nonce \in {NoNonce, o}
    <3>1. CASE h = [status |-> 200, nonce |-> NoNonce, stale |-> FALSE]
        BY <2>1, <3>1 DEF Challenge
    <3>2. CASE h = [status |-> 401, nonce |-> o, stale |-> b]
        BY <2>1, <3>2 DEF Challenge
    <3>3. CASE h = [status |-> 401, nonce |-> NoNonce, stale |-> FALSE]
        BY <2>1, <3>3 DEF Challenge
    <3> QED BY <2>2, <3>1, <3>2, <3>3
  <2> QED BY <2>3 DEF o
<1>3. /\ h.nonce <= MaxNonces
      /\ grab' = [grab EXCEPT ![c] = [grab[c] EXCEPT !.heard = h]]
      /\ cam' = Remembers(c, h.nonce)
      /\ misses' = IF Missed(c) THEN [misses EXCEPT ![c] = @ + 1] ELSE misses
      /\ grab[c].at \in {"asking", "retrying"} /\ grab[c].heard = Silence
      /\ UNCHANGED <<scene, frames, device, mem, took>>
    BY DEF CameraAnswers, Heard, Remembers, Missed, Goes
<1> QED BY <1>2, <1>3

LEMMA RemembersIs ==
    ASSUME NEW k \in Answers, NEW n \in Nat, NEW s \in Nat, NEW m \in Nat
    PROVE  [k EXCEPT !.last = IF n > @ THEN n ELSE @,
                     !.live = IF n # NoNonce THEN @ \cup {n} ELSE @,
                     !.used = @ \cup {p \in {<<s, m>>} : p[1] \in k.live}] \in Answers
<1> DEFINE l == IF n > k.last THEN n ELSE k.last
           v == IF n # NoNonce THEN k.live \cup {n} ELSE k.live
           u == k.used \cup {p \in {<<s, m>>} : p[1] \in k.live}
<1>1. l \in Nat /\ v \in SUBSET (Nat \ {0}) /\ u \in SUBSET (Nat \X Nat)
    BY DEF Answers, NoNonce
<1>2. [k EXCEPT !.last = l, !.live = v, !.used = u] \in Answers
  <2> HIDE DEF l, v, u
  <2> QED BY <1>1 DEF Answers
<1> QED BY <1>2

LEMMA CameraKeeps == ASSUME IInv, NEW c \in Callers, CameraAnswers(c) PROVE IInv'
<1>1. PICK h \in Challenge :
          /\ h.nonce <= MaxNonces
          /\ grab' = [grab EXCEPT ![c] = [grab[c] EXCEPT !.heard = h]]
          /\ cam' = Remembers(c, h.nonce)
          /\ misses' = IF Missed(c) THEN [misses EXCEPT ![c] = @ + 1] ELSE misses
          /\ grab[c].at \in {"asking", "retrying"}
          /\ UNCHANGED <<scene, frames, device, mem, took>>
    BY CameraIs
<1> DEFINE g == [grab[c] EXCEPT !.heard = h]
<1>2. g \in Request /\ g.at = grab[c].at /\ g.age = grab[c].age /\ g.heard = h
    BY CallerIs DEF Request
<1> HIDE DEF g
<1>3. cam' \in Answers
  <2>1. grab[c].sent \in Nat /\ grab[c].count \in Nat /\ h.nonce \in Nat /\ cam \in Answers
      BY CallerIs DEF Request, Challenge
  <2> QED BY <1>1, <2>1, RemembersIs DEF Remembers
<1>4. misses' \in [Callers -> Nat]
    BY <1>1, CallerIs
<1>5. mem' \in Memory /\ OnTheWire(g)
    BY <1>1, <1>2, CallerIs DEF OnTheWire
<1>6. grab' = [grab EXCEPT ![c] = g]
    BY <1>1 DEF g
<1> QED BY <1>1, <1>2, <1>3, <1>4, <1>5, <1>6, StaysKeeps

\* What becomes of a nonce by itself, and of the camera's scheme, is the
\* camera's alone.
LEMMA OwnChangeKeeps ==
    ASSUME IInv, (\E n \in cam.live : Retires(n)) \/ GoesBasic
    PROVE  IInv'
<1>1. UNCHANGED <<scene, frames, device, grab, mem, took, misses>>
    BY DEF Retires, GoesBasic
<1>2. cam \in Answers
    BY DEF IInv, Types
<1>3. cam' \in Answers
  <2>1. CASE GoesBasic
      BY <1>2, <2>1 DEF GoesBasic, Answers
  <2>2. ASSUME NEW n \in cam.live, Retires(n) PROVE cam' \in Answers
    <3> DEFINE u == {p \in cam.used : p[1] # n}
    <3>1. cam' = [cam EXCEPT !.live = cam.live \ {n}, !.used = u]
        BY <2>2 DEF Retires
    <3>2. u \in SUBSET (Nat \X Nat)
        BY <1>2 DEF Answers
    <3> HIDE DEF u
    <3> QED BY <1>2, <3>1, <3>2 DEF Answers
  <2> QED BY <2>1, <2>2
<1>4. Callers' = Callers /\ Holders' = Holders /\ Openers' = Openers
    BY <1>1 DEF Callers, Holders, Openers
<1>5. \A c \in Callers : QuietOk(c)' /\ TimeOk(c)'
    BY <1>1 DEF IInv, QuietOk, OnTheWire, At, TimeOk, Grabbing, Budget
<1> QED BY <1>1, <1>3, <1>4, <1>5 DEF IInv, Types, SlotsAgree

\* Whoever the clock runs for was not overdue.
LEMMA TickKeeps == ASSUME IInv, Tick PROVE IInv'
<1>1. /\ scene.device
      /\ grab' = [c \in Callers |-> IF At(c, "idle") THEN grab[c] ELSE [grab[c] EXCEPT !.age = @ + 1]]
      /\ took' = [c \in Callers |-> IF Grabbing(c) THEN took[c] + 1 ELSE took[c]]
      /\ UNCHANGED <<scene, frames, device, mem, cam, misses>>
      /\ \A c \in Callers : At(c, "idle") \/ ~Overdue(c)
    BY DEF Tick
<1>2. Callers' = Callers
    BY <1>1 DEF Callers
<1>3. ASSUME NEW c \in Callers
      PROVE  /\ grab'[c] \in Request /\ grab'[c].at = grab[c].at /\ grab'[c].heard = grab[c].heard
             /\ (grab[c].at # "idle" => grab'[c].age = grab[c].age + 1)
  <2>1. grab[c] \in Request
      BY CallerIs
  <2>2. CASE grab[c].at = "idle"
    <3>1. grab'[c] = grab[c]
        BY <1>1, <2>2 DEF At
    <3> QED BY <2>1, <2>2, <3>1
  <2>3. CASE grab[c].at # "idle"
    <3> DEFINE g == grab[c]
    <3>1. grab'[c] = [g EXCEPT !.age = g.age + 1]
        BY <1>1, <2>3 DEF At
    <3> HIDE DEF g
    <3>2. g \in Request => LET o == [g EXCEPT !.age = g.age + 1]
                           IN  o \in Request /\ o.at = g.at /\ o.heard = g.heard /\ o.age = g.age + 1
        BY DEF Request
    <3> QED BY <2>1, <3>1, <3>2 DEF g
  <2> QED BY <2>2, <2>3
<1>4. grab' \in [Callers -> Request]
    BY <1>1, <1>3
<1>5. took' \in [Callers -> Nat]
    BY <1>1 DEF IInv, Types
<1>6. Holders' = Holders /\ Openers' = Openers
    BY <1>2, <1>3 DEF Holders, Openers, Holds
<1>7. ASSUME NEW c \in Callers PROVE QuietOk(c)'
    BY <1>1, <1>3 DEF IInv, QuietOk, OnTheWire, At
<1>8. ASSUME NEW c \in Callers PROVE TimeOk(c)'
  <2>1. /\ TimeOk(c) /\ Budget(c) \in Nat /\ Budget(c)' = Budget(c) /\ WaitDelay \in Nat
        /\ grab[c].age \in Nat /\ took[c] \in Nat
      BY <1>1, CallerIs, BudgetIs, CallersAre DEF IInv, Budget, Request
  <2>2. Grabbing(c)' <=> Grabbing(c)
      BY <1>3 DEF Grabbing
  <2>3. CASE Grabbing(c)
    <3>1. ~Overdue(c) /\ Limit(c) = Budget(c) /\ grab[c].at # "idle"
        BY <1>1, <2>3 DEF Grabbing, At, Limit
    <3>2. grab[c].age < Budget(c) + WaitDelay
        BY <2>1, <3>1 DEF Overdue
    <3>3. took'[c] = took[c] + 1 /\ grab'[c].age = grab[c].age + 1
        BY <1>1, <1>3, <2>3, <3>1
    <3> QED BY <1>1, <2>1, <2>2, <2>3, <3>2, <3>3 DEF TimeOk
  <2>4. CASE ~Grabbing(c)
    <3>1. took'[c] = took[c]
        BY <1>1, <2>4
    <3> QED BY <1>1, <2>1, <2>2, <2>4, <3>1 DEF TimeOk
  <2> QED BY <2>3, <2>4
<1> QED BY <1>1, <1>2, <1>4, <1>5, <1>6, <1>7, <1>8 DEF IInv, Types, SlotsAgree

LEMMA NextKeeps == ASSUME IInv, [Next]_vars PROVE IInv'
<1>1. CASE UNCHANGED vars
  <2>1. Holders' = Holders /\ Openers' = Openers /\ Callers' = Callers
      BY <1>1 DEF vars, Holders, Openers, Callers
  <2> QED BY <1>1, <2>1
         DEF vars, IInv, Types, SlotsAgree, QuietOk, OnTheWire, At, TimeOk, Grabbing, Budget
<1>2. ASSUME NEW c \in Callers, Shares(c) PROVE IInv'
    BY <1>2, ComesKeeps, BusyKeeps, BeginningsKeep, TakesDeviceKeeps, EndingsKeep, CalledOffKeeps
       DEF Shares
<1>3. ASSUME NEW c \in Callers, Asks(c) PROVE IInv'
    BY <1>3, DigestRetryKeeps, EndingsKeep DEF Asks
<1>4. ASSUME NEW c \in Callers, CameraAnswers(c) PROVE IInv'
    BY <1>4, CameraKeeps
<1>5. CASE Tick
    BY <1>5, TickKeeps
<1>6. CASE (\E n \in cam.live : Retires(n)) \/ GoesBasic
    BY <1>6, OwnChangeKeeps
<1> QED BY <1>1, <1>2, <1>3, <1>4, <1>5, <1>6 DEF Next

LEMMA Initially == ASSUME Init PROVE IInv
<1>1. /\ scene \in Scenes /\ frames = 0 /\ device = FALSE
      /\ \A c \in Callers : grab[c] = Idle /\ took[c] = 0 /\ misses[c] = 0
      /\ grab = [c \in Callers |-> Idle] /\ took = [c \in Callers |-> 0]
      /\ misses = [c \in Callers |-> 0]
    BY DEF Init
<1>2. mem \in Memory /\ cam \in Answers
  <2>1. NoNonce \in 0..MaxNonces /\ 0 \in 0..MaxAnswers
      BY GrabsAssumption DEF NoNonce
  <2>2. mem \in Memory
      BY <2>1 DEF Init, Memory
  <2> QED BY <2>2 DEF Init, Answers
<1>3. Types
  <2>1. grab \in [Callers -> Request]
      BY <1>1, IdleIs
  <2>2. frames \in 0..FrameSlots
      BY <1>1, GrabsAssumption
  <2> QED BY <1>1, <1>2, <2>1, <2>2 DEF Types
<1>4. SlotsAgree
  <2>1. Holders = {} /\ Openers = {}
      BY <1>1, IdleIs DEF Holders, Openers, Holds
  <2> QED BY <1>1, <2>1, FS_EmptySet DEF SlotsAgree
<1>5. ASSUME NEW c \in Callers PROVE QuietOk(c) /\ TimeOk(c)
  <2>1. Budget(c) \in Nat /\ WaitDelay \in Nat /\ MaxNonces \in Nat
      BY GrabsAssumption DEF Budget
  <2> QED BY <1>1, <2>1, IdleIs DEF QuietOk, TimeOk, OnTheWire, At, Grabbing
<1> QED BY <1>3, <1>4, <1>5 DEF IInv

LEMMA Inductive == Spec => []IInv
<1>1. Init => IInv
    BY Initially
<1>2. IInv /\ [Next]_vars => IInv'
    BY NextKeeps
<1> QED BY <1>1, <1>2, PTL DEF Spec

-----------------------------------------------------------------------------
\* No frame slot and no device is lost or taken twice, and no grab outlasts
\* its deadline and the time a killed ffmpeg gets, however the callers are
\* refused, called off, answered or left waiting (takeFrameSlot, runFFmpeg).
THEOREM SlotsComeBack == Spec => []Inv
<1>1. IInv => Inv
  <2> SUFFICES ASSUME IInv PROVE Inv
      OBVIOUS
  <2>1. TypeOK
    <3>1. ASSUME NEW c \in Callers
          PROVE  grab[c].heard \in Challenge \cup {Silence} /\ misses[c] \in Nat /\ took[c] \in Nat
        BY CallerIs DEF Request
    <3> QED BY <3>1 DEF IInv, Types, Memory, TypeOK
  <2>2. SlotsBack
    <3>1. Holders = {c \in Callers : Page(c) /\ (Grabbing(c) \/ At(c, "reads"))}
        BY DEF Holders, Holds, Grabbing, At
    <3>2. Openers = {c \in Callers : At(c, "ffmpeg")}
        BY DEF Openers, At
    <3> QED BY <3>1, <3>2 DEF IInv, SlotsAgree, SlotsBack
  <2>3. InTime
      BY DEF IInv, TimeOk, InTime
  <2> QED BY <2>1, <2>2, <2>3 DEF Inv
<1> QED BY <1>1, Inductive, PTL

-----------------------------------------------------------------------------
(* What a step is to the camera: a caller lets go, or asks, or retries, or    *)
(* is answered; or nothing of it moves.                                      *)

Others(c) == \A d \in Callers \ {c} : grab'[d] = grab[d] /\ misses'[d] = misses[d]

LetsGo(c) ==
    /\ Others(c) /\ UNCHANGED <<scene, cam>>
    /\ ~OnTheWire(grab'[c]) /\ grab'[c].heard = Silence
    /\ grab'[c].sent \in {grab[c].sent, NoNonce} /\ misses'[c] \in {misses[c], 0}
    /\ mem' = mem \/ mem' = [mem EXCEPT ![c.right] = [ch |-> NoNonce, nc |-> 0]]

FirstAsks(c) ==
    /\ Others(c) /\ UNCHANGED <<scene, cam>>
    /\ grab'[c].at = "asking" /\ grab'[c].heard = Silence
    /\ grab'[c].sent = mem[c.right].ch /\ grab'[c].count = cachedDigest(c.right)
    /\ misses'[c] = 0
    /\ mem' = [mem EXCEPT ![c.right].nc = cachedDigest(c.right)]

Retries(c) ==
    /\ Others(c) /\ UNCHANGED <<scene, cam>> /\ misses'[c] = misses[c]
    /\ grab[c].at = "asking" /\ grab[c].heard.status = 401
    /\ grab[c].heard.nonce # NoNonce /\ ~WrongPassword(c)
    /\ grab'[c].at = "retrying" /\ grab'[c].heard = Silence
    /\ grab'[c].sent = grab[c].heard.nonce /\ grab'[c].count = 1
    /\ mem' = [mem EXCEPT ![c.right] = [ch |-> grab[c].heard.nonce, nc |-> 1]]

Hears(c, h) ==
    /\ Others(c) /\ UNCHANGED <<scene, mem>>
    /\ h = Heard(c, Offers(c)) /\ cam' = Remembers(c, h.nonce)
    /\ h.nonce \in {NoNonce, Offers(c)}
    /\ OnTheWire(grab[c]) /\ grab[c].heard = Silence
    /\ grab'[c].at = grab[c].at /\ grab'[c].sent = grab[c].sent /\ grab'[c].count = grab[c].count
    /\ grab'[c].heard = h
    /\ misses'[c] = IF Missed(c) THEN misses[c] + 1 ELSE misses[c]

NobodyMoves ==
    /\ UNCHANGED <<scene, mem, misses>>
    /\ \A c \in Callers : /\ grab'[c].at = grab[c].at /\ grab'[c].sent = grab[c].sent
                          /\ grab'[c].count = grab[c].count /\ grab'[c].heard = grab[c].heard

LEMMA OthersStay ==
    ASSUME IInv, NEW c \in Callers, NEW g, grab' = [grab EXCEPT ![c] = g],
           \/ misses' = misses
           \/ \E n \in Nat : misses' = [misses EXCEPT ![c] = n]
    PROVE  Others(c) /\ grab'[c] = g
BY CallerIs DEF Others

LEMMA BeginIs ==
    ASSUME IInv, NEW c \in Callers, NEW again \in BOOLEAN, Begins(c, again), UNCHANGED <<scene, cam>>
    PROVE  LetsGo(c) \/ FirstAsks(c)
<1> DEFINE new == [Idle EXCEPT !.again = again, !.off = grab[c].off]
           n   == cachedDigest(c.right)
<1>1. new \in Request /\ new.heard = Silence /\ new.sent = NoNonce
  <2>1. grab[c].off \in BOOLEAN
      BY CallerIs DEF Request
  <2> QED BY <2>1, IdleIs DEF Request
<1>2. misses' = [misses EXCEPT ![c] = 0] /\ misses'[c] = 0
    BY CallerIs DEF Begins
<1>3. CASE scene.device
  <2> DEFINE g == [new EXCEPT !.at = "deviceWait"]
  <2>1. grab' = [grab EXCEPT ![c] = g] /\ mem' = mem
      BY <1>3 DEF Begins, Goes
  <2> HIDE DEF new
  <2>2. ~OnTheWire(g) /\ g.heard = Silence /\ g.sent = NoNonce
      BY <1>1 DEF OnTheWire, Request
  <2> HIDE DEF g
  <2>3. Others(c) /\ grab'[c] = g
      BY <1>2, <2>1, OthersStay
  <2> QED BY <1>2, <2>1, <2>2, <2>3 DEF LetsGo
<1>4. CASE ~scene.device
  <2> DEFINE m == mem[c.right].ch
             g == authorization([new EXCEPT !.at = "asking"], m, n)
  <2>1. grab' = [grab EXCEPT ![c] = g] /\ mem' = [mem EXCEPT ![c.right].nc = n]
      BY <1>4 DEF Begins, Goes
  <2> HIDE DEF new, m, n
  <2>2. g.at = "asking" /\ g.heard = Silence /\ g.sent = m /\ g.count = n
      BY <1>1 DEF authorization, Request
  <2> HIDE DEF g
  <2>3. Others(c) /\ grab'[c] = g
      BY <1>2, <2>1, OthersStay
  <2> QED BY <1>2, <2>1, <2>2, <2>3 DEF FirstAsks, m, n
<1> QED BY <1>3, <1>4

LEMMA EndIs ==
    ASSUME IInv, NEW c \in Callers,
           DeviceTooLate(c) \/ FFmpegExits(c) \/ Reads(c) \/ Refused(c) \/ Accepted(c) \/ GrabFails(c)
    PROVE  LetsGo(c)
<1> DEFINE r == [Idle EXCEPT !.at = "reads", !.off = grab[c].off]
<1>1. UNCHANGED <<scene, cam, misses>>
    BY DEF DeviceTooLate, FFmpegExits, Reads, Refused, Accepted, GrabFails
<1>2. mem' = mem \/ mem' = [mem EXCEPT ![c.right] = [ch |-> NoNonce, nc |-> 0]]
    BY DEF DeviceTooLate, FFmpegExits, Reads, Refused, Accepted, GrabFails
<1>3. PICK g \in {Idle, r} : grab' = [grab EXCEPT ![c] = g]
  <2>1. Ends(c) \/ HasFrame(c)
      BY DEF DeviceTooLate, FFmpegExits, Reads, Refused, Accepted, GrabFails
  <2> QED BY <2>1 DEF Ends, HasFrame, Goes
<1>4. ~OnTheWire(g) /\ g.heard = Silence /\ g.sent = NoNonce
  <2>1. CASE g = Idle
      BY <2>1, IdleIs DEF OnTheWire
  <2>2. CASE g = r
      BY <2>2, IdleIs DEF OnTheWire, Request
  <2> QED BY <2>1, <2>2
<1> HIDE DEF r
<1>5. Others(c) /\ grab'[c] = g
    BY <1>1, <1>3, OthersStay
<1> QED BY <1>1, <1>2, <1>4, <1>5 DEF LetsGo

LEMMA ShareIs == ASSUME IInv, NEW c \in Callers, Shares(c) PROVE LetsGo(c) \/ FirstAsks(c)
<1>1. CASE Comes(c)
  <2> DEFINE g == [Idle EXCEPT !.at = "slotWait"]
  <2>1. grab' = [grab EXCEPT ![c] = g] /\ UNCHANGED <<scene, mem, cam, misses>>
      BY <1>1 DEF Comes, Goes
  <2>2. ~OnTheWire(g) /\ g.heard = Silence /\ g.sent = NoNonce
      BY IdleIs DEF OnTheWire, Request
  <2> HIDE DEF g
  <2>3. Others(c) /\ grab'[c] = g
      BY <2>1, OthersStay
  <2> QED BY <2>1, <2>2, <2>3 DEF LetsGo
<1>2. CASE Busy(c)
  <2>1. grab' = [grab EXCEPT ![c] = Idle] /\ UNCHANGED <<scene, mem, cam, misses>>
      BY <1>2 DEF Busy, Goes
  <2>2. Others(c) /\ grab'[c] = Idle
      BY <2>1, OthersStay
  <2> QED BY <2>1, <2>2, IdleIs DEF LetsGo, OnTheWire
<1>3. CASE TakesSlot(c) \/ Polls(c) \/ GrabsAgain(c)
  <2>1. (Begins(c, FALSE) \/ Begins(c, TRUE)) /\ UNCHANGED <<scene, cam>>
      BY <1>3 DEF TakesSlot, Polls, GrabsAgain
  <2> QED BY <2>1, BeginIs
<1>4. CASE TakesDevice(c)
  <2> DEFINE g == [grab[c] EXCEPT !.at = "ffmpeg"]
  <2>1. grab' = [grab EXCEPT ![c] = g] /\ UNCHANGED <<scene, mem, cam, misses>>
        /\ grab[c].at = "deviceWait"
      BY <1>4 DEF TakesDevice, Goes, At
  <2>2. ~OnTheWire(g) /\ g.heard = grab[c].heard /\ g.sent = grab[c].sent
      BY CallerIs DEF OnTheWire, Request
  <2>3. grab[c].heard = Silence
      BY <2>1 DEF IInv, QuietOk, OnTheWire
  <2> HIDE DEF g
  <2>4. Others(c) /\ grab'[c] = g
      BY <2>1, OthersStay
  <2> QED BY <2>1, <2>2, <2>3, <2>4 DEF LetsGo
<1>5. CASE CalledOff(c)
  <2> DEFINE g == [grab[c] EXCEPT !.off = TRUE]
  <2>1. grab' = [grab EXCEPT ![c] = g] /\ UNCHANGED <<scene, mem, cam, misses>> /\ scene.device
      BY <1>5 DEF CalledOff, Goes
  <2>2. g.at = grab[c].at /\ g.heard = grab[c].heard /\ g.sent = grab[c].sent
      BY CallerIs DEF Request
  <2>3. ~OnTheWire(grab[c]) /\ grab[c].heard = Silence
      BY <2>1 DEF IInv, QuietOk
  <2> HIDE DEF g
  <2>4. Others(c) /\ grab'[c] = g
      BY <2>1, OthersStay
  <2> QED BY <2>1, <2>2, <2>3, <2>4 DEF LetsGo, OnTheWire
<1>6. CASE DeviceTooLate(c) \/ FFmpegExits(c) \/ Reads(c)
    BY <1>6, EndIs
<1> QED BY <1>1, <1>2, <1>3, <1>4, <1>5, <1>6 DEF Shares

LEMMA AskIs == ASSUME IInv, NEW c \in Callers, Asks(c) PROVE LetsGo(c) \/ Retries(c)
<1>1. CASE digestRetry(c)
  <2> DEFINE k == grab[c].heard.nonce
             g == authorization([grab[c] EXCEPT !.at = "retrying", !.heard = Silence], k, 1)
  <2>1. /\ grab' = [grab EXCEPT ![c] = g] /\ UNCHANGED <<scene, cam, misses>>
        /\ grab[c].at = "asking" /\ grab[c].heard.status = 401 /\ k # NoNonce /\ ~WrongPassword(c)
        /\ mem' = [mem EXCEPT ![c.right] = [ch |-> k, nc |-> 1]]
      BY <1>1 DEF digestRetry, Goes, Challenged, At
  <2> HIDE DEF k
  <2>2. g.at = "retrying" /\ g.heard = Silence /\ g.sent = k /\ g.count = 1
      BY CallerIs DEF authorization, Request
  <2> HIDE DEF g
  <2>3. grab' = [grab EXCEPT ![c] = g] /\ misses' = misses
      BY <2>1
  <2>4. Others(c) /\ grab'[c] = g
      BY <2>3, OthersStay
  <2> QED BY <2>1, <2>2, <2>4 DEF Retries, k
<1>2. CASE Refused(c) \/ Accepted(c) \/ GrabFails(c)
    BY <1>2, EndIs
<1> QED BY <1>1, <1>2 DEF Asks

LEMMA AnswerIs ==
    ASSUME IInv, NEW c \in Callers, CameraAnswers(c)
    PROVE  \E h \in Challenge : Hears(c, h)
<1>1. PICK h \in Challenge :
          /\ h = Heard(c, Offers(c)) /\ h.nonce \in {NoNonce, Offers(c)}
          /\ grab' = [grab EXCEPT ![c] = [grab[c] EXCEPT !.heard = h]]
          /\ cam' = Remembers(c, h.nonce)
          /\ misses' = IF Missed(c) THEN [misses EXCEPT ![c] = @ + 1] ELSE misses
          /\ grab[c].at \in {"asking", "retrying"} /\ grab[c].heard = Silence
          /\ UNCHANGED <<scene, frames, device, mem, took>>
    BY CameraIs
<1> DEFINE g == [grab[c] EXCEPT !.heard = h]
<1>2. g.at = grab[c].at /\ g.sent = grab[c].sent /\ g.count = grab[c].count /\ g.heard = h
    BY CallerIs DEF Request
<1>3. /\ misses' = misses \/ \E n \in Nat : misses' = [misses EXCEPT ![c] = n]
      /\ misses'[c] = IF Missed(c) THEN misses[c] + 1 ELSE misses[c]
  <2>1. misses \in [Callers -> Nat] /\ misses[c] + 1 \in Nat
      BY CallerIs
  <2> QED BY <1>1, <2>1
<1> HIDE DEF g
<1>4. grab' = [grab EXCEPT ![c] = g]
    BY <1>1 DEF g
<1>5. Others(c) /\ grab'[c] = g
    BY <1>3, <1>4, OthersStay
<1> QED BY <1>1, <1>2, <1>3, <1>5 DEF Hears, OnTheWire

LEMMA OwnStepIs ==
    ASSUME IInv, UNCHANGED vars \/ Tick \/ GoesBasic \/ \E n \in cam.live : Retires(n)
    PROVE  NobodyMoves
<1>1. CASE Tick
  <2>1. /\ grab' = [c \in Callers |-> IF At(c, "idle") THEN grab[c] ELSE [grab[c] EXCEPT !.age = @ + 1]]
        /\ UNCHANGED <<scene, mem, misses>>
      BY <1>1 DEF Tick
  <2>2. ASSUME NEW c \in Callers
        PROVE  /\ grab'[c].at = grab[c].at /\ grab'[c].sent = grab[c].sent
               /\ grab'[c].count = grab[c].count /\ grab'[c].heard = grab[c].heard
    <3>1. grab[c] \in Request
        BY CallerIs
    <3>2. grab'[c] = grab[c] \/ grab'[c] = [grab[c] EXCEPT !.age = @ + 1]
        BY <2>1
    <3> QED BY <3>1, <3>2 DEF Request
  <2> QED BY <2>1, <2>2 DEF NobodyMoves
<1>2. CASE UNCHANGED vars
    BY <1>2 DEF vars, NobodyMoves
<1>3. CASE GoesBasic \/ \E n \in cam.live : Retires(n)
    BY <1>3 DEF GoesBasic, Retires, NobodyMoves
<1> QED BY <1>1, <1>2, <1>3

-----------------------------------------------------------------------------
(* A wrong password costs one failed login. *)

\* Who has missed knows it: an answer to the same nonce, or no nonce at all.
MissOk(c) ==
    /\ misses[c] <= 1
    /\ OnTheWire(grab[c]) /\ grab[c].heard = Silence => misses[c] = 0
    /\ At(c, "asking") /\ misses[c] = 1 => grab[c].heard.nonce = NoNonce \/ WrongPassword(c)

LiveOk ==
    /\ scene.camera.offers = "shared" => \A m, n \in cam.live : m = n
    /\ ~cam.digest => cam.live = {}

MissInv ==
    /\ IInv /\ LiveOk
    /\ scene.camera.offers # "each" => \A c \in Callers : MissOk(c)

LEMMA RemembersAre ==
    ASSUME IInv, NEW c \in Callers, NEW n \in Nat, cam' = Remembers(c, n)
    PROVE  /\ cam'.digest = cam.digest
           /\ cam'.last = (IF n > cam.last THEN n ELSE cam.last)
           /\ cam'.live = (IF n # NoNonce THEN cam.live \cup {n} ELSE cam.live)
           /\ cam'.used = cam.used \cup {p \in {<<grab[c].sent, grab[c].count>>} : p[1] \in cam.live}
BY CallerIs DEF Remembers, Answers

LEMMA HeardIs ==
    ASSUME IInv, NEW c \in Callers, NEW h, h = Heard(c, Offers(c))
    PROVE  /\ Taken(c) => h.status = 200 /\ h.nonce = NoNonce
           /\ ~Taken(c) /\ cam.digest =>
                /\ h.status = 401 /\ h.nonce = Offers(c)
                /\ h.stale <=> grab[c].sent \notin cam.live \cup {NoNonce}
           /\ ~Taken(c) /\ ~cam.digest => h.status = 401 /\ h.nonce = NoNonce
BY DEF Heard

LEMMA OtherMisses ==
    ASSUME IInv, NEW c \in Callers, NEW d \in Callers \ {c}, Others(c), MissOk(d)
    PROVE  MissOk(d)'
BY DEF Others, MissOk, OnTheWire, At, WrongPassword

\* A camera that has a nonce it still takes offers no other to who shows it.
LEMMA MissIsKnown ==
    ASSUME IInv, LiveOk, NEW c \in Callers, NEW h \in Challenge, Hears(c, h),
           scene.camera.offers # "each", MissOk(c)
    PROVE  MissOk(c)'
<1>1. /\ misses[c] = 0 /\ h \in Challenge /\ h # Silence
      /\ grab'[c].at = grab[c].at /\ grab'[c].sent = grab[c].sent /\ grab'[c].heard = h
      /\ misses'[c] = IF Missed(c) THEN misses[c] + 1 ELSE misses[c]
      /\ h = Heard(c, Offers(c))
  <2>1. h # Silence
      BY DEF Challenge, Silence
  <2> QED BY <2>1 DEF Hears, MissOk, OnTheWire
<1>2. CASE ~Missed(c)
    BY <1>1, <1>2 DEF MissOk
<1>3. CASE Missed(c) /\ cam.digest
  <2>1. grab[c].sent \in cam.live /\ ~c.right /\ grab[c].sent # NoNonce
      BY <1>3, CallerIs DEF Missed, Answers, NoNonce
  <2>2. ~Taken(c)
      BY <1>3, <2>1 DEF Taken, Refuses
  <2>3. scene.camera.offers \in {"shared", "session"}
      BY CallersAre DEF Cameras
  <2>4. Offers(c) = grab[c].sent
    <3>1. CASE scene.camera.offers = "shared"
      <4>1. Offers(c) \in cam.live
          BY <2>1, <3>1, OffersIs
      <4> QED BY <2>1, <3>1, <4>1 DEF LiveOk
    <3>2. CASE scene.camera.offers = "session"
        BY <2>1, <3>2, OffersIs
    <3> QED BY <2>3, <3>1, <3>2
  <2>5. h.nonce = grab[c].sent /\ ~h.stale
      BY <1>1, <1>3, <2>1, <2>2, <2>4, HeardIs
  <2>6. WrongPassword(c)'
      BY <1>1, <2>1, <2>5 DEF WrongPassword
  <2> QED BY <1>1, <1>3, <2>6 DEF MissOk
<1>4. CASE Missed(c) /\ ~cam.digest
  <2>1. ~Taken(c)
      BY <1>4 DEF Missed, Taken
  <2>2. h.nonce = NoNonce
      BY <1>1, <1>4, <2>1, HeardIs
  <2> QED BY <1>1, <1>4, <2>2 DEF MissOk
<1> QED BY <1>2, <1>3, <1>4

LEMMA MissSteps ==
    ASSUME IInv, NEW c \in Callers, MissOk(c), LetsGo(c) \/ FirstAsks(c) \/ Retries(c)
    PROVE  MissOk(c)'
<1>1. misses[c] \in Nat
    BY CallerIs
<1>2. CASE LetsGo(c)
    BY <1>1, <1>2 DEF LetsGo, MissOk, OnTheWire, At
<1>3. CASE FirstAsks(c)
    BY <1>3 DEF FirstAsks, MissOk
<1>4. CASE Retries(c)
  <2>1. misses[c] # 1 /\ misses[c] <= 1
      BY <1>4 DEF Retries, MissOk, At
  <2> QED BY <1>1, <1>4, <2>1 DEF Retries, MissOk, At
<1> QED BY <1>2, <1>3, <1>4

LEMMA StepIs ==
    ASSUME IInv, [Next]_vars
    PROVE  \/ \E c \in Callers : LetsGo(c) \/ FirstAsks(c) \/ Retries(c)
           \/ \E c \in Callers : \E h \in Challenge : Hears(c, h)
           \/ NobodyMoves /\ cam' = cam
           \/ NobodyMoves /\ GoesBasic
           \/ \E n \in cam.live : NobodyMoves /\ Retires(n)
<1>1. ASSUME NEW c \in Callers, Shares(c) PROVE LetsGo(c) \/ FirstAsks(c)
    BY <1>1, ShareIs
<1>2. ASSUME NEW c \in Callers, Asks(c) PROVE LetsGo(c) \/ Retries(c)
    BY <1>2, AskIs
<1>3. ASSUME NEW c \in Callers, CameraAnswers(c) PROVE \E h \in Challenge : Hears(c, h)
    BY <1>3, AnswerIs
<1>4. CASE UNCHANGED vars \/ Tick
  <2>1. cam' = cam
      BY <1>4 DEF vars, Tick
  <2> QED BY <1>4, <2>1, OwnStepIs
<1>5. CASE GoesBasic
    BY <1>5, OwnStepIs
<1>6. ASSUME NEW n \in cam.live, Retires(n) PROVE NobodyMoves
    BY <1>6, OwnStepIs
<1> QED BY <1>1, <1>2, <1>3, <1>4, <1>5, <1>6 DEF Next

LEMMA LiveKeeps == ASSUME IInv, LiveOk, [Next]_vars PROVE LiveOk'
<1>1. cam \in Answers
    BY DEF IInv, Types
<1>2. ASSUME NEW c \in Callers, LetsGo(c) \/ FirstAsks(c) \/ Retries(c) PROVE LiveOk'
    BY <1>2 DEF LetsGo, FirstAsks, Retries, LiveOk
<1>3. ASSUME NEW c \in Callers, NEW h \in Challenge, Hears(c, h) PROVE LiveOk'
  <2>1. h.nonce \in Nat /\ cam' = Remembers(c, h.nonce) /\ scene' = scene
        /\ h.nonce \in {NoNonce, Offers(c)} /\ h = Heard(c, Offers(c))
      BY <1>3 DEF Hears, Challenge
  <2>2. /\ cam'.digest = cam.digest
        /\ cam'.live = (IF h.nonce # NoNonce THEN cam.live \cup {h.nonce} ELSE cam.live)
      BY <2>1, RemembersAre
  <2>3. ~cam.digest => h.nonce = NoNonce
      BY <2>1, HeardIs
  <2>4. scene.camera.offers = "shared" /\ cam.live # {} => Offers(c) \in cam.live
      BY OffersIs
  <2> QED BY <2>1, <2>2, <2>3, <2>4 DEF LiveOk
<1>4. CASE NobodyMoves /\ cam' = cam
    BY <1>4 DEF NobodyMoves, LiveOk
<1>5. CASE NobodyMoves /\ GoesBasic
    BY <1>1, <1>5 DEF NobodyMoves, GoesBasic, LiveOk, Answers
<1>6. ASSUME NEW n \in cam.live, NobodyMoves, Retires(n) PROVE LiveOk'
  <2>1. cam'.live = cam.live \ {n} /\ cam'.digest = cam.digest /\ scene' = scene
      BY <1>1, <1>6 DEF Retires, Answers
  <2> QED BY <2>1 DEF LiveOk
<1> QED BY <1>2, <1>3, <1>4, <1>5, <1>6, StepIs

LEMMA MissInductive == Spec => []MissInv
<1>1. Init => MissInv
  <2> SUFFICES ASSUME Init PROVE MissInv
      OBVIOUS
  <2>1. IInv
      BY Initially
  <2>2. \A c \in Callers : grab[c] = Idle /\ misses[c] = 0
      BY DEF Init
  <2>3. cam.live = {}
      BY DEF Init
  <2> QED BY <2>1, <2>2, <2>3, IdleIs DEF MissInv, MissOk, LiveOk, OnTheWire, At
<1>2. MissInv /\ [Next]_vars => MissInv'
  <2> SUFFICES ASSUME MissInv, [Next]_vars PROVE MissInv'
      OBVIOUS
  <2>1. IInv /\ IInv' /\ LiveOk'
      BY NextKeeps, LiveKeeps DEF MissInv
  <2>2. scene' = scene /\ Callers' = Callers
    <3>1. scene' = scene
        BY <2>1, StepIs DEF LetsGo, FirstAsks, Retries, Hears, NobodyMoves
    <3> QED BY <3>1 DEF Callers
  <2>3. ASSUME scene.camera.offers # "each", NEW d \in Callers PROVE MissOk(d)'
    <3>1. MissOk(d) /\ LiveOk
        BY <2>3 DEF MissInv
    <3>2. ASSUME NEW c \in Callers, LetsGo(c) \/ FirstAsks(c) \/ Retries(c) PROVE MissOk(d)'
      <4>1. CASE c = d
          BY <2>1, <3>1, <3>2, <4>1, MissSteps
      <4>2. CASE c # d
        <5>1. Others(c)
            BY <3>2 DEF LetsGo, FirstAsks, Retries
        <5> QED BY <2>1, <3>1, <4>2, <5>1, OtherMisses
      <4> QED BY <4>1, <4>2
    <3>3. ASSUME NEW c \in Callers, NEW h \in Challenge, Hears(c, h) PROVE MissOk(d)'
      <4>1. CASE c = d
          BY <2>1, <2>3, <3>1, <3>3, <4>1, MissIsKnown
      <4>2. CASE c # d
        <5>1. Others(c)
            BY <3>3 DEF Hears
        <5> QED BY <2>1, <3>1, <4>2, <5>1, OtherMisses
      <4> QED BY <4>1, <4>2
    <3>4. CASE NobodyMoves
        BY <3>1, <3>4 DEF NobodyMoves, MissOk, OnTheWire, At, WrongPassword
    <3> QED BY <2>1, <3>2, <3>3, <3>4, StepIs
  <2> QED BY <2>1, <2>2, <2>3 DEF MissInv
<1> QED BY <1>1, <1>2, PTL DEF Spec

\* "a wrong password costs the account one failed login per poll, not two
\* (some cameras lock it after a few)": of no camera that offers a nonce again
\* while it lives does a grab miss twice (digestRetry, WrongPassword).
THEOREM OneFailure == Spec => []OneFailureAGrab
<1>1. MissInv => OneFailureAGrab
    BY DEF MissInv, MissOk, OneFailureAGrab
<1> QED BY <1>1, MissInductive, PTL

-----------------------------------------------------------------------------
(* The right password is taken. *)

Pending(c) == OnTheWire(grab[c]) /\ grab[c].heard = Silence

\* A nonce just given is alive, and a 401 to the right password is answered
\* once more unless the camera has gone back to Basic.
GivenOk(c) ==
    /\ At(c, "asking") /\ grab[c].heard.nonce # NoNonce /\ cam.digest => grab[c].heard.nonce \in cam.live
    /\ At(c, "retrying") => grab[c].sent # NoNonce /\ (cam.digest => grab[c].sent \in cam.live)
    /\ c.right /\ grab[c].heard.status = 401 =>
         \/ ~cam.digest /\ grab[c].sent # NoNonce
         \/ At(c, "asking") /\ grab[c].heard.nonce # NoNonce /\ ~WrongPassword(c)

\* What the grabs with one password have to do with the nonce n.
NonceOf(r, n) ==
    \/ mem[r].ch = n
    \/ \E d \in Callers : d.right = r /\ (grab[d].sent = n \/ grab[d].heard.nonce = n)

\* The camera's next nonce is new to everyone, and two passwords share none.
KnownOk ==
    /\ \A r \in BOOLEAN : \A n \in Nat \ {0} : NonceOf(r, n) => n <= cam.last
    /\ \A n \in cam.live : n <= cam.last
    /\ \A p \in cam.used : p[1] \in Nat \ {0} /\ p[1] <= cam.last
    /\ scene.camera.offers # "shared" =>
         \A n \in Nat \ {0} : ~(NonceOf(TRUE, n) /\ NonceOf(FALSE, n))

\* The memory's count is that of the last answer with its nonce.
MemOk == \A p \in cam.used : p[1] = mem[TRUE].ch => p[2] <= mem[TRUE].nc

\* An answer under way was not given before, and is one the memory counted.
AskOk(c) ==
    Pending(c) /\ grab[c].sent # NoNonce =>
        /\ <<grab[c].sent, grab[c].count>> \notin cam.used
        /\ grab[c].sent = mem[TRUE].ch => grab[c].count <= mem[TRUE].nc

PairOk(c, d) ==
    Pending(c) /\ Pending(d) /\ grab[c].sent # NoNonce /\ grab[c].sent = grab[d].sent
        => grab[c].count # grab[d].count

\* A nonce just given is one caller's.
FreshOk(c) ==
    grab[c].heard.nonce # NoNonce =>
        /\ mem[TRUE].ch # grab[c].heard.nonce
        /\ \A p \in cam.used : p[1] # grab[c].heard.nonce
        /\ \A d \in Callers : d.right => grab[d].sent # grab[c].heard.nonce
        /\ \A d \in Callers \ {c} : d.right => grab[d].heard.nonce # grab[c].heard.nonce

CountsOk ==
    /\ MemOk
    /\ \A c \in Callers : c.right => AskOk(c) /\ FreshOk(c)
    /\ \A c \in Callers : \A d \in Callers \ {c} : c.right /\ d.right => PairOk(c, d)

Strict == scene.camera.counts /\ scene.camera.offers # "shared"

RightInv ==
    /\ IInv /\ KnownOk
    /\ \A c \in Callers : GivenOk(c)
    /\ Strict => CountsOk

\* One shared nonce whose answers are counted is not for several grabs.
Counted == \A s \in Scenes : ~(s.camera.offers = "shared" /\ s.camera.counts)

LEMMA GrabIs ==
    ASSUME IInv, NEW c \in Callers
    PROVE  /\ grab[c].sent \in Nat /\ grab[c].count \in Nat /\ grab[c].heard.nonce \in Nat
           /\ c.right \in BOOLEAN /\ grab[c].at \in Places
           /\ cam.last \in Nat /\ cam.live \subseteq Nat \ {0} /\ cam.used \subseteq Nat \X Nat
           /\ cam.digest \in BOOLEAN
           /\ \A r \in BOOLEAN : mem[r].ch \in Nat /\ mem[r].nc \in Nat
<1>1. grab[c].heard \in Challenge \cup {Silence}
    BY CallerIs DEF Request
<1>2. grab[c].heard.nonce \in Nat
    BY <1>1, IdleIs DEF Challenge
<1>3. \A r \in BOOLEAN : mem[r].ch \in Nat /\ mem[r].nc \in Nat
    BY CallerIs DEF Memory
<1> QED BY <1>2, <1>3, CallerIs DEF Request, Answers

\* The right password is refused by no nonce the camera still takes.
LEMMA RightIsHeard ==
    ASSUME RightInv, Counted, NEW c \in Callers, c.right, NEW h \in Challenge, Hears(c, h), cam.digest,
           ~Taken(c)
    PROVE  /\ grab[c].sent \notin cam.live /\ At(c, "asking")
           /\ h.status = 401 /\ h.nonce = Offers(c) /\ h.nonce # NoNonce
           /\ (h.stale <=> grab[c].sent # NoNonce)
           /\ (scene.camera.offers # "shared" => h.nonce = cam.last + 1)
<1>1. IInv /\ GivenOk(c) /\ Pending(c)
    BY DEF RightInv, Hears, Pending
<1>2. grab[c].sent \notin cam.live
  <2> SUFFICES ASSUME grab[c].sent \in cam.live PROVE FALSE
      OBVIOUS
  <2>1. scene.camera.counts /\ <<grab[c].sent, grab[c].count>> \in cam.used
      BY DEF Taken, Refuses
  <2>2. Strict
      BY <1>1, <2>1 DEF Counted, Strict, IInv, Types
  <2>3. grab[c].sent # NoNonce
      BY <1>1, GrabIs DEF NoNonce
  <2> QED BY <1>1, <2>1, <2>2, <2>3 DEF RightInv, CountsOk, AskOk
<1>3. At(c, "asking")
    BY <1>1, <1>2 DEF GivenOk, Pending, OnTheWire, At
<1>4. h.status = 401 /\ h.nonce = Offers(c) /\ (h.stale <=> grab[c].sent # NoNonce)
    BY <1>1, <1>2, HeardIs DEF Hears
<1>5. Offers(c) \in Nat \ {0} /\ (scene.camera.offers # "shared" => Offers(c) = cam.last + 1)
    BY <1>1, <1>2, OffersIs
<1> QED BY <1>2, <1>3, <1>4, <1>5 DEF NoNonce

LEMMA OtherGiven ==
    ASSUME NEW c \in Callers, NEW d \in Callers \ {c}, Others(c), GivenOk(d),
           cam'.digest = cam.digest, cam.live \subseteq cam'.live
    PROVE  GivenOk(d)'
BY DEF Others, GivenOk, At, WrongPassword

LEMMA GivenKeeps ==
    ASSUME RightInv, Counted, [Next]_vars, NEW d \in Callers
    PROVE  GivenOk(d)'
<1>1. IInv /\ GivenOk(d)
    BY DEF RightInv
<1>2. ASSUME NEW c \in Callers, LetsGo(c) \/ FirstAsks(c) \/ Retries(c) PROVE GivenOk(d)'
  <2>1. Others(c) /\ cam' = cam
      BY <1>2 DEF LetsGo, FirstAsks, Retries
  <2>2. CASE c # d
      BY <1>1, <2>1, <2>2, OtherGiven
  <2>3. CASE c = d
    <3>1. CASE LetsGo(c) \/ FirstAsks(c)
        BY <2>3, <3>1, IdleIs DEF LetsGo, FirstAsks, GivenOk, OnTheWire, At, NoNonce
    <3>2. CASE Retries(c)
        BY <1>1, <2>1, <2>3, <3>2, IdleIs DEF Retries, GivenOk, At
    <3> QED BY <1>2, <3>1, <3>2
  <2> QED BY <2>2, <2>3
<1>3. ASSUME NEW c \in Callers, NEW h \in Challenge, Hears(c, h) PROVE GivenOk(d)'
  <2>1. /\ Others(c) /\ cam' = Remembers(c, h.nonce) /\ h.nonce \in Nat /\ h = Heard(c, Offers(c))
        /\ grab'[c].at = grab[c].at /\ grab'[c].sent = grab[c].sent /\ grab'[c].heard = h
        /\ h.nonce \in {NoNonce, Offers(c)}
      BY <1>3 DEF Hears, Challenge
  <2>2. /\ cam'.digest = cam.digest
        /\ cam'.live = (IF h.nonce # NoNonce THEN cam.live \cup {h.nonce} ELSE cam.live)
      BY <1>1, <2>1, RemembersAre
  <2>3. CASE c # d
      BY <1>1, <2>1, <2>2, <2>3, OtherGiven
  <2>4. CASE c = d
    <3>1. /\ At(c, "asking")' /\ h.nonce # NoNonce /\ cam'.digest => h.nonce \in cam'.live
          /\ At(c, "retrying")' => grab'[c].sent # NoNonce /\ (cam'.digest => grab'[c].sent \in cam'.live)
        BY <1>1, <2>1, <2>2, <2>4 DEF GivenOk, At
    <3>2. ASSUME c.right, h.status = 401
          PROVE  \/ ~cam.digest /\ grab[c].sent # NoNonce
                 \/ At(c, "asking") /\ h.nonce # NoNonce /\ (grab[c].sent # NoNonce => h.stale)
      <4>1. ~Taken(c)
          BY <1>1, <2>1, <3>2, HeardIs
      <4>2. CASE cam.digest
          BY <1>3, <3>2, <4>1, <4>2, RightIsHeard
      <4>3. CASE ~cam.digest
          BY <3>2, <4>1, <4>3 DEF Taken
      <4> QED BY <4>2, <4>3
    <3> QED BY <2>1, <2>2, <2>4, <3>1, <3>2 DEF GivenOk, At, WrongPassword
  <2> QED BY <2>3, <2>4
<1>4. CASE NobodyMoves /\ cam' = cam
    BY <1>1, <1>4 DEF NobodyMoves, GivenOk, At, WrongPassword
<1>5. CASE NobodyMoves /\ GoesBasic
  <2>1. cam'.digest = FALSE
      BY <1>1, <1>5, CallerIs DEF GoesBasic, Answers
  <2> QED BY <1>1, <1>5, <2>1 DEF NobodyMoves, GivenOk, At, WrongPassword
<1>6. ASSUME NEW n \in cam.live, NobodyMoves, Retires(n) PROVE GivenOk(d)'
  <2>1. cam'.live = cam.live \ {n} /\ cam'.digest = cam.digest
      BY <1>1, <1>6, CallerIs DEF Retires, Answers
  <2>2. grab[d].heard.nonce # n /\ ~(At(d, "retrying") /\ grab[d].sent = n)
      BY <1>6 DEF Retires
  <2> QED BY <1>1, <1>6, <2>1, <2>2 DEF NobodyMoves, GivenOk, At, WrongPassword
<1> QED BY <1>1, <1>2, <1>3, <1>4, <1>5, <1>6, StepIs

\* A step gives nobody a nonce of the other password's, and only the camera
\* a new one.
LEMMA NonceStep ==
    ASSUME IInv, NEW c \in Callers, NEW r \in BOOLEAN, NEW n \in Nat \ {0}, NonceOf(r, n)',
           \/ LetsGo(c) \/ FirstAsks(c) \/ Retries(c)
           \/ \E h \in Challenge : Hears(c, h) /\ ~(r = c.right /\ n = h.nonce)
    PROVE  NonceOf(r, n)
<1>1. Callers' = Callers /\ Others(c) /\ c.right \in BOOLEAN /\ mem \in Memory
    BY CallerIs DEF LetsGo, FirstAsks, Retries, Hears, Callers
<1>2. CASE mem'[r].ch = n
  <2>1. CASE mem'[r].ch = mem[r].ch
      BY <1>2, <2>1 DEF NonceOf
  <2>2. CASE mem'[r].ch # mem[r].ch
    <3>1. ~LetsGo(c)
        BY <1>1, <1>2, <2>2 DEF LetsGo, Memory, NoNonce
    <3>2. ~FirstAsks(c)
        BY <1>1, <2>2 DEF FirstAsks, Memory
    <3>3. Retries(c)
        BY <2>2, <3>1, <3>2 DEF Hears
    <3>4. r = c.right /\ n = grab[c].heard.nonce
        BY <1>1, <1>2, <2>2, <3>3 DEF Retries, Memory
    <3> QED BY <3>4 DEF NonceOf
  <2> QED BY <2>1, <2>2
<1>3. CASE \E d \in Callers : d.right = r /\ (grab'[d].sent = n \/ grab'[d].heard.nonce = n)
  <2>1. PICK d \in Callers : d.right = r /\ (grab'[d].sent = n \/ grab'[d].heard.nonce = n)
      BY <1>3
  <2>2. CASE d # c
      BY <1>1, <2>1, <2>2 DEF Others, NonceOf
  <2>3. CASE d = c
    <3>1. CASE LetsGo(c)
        BY <2>1, <2>3, <3>1, IdleIs DEF LetsGo, NonceOf, NoNonce
    <3>2. CASE FirstAsks(c)
        BY <2>1, <2>3, <3>2, IdleIs DEF FirstAsks, NonceOf
    <3>3. CASE Retries(c)
        BY <2>1, <2>3, <3>3, IdleIs DEF Retries, NonceOf
    <3>4. ASSUME NEW h \in Challenge, Hears(c, h), ~(r = c.right /\ n = h.nonce) PROVE NonceOf(r, n)
        BY <2>1, <2>3, <3>4 DEF Hears, NonceOf
    <3> QED BY <3>1, <3>2, <3>3, <3>4
  <2> QED BY <2>2, <2>3
<1> QED BY <1>1, <1>2, <1>3 DEF NonceOf

LEMMA KnownKeeps == ASSUME IInv, KnownOk, [Next]_vars PROVE KnownOk'
<1>1. cam \in Answers
    BY DEF IInv, Types
<1>2. ASSUME NEW c \in Callers, LetsGo(c) \/ FirstAsks(c) \/ Retries(c) PROVE KnownOk'
  <2>1. cam' = cam /\ scene' = scene
      BY <1>2 DEF LetsGo, FirstAsks, Retries
  <2>2. \A r \in BOOLEAN : \A n \in Nat \ {0} : NonceOf(r, n)' => NonceOf(r, n)
      BY <1>2, NonceStep
  <2> QED BY <2>1, <2>2 DEF KnownOk
<1>3. ASSUME NEW c \in Callers, NEW h \in Challenge, Hears(c, h) PROVE KnownOk'
  <2>1. h.nonce \in Nat /\ cam' = Remembers(c, h.nonce) /\ scene' = scene
        /\ h.nonce \in {NoNonce, Offers(c)}
      BY <1>3 DEF Hears, Challenge
  <2>2. /\ cam'.last = (IF h.nonce > cam.last THEN h.nonce ELSE cam.last)
        /\ cam'.live = (IF h.nonce # NoNonce THEN cam.live \cup {h.nonce} ELSE cam.live)
        /\ cam'.used = cam.used \cup {p \in {<<grab[c].sent, grab[c].count>>} : p[1] \in cam.live}
      BY <2>1, RemembersAre
  <2>3. \A r \in BOOLEAN : \A n \in Nat \ {0} :
            NonceOf(r, n)' => NonceOf(r, n) \/ (r = c.right /\ n = h.nonce)
      BY <1>3, NonceStep
  <2>4. cam.last \in Nat /\ cam'.last \in Nat /\ cam.last <= cam'.last /\ h.nonce <= cam'.last
        /\ cam.live \subseteq Nat \ {0} /\ c.right \in BOOLEAN
      BY <2>1, <2>2, GrabIs
  <2>5. \A r \in BOOLEAN : \A n \in Nat \ {0} : NonceOf(r, n)' => n <= cam'.last
      BY <2>3, <2>4 DEF KnownOk
  <2>6. \A n \in cam'.live : n <= cam'.last
      BY <2>2, <2>4 DEF KnownOk
  <2>7. ASSUME NEW p \in cam'.used PROVE p[1] \in Nat \ {0} /\ p[1] <= cam'.last
    <3>1. CASE p \in cam.used
        BY <2>4, <3>1 DEF KnownOk
    <3>2. CASE p \notin cam.used
      <4>1. p[1] \in cam.live
          BY <2>2, <2>7, <3>2
      <4> QED BY <2>4, <4>1 DEF KnownOk
    <3> QED BY <3>1, <3>2
  <2>8. ASSUME scene.camera.offers # "shared", NEW n \in Nat \ {0}, NonceOf(TRUE, n)', NonceOf(FALSE, n)'
        PROVE  FALSE
    <3>1. n = h.nonce
        BY <2>3, <2>8 DEF KnownOk
    <3>2. h.nonce = cam.last + 1 \/ h.nonce = grab[c].sent
        BY <2>1, <2>8, <3>1, OffersIs DEF NoNonce
    <3>3. CASE h.nonce = grab[c].sent
      <4>1. NonceOf(c.right, n)
          BY <3>1, <3>3 DEF NonceOf
      <4>2. NonceOf(TRUE, n) /\ NonceOf(FALSE, n)
          BY <2>3, <2>4, <2>8, <4>1
      <4> QED BY <2>8, <4>2 DEF KnownOk
    <3>4. CASE h.nonce = cam.last + 1
      <4>1. \A r \in BOOLEAN : ~NonceOf(r, n)
          BY <2>4, <3>1, <3>4 DEF KnownOk
      <4> QED BY <2>3, <2>8, <4>1
    <3> QED BY <3>2, <3>3, <3>4
  <2> QED BY <2>1, <2>5, <2>6, <2>7, <2>8 DEF KnownOk
<1>4. CASE NobodyMoves
  <2>1. cam'.last = cam.last /\ cam'.live \subseteq cam.live /\ cam'.used \subseteq cam.used
    <3>1. CASE cam' = cam
        BY <3>1
    <3>2. CASE GoesBasic
        BY <1>1, <3>2 DEF GoesBasic, Answers
    <3>3. ASSUME NEW n \in cam.live, Retires(n)
          PROVE  cam'.last = cam.last /\ cam'.live \subseteq cam.live /\ cam'.used \subseteq cam.used
        BY <1>1, <3>3 DEF Retires, Answers
    <3>4. cam' = cam \/ GoesBasic \/ (\E n \in cam.live : Retires(n))
           \/ \E c \in Callers : LetsGo(c) \/ FirstAsks(c) \/ Retries(c) \/ \E h \in Challenge : Hears(c, h)
        BY StepIs
    <3>5. ASSUME NEW c \in Callers, NEW h \in Challenge, Hears(c, h) PROVE FALSE
      <4>1. grab'[c].heard = h /\ grab[c].heard = Silence /\ h # Silence
          BY <3>5 DEF Hears, Challenge, Silence
      <4> QED BY <1>4, <4>1 DEF NobodyMoves
    <3> QED BY <3>1, <3>2, <3>3, <3>4, <3>5 DEF LetsGo, FirstAsks, Retries
  <2>2. \A r \in BOOLEAN : \A n \in Nat \ {0} : NonceOf(r, n)' => NonceOf(r, n)
    <3>1. Callers' = Callers
        BY <1>4 DEF NobodyMoves, Callers
    <3> QED BY <1>4, <3>1 DEF NobodyMoves, NonceOf
  <2>3. scene' = scene
      BY <1>4 DEF NobodyMoves
  <2> QED BY <2>1, <2>2, <2>3 DEF KnownOk
<1> QED BY <1>2, <1>3, <1>4, StepIs

-----------------------------------------------------------------------------
(* The counts. *)

LEMMA CountsLetGo == ASSUME IInv, KnownOk, CountsOk, NEW c \in Callers, LetsGo(c) PROVE CountsOk'
<1>1. /\ Callers' = Callers /\ cam' = cam /\ \A d \in Callers \ {c} : grab'[d] = grab[d]
      /\ ~Pending(c)' /\ grab'[c].sent \in {grab[c].sent, NoNonce} /\ grab'[c].heard.nonce = NoNonce
      /\ (mem' = mem \/ mem'[TRUE].ch = NoNonce \/ mem'[TRUE] = mem[TRUE])
  <2>1. /\ Callers' = Callers /\ cam' = cam /\ \A d \in Callers \ {c} : grab'[d] = grab[d]
        /\ ~Pending(c)' /\ grab'[c].sent \in {grab[c].sent, NoNonce} /\ grab'[c].heard.nonce = NoNonce
      BY IdleIs DEF LetsGo, Others, Callers, Pending, NoNonce
  <2>2. mem' = mem \/ mem'[TRUE].ch = NoNonce \/ mem'[TRUE] = mem[TRUE]
    <3>1. mem' = mem \/ mem' = [mem EXCEPT ![c.right] = [ch |-> NoNonce, nc |-> 0]]
        BY DEF LetsGo
    <3>2. c.right \in BOOLEAN /\ mem \in Memory
        BY CallerIs
    <3>3. CASE c.right = TRUE
      <4> DEFINE none == [ch |-> NoNonce, nc |-> 0]
      <4>1. none.ch = NoNonce
          OBVIOUS
      <4> HIDE DEF none
      <4>2. mem' = mem \/ mem'[TRUE] = none
          BY <3>1, <3>2, <3>3 DEF Memory, none
      <4> QED BY <4>1, <4>2
    <3>4. CASE c.right = FALSE
        BY <3>1, <3>2, <3>4 DEF Memory
    <3> QED BY <3>2, <3>3, <3>4
  <2> QED BY <2>1, <2>2
<1>2. \A p \in cam.used : p[1] # NoNonce
    BY DEF KnownOk, NoNonce
<1>3. MemOk'
    BY <1>1, <1>2 DEF CountsOk, MemOk
<1>4. ASSUME NEW d \in Callers, d.right PROVE AskOk(d)'
  <2>1. CASE d = c
      BY <1>1, <2>1 DEF AskOk
  <2>2. CASE d # c
      BY <1>1, <1>4, <2>2 DEF CountsOk, AskOk, Pending, OnTheWire
  <2> QED BY <2>1, <2>2
<1>5. ASSUME NEW d \in Callers, d.right PROVE FreshOk(d)'
  <2>1. CASE d = c
      BY <1>1, <2>1 DEF FreshOk
  <2>2. CASE d # c
    <3>1. FreshOk(d) /\ grab'[d] = grab[d]
        BY <1>1, <1>5, <2>2 DEF CountsOk
    <3>2. \A e \in Callers : grab'[e].sent \in {grab[e].sent, NoNonce}
                             /\ grab'[e].heard.nonce \in {grab[e].heard.nonce, NoNonce}
        BY <1>1
    <3> QED BY <1>1, <3>1, <3>2 DEF FreshOk
  <2> QED BY <2>1, <2>2
<1>6. ASSUME NEW a \in Callers, NEW b \in Callers \ {a}, a.right, b.right PROVE PairOk(a, b)'
    BY <1>1, <1>6 DEF CountsOk, PairOk, Pending, OnTheWire
<1> QED BY <1>1, <1>3, <1>4, <1>5, <1>6 DEF CountsOk

\* The memory counts one on for whoever asks next.
LEMMA CountsAsk ==
    ASSUME IInv, KnownOk, CountsOk, NEW c \in Callers, FirstAsks(c) PROVE CountsOk'
<1> DEFINE k == mem[TRUE].ch
<1>1. /\ Callers' = Callers /\ cam' = cam /\ \A d \in Callers \ {c} : grab'[d] = grab[d]
      /\ grab'[c].heard.nonce = NoNonce /\ grab'[c].sent = mem[c.right].ch
      /\ mem'[TRUE].ch = k
      /\ (~c.right => mem'[TRUE] = mem[TRUE])
    BY CallerIs, IdleIs DEF FirstAsks, Others, Callers, Memory, NoNonce
<1>2. /\ k \in Nat /\ mem[TRUE].nc \in Nat /\ c.right \in BOOLEAN
      /\ \A d \in Callers : grab[d].count \in Nat
      /\ \A p \in cam.used : p[2] \in Nat /\ p[1] # NoNonce
    BY GrabIs DEF KnownOk, NoNonce
<1>3. c.right /\ k # NoNonce => mem'[TRUE].nc = mem[TRUE].nc + 1 /\ grab'[c].count = mem[TRUE].nc + 1
    BY CallerIs DEF FirstAsks, cachedDigest, Memory
<1>4. c.right => grab'[c].sent = k
    BY <1>1
<1> DEFINE m == mem[TRUE].nc
           n == mem'[TRUE].nc
<1>5. k # NoNonce => m <= n /\ n \in Nat /\ m \in Nat
  <2>1. n = m \/ (k # NoNonce => n = m + 1)
      BY <1>1, <1>3
  <2>2. m \in Nat
      BY <1>2
  <2> HIDE DEF m, n, k
  <2> QED BY <2>1, <2>2
<1> HIDE DEF k
<1>6. \A p \in cam.used : p[1] = k => p[2] <= mem[TRUE].nc
    BY DEF CountsOk, MemOk, k
<1>7. MemOk'
  <2> SUFFICES ASSUME NEW p \in cam.used, p[1] = k PROVE p[2] <= n
      BY <1>1 DEF MemOk
  <2>1. p[2] <= m /\ p[2] \in Nat /\ k # NoNonce
      BY <1>2, <1>6
  <2> HIDE DEF m, n
  <2> QED BY <1>5, <2>1
<1>8. ASSUME NEW d \in Callers, d.right PROVE AskOk(d)'
  <2>1. CASE d = c
    <3> SUFFICES ASSUME k # NoNonce
                 PROVE  <<k, grab'[c].count>> \notin cam.used /\ grab'[c].count <= mem'[TRUE].nc
        BY <1>1, <1>4, <1>8, <2>1 DEF AskOk
    <3>1. grab'[c].count = m + 1 /\ n = m + 1 /\ m \in Nat
        BY <1>2, <1>3, <1>8, <2>1
    <3>2. ASSUME <<k, m + 1>> \in cam.used PROVE FALSE
      <4>1. m + 1 <= m
          BY <1>6, <3>2
      <4> HIDE DEF m
      <4> QED BY <3>1, <4>1
    <3> HIDE DEF m, n
    <3>3. m + 1 <= m + 1
        BY <3>1
    <3> QED BY <3>1, <3>2, <3>3 DEF n
  <2>2. CASE d # c
    <3> SUFFICES ASSUME Pending(d), grab[d].sent # NoNonce
                 PROVE  /\ <<grab[d].sent, grab[d].count>> \notin cam.used
                        /\ grab[d].sent = k => grab[d].count <= n
      <4>1. grab'[d] = grab[d] /\ cam' = cam /\ mem'[TRUE].ch = k /\ mem'[TRUE].nc = n
          BY <1>1, <2>2
      <4> HIDE DEF n
      <4>2. Pending(d)' <=> Pending(d)
          BY <4>1 DEF Pending, OnTheWire
      <4> QED BY <4>1, <4>2 DEF AskOk
    <3>1. /\ <<grab[d].sent, grab[d].count>> \notin cam.used
          /\ grab[d].sent = k => grab[d].count <= m
        BY <1>8 DEF CountsOk, AskOk, k
    <3>2. grab[d].count \in Nat
        BY <1>2
    <3> DEFINE j == grab[d].count
    <3>3. grab[d].sent = k => j <= m /\ m <= n /\ n \in Nat /\ m \in Nat
        BY <1>5, <3>1
    <3>4. j \in Nat
        BY <3>2
    <3>5. grab[d].sent = k => j <= n
      <4> HIDE DEF j, m, n
      <4> QED BY <3>3, <3>4
    <3> QED BY <3>1, <3>5
  <2> QED BY <2>1, <2>2
<1>9. ASSUME NEW d \in Callers, d.right PROVE FreshOk(d)'
  <2>1. CASE d = c
      BY <1>1, <2>1 DEF FreshOk
  <2>2. CASE d # c
    <3>1. FreshOk(d)
        BY <1>9 DEF CountsOk
    <3> QED BY <1>1, <1>4, <2>2, <3>1 DEF FreshOk, k
  <2> QED BY <2>1, <2>2
<1>10. ASSUME NEW d \in Callers \ {c}, c.right, d.right, Pending(d), grab[d].sent = k, k # NoNonce
       PROVE  grab[d].count # grab'[c].count
  <2> DEFINE j == grab[d].count
  <2>1. j <= m /\ j \in Nat /\ m \in Nat /\ grab'[c].count = m + 1
      BY <1>2, <1>3, <1>10 DEF CountsOk, AskOk, k
  <2> HIDE DEF j, m
  <2>2. j # m + 1
      BY <2>1
  <2> QED BY <2>1, <2>2 DEF j
<1>11. ASSUME NEW a \in Callers, NEW b \in Callers \ {a}, a.right, b.right PROVE PairOk(a, b)'
  <2>1. CASE a # c /\ b # c
      BY <1>1, <1>11, <2>1 DEF CountsOk, PairOk, Pending, OnTheWire
  <2>2. CASE a = c \/ b = c
      BY <1>1, <1>4, <1>10, <1>11, <2>2 DEF PairOk, Pending, OnTheWire
  <2> QED BY <2>1, <2>2
<1> QED BY <1>1, <1>7, <1>8, <1>9, <1>11 DEF CountsOk

\* A nonce that is new starts at one.
LEMMA CountsRetry ==
    ASSUME IInv, KnownOk, CountsOk, NEW c \in Callers, Retries(c) PROVE CountsOk'
<1> DEFINE n == grab[c].heard.nonce
           fresh == [ch |-> n, nc |-> 1]
<1>1. /\ Callers' = Callers /\ cam' = cam /\ \A d \in Callers \ {c} : grab'[d] = grab[d]
      /\ grab'[c].heard.nonce = NoNonce /\ grab'[c].sent = n /\ grab'[c].count = 1
      /\ n # NoNonce
    BY IdleIs DEF Retries, Others, Callers, NoNonce
<1>2. fresh.ch = n /\ fresh.nc = 1 /\ c.right \in BOOLEAN /\ mem \in Memory
    BY CallerIs
<1>3. mem' = [mem EXCEPT ![c.right] = fresh]
    BY DEF Retries
<1> HIDE DEF fresh
<1>4. (c.right => mem'[TRUE].ch = n /\ mem'[TRUE].nc = 1) /\ (~c.right => mem'[TRUE] = mem[TRUE])
  <2>1. CASE c.right = TRUE
    <3>1. mem'[TRUE] = fresh
        BY <1>2, <1>3, <2>1 DEF Memory
    <3> QED BY <1>2, <2>1, <3>1
  <2>2. CASE c.right = FALSE
      BY <1>2, <1>3, <2>2 DEF Memory
  <2> QED BY <1>2, <2>1, <2>2
<1>5. c.right => /\ mem[TRUE].ch # n /\ \A p \in cam.used : p[1] # n
                 /\ \A d \in Callers : d.right => grab[d].sent # n
                 /\ \A d \in Callers \ {c} : d.right => grab[d].heard.nonce # n
    BY <1>1 DEF CountsOk, FreshOk
<1> HIDE DEF n
<1>6. MemOk'
  <2>1. CASE c.right
      BY <1>1, <1>4, <1>5, <2>1 DEF MemOk
  <2>2. CASE ~c.right
      BY <1>1, <1>4, <2>2 DEF CountsOk, MemOk
  <2> QED BY <2>1, <2>2
<1>7. ASSUME NEW d \in Callers, d.right PROVE AskOk(d)'
  <2>1. CASE d = c
    <3>1. mem'[TRUE].nc = 1 /\ grab'[c].count = 1 /\ \A p \in cam.used : p[1] # n
        BY <1>1, <1>4, <1>5, <1>7, <2>1
    <3>2. <<n, 1>> \notin cam.used
        BY <3>1
    <3>3. <<grab'[c].sent, grab'[c].count>> \notin cam'.used
        BY <1>1, <3>2
    <3>4. grab'[c].count <= mem'[TRUE].nc
        BY <3>1
    <3> QED BY <2>1, <3>3, <3>4 DEF AskOk
  <2>2. CASE d # c
    <3>1. AskOk(d) /\ grab'[d] = grab[d] /\ (Pending(d)' <=> Pending(d))
        BY <1>1, <1>7, <2>2 DEF CountsOk, Pending, OnTheWire
    <3>2. CASE c.right
        BY <1>1, <1>4, <1>5, <1>7, <3>1, <3>2 DEF AskOk
    <3>3. CASE ~c.right
        BY <1>1, <1>4, <3>1, <3>3 DEF AskOk
    <3> QED BY <3>2, <3>3
  <2> QED BY <2>1, <2>2
<1>8. ASSUME NEW d \in Callers, d.right PROVE FreshOk(d)'
  <2>1. CASE d = c
      BY <1>1, <2>1 DEF FreshOk
  <2>2. CASE d # c
    <3>1. FreshOk(d) /\ grab'[d] = grab[d]
        BY <1>1, <1>8, <2>2 DEF CountsOk
    <3>2. CASE c.right
      <4> DEFINE k == grab[d].heard.nonce
      <4> SUFFICES ASSUME k # NoNonce
                   PROVE  /\ mem'[TRUE].ch # k /\ \A p \in cam'.used : p[1] # k
                          /\ \A e \in Callers : e.right => grab'[e].sent # k
                          /\ \A e \in Callers \ {d} : e.right => grab'[e].heard.nonce # k
          BY <1>1, <3>1 DEF FreshOk
      <4>1. /\ mem'[TRUE].ch = n /\ cam'.used = cam.used /\ n # k
            /\ \A e \in Callers : e = c \/ grab'[e] = grab[e]
          BY <1>1, <1>4, <1>5, <1>8, <2>2, <3>2
      <4>2. /\ \A p \in cam.used : p[1] # k
            /\ \A e \in Callers : e.right => grab[e].sent # k
            /\ \A e \in Callers \ {d} : e.right => grab[e].heard.nonce # k
          BY <3>1 DEF FreshOk
      <4> HIDE DEF k
      <4> QED BY <1>1, <4>1, <4>2
    <3>3. CASE ~c.right
        BY <1>1, <1>4, <3>1, <3>3 DEF FreshOk
    <3> QED BY <3>2, <3>3
  <2> QED BY <2>1, <2>2
<1>9. ASSUME NEW a \in Callers, NEW b \in Callers \ {a}, a.right, b.right PROVE PairOk(a, b)'
  <2>1. CASE a # c /\ b # c
      BY <1>1, <1>9, <2>1 DEF CountsOk, PairOk, Pending, OnTheWire
  <2>2. CASE a = c \/ b = c
      BY <1>1, <1>5, <1>9, <2>2 DEF PairOk
  <2> QED BY <2>1, <2>2
<1> QED BY <1>1, <1>6, <1>7, <1>8, <1>9 DEF CountsOk

\* The camera counts an answer once, and has none of a nonce it just gave.
LEMMA CountsHear ==
    ASSUME RightInv, Counted, Strict, NEW c \in Callers, NEW h \in Challenge, Hears(c, h)
    PROVE  CountsOk'
<1> DEFINE mine == <<grab[c].sent, grab[c].count>>
<1>1. /\ IInv /\ KnownOk /\ CountsOk
      /\ Callers' = Callers /\ mem' = mem /\ \A d \in Callers \ {c} : grab'[d] = grab[d]
      /\ grab'[c].sent = grab[c].sent /\ grab'[c].heard = h /\ ~Pending(c)' /\ Pending(c)
      /\ h.nonce \in {NoNonce, Offers(c)} /\ h.nonce \in Nat
  <2>1. h # Silence /\ h.nonce \in Nat
      BY DEF Challenge, Silence
  <2> QED BY <2>1 DEF RightInv, Hears, Others, Pending, Callers
<1>2. \A p \in cam'.used : p \in cam.used \/ (p = mine /\ grab[c].sent \in cam.live)
  <2>1. cam' = Remembers(c, h.nonce)
      BY DEF Hears
  <2>2. cam'.used = cam.used \cup {p \in {mine} : p[1] \in cam.live}
      BY <1>1, <2>1, RemembersAre
  <2> QED BY <2>2
<1>3. /\ grab[c].sent \in Nat /\ mine[1] = grab[c].sent /\ mine[2] = grab[c].count
      /\ c.right \in BOOLEAN /\ cam.last \in Nat /\ cam.live \subseteq Nat \ {0}
      /\ \A d \in Callers : grab[d].sent \in Nat /\ grab[d].heard.nonce \in Nat
      /\ mem[TRUE].ch \in Nat
    BY <1>1, GrabIs
\* A right caller's 401 carries a nonce nobody has seen.
<1>4. c.right /\ h.nonce # NoNonce =>
         /\ grab[c].sent \notin cam.live /\ h.nonce = cam.last + 1
  <2> SUFFICES ASSUME c.right, h.nonce # NoNonce
               PROVE  grab[c].sent \notin cam.live /\ h.nonce = cam.last + 1
      OBVIOUS
  <2>1. h = Heard(c, Offers(c))
      BY DEF Hears
  <2>2. cam.digest /\ ~Taken(c)
      BY <1>1, <2>1, HeardIs
  <2> QED BY <2>2, RightIsHeard DEF Strict
\* What a wrong caller answers is no right caller's.
<1>5. ~c.right /\ grab[c].sent \in cam.live =>
         /\ mem[TRUE].ch # grab[c].sent
         /\ \A d \in Callers : d.right => grab[d].sent # grab[c].sent /\ grab[d].heard.nonce # grab[c].sent
  <2> SUFFICES ASSUME ~c.right, grab[c].sent \in cam.live
               PROVE  /\ mem[TRUE].ch # grab[c].sent
                      /\ \A d \in Callers :
                           d.right => grab[d].sent # grab[c].sent /\ grab[d].heard.nonce # grab[c].sent
      OBVIOUS
  <2> DEFINE n == grab[c].sent
  <2>1. n \in Nat \ {0} /\ NonceOf(FALSE, n)
    <3>1. c.right = FALSE
        BY <1>3
    <3> QED BY <1>3, <3>1 DEF NonceOf
  <2>2. ~NonceOf(TRUE, n)
      BY <1>1, <2>1 DEF KnownOk, Strict
  <2>3. \A d \in Callers : d.right => d.right = TRUE
    <3>1. \A d \in Callers : d.right \in BOOLEAN
        BY <1>1, GrabIs
    <3> QED BY <3>1
  <2> QED BY <2>2, <2>3 DEF NonceOf
<1>6. /\ mem[TRUE].ch <= cam.last \/ mem[TRUE].ch = 0
      /\ \A d \in Callers : /\ d.right => grab[d].sent <= cam.last
                            /\ d.right => grab[d].heard.nonce <= cam.last
      /\ \A p \in cam.used : p[1] \in Nat /\ p[1] <= cam.last
  <2>1. \A n \in Nat \ {0} : NonceOf(TRUE, n) => n <= cam.last
      BY <1>1 DEF KnownOk
  <2>2. \A d \in Callers : d.right => d.right = TRUE
    <3>1. \A d \in Callers : d.right \in BOOLEAN
        BY <1>1, GrabIs
    <3> QED BY <3>1
  <2>3. ASSUME NEW d \in Callers, d.right
        PROVE  grab[d].sent <= cam.last /\ grab[d].heard.nonce <= cam.last
    <3>1. NonceOf(TRUE, grab[d].sent) /\ NonceOf(TRUE, grab[d].heard.nonce)
        BY <2>2, <2>3 DEF NonceOf
    <3> DEFINE s == grab[d].sent
               o == grab[d].heard.nonce
               l == cam.last
    <3>2. /\ s \in Nat /\ o \in Nat /\ l \in Nat
          /\ s # 0 => s <= l
          /\ o # 0 => o <= l
        BY <1>3, <2>1, <3>1
    <3>3. s <= l /\ o <= l
      <4> HIDE DEF s, o, l
      <4> QED BY <3>2
    <3> QED BY <3>3
  <2>4. NonceOf(TRUE, mem[TRUE].ch)
      BY DEF NonceOf
  <2> QED BY <1>1, <1>3, <2>1, <2>3, <2>4 DEF KnownOk
<1> HIDE DEF mine
<1>7. MemOk'
  <2> SUFFICES ASSUME NEW p \in cam'.used, p[1] = mem[TRUE].ch PROVE p[2] <= mem[TRUE].nc
      BY <1>1 DEF MemOk
  <2>1. CASE p \in cam.used
      BY <1>1, <2>1 DEF CountsOk, MemOk
  <2>2. CASE p = mine /\ grab[c].sent \in cam.live
    <3>1. c.right
        BY <1>3, <1>5, <2>2
    <3>2. AskOk(c) /\ grab[c].sent # NoNonce
        BY <1>1, <1>3, <2>2, <3>1 DEF CountsOk, NoNonce
    <3> QED BY <1>1, <1>3, <2>2, <3>2 DEF AskOk
  <2> QED BY <1>2, <2>1, <2>2
<1>8. ASSUME NEW d \in Callers, d.right PROVE AskOk(d)'
  <2>1. CASE d = c
      BY <1>1, <2>1 DEF AskOk
  <2>2. CASE d # c
    <3>1. AskOk(d) /\ grab'[d] = grab[d] /\ (Pending(d)' <=> Pending(d)) /\ mem' = mem
        BY <1>1, <1>8, <2>2 DEF CountsOk, Pending, OnTheWire
    <3> DEFINE p == <<grab[d].sent, grab[d].count>>
    <3>2. p[1] = grab[d].sent /\ p[2] = grab[d].count
        OBVIOUS
    <3> HIDE DEF p
    <3>3. ASSUME Pending(d), grab[d].sent # NoNonce, p = mine, grab[c].sent \in cam.live PROVE FALSE
      <4>1. grab[d].sent = grab[c].sent /\ grab[d].count = grab[c].count
          BY <1>3, <3>2, <3>3
      <4>2. CASE c.right
          BY <1>1, <1>8, <2>2, <3>3, <4>1, <4>2 DEF CountsOk, PairOk
      <4>3. CASE ~c.right
          BY <1>5, <1>8, <3>3, <4>1, <4>3
      <4> QED BY <4>2, <4>3
    <3>4. Pending(d) /\ grab[d].sent # NoNonce => p \notin cam'.used
        BY <1>2, <3>1, <3>3 DEF AskOk, p
    <3> QED BY <3>1, <3>4 DEF AskOk, p
  <2> QED BY <2>1, <2>2
<1>9. ASSUME NEW d \in Callers, d.right PROVE FreshOk(d)'
  <2>1. CASE d = c
    <3> SUFFICES ASSUME h.nonce # NoNonce
                 PROVE  /\ mem[TRUE].ch # h.nonce
                        /\ \A p \in cam'.used : p[1] # h.nonce
                        /\ \A e \in Callers : e.right => grab[e].sent # h.nonce
                        /\ \A e \in Callers \ {c} : e.right => grab[e].heard.nonce # h.nonce
      <4>1. /\ \A e \in Callers : grab'[e].sent = grab[e].sent
            /\ \A e \in Callers \ {c} : grab'[e].heard = grab[e].heard
          BY <1>1
      <4> QED BY <1>1, <2>1, <4>1 DEF FreshOk
    <3>1. grab[c].sent \notin cam.live /\ h.nonce = cam.last + 1
        BY <1>4, <1>9, <2>1
    <3>2. \A p \in cam'.used : p \in cam.used
        BY <1>2, <3>1
    <3>3. \A p \in cam'.used : p[1] # h.nonce
        BY <1>3, <1>6, <3>1, <3>2
    <3> DEFINE l == cam.last
               m == mem[TRUE].ch
               o == h.nonce
    <3>4. \A x \in Nat : x <= l \/ x = 0 => x # o
      <4>1. l \in Nat /\ o = l + 1
          BY <1>3, <3>1
      <4> HIDE DEF l, o
      <4> QED BY <4>1
    <3> QED BY <1>3, <1>6, <3>3, <3>4
  <2>2. CASE d # c
    <3> DEFINE n == grab[d].heard.nonce
    <3> SUFFICES ASSUME n # NoNonce
                 PROVE  /\ mem[TRUE].ch # n
                        /\ \A p \in cam'.used : p[1] # n
                        /\ \A e \in Callers : e.right => grab[e].sent # n
                        /\ \A e \in Callers \ {d} : e.right => grab'[e].heard.nonce # n
      <4>1. \A e \in Callers : grab'[e].sent = grab[e].sent
          BY <1>1
      <4>2. grab'[d] = grab[d] /\ mem' = mem
          BY <1>1, <2>2
      <4> QED BY <1>1, <4>1, <4>2 DEF FreshOk
    <3>1. /\ mem[TRUE].ch # n /\ \A p \in cam.used : p[1] # n
          /\ \A e \in Callers : e.right => grab[e].sent # n
          /\ \A e \in Callers \ {d} : e.right => grab[e].heard.nonce # n
        BY <1>1, <1>9 DEF CountsOk, FreshOk
    <3>2. grab[c].sent \in cam.live => grab[c].sent # n
        BY <1>3, <1>5, <1>9, <3>1
    <3>3. \A p \in cam'.used : p[1] # n
        BY <1>2, <1>3, <3>1, <3>2
    <3>4. c.right => h.nonce # n
        BY <1>3, <1>4, <1>6, <1>9
    <3> QED BY <1>1, <3>1, <3>3, <3>4
  <2> QED BY <2>1, <2>2
<1>10. ASSUME NEW a \in Callers, NEW b \in Callers \ {a}, a.right, b.right PROVE PairOk(a, b)'
    BY <1>1, <1>10 DEF CountsOk, PairOk, Pending, OnTheWire
<1> QED BY <1>1, <1>7, <1>8, <1>9, <1>10 DEF CountsOk

LEMMA CountsStay ==
    ASSUME IInv, CountsOk, NobodyMoves, cam'.used \subseteq cam.used PROVE CountsOk'
<1>1. Callers' = Callers /\ mem' = mem
    BY DEF NobodyMoves, Callers
<1>2. \A c \in Callers : /\ grab'[c].sent = grab[c].sent /\ grab'[c].count = grab[c].count
                         /\ grab'[c].heard = grab[c].heard /\ (Pending(c)' <=> Pending(c))
    BY DEF NobodyMoves, Pending, OnTheWire
<1>3. MemOk'
    BY <1>1 DEF CountsOk, MemOk
<1>4. ASSUME NEW d \in Callers, d.right PROVE AskOk(d)' /\ FreshOk(d)'
  <2>1. AskOk(d) /\ FreshOk(d)
      BY <1>4 DEF CountsOk
  <2>2. AskOk(d)'
      BY <1>1, <1>2, <2>1 DEF AskOk
  <2>3. FreshOk(d)'
      BY <1>1, <1>2, <2>1 DEF FreshOk
  <2> QED BY <2>2, <2>3
<1>5. ASSUME NEW a \in Callers, NEW b \in Callers \ {a}, a.right, b.right PROVE PairOk(a, b)'
    BY <1>1, <1>2, <1>5 DEF CountsOk, PairOk
<1> QED BY <1>1, <1>3, <1>4, <1>5 DEF CountsOk

LEMMA RightKeeps == ASSUME RightInv, Counted, [Next]_vars PROVE RightInv'
<1>1. IInv /\ KnownOk /\ cam \in Answers /\ (Strict => CountsOk)
    BY DEF RightInv, IInv, Types
<1>2. IInv' /\ KnownOk'
    BY <1>1, NextKeeps, KnownKeeps
<1>3. scene' = scene /\ Callers' = Callers /\ (Strict' <=> Strict)
  <2>1. scene' = scene
      BY <1>1, StepIs DEF LetsGo, FirstAsks, Retries, Hears, NobodyMoves
  <2> QED BY <2>1 DEF Callers, Strict
<1>4. \A c \in Callers : GivenOk(c)'
    BY GivenKeeps
<1>5. ASSUME Strict PROVE CountsOk'
  <2>1. CountsOk
      BY <1>1, <1>5
  <2>2. ASSUME NEW c \in Callers, LetsGo(c) \/ FirstAsks(c) \/ Retries(c) PROVE CountsOk'
      BY <1>1, <2>1, <2>2, CountsLetGo, CountsAsk, CountsRetry
  <2>3. ASSUME NEW c \in Callers, NEW h \in Challenge, Hears(c, h) PROVE CountsOk'
      BY <1>5, <2>3, CountsHear
  <2>4. CASE NobodyMoves /\ cam' = cam
      BY <1>1, <2>1, <2>4, CountsStay
  <2>5. CASE NobodyMoves /\ GoesBasic
    <3>1. cam'.used \subseteq cam.used
        BY <1>1, <2>5 DEF GoesBasic, Answers
    <3> QED BY <1>1, <2>1, <2>5, <3>1, CountsStay
  <2>6. ASSUME NEW n \in cam.live, NobodyMoves, Retires(n) PROVE CountsOk'
    <3>1. cam'.used \subseteq cam.used
        BY <1>1, <2>6 DEF Retires, Answers
    <3> QED BY <1>1, <2>1, <2>6, <3>1, CountsStay
  <2> QED BY <1>1, <2>2, <2>3, <2>4, <2>5, <2>6, StepIs
<1> QED BY <1>2, <1>3, <1>4, <1>5 DEF RightInv

LEMMA RightInitially == ASSUME Init PROVE RightInv
<1>1. IInv
    BY Initially
<1>2. /\ \A c \in Callers : grab[c] = Idle
      /\ \A r \in BOOLEAN : mem[r] = [ch |-> NoNonce, nc |-> 0]
      /\ cam = [digest |-> TRUE, last |-> 0, live |-> {}, used |-> {}]
    BY DEF Init
<1>3. \A r \in BOOLEAN : mem[r].ch = NoNonce
    BY <1>2
<1>4. \A r \in BOOLEAN : \A n \in Nat \ {0} : ~NonceOf(r, n)
    BY <1>2, <1>3, IdleIs DEF NonceOf, NoNonce
<1>5. cam.live = {} /\ cam.used = {}
    BY <1>2
<1>6. KnownOk
    BY <1>4, <1>5 DEF KnownOk
<1>7. \A c \in Callers : GivenOk(c)
    BY <1>2, IdleIs DEF GivenOk, At
<1>8. CountsOk
    BY <1>2, <1>5, IdleIs DEF CountsOk, MemOk, AskOk, FreshOk, PairOk, Pending, OnTheWire, NoNonce
<1> QED BY <1>1, <1>6, <1>7, <1>8 DEF RightInv

\* A grab with the right password ends refused, for which the login gate
\* waits, only of a camera that went back to Basic under the challenge it gave:
\* not by a nonce that grew old nor by a count used twice, however the grabs
\* that share the memory interleave (cachedDigest, digestRetry).  It is so of
\* every camera that doesn't count the answers to one nonce it gives everyone.
THEOREM RightPasswordIsTaken ==
    ASSUME Counted
    PROVE  Spec => RightIsTaken
<1>1. Init => RightInv
    BY RightInitially
<1>2. RightInv /\ [Next]_vars => RightInv'
    BY RightKeeps
<1>3. RightInv /\ [Next]_vars =>
        [\A c \in Callers : c.right /\ grab[c].heard.status = 401 /\ grab'[c].at = "idle"
            => ~cam.digest /\ grab[c].sent # NoNonce]_vars
  <2> SUFFICES ASSUME RightInv, Next, NEW d \in Callers, d.right, grab[d].heard.status = 401,
                      grab'[d].at = "idle"
               PROVE  ~cam.digest /\ grab[d].sent # NoNonce
      OBVIOUS
  <2>1. IInv /\ GivenOk(d)
      BY DEF RightInv
  <2>2. grab[d].heard # Silence /\ OnTheWire(grab[d])
      BY <2>1, IdleIs DEF IInv, QuietOk
  <2> SUFFICES ASSUME At(d, "asking"), grab[d].heard.nonce # NoNonce, ~WrongPassword(d) PROVE FALSE
      BY <2>1 DEF GivenOk
  <2>3. grab'[d] # grab[d]
      BY DEF At
  <2>4. ASSUME NEW c \in Callers \ {d}, Others(c) PROVE FALSE
      BY <2>3, <2>4 DEF Others
  <2>5. ASSUME NEW c \in Callers, Shares(c) PROVE FALSE
    <3>1. c = d
        BY <2>1, <2>4, <2>5, ShareIs DEF LetsGo, FirstAsks
    <3>2. ~scene.device
        BY <2>1, <2>2 DEF IInv, QuietOk
    <3> QED BY <2>5, <3>1, <3>2
            DEF Shares, Comes, TakesSlot, Busy, Polls, TakesDevice, DeviceTooLate, FFmpegExits,
                GrabsAgain, Reads, CalledOff, At
  <2>6. ASSUME NEW c \in Callers, Asks(c) PROVE FALSE
    <3>1. c = d
        BY <2>1, <2>4, <2>6, AskIs DEF LetsGo, Retries
    <3>2. ~digestRetry(d)
      <4>1. CASE Retries(d)
          BY <4>1 DEF Retries
      <4>2. ASSUME digestRetry(d) PROVE grab'[d].at = "retrying"
        <5> DEFINE k == grab[d].heard.nonce
                   w == [grab[d] EXCEPT !.at = "retrying", !.heard = Silence]
        <5>1. grab' = [grab EXCEPT ![d] = authorization(w, k, 1)]
            BY <4>2 DEF digestRetry, Goes
        <5>2. w.at = "retrying" /\ w \in Request
          <6>1. grab[d] \in Request
              BY <2>1, CallerIs
          <6>2. "retrying" \in Places
              BY DEF Places
          <6> QED BY <6>1, <6>2 DEF Request
        <5> HIDE DEF w, k
        <5>3. authorization(w, k, 1).at = "retrying"
            BY <5>2 DEF authorization, Request
        <5> QED BY <2>1, <5>1, <5>3, CallerIs
      <4> QED BY <4>2
    <3> QED BY <2>2, <2>6, <3>1, <3>2 DEF Asks, Refused, Accepted, GrabFails, Challenged
  <2>7. ASSUME NEW c \in Callers, CameraAnswers(c) PROVE FALSE
    <3>1. PICK h \in Challenge : Hears(c, h)
        BY <2>1, <2>7, AnswerIs
    <3>2. c = d
        BY <2>4, <3>1 DEF Hears
    <3> QED BY <2>2, <3>1, <3>2 DEF Hears
  <2>8. CASE Tick \/ GoesBasic \/ \E n \in cam.live : Retires(n)
    <3>1. NobodyMoves
        BY <2>1, <2>8, OwnStepIs
    <3> QED BY <3>1 DEF NobodyMoves, At
  <2> QED BY <2>5, <2>6, <2>7, <2>8 DEF Next
<1> QED BY <1>1, <1>2, <1>3, PTL DEF Spec, RightIsTaken
=============================================================================
