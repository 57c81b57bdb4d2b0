------------------------------- MODULE Grabs --------------------------------
(***************************************************************************)
(* What the grabs of one camera share besides the login gate: the frame    *)
(* slots of the web pages (internal/web/frameslot.go), the capture         *)
(* device's slot (internal/source/ffmpeg.go) and the memory of the         *)
(* camera's last Digest challenge (internal/source/source.go).             *)
(*                                                                         *)
(* A caller is a watch's poll loop, a page's snapshot, a Test, or a Test   *)
(* of pixel_change, which grabs twice.  Any of them may be called off at   *)
(* any time: the page goes away, the watch stops.  A context is a number   *)
(* of ticks it has been open for; what it bounds happens before its        *)
(* deadline or fails at it.  The camera and ffmpeg answer as they like.    *)
(* An HTTP grab queues for nothing, so what its context does is GrabFails  *)
(* at any time, and the clock runs for a capture device only.              *)
(***************************************************************************)
EXTENDS Integers, FiniteSets

CONSTANTS
    Scenes,         \* the callers, the source and the camera of one behaviour
    FrameSlots,     \* frameSlots
    SlotWait,       \* frameSlotWait, in ticks
    GrabTimeout,    \* the pages' grabTimeout, which httpTimeout equals
    FFmpegTimeout,  \* defaultFFmpegTimeout
    WaitDelay,      \* a killed ffmpeg's WaitDelay
    ReadBudget,     \* a Test's read, or the wait between its two grabs
    MaxAnswers,     \* bound: answers made with one nonce
    MaxNonces       \* bound: nonces the camera issues

\* offers: one nonce for every client ("shared"), one per first contact
\* ("session"), or a new one with every 401 ("each"); counts: an answer
\* whose count was used before is refused.
Cameras == [offers : {"shared", "session", "each"}, counts : BOOLEAN]
Kinds   == {"poll", "snapshot", "test", "pixel"}
Caller  == [kind : Kinds, right : BOOLEAN, id : Nat]

ASSUME GrabsAssumption ==
    /\ \A s \in Scenes : /\ s.callers \subseteq Caller /\ IsFiniteSet(s.callers)
                         /\ s.device \in BOOLEAN /\ s.camera \in Cameras
    /\ {FrameSlots, SlotWait, GrabTimeout, FFmpegTimeout, ReadBudget} \subseteq Nat \ {0}
    /\ WaitDelay \in Nat /\ GrabTimeout <= FFmpegTimeout
    /\ MaxAnswers \in Nat \ {0} /\ MaxNonces \in Nat

NoNonce == 0
Challenge == [status : {200, 401}, nonce : Nat, stale : BOOLEAN]
Silence   == [status |-> 0, nonce |-> NoNonce, stale |-> FALSE]
Idle      == [at |-> "idle", age |-> 0, off |-> FALSE, again |-> FALSE,
              sent |-> NoNonce, count |-> 0, heard |-> Silence]

VARIABLES
    scene,
    frames,   \* Server.frames: frame slots taken
    device,   \* the device slot is taken
    grab,     \* per caller: where it is in its request
    mem,      \* per password: the digestState, shared by its grabs
    cam       \* external: the camera's scheme and nonces

VARIABLES     \* history
    took,     \* per caller: ticks its grab has lasted
    misses    \* per caller: failed logins its grab has cost the account

vars == <<scene, frames, device, grab, mem, cam, took, misses>>

Callers == scene.callers
Page(c) == c.kind # "poll"

Init ==
    /\ scene \in Scenes
    /\ frames = 0 /\ device = FALSE
    /\ grab = [c \in Callers |-> Idle]
    /\ mem = [right \in BOOLEAN |-> [ch |-> NoNonce, nc |-> 0]]
    /\ cam = [digest |-> TRUE, last |-> 0, live |-> {}, used |-> {}]
    /\ took = [c \in Callers |-> 0]
    /\ misses = [c \in Callers |-> 0]

At(c, p) == grab[c].at = p
Grabbing(c) == grab[c].at \in {"deviceWait", "ffmpeg", "asking", "retrying"}
Goes(c, to) == grab' = [grab EXCEPT ![c] = to]

-----------------------------------------------------------------------------
(* The contexts. *)

\* A poll's grab is bounded by its source, a page's by grabTimeout as well.
Budget(c) == IF scene.device /\ ~Page(c) THEN FFmpegTimeout ELSE GrabTimeout

Limit(c) ==
    CASE At(c, "slotWait") -> SlotWait
      [] At(c, "reads") -> ReadBudget
      [] OTHER -> Budget(c)

Expired(c) == grab[c].off \/ grab[c].age >= Limit(c)

\* The page goes away, or the watch is stopped.
CalledOff(c) ==
    /\ scene.device /\ ~At(c, "idle") /\ ~grab[c].off
    /\ Goes(c, [grab[c] EXCEPT !.off = TRUE])
    /\ UNCHANGED <<scene, frames, device, mem, cam, took, misses>>

\* Nobody is left waiting past a deadline, nor a killed ffmpeg past its
\* WaitDelay.
Overdue(c) == grab[c].age >= Limit(c) + (IF At(c, "ffmpeg") THEN WaitDelay ELSE 0)

Tick ==
    /\ scene.device /\ \E c \in Callers : ~At(c, "idle")
    /\ \A c \in Callers : At(c, "idle") \/ ~Overdue(c)
    /\ grab' = [c \in Callers |-> IF At(c, "idle") THEN grab[c] ELSE [grab[c] EXCEPT !.age = @ + 1]]
    /\ took' = [c \in Callers |-> IF Grabbing(c) THEN took[c] + 1 ELSE took[c]]
    /\ UNCHANGED <<scene, frames, device, mem, cam, misses>>

-----------------------------------------------------------------------------
(* The frame slots and the two kinds of source. *)

\* cachedDigest: the next count of the remembered nonce; "" before there is one.
cachedDigest_SameCount(right) == mem[right].nc

cachedDigest(right) == IF mem[right].ch = NoNonce THEN 0 ELSE mem[right].nc + 1

\* The answer to a challenge: which nonce, and for the how manyth time.
authorization(g, nonce, count) == [g EXCEPT !.sent = nonce, !.count = count]

\* src.Grab: queue for the device, or the first request.
Begins(c, again) ==
    LET new == [Idle EXCEPT !.again = again, !.off = grab[c].off]
    IN  /\ took' = [took EXCEPT ![c] = 0] /\ misses' = [misses EXCEPT ![c] = 0]
        /\ IF scene.device
           THEN Goes(c, [new EXCEPT !.at = "deviceWait"]) /\ UNCHANGED mem
           ELSE LET n == cachedDigest(c.right)
                IN  /\ n <= MaxAnswers
                    /\ Goes(c, authorization([new EXCEPT !.at = "asking"], mem[c.right].ch, n))
                    /\ mem' = [mem EXCEPT ![c.right].nc = n]

\* takeFrameSlot, which a poll doesn't need.
Comes(c) ==
    /\ At(c, "idle") /\ Page(c)
    /\ Goes(c, [Idle EXCEPT !.at = "slotWait"])
    /\ took' = [took EXCEPT ![c] = 0]
    /\ UNCHANGED <<scene, frames, device, mem, cam, misses>>

TakesSlot(c) ==
    /\ At(c, "slotWait") /\ frames < FrameSlots
    /\ frames' = frames + 1
    /\ Begins(c, FALSE)
    /\ UNCHANGED <<scene, device, cam>>

Busy(c) ==
    /\ At(c, "slotWait") /\ Expired(c)
    /\ Goes(c, Idle)
    /\ UNCHANGED <<scene, frames, device, mem, cam, took, misses>>

Polls(c) ==
    /\ At(c, "idle") /\ ~Page(c)
    /\ Begins(c, FALSE)
    /\ UNCHANGED <<scene, frames, device, cam>>

Released_NotCalledOff(c) == IF Page(c) /\ ~grab[c].off THEN frames - 1 ELSE frames

Released(c) == IF Page(c) THEN frames - 1 ELSE frames

\* The request is answered, whether or not it got its frame.
Ends(c) ==
    /\ Goes(c, Idle)
    /\ frames' = Released(c)

TakesDevice_FreshContext(c) ==
    /\ At(c, "deviceWait") /\ ~device
    /\ device' = TRUE
    /\ Goes(c, [grab[c] EXCEPT !.at = "ffmpeg", !.age = 0])
    /\ UNCHANGED <<scene, frames, mem, cam, took, misses>>

TakesDevice(c) ==
    /\ At(c, "deviceWait") /\ ~device
    /\ device' = TRUE
    /\ Goes(c, [grab[c] EXCEPT !.at = "ffmpeg"])
    /\ UNCHANGED <<scene, frames, mem, cam, took, misses>>

\* "ffmpeg: waiting for the device"
DeviceTooLate(c) ==
    /\ At(c, "deviceWait") /\ Expired(c)
    /\ Ends(c)
    /\ UNCHANGED <<scene, device, mem, cam, took, misses>>

\* The frame is there: a page's Test goes on to read it, still in its slot.
HasFrame(c) ==
    IF c.kind \in {"test", "pixel"} /\ ~grab[c].again
    THEN Goes(c, [Idle EXCEPT !.at = "reads", !.off = grab[c].off]) /\ UNCHANGED frames
    ELSE Ends(c)

\* ffmpeg exits by itself, or is killed when its context is over.
FFmpegExits(c) ==
    /\ At(c, "ffmpeg")
    /\ device' = FALSE
    /\ \/ ~Expired(c) /\ HasFrame(c)
       \/ Ends(c)
    /\ UNCHANGED <<scene, mem, cam, took, misses>>

\* testPixelChange: after a wait, a second grab with a context of its own.
GrabsAgain(c) ==
    /\ At(c, "reads") /\ c.kind = "pixel" /\ ~grab[c].off
    /\ Begins(c, TRUE)
    /\ UNCHANGED <<scene, frames, device, cam>>

\* testCrop: read and answered; a panic is answered too (testCrashed).
Reads(c) ==
    /\ At(c, "reads")
    /\ Ends(c)
    /\ UNCHANGED <<scene, device, mem, cam, took, misses>>

-----------------------------------------------------------------------------
(* The HTTP camera, external: what it makes of the request of c. *)

Refuses(c)  == grab[c].sent \in cam.live
               /\ (c.right => scene.camera.counts /\ <<grab[c].sent, grab[c].count>> \in cam.used)

\* The nonce of a 401.
Offers(c) ==
    CASE scene.camera.offers = "shared" /\ cam.live # {} -> CHOOSE n \in cam.live : TRUE
      [] scene.camera.offers = "session" /\ grab[c].sent \in cam.live -> grab[c].sent
      [] OTHER -> cam.last + 1

Taken(c) == IF cam.digest THEN grab[c].sent \in cam.live /\ ~Refuses(c)
            ELSE grab[c].sent = NoNonce /\ c.right

CameraAnswers(c) ==
    LET n == Offers(c)
        heard == CASE Taken(c) -> [status |-> 200, nonce |-> NoNonce, stale |-> FALSE]
                   [] ~Taken(c) /\ cam.digest ->
                        [status |-> 401, nonce |-> n,
                         stale |-> grab[c].sent \notin cam.live \cup {NoNonce}]
                   [] OTHER -> [status |-> 401, nonce |-> NoNonce, stale |-> FALSE]
    IN  /\ grab[c].at \in {"asking", "retrying"} /\ grab[c].heard = Silence
        /\ heard.nonce <= MaxNonces
        /\ Goes(c, [grab[c] EXCEPT !.heard = heard])
        /\ cam' = [cam EXCEPT !.last = IF heard.nonce > @ THEN heard.nonce ELSE @,
                              !.live = IF heard.nonce # NoNonce THEN @ \cup {heard.nonce} ELSE @,
                              !.used = @ \cup {p \in {<<grab[c].sent, grab[c].count>>} : p[1] \in cam.live}]
        /\ misses' = IF ~c.right /\ (IF cam.digest THEN grab[c].sent \in cam.live ELSE grab[c].sent = NoNonce)
                     THEN [misses EXCEPT ![c] = @ + 1] ELSE misses
        /\ UNCHANGED <<scene, frames, device, mem, took>>

\* A nonce grows old, though not under a grab that was just given it.
Retires(n) ==
    /\ n \in cam.live
    /\ \A c \in Callers : grab[c].heard.nonce # n /\ ~(At(c, "retrying") /\ grab[c].sent = n)
    /\ cam' = [cam EXCEPT !.live = @ \ {n}, !.used = {p \in @ : p[1] # n}]
    /\ UNCHANGED <<scene, frames, device, grab, mem, took, misses>>

\* Someone sets the camera to Basic.
GoesBasic ==
    /\ cam.digest /\ ~scene.device
    /\ cam' = [cam EXCEPT !.digest = FALSE, !.live = {}, !.used = {}]
    /\ UNCHANGED <<scene, frames, device, grab, mem, took, misses>>

-----------------------------------------------------------------------------
(* What Grab makes of the answer. *)

\* "the nonce it is still offering", not called stale: the password is wrong.
WrongPassword_AnyNonce(c) == grab[c].sent # NoNonce

WrongPassword_NeverSure(c) == FALSE

WrongPassword(c) ==
    LET h == grab[c].heard IN grab[c].sent # NoNonce /\ h.nonce = grab[c].sent /\ ~h.stale

Challenged(c) == At(c, "asking") /\ grab[c].heard.status = 401

\* digestRetry: the memory and the second request, under the state's lock.
digestRetry(c) ==
    /\ Challenged(c) /\ grab[c].heard.nonce # NoNonce /\ ~WrongPassword(c)
    /\ mem' = [mem EXCEPT ![c.right] = [ch |-> grab[c].heard.nonce, nc |-> 1]]
    /\ Goes(c, authorization([grab[c] EXCEPT !.at = "retrying", !.heard = Silence], grab[c].heard.nonce, 1))
    /\ UNCHANGED <<scene, frames, device, cam, took, misses>>

\* A 401 that is final: a second one, the wrong password, or no Digest
\* offered, which sends the next grab back to Basic.
Refused(c) ==
    /\ grab[c].heard.status = 401
    /\ Challenged(c) => grab[c].heard.nonce = NoNonce \/ WrongPassword(c)
    /\ mem' = IF Challenged(c) /\ grab[c].heard.nonce = NoNonce
              THEN [mem EXCEPT ![c.right] = [ch |-> NoNonce, nc |-> 0]] ELSE mem
    /\ Ends(c)
    /\ UNCHANGED <<scene, device, cam, took, misses>>

Accepted(c) ==
    /\ grab[c].heard.status = 200
    /\ HasFrame(c) \/ Ends(c)
    /\ UNCHANGED <<scene, device, mem, cam, took, misses>>

\* The camera is off, or too slow.
GrabFails(c) ==
    /\ grab[c].at \in {"asking", "retrying"} /\ grab[c].heard = Silence
    /\ Ends(c)
    /\ UNCHANGED <<scene, device, mem, cam, took, misses>>

-----------------------------------------------------------------------------
Shares(c) == Comes(c) \/ TakesSlot(c) \/ Busy(c) \/ Polls(c) \/ TakesDevice(c) \/ DeviceTooLate(c)
             \/ FFmpegExits(c) \/ GrabsAgain(c) \/ Reads(c) \/ CalledOff(c)
Asks(c)   == digestRetry(c) \/ Refused(c) \/ Accepted(c) \/ GrabFails(c)

Next ==
    \/ \E c \in Callers : Shares(c) \/ Asks(c) \/ CameraAnswers(c)
    \/ \E n \in cam.live : Retires(n)
    \/ GoesBasic \/ Tick

Spec == Init /\ [][Next]_vars

-----------------------------------------------------------------------------
TypeOK ==
    /\ scene \in Scenes /\ frames \in 0..FrameSlots /\ device \in BOOLEAN
    /\ mem \in [BOOLEAN -> [ch : 0..MaxNonces, nc : 0..MaxAnswers]]
    /\ \A c \in Callers : /\ grab[c].heard \in Challenge \cup {Silence}
                          /\ misses[c] \in Nat /\ took[c] \in Nat

\* A frame slot is taken exactly while a page's request holds a frame or is
\* after one, the device's exactly while one ffmpeg has it open: none is lost
\* on a refusal, a timeout, a page that goes away or a panic.
SlotsBack ==
    /\ frames = Cardinality({c \in Callers : Page(c) /\ (Grabbing(c) \/ At(c, "reads"))})
    /\ Cardinality({c \in Callers : At(c, "ffmpeg")}) = IF device THEN 1 ELSE 0

\* "Waiting for the device counts against the grab's timeout, so a queue
\* behind a hung ffmpeg still fails in bounded time": no grab outlasts its
\* own deadline and the time a killed ffmpeg gets.
InTime == \A c \in Callers : took[c] <= Budget(c) + (IF scene.device THEN WaitDelay ELSE 0)

Inv == TypeOK /\ SlotsBack /\ InTime

\* A grab with the right password ends refused, which the login gate then
\* waits out, only when the camera has gone back to Basic under a challenge it
\* gave before: not by a nonce that grew old, nor by a count used twice,
\* however the grabs that share the memory interleave (cachedDigest,
\* digestRetry).  Cameras that count the answers to one shared nonce are
\* outside Scenes: there it is not so.
RightIsTaken ==
    [][\A c \in Callers : c.right /\ grab[c].heard.status = 401 /\ grab'[c].at = "idle"
        => ~cam.digest /\ grab[c].sent # NoNonce]_vars

\* "a wrong password costs the account one failed login per poll, not two
\* (some cameras lock it after a few)", of any camera that offers a nonce
\* again while it lives.
OneFailureAGrab == \A c \in Callers : scene.camera.offers # "each" => misses[c] <= 1

\* "nc: requests made with ch's nonce": two answers under way never give one
\* nonce the same count.  It is not so of a nonce that several grabs were
\* offered at once: each starts it at 1 (digestRetry).
CountsApart ==
    \A c, d \in Callers :
        c # d /\ grab[c].sent # NoNonce /\ grab[c].sent = grab[d].sent /\ c.right = d.right
        => grab[c].count # grab[d].count
=============================================================================
