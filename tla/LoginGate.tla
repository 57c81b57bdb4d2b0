----------------------------- MODULE LoginGate -----------------------------
(***************************************************************************)
(* The memory of refused logins that every grab passes through             *)
(* (internal/source/logingate.go): polls, snapshots and Tests of one       *)
(* camera, at once.  A grab is let through (admit), asks the camera with   *)
(* the gate unlocked, and reports what the camera said (refused, accepted, *)
(* done).  A 401 is kept under the login, a 403 under the login and path.  *)
(*                                                                         *)
(* The camera answers as it likes, at any time.  Time is in ticks; an      *)
(* instant is kept as its age, or as the ticks left until it.              *)
(***************************************************************************)
EXTENDS Integers, Sequences

CONSTANTS
    Logins,       \* users and passwords tried on the camera
    Paths,        \* the camera's channels
    Whole,        \* the scope of a refusal that is not one path's
    Grabs,        \* bound: grabs that may be under way at once
    Waits,        \* loginWaits, in ticks
    ForcedTryGap, \* ticks between two Tests
    ForgetAfter,  \* ticks after which a refusal is forgotten
    Followed      \* the entries whose asking again is checked: the paths of a
                  \* login are interchangeable

Ids    == Logins \X (Paths \cup {Whole})
Places == Logins \X Paths

ASSUME GateAssumption ==
    /\ Whole \notin Paths
    /\ ForcedTryGap \in Nat /\ ForgetAfter \in Nat
    /\ Followed \subseteq Ids

\* loginWaits grows, and forgetAfter outlasts it.
ASSUME WaitAssumption ==
    /\ Waits \in Seq(Nat \ {0}) /\ Len(Waits) > 0
    /\ \A i, j \in 1..Len(Waits) : i <= j => Waits[i] <= Waits[j]
    /\ \A i \in 1..Len(Waits) : Waits[i] <= ForgetAfter

Capped(n, cap) == IF n < cap THEN n ELSE cap

\* A refusal that is not in the map has count 0.  Counts stop where
\* loginWait no longer tells them apart.
Refusal == [count : 0..Len(Waits), left : 0..ForgetAfter, age : 0..(ForgetAfter + 1),
            sinceForced : 0..ForcedTryGap, probing : BOOLEAN]
NoRefusal == [count |-> 0, left |-> 0, age |-> 0, sinceForced |-> ForcedTryGap, probing |-> FALSE]

Ticket   == [at : Places, forced : BOOLEAN, probing : SUBSET Ids]
NoTicket == [at |-> <<>>, forced |-> FALSE, probing |-> {}]

VARIABLES
    byID,    \* the gate's map
    ticket   \* per grab: its ticket while it is asking the camera

VARIABLES    \* history: what the camera said, kept apart from the gate's map
    quiet,   \* per id: ticks since the camera last refused it
    streak,  \* per id: refusals in a row, each after the wait of the one before
    testAgo  \* per login: ticks since a Test last asked with it, TurnedDown all along

vars == <<byID, ticket, quiet, streak, testAgo>>

Init ==
    /\ byID = [id \in Ids |-> NoRefusal]
    /\ ticket = [g \in Grabs |-> NoTicket]
    /\ quiet = [id \in Ids |-> ForgetAfter + 1]
    /\ streak = [id \in Ids |-> 0]
    /\ testAgo = [l \in Logins |-> ForcedTryGap]

-----------------------------------------------------------------------------
(* admit *)

loginOf(at) == <<at[1], Whole>>
idsOf(at)   == {loginOf(at), at}
Known(id)   == byID[id].count > 0

\* The camera refused id and has not taken it since, nor was it left alone
\* for so long that the refusal is old news.
TurnedDown(id) == quiet[id] <= ForgetAfter

Waiting(id) == Known(id) /\ (byID[id].left > 0 \/ byID[id].probing)
Blocked(at) == \E id \in idsOf(at) : Waiting(id)

Claims_NotUndone(at) ==
    {id \in idsOf(at) : Known(id) /\ ~Waiting(id) /\ ~Waiting(loginOf(at))}

\* The after-wait asks a poll leaves claimed: all it needs, or none.
Claims(at) == IF Blocked(at) THEN {} ELSE {id \in idsOf(at) : Known(id)}

\* A poll or snapshot of at: asked, or answered with the refusal remembered.
Admit(g, at) ==
    /\ ticket[g] = NoTicket
    /\ byID' = [id \in Ids |-> IF id \in Claims(at) THEN [byID[id] EXCEPT !.probing = TRUE]
                               ELSE byID[id]]
    /\ ticket' = IF Blocked(at) THEN ticket
                 ELSE [ticket EXCEPT ![g] = [at |-> at, forced |-> FALSE, probing |-> Claims(at)]]
    /\ UNCHANGED <<quiet, streak, testAgo>>

Throttled_PathOnly(at) == Known(at) /\ byID[at].sinceForced < ForcedTryGap

Throttled(at) == \E id \in idsOf(at) : Known(id) /\ byID[id].sinceForced < ForcedTryGap

\* Test this region: through the wait, unless another Test just was.
AdmitForced(g, at) ==
    /\ ticket[g] = NoTicket /\ ~Throttled(at)
    /\ byID' = [id \in Ids |-> IF id \in idsOf(at) /\ Known(id)
                               THEN [byID[id] EXCEPT !.sinceForced = 0] ELSE byID[id]]
    /\ ticket' = [ticket EXCEPT ![g] = [at |-> at, forced |-> TRUE, probing |-> {}]]
    /\ testAgo' = IF TurnedDown(loginOf(at)) THEN [testAgo EXCEPT ![at[1]] = 0] ELSE testAgo
    /\ UNCHANGED <<quiet, streak>>

-----------------------------------------------------------------------------
(* What the camera answered. *)

Asking(g) == ticket[g] # NoTicket

Released_LoginOnly(g) ==
    [id \in Ids |-> IF id \in ticket[g].probing /\ id[2] = Whole
                    THEN [byID[id] EXCEPT !.probing = FALSE] ELSE byID[id]]

\* release: the claims of g's ticket.
Released(g) ==
    [id \in Ids |-> IF id \in ticket[g].probing THEN [byID[id] EXCEPT !.probing = FALSE]
                    ELSE byID[id]]

loginWait_OffByOne(refusals) == Waits[IF refusals <= 1 THEN 1 ELSE refusals - 1]

loginWait(refusals) ==
    Waits[IF refusals < 1 THEN 1 ELSE IF refusals > Len(Waits) THEN Len(Waits) ELSE refusals]

\* A refusal inside the wait starts it over and does not make it longer.
Noted(r, forced) ==
    LET n == IF r.left = 0 THEN Capped(r.count + 1, Len(Waits)) ELSE r.count
    IN  [count |-> n, left |-> loginWait(n), age |-> 0,
         sinceForced |-> IF forced THEN 0 ELSE r.sinceForced, probing |-> r.probing]

Forgotten_Asked(r) == r.age > ForgetAfter

Forgotten(r) == r.age > ForgetAfter /\ ~r.probing

\* How the camera's own count of refusals goes on.
StreakOn(id) ==
    IF ~TurnedDown(id) THEN 1
    ELSE IF quiet[id] >= Waits[streak[id]] THEN Capped(streak[id] + 1, Len(Waits))
    ELSE streak[id]

refused(g, status) ==
    LET id == IF status = 403 THEN ticket[g].at ELSE loginOf(ticket[g].at)
    IN  /\ Asking(g)
        /\ byID' = [i \in Ids |->
               IF i = id THEN Noted(Released(g)[i], ticket[g].forced)
               ELSE IF Forgotten(Released(g)[i]) THEN NoRefusal ELSE Released(g)[i]]
        /\ ticket' = [ticket EXCEPT ![g] = NoTicket]
        /\ quiet' = [quiet EXCEPT ![id] = 0]
        /\ streak' = [streak EXCEPT ![id] = StreakOn(id)]
        /\ UNCHANGED testAgo

\* The entries go from the map; a ticket that had claimed one keeps a claim
\* of nothing.
accepted(g) ==
    LET gone == idsOf(ticket[g].at)
    IN  /\ Asking(g)
        /\ byID' = [id \in Ids |-> IF id \in gone THEN NoRefusal ELSE Released(g)[id]]
        /\ ticket' = [h \in Grabs |-> IF h = g THEN NoTicket
                                      ELSE [ticket[h] EXCEPT !.probing = @ \ gone]]
        /\ quiet' = [id \in Ids |-> IF id \in gone THEN ForgetAfter + 1 ELSE quiet[id]]
        /\ streak' = [id \in Ids |-> IF id \in gone THEN 0 ELSE streak[id]]
        /\ testAgo' = [testAgo EXCEPT ![ticket[g].at[1]] = ForcedTryGap]

\* The camera said nothing about the login.
done(g) ==
    /\ Asking(g)
    /\ byID' = Released(g)
    /\ ticket' = [ticket EXCEPT ![g] = NoTicket]
    /\ UNCHANGED <<quiet, streak, testAgo>>

Answered(g) == (\E status \in {401, 403} : refused(g, status)) \/ accepted(g) \/ done(g)

\* now moves on.
Older(r) ==
    IF r.count = 0 THEN r
    ELSE [r EXCEPT !.left = IF @ = 0 THEN 0 ELSE @ - 1,
                   !.age = Capped(@ + 1, ForgetAfter + 1),
                   !.sinceForced = Capped(@ + 1, ForcedTryGap)]

Tick ==
    /\ byID' = [id \in Ids |-> Older(byID[id])]
    /\ quiet' = [id \in Ids |-> Capped(quiet[id] + 1, ForgetAfter + 1)]
    /\ streak' = [id \in Ids |-> IF quiet[id] >= ForgetAfter THEN 0 ELSE streak[id]]
    /\ testAgo' = [l \in Logins |-> IF quiet[<<l, Whole>>] >= ForgetAfter THEN ForcedTryGap
                                    ELSE Capped(testAgo[l] + 1, ForcedTryGap)]
    /\ UNCHANGED ticket

-----------------------------------------------------------------------------
Next ==
    \/ \E g \in Grabs, at \in Places : Admit(g, at) \/ AdmitForced(g, at)
    \/ \E g \in Grabs : Answered(g)
    \/ Tick

Spec == Init /\ [][Next]_vars

\* A grab ends by its timeout and the clock runs.  Every channel is polled
\* again and again; a poll that finds every one of Grabs under way, which is
\* this model's bound and not the code's, comes again.  Nobody has to Test.
Fairness ==
    /\ WF_vars(Tick)
    /\ \A g \in Grabs : WF_vars(Answered(g))
    /\ \A at \in Places : SF_vars(\E g \in Grabs : Admit(g, at))

FairSpec == Spec /\ Fairness

-----------------------------------------------------------------------------
(* Properties. *)

\* Types; an entry that is gone leaves nothing behind, and a ticket's claims
\* are of entries that are there.
TypeOK ==
    /\ byID \in [Ids -> Refusal]
    /\ \A id \in Ids : ~Known(id) => byID[id] = NoRefusal
    /\ ticket \in [Grabs -> Ticket \cup {NoTicket}]
    /\ \A g \in Grabs : \A id \in ticket[g].probing : Known(id) /\ id \in idsOf(ticket[g].at)
    /\ quiet \in [Ids -> 0..(ForgetAfter + 1)]
    /\ streak \in [Ids -> 0..Len(Waits)]
    /\ testAgo \in [Logins -> 0..ForcedTryGap]

\* "One grab at a time asks after the wait; the others carry on failing with
\* the refusal until it has an answer": an entry is marked as being asked
\* exactly while one grab under way has claimed it, so no two grabs ask and no
\* mark is left that keeps everybody from asking (admit, release).
OneAsks ==
    /\ \A id \in Ids : byID[id].probing <=> \E g \in Grabs : id \in ticket[g].probing
    /\ \A g, h \in Grabs : g # h => ticket[g].probing \cap ticket[h].probing = {}

LetThrough(g) == ticket[g] = NoTicket /\ ticket'[g] # NoTicket

\* The account is not locked by polling: no poll asks a camera that turned the
\* login down n times in a row before the n-th wait has passed since it last
\* did, whichever grabs, Tests or late answers made it so (refused, admit).
WaitKept ==
    [][\A g \in Grabs : LetThrough(g) /\ ~ticket'[g].forced =>
          \A id \in idsOf(ticket'[g].at) :
              TurnedDown(id) => quiet[id] >= Waits[streak[id]]]_vars

\* "Test asks at most once every 10 seconds per login": while the camera turns
\* a login down (401), two Tests that ask it are ForcedTryGap apart, on
\* whichever channels.
TestsSpaced ==
    [][\A g \in Grabs : LetThrough(g) /\ ticket'[g].forced
                        /\ TurnedDown(loginOf(ticket'[g].at))
          => testAgo[ticket'[g].at[1]] >= ForcedTryGap]_vars

\* No refused login or channel is shut out for good: it is asked again, unless
\* the refusal was forgotten or, for a channel, the whole login is refused.
AskedAgain ==
    \A id \in Followed :
        Known(id) ~> \/ ~Known(id)
                     \/ \E g \in Grabs : Asking(g) /\ id \in idsOf(ticket[g].at)
                     \/ id[2] # Whole /\ Known(<<id[1], Whole>>)
=============================================================================
