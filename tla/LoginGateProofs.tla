-------------------------- MODULE LoginGateProofs --------------------------
(* Type correctness and the safety properties of LoginGate, for every set of *)
(* logins, channels and grabs, every list of waits and every gap.            *)
EXTENDS LoginGate, TLAPS

\* What the gate keeps of an id against what the camera said of it: an entry
\* is as old as the camera's last refusal, its wait is the one of its count,
\* and its count is no less than the refusals in a row.
WaitAgrees(id) ==
    /\ Known(id) => /\ quiet[id] = byID[id].age
                    /\ streak[id] <= byID[id].count
                    /\ byID[id].left = 0 => byID[id].age >= Waits[byID[id].count]
                    /\ byID[id].left > 0 => byID[id].left = Waits[byID[id].count] - byID[id].age
    /\ TurnedDown(id) => Known(id) /\ streak[id] > 0

\* The same of Tests: no entry of a login the camera turns down forgets one.
TestAgrees(l) ==
    /\ TurnedDown(<<l, Whole>>) => byID[<<l, Whole>>].sinceForced <= testAgo[l]
    /\ ~TurnedDown(<<l, Whole>>) => testAgo[l] = ForcedTryGap

IInv ==
    /\ TypeOK
    /\ OneAsks
    /\ \A id \in Ids : WaitAgrees(id)
    /\ \A l \in Logins : TestAgrees(l)

-----------------------------------------------------------------------------
(* The operators. *)

LEMMA GapTypes == ForgetAfter \in Nat /\ ForcedTryGap \in Nat
BY GateAssumption

LEMMA CappedType ==
    ASSUME NEW n \in Nat, NEW cap \in Nat
    PROVE  /\ Capped(n, cap) \in 0..cap
           /\ n < cap => Capped(n, cap) = n
           /\ n >= cap => Capped(n, cap) = cap
BY DEF Capped

LEMMA WaitsType ==
    /\ Len(Waits) \in Nat /\ Len(Waits) > 0
    /\ ForgetAfter \in Nat /\ ForcedTryGap \in Nat
    /\ \A i \in 1..Len(Waits) : Waits[i] \in Nat /\ Waits[i] > 0 /\ Waits[i] <= ForgetAfter
    /\ \A i, j \in 1..Len(Waits) : i <= j => Waits[i] <= Waits[j]
    /\ \A i \in 1..Len(Waits) : loginWait(i) = Waits[i]
<1>1. \A i \in 1..Len(Waits) : Waits[i] \in Nat \ {0}
    BY WaitAssumption
<1>2. \A i \in 1..Len(Waits) : loginWait(i) = Waits[i]
    BY WaitAssumption DEF loginWait
<1> QED
    BY <1>1, <1>2, WaitAssumption, GapTypes

LEMMA IdTypes ==
    ASSUME NEW at \in Places
    PROVE  /\ loginOf(at) \in Ids /\ at \in Ids /\ idsOf(at) \subseteq Ids
           /\ at[1] \in Logins
           /\ loginOf(at) \in idsOf(at) /\ at \in idsOf(at)
BY DEF Places, Ids, loginOf, idsOf

LEMMA NoRefusalType ==
    /\ NoRefusal \in Refusal /\ NoRefusal.count = 0 /\ NoRefusal.left = 0
    /\ NoRefusal.probing = FALSE /\ NoRefusal.sinceForced = ForcedTryGap
BY WaitsType DEF NoRefusal, Refusal

\* What Noted makes of an entry that agrees with the camera.
LEMMA NotedType ==
    ASSUME NEW r \in Refusal, NEW forced \in BOOLEAN, r.count = 0 => r.left = 0
    PROVE  LET s == Noted(r, forced)
           IN  /\ s \in Refusal /\ s.count > 0 /\ s.age = 0 /\ s.probing = r.probing
               /\ s.left = Waits[s.count] /\ s.left > 0
               /\ s.count = IF r.left = 0 THEN Capped(r.count + 1, Len(Waits)) ELSE r.count
               /\ s.sinceForced = IF forced THEN 0 ELSE r.sinceForced
<1> DEFINE n == IF r.left = 0 THEN Capped(r.count + 1, Len(Waits)) ELSE r.count
<1>1. n \in 1..Len(Waits)
    BY WaitsType DEF Capped, Refusal
<1>2. loginWait(n) = Waits[n] /\ Waits[n] \in 1..ForgetAfter
    BY <1>1, WaitsType
<1>3. Noted(r, forced) = [count |-> n, left |-> Waits[n], age |-> 0,
                          sinceForced |-> IF forced THEN 0 ELSE r.sinceForced,
                          probing |-> r.probing]
    BY <1>2 DEF Noted
<1> HIDE DEF n
<1>4. Noted(r, forced) \in Refusal
    BY <1>1, <1>2, <1>3, WaitsType DEF Refusal
<1> QED
    BY <1>1, <1>2, <1>3, <1>4 DEF n

\* release takes g's claims back and touches nothing else.
LEMMA ReleasedType ==
    ASSUME NEW g \in Grabs, TypeOK, OneAsks
    PROVE  /\ Released(g) \in [Ids -> Refusal]
           /\ \A id \in Ids : /\ Released(g)[id].count = byID[id].count
                              /\ Released(g)[id].left = byID[id].left
                              /\ Released(g)[id].age = byID[id].age
                              /\ Released(g)[id].sinceForced = byID[id].sinceForced
                              /\ ~Known(id) => Released(g)[id] = NoRefusal
           /\ \A id \in Ids : Released(g)[id].probing
                                  <=> \E h \in Grabs \ {g} : id \in ticket[h].probing
<1>1. ASSUME NEW id \in Ids
      PROVE  /\ Released(g)[id] \in Refusal
             /\ Released(g)[id].count = byID[id].count
             /\ Released(g)[id].left = byID[id].left
             /\ Released(g)[id].age = byID[id].age
             /\ Released(g)[id].sinceForced = byID[id].sinceForced
             /\ Released(g)[id].probing <=> byID[id].probing /\ id \notin ticket[g].probing
             /\ ~Known(id) => Released(g)[id] = NoRefusal
    <2>1. byID[id] \in Refusal
        BY DEF TypeOK
    <2>2. CASE id \in ticket[g].probing
        <3>1. Known(id)
            BY <2>2 DEF TypeOK
        <3>2. Released(g)[id] = [byID[id] EXCEPT !.probing = FALSE]
            BY <2>2 DEF Released
        <3> QED
            BY <2>1, <2>2, <3>1, <3>2 DEF Refusal
    <2>3. CASE id \notin ticket[g].probing
        <3>1. Released(g)[id] = byID[id]
            BY <2>3 DEF Released
        <3> QED
            BY <2>1, <2>3, <3>1 DEF TypeOK
    <2> QED
        BY <2>2, <2>3
<1>2. Released(g) \in [Ids -> Refusal]
    <2>1. Released(g) = [id \in Ids |-> Released(g)[id]]
        BY DEF Released
    <2> QED
        BY <1>1, <2>1
<1>3. ASSUME NEW id \in Ids
      PROVE  Released(g)[id].probing <=> \E h \in Grabs \ {g} : id \in ticket[h].probing
    BY <1>1 DEF OneAsks
<1> QED
    BY <1>1, <1>2, <1>3

-----------------------------------------------------------------------------
(* Init and every action keep IInv. *)

LEMMA InitIInv == Init => IInv
<1> SUFFICES ASSUME Init PROVE IInv
    OBVIOUS
<1> USE DEF Init
<1>1. TypeOK
    BY NoRefusalType, WaitsType DEF TypeOK, Known, NoTicket
<1>2. OneAsks
    BY NoRefusalType DEF OneAsks, NoTicket
<1>3. ASSUME NEW id \in Ids PROVE WaitAgrees(id)
    BY NoRefusalType, WaitsType DEF WaitAgrees, Known, TurnedDown
<1>4. ASSUME NEW l \in Logins PROVE TestAgrees(l)
    <2>1. <<l, Whole>> \in Ids
        BY DEF Ids
    <2> QED
        BY <2>1, WaitsType DEF TestAgrees, TurnedDown
<1> QED
    BY <1>1, <1>2, <1>3, <1>4 DEF IInv

LEMMA AdmitIInv ==
    ASSUME IInv, NEW g \in Grabs, NEW at \in Places, Admit(g, at)
    PROVE  IInv'
<1> USE DEF IInv
<1>0. Claims(at) \subseteq Ids /\ \A id \in Claims(at) : Known(id) /\ id \in idsOf(at) /\ ~byID[id].probing
    BY IdTypes DEF Claims, Blocked, Waiting, TypeOK, Refusal
<1>1. ASSUME NEW id \in Ids
      PROVE  /\ byID'[id] \in Refusal
             /\ byID'[id].count = byID[id].count
             /\ byID'[id].left = byID[id].left
             /\ byID'[id].age = byID[id].age
             /\ byID'[id].sinceForced = byID[id].sinceForced
             /\ byID'[id].probing <=> byID[id].probing \/ id \in Claims(at)
             /\ ~Known(id) => byID'[id] = NoRefusal
    <2>1. byID[id] \in Refusal
        BY DEF TypeOK
    <2>2. CASE id \in Claims(at)
        <3>1. byID'[id] = [byID[id] EXCEPT !.probing = TRUE]
            BY <2>2 DEF Admit
        <3> QED
            BY <1>0, <2>1, <2>2, <3>1 DEF Refusal
    <2>3. CASE id \notin Claims(at)
        <3>1. byID'[id] = byID[id]
            BY <2>3 DEF Admit
        <3> QED
            BY <2>1, <2>3, <3>1 DEF TypeOK
    <2> QED
        BY <2>2, <2>3
<1>2. \A h \in Grabs : ticket'[h].probing = IF h = g THEN Claims(at) ELSE ticket[h].probing
    <2>1. ticket[g] = NoTicket /\ NoTicket.probing = {}
        BY DEF Admit, NoTicket
    <2>2. CASE Blocked(at)
        BY <2>1, <2>2 DEF Admit, Claims
    <2>3. CASE ~Blocked(at)
        BY <2>3 DEF Admit, TypeOK
    <2> QED
        BY <2>2, <2>3
<1>3. \A h \in Grabs : h # g => ticket'[h] = ticket[h]
    BY DEF Admit, TypeOK
<1>4. ticket[g].probing = {}
    BY DEF Admit, NoTicket
<1>5. ticket' \in [Grabs -> Ticket \cup {NoTicket}]
    BY <1>0, IdTypes DEF Admit, TypeOK, Ticket
<1>6. Claims(at) # {} => ticket'[g].at = at
    BY DEF Admit, Claims, TypeOK
<1>7. \A id \in Ids : Known(id)' <=> Known(id)
    BY <1>1 DEF Known
<1>8. TypeOK'
    <2>1. byID' \in [Ids -> Refusal]
        <3>1. byID' = [id \in Ids |-> byID'[id]]
            BY DEF Admit
        <3> QED
            BY <1>1, <3>1
    <2>2. \A id \in Ids : ~Known(id)' => byID'[id] = NoRefusal
        BY <1>1, <1>7
    <2>3. ASSUME NEW h \in Grabs, NEW id \in ticket'[h].probing
          PROVE  Known(id)' /\ id \in idsOf(ticket'[h].at)
        <3>1. CASE h = g
            BY <1>0, <1>2, <1>6, <1>7, <2>3, <3>1
        <3>2. CASE h # g
            <4>1. id \in ticket[h].probing /\ id \in Ids
                BY <1>3, <2>3, <3>2 DEF TypeOK, Ticket, NoTicket
            <4> QED
                BY <1>3, <1>7, <3>2, <4>1 DEF TypeOK
        <3> QED
            BY <3>1, <3>2
    <2> QED
        BY <1>5, <2>1, <2>2, <2>3 DEF TypeOK, Admit
<1>9. OneAsks'
    <2>1. ASSUME NEW id \in Ids
          PROVE  byID'[id].probing <=> \E h \in Grabs : id \in ticket'[h].probing
        BY <1>1, <1>2, <1>4 DEF OneAsks
    <2>2. \A h \in Grabs : ticket[h].probing \cap Claims(at) = {}
        BY <1>0 DEF OneAsks
    <2> QED
        BY <1>2, <2>1, <2>2 DEF OneAsks
<1>10. ASSUME NEW id \in Ids PROVE WaitAgrees(id)'
    BY <1>1, <1>7 DEF WaitAgrees, Admit, TurnedDown
<1>11. ASSUME NEW l \in Logins PROVE TestAgrees(l)'
    <2>1. <<l, Whole>> \in Ids
        BY DEF Ids
    <2> QED
        BY <1>1, <2>1 DEF TestAgrees, Admit, TurnedDown
<1> QED
    BY <1>8, <1>9, <1>10, <1>11

LEMMA AdmitForcedIInv ==
    ASSUME IInv, NEW g \in Grabs, NEW at \in Places, AdmitForced(g, at)
    PROVE  IInv'
<1> USE DEF IInv
<1>1. ASSUME NEW id \in Ids
      PROVE  /\ byID'[id] \in Refusal
             /\ byID'[id].count = byID[id].count
             /\ byID'[id].left = byID[id].left
             /\ byID'[id].age = byID[id].age
             /\ byID'[id].probing = byID[id].probing
             /\ byID'[id].sinceForced = IF id \in idsOf(at) /\ Known(id) THEN 0
                                        ELSE byID[id].sinceForced
             /\ ~Known(id) => byID'[id] = NoRefusal
    <2>1. byID[id] \in Refusal
        BY DEF TypeOK
    <2>2. CASE id \in idsOf(at) /\ Known(id)
        <3>1. byID'[id] = [byID[id] EXCEPT !.sinceForced = 0]
            BY <2>2 DEF AdmitForced
        <3> QED
            BY <2>1, <2>2, <3>1, GapTypes DEF Refusal
    <2>3. CASE ~(id \in idsOf(at) /\ Known(id))
        <3>1. byID'[id] = byID[id]
            BY <2>3 DEF AdmitForced
        <3> QED
            BY <2>1, <2>3, <3>1 DEF TypeOK
    <2> QED
        BY <2>2, <2>3
<1>2. \A h \in Grabs : ticket'[h].probing = ticket[h].probing
    <2>1. ticket[g] = NoTicket /\ NoTicket.probing = {}
        BY DEF AdmitForced, NoTicket
    <2> QED
        BY <2>1 DEF AdmitForced, TypeOK
<1>3. \A h \in Grabs : h # g => ticket'[h] = ticket[h]
    BY DEF AdmitForced, TypeOK
<1>4. ticket[g].probing = {}
    BY DEF AdmitForced, NoTicket
<1>5. ticket' \in [Grabs -> Ticket \cup {NoTicket}]
    BY DEF AdmitForced, TypeOK, Ticket
<1>6. testAgo' \in [Logins -> 0..ForcedTryGap]
    BY IdTypes, WaitsType DEF AdmitForced, TypeOK
<1>7. \A id \in Ids : Known(id)' <=> Known(id)
    BY <1>1 DEF Known
<1>8. TypeOK'
    <2>1. byID' \in [Ids -> Refusal]
        <3>1. byID' = [id \in Ids |-> byID'[id]]
            BY DEF AdmitForced
        <3> QED
            BY <1>1, <3>1
    <2>2. \A id \in Ids : ~Known(id)' => byID'[id] = NoRefusal
        BY <1>1, <1>7
    <2>3. ASSUME NEW h \in Grabs, NEW id \in ticket'[h].probing
          PROVE  Known(id)' /\ id \in idsOf(ticket'[h].at)
        <3>1. h # g /\ id \in ticket[h].probing
            BY <1>2, <1>4, <2>3
        <3>2. id \in Ids
            BY <3>1 DEF TypeOK, Ticket, NoTicket
        <3> QED
            BY <1>3, <1>7, <3>1, <3>2 DEF TypeOK
    <2> QED
        BY <1>5, <1>6, <2>1, <2>2, <2>3 DEF TypeOK, AdmitForced
<1>9. OneAsks'
    BY <1>1, <1>2 DEF OneAsks
<1>10. ASSUME NEW id \in Ids PROVE WaitAgrees(id)'
    BY <1>1, <1>7 DEF WaitAgrees, AdmitForced, TurnedDown
<1>11. ASSUME NEW l \in Logins PROVE TestAgrees(l)'
    <2>1. <<l, Whole>> \in Ids
        BY DEF Ids
    <2>2. TurnedDown(<<l, Whole>>)' <=> TurnedDown(<<l, Whole>>)
        BY DEF AdmitForced, TurnedDown
    <2>3. TurnedDown(<<l, Whole>>) => Known(<<l, Whole>>)
        BY <2>1 DEF WaitAgrees
    <2>4. CASE at[1] = l
        <3>1. loginOf(at) = <<l, Whole>> /\ <<l, Whole>> \in idsOf(at)
            BY <2>4 DEF loginOf, idsOf
        <3>2. testAgo'[l] = IF TurnedDown(<<l, Whole>>) THEN 0 ELSE testAgo[l]
            BY <2>4, <3>1 DEF AdmitForced, TypeOK
        <3> QED
            BY <1>1, <2>1, <2>2, <2>3, <3>1, <3>2 DEF TestAgrees
    <2>5. CASE at[1] # l
        <3>1. testAgo'[l] = testAgo[l]
            BY <2>5 DEF AdmitForced, TypeOK
        <3>2. <<l, Whole>> \notin idsOf(at)
            BY <2>5 DEF idsOf, loginOf, Places
        <3> QED
            BY <1>1, <2>1, <2>2, <3>1, <3>2 DEF TestAgrees
    <2> QED
        BY <2>4, <2>5
<1> QED
    BY <1>8, <1>9, <1>10, <1>11

LEMMA DoneIInv ==
    ASSUME IInv, NEW g \in Grabs, done(g)
    PROVE  IInv'
<1> USE DEF IInv
<1>0. byID' = Released(g)
    BY DEF done
<1>1. \A h \in Grabs : ticket'[h] = IF h = g THEN NoTicket ELSE ticket[h]
    BY DEF done, TypeOK
<1>2. \A id \in Ids : Known(id)' <=> Known(id)
    BY <1>0, ReleasedType DEF Known
<1>3. TypeOK'
    <2>1. ASSUME NEW h \in Grabs, NEW id \in ticket'[h].probing
          PROVE  Known(id)' /\ id \in idsOf(ticket'[h].at)
        <3>1. ticket'[h] = ticket[h]
            BY <1>1, <2>1 DEF NoTicket
        <3>2. id \in Ids
            BY <2>1, <3>1 DEF TypeOK, Ticket, NoTicket
        <3> QED
            BY <1>2, <2>1, <3>1, <3>2 DEF TypeOK
    <2>2. ticket' \in [Grabs -> Ticket \cup {NoTicket}]
        BY DEF done, TypeOK
    <2>3. \A id \in Ids : ~Known(id)' => byID'[id] = NoRefusal
        BY <1>0, <1>2, ReleasedType
    <2>4. byID' \in [Ids -> Refusal]
        BY <1>0, ReleasedType
    <2> QED
        BY <2>1, <2>2, <2>3, <2>4 DEF TypeOK, done
<1>4. OneAsks'
    <2>1. ASSUME NEW id \in Ids
          PROVE  byID'[id].probing <=> \E h \in Grabs : id \in ticket'[h].probing
        BY <1>0, <1>1, ReleasedType DEF NoTicket
    <2> QED
        BY <1>1, <2>1 DEF OneAsks, NoTicket
<1>5. ASSUME NEW id \in Ids PROVE WaitAgrees(id)'
    BY <1>0, <1>2, ReleasedType DEF WaitAgrees, done, TurnedDown
<1>6. ASSUME NEW l \in Logins PROVE TestAgrees(l)'
    <2>1. <<l, Whole>> \in Ids
        BY DEF Ids
    <2> QED
        BY <1>0, <2>1, ReleasedType DEF TestAgrees, done, TurnedDown
<1> QED
    BY <1>3, <1>4, <1>5, <1>6

\* An entry is forgotten only when the camera no longer turns its login down.
LEMMA RefusedIInv ==
    ASSUME IInv, NEW g \in Grabs, NEW status \in {401, 403}, refused(g, status)
    PROVE  IInv'
<1> USE DEF IInv
<1> DEFINE R  == Released(g)
           id == IF status = 403 THEN ticket[g].at ELSE loginOf(ticket[g].at)
<1>1. ticket[g] \in Ticket /\ ticket[g].at \in Places /\ ticket[g].forced \in BOOLEAN
    BY DEF refused, Asking, TypeOK, Ticket
<1>2. id \in Ids
    BY <1>1, IdTypes
<1>3. /\ R \in [Ids -> Refusal]
      /\ \A i \in Ids : /\ R[i].count = byID[i].count /\ R[i].left = byID[i].left
                        /\ R[i].age = byID[i].age /\ R[i].sinceForced = byID[i].sinceForced
                        /\ ~Known(i) => R[i] = NoRefusal
      /\ \A i \in Ids : R[i].probing <=> \E h \in Grabs \ {g} : i \in ticket[h].probing
    BY ReleasedType
<1>4. /\ byID' = [i \in Ids |-> IF i = id THEN Noted(R[i], ticket[g].forced)
                                ELSE IF Forgotten(R[i]) THEN NoRefusal ELSE R[i]]
      /\ ticket' = [ticket EXCEPT ![g] = NoTicket]
      /\ quiet' = [quiet EXCEPT ![id] = 0]
      /\ streak' = [streak EXCEPT ![id] = StreakOn(id)]
      /\ testAgo' = testAgo
    BY DEF refused
<1> HIDE DEF R, id
<1>5. /\ byID'[id] \in Refusal /\ byID'[id].count > 0 /\ byID'[id].age = 0
      /\ byID'[id].probing = R[id].probing
      /\ byID'[id].left = Waits[byID'[id].count] /\ byID'[id].left > 0
      /\ byID'[id].count = IF byID[id].left = 0 THEN Capped(byID[id].count + 1, Len(Waits))
                           ELSE byID[id].count
      /\ byID'[id].sinceForced = IF ticket[g].forced THEN 0 ELSE byID[id].sinceForced
    <2>1. R[id] \in Refusal /\ (R[id].count = 0 => R[id].left = 0)
        BY <1>2, <1>3, NoRefusalType DEF Known
    <2>2. byID'[id] = Noted(R[id], ticket[g].forced)
        BY <1>2, <1>4
    <2>3. R[id].count = byID[id].count /\ R[id].left = byID[id].left
          /\ R[id].sinceForced = byID[id].sinceForced
        BY <1>2, <1>3
    <2> QED
        BY <1>1, <2>1, <2>2, <2>3, NotedType
<1>6. ASSUME NEW i \in Ids, i # id
      PROVE  \/ byID'[i] = R[i] /\ (Known(i)' <=> Known(i))
             \/ /\ byID'[i] = NoRefusal /\ ~Known(i)' /\ ~R[i].probing
                /\ ~TurnedDown(i)
    <2>1. CASE Forgotten(R[i])
        <3>1. byID'[i] = NoRefusal /\ ~R[i].probing /\ R[i].age > ForgetAfter
            BY <1>4, <1>6, <2>1 DEF Forgotten
        <3>2. Known(i)
            BY <1>3, <3>1, WaitsType DEF NoRefusal
        <3>3. quiet[i] > ForgetAfter
            BY <1>3, <3>1, <3>2 DEF WaitAgrees
        <3>4. quiet[i] \in Nat /\ ForgetAfter \in Nat
            BY WaitsType DEF TypeOK
        <3> QED
            BY <3>1, <3>3, <3>4, NoRefusalType DEF Known, TurnedDown
    <2>2. CASE ~Forgotten(R[i])
        BY <1>3, <1>4, <1>6, <2>2 DEF Known
    <2> QED
        BY <2>1, <2>2
<1>7. \A h \in Grabs : ticket'[h] = IF h = g THEN NoTicket ELSE ticket[h]
    BY <1>4 DEF TypeOK
<1>8. \A i \in Ids : byID'[i].probing <=> R[i].probing
    BY <1>5, <1>6, NoRefusalType
<1>9. \A i \in Ids : byID'[i] \in Refusal
    BY <1>3, <1>5, <1>6, NoRefusalType
<1>10. \A i \in Ids : ~Known(i)' => byID'[i] = NoRefusal
    BY <1>3, <1>5, <1>6 DEF Known
<1>11. \A i \in Ids : byID'[i].probing => Known(i)'
    BY <1>10, NoRefusalType
<1>12. StreakOn(id) \in 1..Len(Waits) /\ StreakOn(id) <= byID'[id].count
    <2>1. /\ streak[id] \in 0..Len(Waits) /\ quiet[id] \in Nat
          /\ byID[id] \in Refusal /\ WaitAgrees(id)
        BY <1>2, WaitsType DEF TypeOK
    <2>2. /\ byID'[id].count \in 1..Len(Waits) /\ byID[id].count \in 0..Len(Waits)
          /\ byID[id].left \in Nat /\ byID[id].age \in Nat
        BY <1>5, <2>1, WaitsType DEF Refusal
    <2>3. CASE ~TurnedDown(id)
        BY <2>2, <2>3, WaitsType DEF StreakOn
    <2>4. CASE TurnedDown(id)
        <3>1. /\ streak[id] \in 1..Len(Waits) /\ streak[id] <= byID[id].count
              /\ byID[id].count \in 1..Len(Waits) /\ quiet[id] = byID[id].age
            BY <2>1, <2>2, <2>4, WaitsType DEF WaitAgrees, Known
        <3>2. /\ Waits[streak[id]] \in Nat /\ Waits[byID[id].count] \in Nat
              /\ Waits[streak[id]] <= Waits[byID[id].count]
            BY <3>1, WaitsType
        <3>3. CASE byID[id].left = 0
            <4>1. quiet[id] >= Waits[streak[id]]
                BY <2>1, <2>2, <3>1, <3>2, <3>3 DEF WaitAgrees, Known
            <4>2. StreakOn(id) = Capped(streak[id] + 1, Len(Waits))
                BY <2>4, <4>1 DEF StreakOn
            <4>3. byID'[id].count = Capped(byID[id].count + 1, Len(Waits))
                BY <1>5, <3>3
            <4> QED
                BY <3>1, <4>2, <4>3, WaitsType DEF Capped
        <3>4. CASE byID[id].left > 0
            <4>1. quiet[id] < Waits[byID[id].count] /\ byID'[id].count = byID[id].count
                BY <1>5, <2>1, <2>2, <3>1, <3>2, <3>4 DEF WaitAgrees, Known
            <4>2. CASE streak[id] = byID[id].count
                <5>1. StreakOn(id) = streak[id]
                    BY <2>1, <2>4, <3>2, <4>1, <4>2 DEF StreakOn
                <5> QED
                    BY <3>1, <4>1, <5>1
            <4>3. CASE streak[id] # byID[id].count
                <5>1. StreakOn(id) \in {streak[id], Capped(streak[id] + 1, Len(Waits))}
                    BY <2>4 DEF StreakOn
                <5> QED
                    BY <3>1, <4>1, <4>3, <5>1, WaitsType DEF Capped
            <4> QED
                BY <4>2, <4>3
        <3> QED
            BY <2>2, <3>3, <3>4
    <2> QED
        BY <2>3, <2>4
<1>13. TypeOK'
    <2>1. byID' \in [Ids -> Refusal]
        <3>1. byID' = [i \in Ids |-> byID'[i]]
            BY <1>4
        <3> QED
            BY <1>9, <3>1
    <2>2. ticket' \in [Grabs -> Ticket \cup {NoTicket}]
        BY <1>4 DEF TypeOK
    <2>3. ASSUME NEW h \in Grabs, NEW i \in ticket'[h].probing
          PROVE  Known(i)' /\ i \in idsOf(ticket'[h].at)
        <3>1. h # g /\ ticket'[h] = ticket[h]
            BY <1>7, <2>3 DEF NoTicket
        <3>2. i \in Ids /\ i \in ticket[h].probing
            BY <2>3, <3>1 DEF TypeOK, Ticket, NoTicket
        <3>3. byID'[i].probing
            BY <1>3, <1>8, <3>1, <3>2
        <3> QED
            BY <1>11, <3>1, <3>2, <3>3 DEF TypeOK
    <2>4. quiet' \in [Ids -> 0..(ForgetAfter + 1)]
        <3>1. 0 \in 0..(ForgetAfter + 1)
            BY GapTypes
        <3> QED
            BY <1>4, <3>1 DEF TypeOK
    <2>5. streak' \in [Ids -> 0..Len(Waits)]
        <3>1. StreakOn(id) \in 0..Len(Waits)
            BY <1>12, WaitsType
        <3> QED
            BY <1>4, <3>1 DEF TypeOK
    <2> QED
        BY <1>4, <1>10, <2>1, <2>2, <2>3, <2>4, <2>5 DEF TypeOK
<1>14. OneAsks'
    <2>1. ASSUME NEW i \in Ids
          PROVE  byID'[i].probing <=> \E h \in Grabs : i \in ticket'[h].probing
        BY <1>3, <1>7, <1>8 DEF NoTicket
    <2> QED
        BY <1>7, <2>1 DEF OneAsks, NoTicket
<1>15. ASSUME NEW i \in Ids PROVE WaitAgrees(i)'
    <2>1. CASE i = id
        <3>1. quiet'[i] = 0 /\ streak'[i] = StreakOn(id)
            BY <1>2, <1>4, <2>1 DEF TypeOK
        <3>2. byID'[i].count \in 1..Len(Waits) /\ Waits[byID'[i].count] \in Nat
            BY <1>5, <2>1, WaitsType DEF Refusal
        <3> QED
            BY <1>5, <1>12, <2>1, <3>1, <3>2 DEF WaitAgrees, Known, TurnedDown
    <2>2. CASE i # id
        <3>1. quiet'[i] = quiet[i] /\ streak'[i] = streak[i]
            BY <1>4, <2>2 DEF TypeOK
        <3>2. TurnedDown(i)' <=> TurnedDown(i)
            BY <3>1 DEF TurnedDown
        <3> QED
            BY <1>3, <1>6, <2>2, <3>1, <3>2 DEF WaitAgrees
    <2> QED
        BY <2>1, <2>2
<1>16. ASSUME NEW l \in Logins PROVE TestAgrees(l)'
    <2> DEFINE i == <<l, Whole>>
    <2>1. i \in Ids
        BY DEF Ids
    <2>2. testAgo[l] \in 0..ForcedTryGap /\ byID[i].sinceForced \in 0..ForcedTryGap
        BY <2>1 DEF TypeOK, Refusal
    <2>3. CASE i = id
        <3>1. quiet'[i] = 0
            BY <1>2, <1>4, <2>3 DEF TypeOK
        <3>2. TurnedDown(i)'
            BY <3>1, WaitsType DEF TurnedDown
        <3>3. byID[i].sinceForced <= testAgo[l]
            BY <2>1, <2>2, WaitsType DEF TestAgrees
        <3>4. byID'[i].sinceForced \in {0, byID[i].sinceForced}
            BY <1>5, <2>3
        <3>5. byID'[i].sinceForced <= testAgo'[l]
            BY <1>4, <2>2, <3>3, <3>4, WaitsType
        <3> QED
            BY <3>2, <3>5 DEF TestAgrees
    <2>4. CASE i # id
        <3>1. quiet'[i] = quiet[i]
            BY <1>4, <2>4 DEF TypeOK
        <3>2. TurnedDown(i)' <=> TurnedDown(i)
            BY <3>1 DEF TurnedDown
        <3>3. TurnedDown(i) => byID'[i].sinceForced = byID[i].sinceForced
            BY <1>3, <1>6, <2>1, <2>4
        <3> QED
            BY <1>4, <3>2, <3>3 DEF TestAgrees
    <2> QED
        BY <2>3, <2>4
<1> QED
    BY <1>13, <1>14, <1>15, <1>16

LEMMA AcceptedIInv ==
    ASSUME IInv, NEW g \in Grabs, accepted(g)
    PROVE  IInv'
<1> USE DEF IInv
<1> DEFINE R    == Released(g)
           gone == idsOf(ticket[g].at)
<1>1. ticket[g].at \in Places
    BY DEF accepted, Asking, TypeOK, Ticket
<1>2. /\ R \in [Ids -> Refusal]
      /\ \A i \in Ids : /\ R[i].count = byID[i].count /\ R[i].left = byID[i].left
                        /\ R[i].age = byID[i].age /\ R[i].sinceForced = byID[i].sinceForced
                        /\ ~Known(i) => R[i] = NoRefusal
      /\ \A i \in Ids : R[i].probing <=> \E h \in Grabs \ {g} : i \in ticket[h].probing
    BY ReleasedType
<1>3. /\ byID' = [i \in Ids |-> IF i \in gone THEN NoRefusal ELSE R[i]]
      /\ ticket' = [h \in Grabs |-> IF h = g THEN NoTicket
                                    ELSE [ticket[h] EXCEPT !.probing = @ \ gone]]
      /\ quiet' = [i \in Ids |-> IF i \in gone THEN ForgetAfter + 1 ELSE quiet[i]]
      /\ streak' = [i \in Ids |-> IF i \in gone THEN 0 ELSE streak[i]]
      /\ testAgo' = [testAgo EXCEPT ![ticket[g].at[1]] = ForcedTryGap]
    BY DEF accepted
<1>4. gone \subseteq Ids
    BY <1>1, IdTypes
<1>5. \A l \in Logins : <<l, Whole>> \in gone <=> l = ticket[g].at[1]
    <2>1. PICK m \in Logins, p \in Paths : ticket[g].at = <<m, p>>
        BY <1>1 DEF Places
    <2>2. ticket[g].at[1] = m /\ gone = {<<m, Whole>>, <<m, p>>} /\ p # Whole
        BY <2>1, GateAssumption DEF idsOf, loginOf
    <2> QED
        BY <2>2
<1> HIDE DEF R, gone
<1>6. ASSUME NEW h \in Grabs
      PROVE  /\ ticket'[h] \in Ticket \cup {NoTicket}
             /\ ticket'[h].probing = IF h = g THEN {} ELSE ticket[h].probing \ gone
             /\ h # g => ticket'[h].at = ticket[h].at
    <2>1. CASE h = g
        BY <1>3, <2>1 DEF NoTicket
    <2>2. CASE h # g /\ ticket[h] = NoTicket
        <3>1. ticket'[h] = [NoTicket EXCEPT !.probing = @ \ gone]
            BY <1>3, <2>2
        <3>2. ticket'[h] = NoTicket
            BY <3>1 DEF NoTicket
        <3> QED
            BY <2>2, <3>2 DEF NoTicket
    <2>3. CASE h # g /\ ticket[h] # NoTicket
        <3>1. ticket'[h] = [ticket[h] EXCEPT !.probing = @ \ gone]
            BY <1>3, <2>3
        <3>2. ticket[h] \in Ticket
            BY <2>3 DEF TypeOK
        <3> QED
            BY <2>3, <3>1, <3>2 DEF Ticket
    <2> QED
        BY <2>1, <2>2, <2>3
<1>7. \A i \in Ids : IF i \in gone THEN byID'[i] = NoRefusal ELSE byID'[i] = R[i]
    BY <1>3
<1>8. \A i \in Ids : Known(i)' <=> i \notin gone /\ Known(i)
    BY <1>2, <1>7, NoRefusalType DEF Known
<1>9. TypeOK'
    <2>1. byID' \in [Ids -> Refusal]
        <3>1. byID' = [i \in Ids |-> byID'[i]]
            BY <1>3
        <3> QED
            BY <1>2, <1>7, <3>1, NoRefusalType
    <2>2. ticket' \in [Grabs -> Ticket \cup {NoTicket}]
        <3>1. ticket' = [h \in Grabs |-> ticket'[h]]
            BY <1>3
        <3> QED
            BY <1>6, <3>1
    <2>3. \A i \in Ids : ~Known(i)' => byID'[i] = NoRefusal
        BY <1>2, <1>7, <1>8
    <2>4. ASSUME NEW h \in Grabs, NEW i \in ticket'[h].probing
          PROVE  Known(i)' /\ i \in idsOf(ticket'[h].at)
        <3>1. h # g /\ i \in ticket[h].probing /\ i \notin gone /\ ticket'[h].at = ticket[h].at
            BY <1>6, <2>4
        <3>2. i \in Ids
            BY <3>1 DEF TypeOK, Ticket, NoTicket
        <3> QED
            BY <1>8, <3>1, <3>2 DEF TypeOK
    <2>5. quiet' \in [Ids -> 0..(ForgetAfter + 1)]
        <3>1. ForgetAfter + 1 \in 0..(ForgetAfter + 1)
            BY GapTypes
        <3> QED
            BY <1>3, <3>1 DEF TypeOK
    <2>6. streak' \in [Ids -> 0..Len(Waits)]
        <3>1. 0 \in 0..Len(Waits)
            BY WaitsType
        <3> QED
            BY <1>3, <3>1 DEF TypeOK
    <2>7. testAgo' \in [Logins -> 0..ForcedTryGap]
        <3>1. ForcedTryGap \in 0..ForcedTryGap
            BY GapTypes
        <3> QED
            BY <1>3, <3>1 DEF TypeOK
    <2> QED
        BY <2>1, <2>2, <2>3, <2>4, <2>5, <2>6, <2>7 DEF TypeOK
<1>10. OneAsks'
    <2>1. ASSUME NEW i \in Ids
          PROVE  byID'[i].probing <=> \E h \in Grabs : i \in ticket'[h].probing
        <3>1. CASE i \in gone
            BY <1>6, <1>7, <3>1, NoRefusalType
        <3>2. CASE i \notin gone
            <4>1. \A h \in Grabs : i \in ticket'[h].probing <=> h # g /\ i \in ticket[h].probing
                BY <1>6, <3>2
            <4>2. byID'[i] = R[i]
                BY <1>7, <3>2
            <4> QED
                BY <1>2, <4>1, <4>2
        <3> QED
            BY <3>1, <3>2
    <2>2. \A h, k \in Grabs : h # k => ticket[h].probing \cap ticket[k].probing = {}
        BY DEF OneAsks
    <2>3. \A h \in Grabs : ticket'[h].probing \subseteq ticket[h].probing
        BY <1>6
    <2>4. \A h, k \in Grabs : h # k => ticket'[h].probing \cap ticket'[k].probing = {}
        BY <2>2, <2>3
    <2> QED
        BY <2>1, <2>4 DEF OneAsks
<1>11. ASSUME NEW i \in Ids PROVE WaitAgrees(i)'
    <2>1. CASE i \in gone
        <3>1. quiet'[i] = ForgetAfter + 1
            BY <1>3, <2>1
        <3>2. ~TurnedDown(i)'
            BY <3>1, GapTypes DEF TurnedDown
        <3> QED
            BY <1>8, <2>1, <3>2 DEF WaitAgrees
    <2>2. CASE i \notin gone
        <3>1. quiet'[i] = quiet[i] /\ streak'[i] = streak[i]
            BY <1>3, <2>2
        <3>2. TurnedDown(i)' <=> TurnedDown(i)
            BY <3>1 DEF TurnedDown
        <3> QED
            BY <1>2, <1>7, <1>8, <2>2, <3>1, <3>2 DEF WaitAgrees
    <2> QED
        BY <2>1, <2>2
<1>12. ASSUME NEW l \in Logins PROVE TestAgrees(l)'
    <2> DEFINE i == <<l, Whole>>
    <2>1. i \in Ids
        BY DEF Ids
    <2>2. CASE l = ticket[g].at[1]
        <3>1. i \in gone /\ testAgo'[l] = ForcedTryGap
            BY <1>3, <1>5, <2>2 DEF TypeOK
        <3>2. quiet'[i] = ForgetAfter + 1
            BY <1>3, <2>1, <3>1
        <3>3. ~TurnedDown(i)'
            BY <3>2, GapTypes DEF TurnedDown
        <3> QED
            BY <3>1, <3>3 DEF TestAgrees
    <2>3. CASE l # ticket[g].at[1]
        <3>1. i \notin gone /\ testAgo'[l] = testAgo[l]
            BY <1>3, <1>5, <2>3 DEF TypeOK
        <3>2. quiet'[i] = quiet[i] /\ byID'[i].sinceForced = byID[i].sinceForced
            BY <1>2, <1>3, <1>7, <2>1, <3>1
        <3>3. TurnedDown(i)' <=> TurnedDown(i)
            BY <3>2 DEF TurnedDown
        <3> QED
            BY <3>1, <3>2, <3>3 DEF TestAgrees
    <2> QED
        BY <2>2, <2>3
<1> QED
    BY <1>9, <1>10, <1>11, <1>12

LEMMA TickIInv ==
    ASSUME IInv, Tick
    PROVE  IInv'
<1> USE DEF IInv
<1>1. ASSUME NEW id \in Ids
      PROVE  /\ byID'[id] \in Refusal
             /\ byID'[id].count = byID[id].count
             /\ byID'[id].probing = byID[id].probing
             /\ ~Known(id) => byID'[id] = byID[id]
             /\ Known(id) =>
                   /\ byID'[id].left = IF byID[id].left = 0 THEN 0 ELSE byID[id].left - 1
                   /\ byID'[id].age = Capped(byID[id].age + 1, ForgetAfter + 1)
                   /\ byID'[id].sinceForced = Capped(byID[id].sinceForced + 1, ForcedTryGap)
    <2>1. byID[id] \in Refusal
        BY DEF TypeOK
    <2>2. byID'[id] = Older(byID[id])
        BY DEF Tick
    <2>3. CASE byID[id].count = 0
        BY <2>1, <2>2, <2>3 DEF Older, Known
    <2>4. CASE byID[id].count # 0
        <3>1. byID'[id] = [byID[id] EXCEPT
                  !.left = IF byID[id].left = 0 THEN 0 ELSE byID[id].left - 1,
                  !.age = Capped(byID[id].age + 1, ForgetAfter + 1),
                  !.sinceForced = Capped(byID[id].sinceForced + 1, ForcedTryGap)]
            BY <2>2, <2>4 DEF Older
        <3>2. /\ byID[id].left \in 0..ForgetAfter /\ byID[id].age \in 0..(ForgetAfter + 1)
              /\ byID[id].sinceForced \in 0..ForcedTryGap /\ byID[id].count \in 0..Len(Waits)
            BY <2>1 DEF Refusal
        <3>3. /\ (IF byID[id].left = 0 THEN 0 ELSE byID[id].left - 1) \in 0..ForgetAfter
              /\ Capped(byID[id].age + 1, ForgetAfter + 1) \in 0..(ForgetAfter + 1)
              /\ Capped(byID[id].sinceForced + 1, ForcedTryGap) \in 0..ForcedTryGap
            <4>1. (IF byID[id].left = 0 THEN 0 ELSE byID[id].left - 1) \in 0..ForgetAfter
                BY <3>2, GapTypes
            <4>2. byID[id].age + 1 \in Nat /\ byID[id].sinceForced + 1 \in Nat
                BY <3>2, GapTypes
            <4>3. Capped(byID[id].age + 1, ForgetAfter + 1) \in 0..(ForgetAfter + 1)
                <5>1. ForgetAfter + 1 \in Nat
                    BY GapTypes
                <5> QED
                    BY <4>2, <5>1, CappedType
            <4>4. Capped(byID[id].sinceForced + 1, ForcedTryGap) \in 0..ForcedTryGap
                BY <4>2, GapTypes, CappedType
            <4> QED
                BY <4>1, <4>3, <4>4
        <3>4. byID'[id] \in Refusal
            BY <2>1, <3>1, <3>3 DEF Refusal
        <3> QED
            BY <2>1, <2>4, <3>1, <3>2, <3>4, GapTypes DEF Refusal, Known
    <2> QED
        BY <2>3, <2>4
<1>2. \A id \in Ids : Known(id)' <=> Known(id)
    BY <1>1 DEF Known
<1>3. TypeOK'
    <2>1. byID' \in [Ids -> Refusal]
        <3>1. byID' = [id \in Ids |-> byID'[id]]
            BY DEF Tick
        <3> QED
            BY <1>1, <3>1
    <2>2. \A id \in Ids : ~Known(id)' => byID'[id] = NoRefusal
        BY <1>1, <1>2 DEF TypeOK
    <2>3. ASSUME NEW h \in Grabs, NEW id \in ticket'[h].probing
          PROVE  Known(id)' /\ id \in idsOf(ticket'[h].at)
        <3>1. ticket' = ticket
            BY DEF Tick
        <3>2. id \in Ids
            BY <2>3, <3>1 DEF TypeOK, Ticket, NoTicket
        <3> QED
            BY <1>2, <2>3, <3>1, <3>2 DEF TypeOK
    <2>4. quiet' \in [Ids -> 0..(ForgetAfter + 1)]
        <3>1. \A n \in 0..(ForgetAfter + 1) : Capped(n + 1, ForgetAfter + 1) \in 0..(ForgetAfter + 1)
            BY GapTypes DEF Capped
        <3> QED
            BY <3>1 DEF TypeOK, Tick
    <2>5. streak' \in [Ids -> 0..Len(Waits)]
        <3>1. 0 \in 0..Len(Waits)
            BY WaitsType
        <3> QED
            BY <3>1 DEF TypeOK, Tick
    <2>6. testAgo' \in [Logins -> 0..ForcedTryGap]
        <3>1. \A n \in 0..ForcedTryGap : Capped(n + 1, ForcedTryGap) \in 0..ForcedTryGap
            BY GapTypes DEF Capped
        <3>2. ForcedTryGap \in 0..ForcedTryGap
            BY GapTypes
        <3> QED
            BY <3>1, <3>2 DEF TypeOK, Tick
    <2> QED
        BY <2>1, <2>2, <2>3, <2>4, <2>5, <2>6 DEF TypeOK, Tick
<1>4. OneAsks'
    BY <1>1 DEF OneAsks, Tick
<1>5. ASSUME NEW id \in Ids
      PROVE  /\ quiet[id] \in 0..(ForgetAfter + 1)
             /\ quiet'[id] = Capped(quiet[id] + 1, ForgetAfter + 1)
             /\ streak'[id] = IF quiet[id] >= ForgetAfter THEN 0 ELSE streak[id]
             /\ TurnedDown(id)' => TurnedDown(id) /\ streak'[id] = streak[id]
    <2>1. /\ quiet[id] \in 0..(ForgetAfter + 1)
          /\ quiet'[id] = Capped(quiet[id] + 1, ForgetAfter + 1)
          /\ streak'[id] = IF quiet[id] >= ForgetAfter THEN 0 ELSE streak[id]
        BY DEF Tick, TypeOK
    <2> QED
        BY <2>1, GapTypes DEF TurnedDown, Capped
<1>6. ASSUME NEW id \in Ids PROVE WaitAgrees(id)'
    <2>1. TurnedDown(id)' => Known(id)' /\ streak'[id] > 0
        BY <1>2, <1>5 DEF WaitAgrees
    <2>2. CASE Known(id)
        <3>1. /\ byID[id].count \in 1..Len(Waits) /\ byID[id].left \in Nat
              /\ byID[id].age \in 0..(ForgetAfter + 1) /\ streak[id] \in 0..Len(Waits)
            BY <2>2, WaitsType DEF TypeOK, Refusal, Known
        <3>2. Waits[byID[id].count] \in Nat /\ Waits[byID[id].count] <= ForgetAfter
            BY <3>1, WaitsType
        <3>3. quiet'[id] = byID'[id].age
            BY <1>1, <1>5, <2>2 DEF WaitAgrees
        <3>4. streak'[id] <= byID'[id].count
            BY <1>1, <1>5, <2>2, <3>1, WaitsType DEF WaitAgrees
        <3>5. CASE byID[id].left = 0
            <4>1. byID[id].age >= Waits[byID[id].count]
                BY <2>2, <3>5 DEF WaitAgrees
            <4>2. byID'[id].left = 0 /\ byID'[id].age >= Waits[byID'[id].count]
                <5>1. /\ byID'[id].left = 0 /\ byID'[id].count = byID[id].count
                      /\ byID'[id].age = Capped(byID[id].age + 1, ForgetAfter + 1)
                    BY <1>1, <2>2, <3>5
                <5>2. Capped(byID[id].age + 1, ForgetAfter + 1) >= Waits[byID[id].count]
                    BY <3>1, <3>2, <4>1, GapTypes DEF Capped
                <5> QED
                    BY <5>1, <5>2
            <4> QED
                BY <2>1, <3>3, <3>4, <4>2 DEF WaitAgrees
        <3>6. CASE byID[id].left > 0
            <4>1. byID[id].left = Waits[byID[id].count] - byID[id].age
                BY <2>2, <3>6 DEF WaitAgrees
            <4>2. byID'[id].left = byID[id].left - 1 /\ byID'[id].age = byID[id].age + 1
                <5>1. /\ byID'[id].left = IF byID[id].left = 0 THEN 0 ELSE byID[id].left - 1
                      /\ byID'[id].age = Capped(byID[id].age + 1, ForgetAfter + 1)
                    BY <1>1, <2>2
                <5>2. byID[id].age < ForgetAfter + 1
                    BY <3>1, <3>2, <3>6, <4>1, GapTypes
                <5> QED
                    BY <3>1, <3>6, <5>1, <5>2, GapTypes DEF Capped
            <4>3. byID'[id].left = Waits[byID'[id].count] - byID'[id].age
                <5>1. byID'[id].count = byID[id].count
                    BY <1>1
                <5> QED
                    BY <3>1, <3>2, <4>1, <4>2, <5>1
            <4>4. byID'[id].left = 0 => byID'[id].age >= Waits[byID'[id].count]
                <5>1. byID'[id].count = byID[id].count
                    BY <1>1
                <5> QED
                    BY <3>1, <3>2, <4>1, <4>2, <5>1
            <4> QED
                BY <2>1, <3>3, <3>4, <4>3, <4>4 DEF WaitAgrees
        <3> QED
            BY <3>1, <3>5, <3>6
    <2>3. CASE ~Known(id)
        BY <1>2, <2>1, <2>3 DEF WaitAgrees
    <2> QED
        BY <2>2, <2>3
<1>7. ASSUME NEW l \in Logins PROVE TestAgrees(l)'
    <2> DEFINE i == <<l, Whole>>
    <2>1. i \in Ids
        BY DEF Ids
    <2>2. /\ testAgo[l] \in 0..ForcedTryGap /\ byID[i].sinceForced \in 0..ForcedTryGap
          /\ testAgo'[l] = IF quiet[i] >= ForgetAfter THEN ForcedTryGap
                           ELSE Capped(testAgo[l] + 1, ForcedTryGap)
          /\ byID'[i].sinceForced \in 0..ForcedTryGap
        BY <1>1, <2>1 DEF Tick, TypeOK, Refusal
    <2>3. CASE TurnedDown(i)'
        <3>1. TurnedDown(i) /\ Known(i)
            BY <1>5, <2>1, <2>3 DEF WaitAgrees
        <3>2. byID[i].sinceForced <= testAgo[l]
            BY <3>1 DEF TestAgrees
        <3>3. byID'[i].sinceForced = Capped(byID[i].sinceForced + 1, ForcedTryGap)
            BY <1>1, <2>1, <3>1
        <3>4. byID'[i].sinceForced <= testAgo'[l]
            BY <2>2, <3>2, <3>3, GapTypes DEF Capped
        <3> QED
            BY <2>3, <3>4 DEF TestAgrees
    <2>4. CASE ~TurnedDown(i)'
        <3>1. quiet[i] >= ForgetAfter
            BY <1>5, <2>1, <2>4, GapTypes DEF TurnedDown, Capped
        <3> QED
            BY <2>2, <2>4, <3>1 DEF TestAgrees
    <2> QED
        BY <2>3, <2>4
<1> QED
    BY <1>3, <1>4, <1>6, <1>7

LEMMA NextIInv ==
    IInv /\ [Next]_vars => IInv'
<1> SUFFICES ASSUME IInv, [Next]_vars PROVE IInv'
    OBVIOUS
<1>1. ASSUME NEW g \in Grabs, NEW at \in Places, Admit(g, at) PROVE IInv'
    BY <1>1, AdmitIInv
<1>2. ASSUME NEW g \in Grabs, NEW at \in Places, AdmitForced(g, at) PROVE IInv'
    BY <1>2, AdmitForcedIInv
<1>3. ASSUME NEW g \in Grabs, Answered(g) PROVE IInv'
    BY <1>3, RefusedIInv, AcceptedIInv, DoneIInv DEF Answered
<1>4. CASE Tick
    BY <1>4, TickIInv
<1>5. CASE UNCHANGED vars
    BY <1>5 DEF vars, IInv, TypeOK, OneAsks, WaitAgrees, TestAgrees, Known, TurnedDown
<1> QED
    BY <1>1, <1>2, <1>3, <1>4, <1>5 DEF Next

LEMMA IInvHolds == Spec => []IInv
BY InitIInv, NextIInv, PTL DEF Spec

\* An answer ends a grab and starts none.
LEMMA AnswerLetsNobodyThrough ==
    ASSUME TypeOK, NEW g \in Grabs, Answered(g), NEW h \in Grabs
    PROVE  ~LetThrough(h)
<1> SUFFICES ASSUME LetThrough(h) PROVE FALSE
    OBVIOUS
<1>1. ticket'[g] = NoTicket
    BY DEF Answered, refused, accepted, done, TypeOK
<1>2. h # g /\ ticket[h] = NoTicket
    BY <1>1 DEF LetThrough
<1>3. CASE accepted(g)
    <2>1. ticket'[h] = [NoTicket EXCEPT !.probing = @ \ idsOf(ticket[g].at)]
        BY <1>2, <1>3 DEF accepted
    <2>2. ticket'[h] = NoTicket
        BY <2>1 DEF NoTicket
    <2> QED
        BY <2>2 DEF LetThrough
<1>4. CASE ~accepted(g)
    <2>1. ticket'[h] = ticket[h]
        BY <1>2, <1>4 DEF Answered, refused, done, TypeOK
    <2> QED
        BY <1>2, <2>1 DEF LetThrough
<1> QED
    BY <1>3, <1>4

-----------------------------------------------------------------------------
(* The theorems. *)

\* Type correctness: nothing is kept of an entry that is gone (accepted, the
\* sweep in refused), and every claim is of an entry that is in the map.
THEOREM TypeCorrect == Spec => []TypeOK
<1>1. IInv => TypeOK
    BY DEF IInv
<1> QED
    BY <1>1, IInvHolds, PTL

\* "One grab at a time asks after the wait" (admit): however many grabs run,
\* an entry is marked as being asked exactly while one of them has claimed it.
THEOREM OneGrabAsks == Spec => []OneAsks
<1>1. IInv => OneAsks
    BY DEF IInv
<1> QED
    BY <1>1, IInvHolds, PTL

\* Polling does not lock the account: for every list of growing waits no poll
\* asks a camera before the wait its own refusals in a row call for (admit,
\* refused).
THEOREM PollsKeepTheWait == Spec => WaitKept
<1> DEFINE Step == \A g \in Grabs : LetThrough(g) /\ ~ticket'[g].forced =>
                       \A id \in idsOf(ticket'[g].at) :
                           TurnedDown(id) => quiet[id] >= Waits[streak[id]]
<1>1. ASSUME IInv, [Next]_vars PROVE [Step]_vars
    <2> SUFFICES ASSUME NEW h \in Grabs, LetThrough(h), ~ticket'[h].forced,
                        NEW id \in idsOf(ticket'[h].at), TurnedDown(id)
                 PROVE  quiet[id] >= Waits[streak[id]]
        OBVIOUS
    <2> USE <1>1 DEF IInv
    <2>1. ASSUME NEW g \in Grabs, NEW at \in Places, Admit(g, at)
          PROVE  quiet[id] >= Waits[streak[id]]
        <3>1. h = g /\ ~Blocked(at) /\ ticket'[h].at = at
            BY <2>1 DEF Admit, LetThrough, TypeOK
        <3>2. id \in Ids /\ id \in idsOf(at)
            BY <3>1, IdTypes
        <3>3. Known(id) /\ streak[id] > 0
            BY <3>2 DEF WaitAgrees
        <3>4. byID[id].left = 0
            BY <3>1, <3>2, <3>3 DEF Blocked, Waiting, TypeOK, Refusal
        <3>5. /\ quiet[id] >= Waits[byID[id].count] /\ quiet[id] \in Nat
              /\ streak[id] \in 1..Len(Waits) /\ byID[id].count \in 1..Len(Waits)
              /\ streak[id] <= byID[id].count
            BY <3>2, <3>3, <3>4, WaitsType DEF WaitAgrees, TypeOK, Refusal, Known
        <3>6. Waits[streak[id]] <= Waits[byID[id].count]
              /\ Waits[streak[id]] \in Nat /\ Waits[byID[id].count] \in Nat
            BY <3>5, WaitsType
        <3> QED
            BY <3>5, <3>6
    <2>2. ASSUME NEW g \in Grabs, NEW at \in Places, AdmitForced(g, at) PROVE FALSE
        BY <2>2 DEF AdmitForced, LetThrough, TypeOK
    <2>3. ASSUME NEW g \in Grabs, Answered(g) PROVE FALSE
        BY <2>3, AnswerLetsNobodyThrough
    <2>4. CASE Tick \/ UNCHANGED vars
        BY <2>4 DEF Tick, vars, LetThrough
    <2> QED
        BY <2>1, <2>2, <2>3, <2>4 DEF Next
<1> HIDE DEF Step
<1>2. Spec => [][Step]_vars
    BY <1>1, IInvHolds, PTL DEF Spec
<1> QED
    BY <1>2 DEF Step, WaitKept

\* "Test asks at most once every 10 seconds per login": two Tests of a login
\* the camera turns down are ForcedTryGap apart, on whichever channels (admit).
THEOREM TestsAreSpaced == Spec => TestsSpaced
<1> DEFINE Step == \A g \in Grabs : LetThrough(g) /\ ticket'[g].forced
                       /\ TurnedDown(loginOf(ticket'[g].at))
                           => testAgo[ticket'[g].at[1]] >= ForcedTryGap
<1>1. ASSUME IInv, [Next]_vars PROVE [Step]_vars
    <2> SUFFICES ASSUME NEW h \in Grabs, LetThrough(h), ticket'[h].forced,
                        TurnedDown(loginOf(ticket'[h].at))
                 PROVE  testAgo[ticket'[h].at[1]] >= ForcedTryGap
        OBVIOUS
    <2> USE <1>1 DEF IInv
    <2>1. ASSUME NEW g \in Grabs, NEW at \in Places, AdmitForced(g, at)
          PROVE  testAgo[ticket'[h].at[1]] >= ForcedTryGap
        <3> DEFINE id == loginOf(at)
        <3>1. h = g /\ ~Throttled(at) /\ ticket'[h].at = at
            BY <2>1 DEF AdmitForced, LetThrough, TypeOK
        <3>2. id \in Ids /\ id \in idsOf(at) /\ at[1] \in Logins /\ id = <<at[1], Whole>>
            BY IdTypes DEF loginOf
        <3>3. TurnedDown(id) /\ Known(id)
            BY <3>1, <3>2 DEF WaitAgrees
        <3>4. byID[id].sinceForced \in 0..ForcedTryGap /\ testAgo[at[1]] \in 0..ForcedTryGap
            BY <3>2 DEF TypeOK, Refusal
        <3>5. byID[id].sinceForced >= ForcedTryGap
            BY <3>1, <3>2, <3>3, <3>4, GapTypes DEF Throttled
        <3>6. byID[id].sinceForced <= testAgo[at[1]]
            BY <3>2, <3>3 DEF TestAgrees
        <3> QED
            BY <3>1, <3>4, <3>5, <3>6, GapTypes
    <2>2. ASSUME NEW g \in Grabs, NEW at \in Places, Admit(g, at) PROVE FALSE
        BY <2>2 DEF Admit, LetThrough, TypeOK
    <2>3. ASSUME NEW g \in Grabs, Answered(g) PROVE FALSE
        BY <2>3, AnswerLetsNobodyThrough
    <2>4. CASE Tick \/ UNCHANGED vars
        BY <2>4 DEF Tick, vars, LetThrough
    <2> QED
        BY <2>1, <2>2, <2>3, <2>4 DEF Next
<1> HIDE DEF Step
<1>2. Spec => [][Step]_vars
    BY <1>1, IInvHolds, PTL DEF Spec
<1> QED
    BY <1>2 DEF Step, TestsSpaced
=============================================================================
