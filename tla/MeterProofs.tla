---------------------------- MODULE MeterProofs ----------------------------
(***************************************************************************)
(* Theorems about Meter, for every set of watches and every bound.         *)
(***************************************************************************)
EXTENDS Meter, FiniteSetTheorems, WellFoundedInduction, TLAPS

-----------------------------------------------------------------------------
(* Data: the highest of a bounded set, the median, the latest of a list.   *)

\* A bounded, nonempty set of numbers has a lowest and a highest member.
LEMMA HasLowest ==
    ASSUME NEW S \in SUBSET Nat, S # {}
    PROVE  \E x \in S : \A y \in S : x <= y
<1>1. IsWellFoundedOn(OpToRel(<, Nat), Nat)
  BY NatLessThanWellFounded
<1>2. \E x \in S : \A y \in S : ~(<<y, x>> \in OpToRel(<, Nat))
  BY <1>1, WFMin
<1>3. \A x, y \in Nat : <<y, x>> \in OpToRel(<, Nat) <=> y < x
  BY DEF OpToRel
<1>4. PICK x \in S : \A y \in S : ~(<<y, x>> \in OpToRel(<, Nat))
  BY <1>2
<1>5. ASSUME NEW y \in S PROVE x <= y
  <2>1. x \in Nat /\ y \in Nat
    OBVIOUS
  <2>2. ~(y < x)
    BY <1>3, <1>4, <2>1
  <2>. QED  BY <2>1, <2>2
<1>. QED  BY <1>5

LEMMA HasHighest ==
    ASSUME NEW S \in SUBSET Nat, S # {}, NEW n \in Nat, \A x \in S : x <= n
    PROVE  \E x \in S : \A y \in S : y <= x
<1>. DEFINE T == {n - x : x \in S}
<1>1. T \in SUBSET Nat /\ T # {}
  <2>1. \A x \in S : n - x \in Nat
    OBVIOUS
  <2>2. PICK x \in S : TRUE
    OBVIOUS
  <2>3. n - x \in T
    BY <2>2
  <2>. QED  BY <2>1, <2>3
<1>2. PICK z \in T : \A y \in T : z <= y
  BY <1>1, HasLowest
<1>3. PICK x \in S : z = n - x
  BY <1>2
<1>4. ASSUME NEW y \in S PROVE y <= x
  <2>1. n - y \in T
    OBVIOUS
  <2>2. z <= n - y
    BY <1>2, <2>1
  <2>. QED  BY <1>3, <2>2
<1>. QED  BY <1>4

\* Half of an odd number of readings, rounded down, is at most on either side
\* of the median.
Halved(s, v) ==
    /\ 2 * Cardinality({i \in 1..Len(s) : s[i] < v}) < Len(s)
    /\ 2 * Cardinality({i \in 1..Len(s) : s[i] > v}) < Len(s)

LEMMA PartsOfInterval ==
    ASSUME NEW n \in Nat, NEW A \in SUBSET (1..n)
    PROVE  /\ Cardinality(A) \in 0..n
           /\ Cardinality((1..n) \ A) = n - Cardinality(A)
<1>1. IsFiniteSet(1..n) /\ Cardinality(1..n) = n
  BY FS_Interval
<1>2. IsFiniteSet(A) /\ Cardinality(A) <= n
  BY <1>1, FS_Subset
<1>3. Cardinality(A) \in Nat
  BY <1>2, FS_CardinalityType
<1>4. (1..n) \cap A = A
  OBVIOUS
<1>5. Cardinality((1..n) \ A) = n - Cardinality(A)
  <2>1. Cardinality((1..n) \ A) = Cardinality(1..n) - Cardinality((1..n) \cap A)
    BY <1>1, FS_Difference
  <2>. QED  BY <1>1, <1>4, <2>1
<1>. QED  BY <1>2, <1>3, <1>5

LEMMA MedianExists ==
    ASSUME NEW top \in Nat, NEW s \in Seq(0..top), NEW k \in Nat,
           Len(s) = 2 * k + 1
    PROVE  \E v \in {s[i] : i \in 1..Len(s)} : Halved(s, v)
<1>. DEFINE n == Len(s)
            S == {s[i] : i \in 1..n}
            Below(x) == {i \in 1..n : s[i] < x}
            Above(x) == {i \in 1..n : s[i] > x}
            L == {x \in S : Cardinality(Below(x)) <= k}
<1>1. n \in Nat /\ \A i \in 1..n : s[i] \in 0..top
  OBVIOUS
<1>2. S \in SUBSET Nat /\ S # {} /\ \A x \in S : x <= top
  <2>1. s[1] \in S
    OBVIOUS
  <2>. QED  BY <1>1, <2>1
<1>3. L # {}
  <2>1. PICK x \in S : \A y \in S : x <= y
    BY <1>2, HasLowest
  <2>2. \A i \in 1..n : s[i] \in S /\ s[i] \in Nat
    BY <1>1
  <2>3. ASSUME NEW i \in 1..n PROVE ~(s[i] < x)
    <3>. HIDE DEF S
    <3>1. x \in Nat /\ s[i] \in Nat /\ x <= s[i]
      BY <1>2, <2>1, <2>2
    <3>. QED  BY <3>1
  <2>4. Below(x) = {}
    BY <2>3
  <2>. HIDE DEF S, Below
  <2>5. Cardinality(Below(x)) = 0
    BY <2>4, FS_EmptySet
  <2>. QED  BY <2>1, <2>5
<1>4. PICK v \in L : \A y \in L : y <= v
  <2>1. L \in SUBSET Nat /\ \A x \in L : x <= top
    BY <1>2
  <2>. QED  BY <1>3, <2>1, HasHighest
<1>5. v \in S /\ v \in Nat /\ Cardinality(Below(v)) <= k /\ Below(v) \in SUBSET (1..n)
      /\ Above(v) \in SUBSET (1..n)
  BY <1>2, <1>4
<1>6. Cardinality(Below(v)) \in 0..n /\ Cardinality(Above(v)) \in 0..n
  BY <1>1, <1>5, PartsOfInterval
<1>7. Cardinality(Above(v)) <= k
  <2>1. CASE Above(v) = {}
    <3>. HIDE DEF Above
    <3>1. Cardinality(Above(v)) = 0
      BY <2>1, FS_EmptySet
    <3>. QED  BY <3>1
  <2>2. CASE Above(v) # {}
    <3>. DEFINE H == {x \in S : x > v}
    <3>1. H \in SUBSET Nat /\ H # {}
      <4>1. PICK i \in Above(v) : TRUE
        BY <2>2
      <4>2. s[i] \in H
        BY <4>1
      <4>. QED  BY <1>2, <4>2
    <3>2. PICK y \in H : \A z \in H : y <= z
      BY <3>1, HasLowest
    <3>3. y \in S /\ y > v /\ y \in Nat
      BY <1>2, <3>2
    <3>4. Below(y) \in SUBSET (1..n) /\ ~(Cardinality(Below(y)) <= k)
      <4>1. ~(y <= v)
        BY <1>5, <3>3
      <4>2. y \notin L
        BY <1>4, <4>1
      <4>. QED  BY <3>3, <4>2
    <3>5. Above(v) = (1..n) \ Below(y)
      <4>1. ASSUME NEW i \in 1..n PROVE s[i] > v <=> ~(s[i] < y)
        <5>1. s[i] \in S /\ s[i] \in Nat
          BY <1>1
        <5>2. s[i] > v => y <= s[i]
          BY <3>2, <5>1
        <5>. QED  BY <1>5, <3>3, <5>1, <5>2
      <4>. QED  BY <4>1
    <3>. HIDE DEF S, Below, Above, L, H
    <3>6. Cardinality(Below(y)) \in 0..n /\ Cardinality(Above(v)) = n - Cardinality(Below(y))
      BY <1>1, <3>4, <3>5, PartsOfInterval
    <3>. QED  BY <1>1, <3>4, <3>6
  <2>. QED  BY <2>1, <2>2
<1>8. 2 * Cardinality(Below(v)) < n /\ 2 * Cardinality(Above(v)) < n
  <2>. HIDE DEF S, Below, Above, L
  <2>. QED  BY <1>5, <1>6, <1>7
<1>9. Halved(s, v)
  BY <1>8 DEF Halved
<1>. QED  BY <1>5, <1>9

LEMMA MedianRead ==
    ASSUME NEW top \in Nat, NEW s \in Seq(0..top), NEW k \in Nat,
           Len(s) = 2 * k + 1
    PROVE  \E i \in 1..Len(s) : Median(s) = s[i]
<1>1. \E v \in {s[i] : i \in 1..Len(s)} : Halved(s, v)
  BY MedianExists
<1>2. Median(s) = CHOOSE v \in {s[i] : i \in 1..Len(s)} : Halved(s, v)
  BY DEF Median, Halved
<1>3. Median(s) \in {s[i] : i \in 1..Len(s)}
  BY <1>1, <1>2
<1>. QED  BY <1>3

\* Appending to the latest n.
LEMMA LatestAppend ==
    ASSUME NEW S, NEW s \in Seq(S), NEW v \in S, NEW n \in Nat \ {0}, Len(s) <= n
    PROVE  LET l == Latest(Append(s, v), n) IN
           /\ l \in Seq(S)
           /\ Len(l) = IF Len(s) < n THEN Len(s) + 1 ELSE n
           /\ l[Len(l)] = v
           /\ \A i \in 1..Len(l) - 1 : l[Len(l) - i] = s[Len(s) + 1 - i]
<1>. DEFINE a == Append(s, v)
<1>1. a \in Seq(S) /\ Len(a) = Len(s) + 1 /\ a[Len(s) + 1] = v
      /\ \A i \in 1..Len(s) : a[i] = s[i]
  OBVIOUS
<1>2. CASE Len(s) < n
  <2>1. Latest(a, n) = a
    BY <1>1, <1>2 DEF Latest
  <2>2. \A i \in 1..Len(a) - 1 : a[Len(a) - i] = s[Len(s) + 1 - i]
    BY <1>1
  <2>. QED  BY <1>1, <1>2, <2>1, <2>2
<1>3. CASE Len(s) = n
  <2>1. Latest(a, n) = SubSeq(a, 2, n + 1)
    BY <1>1, <1>3 DEF Latest
  <2>. DEFINE l == SubSeq(a, 2, n + 1)
  <2>2. l \in Seq(S) /\ Len(l) = n /\ \A i \in 1..n : l[i] = a[i + 1]
    <3>. HIDE DEF a
    <3>1. 2 \in Int /\ 2 <= n + 1 /\ n + 1 <= Len(a)
      BY <1>1, <1>3
    <3>. QED  BY <1>1, <3>1
  <2>. HIDE DEF a, l
  <2>3. l[n] = v
    BY <1>1, <1>3, <2>2
  <2>4. \A i \in 1..n - 1 : l[n - i] = s[Len(s) + 1 - i]
    BY <1>1, <1>3, <2>2
  <2>5. Latest(a, n) = l
    BY <2>1 DEF l
  <2>. QED  BY <1>3, <2>2, <2>3, <2>4, <2>5 DEF a
<1>. QED  BY <1>2, <1>3

-----------------------------------------------------------------------------
(* The gate.                                                               *)

Maybe == Values \cup {NoValue}
GateType == [has : BOOLEAN, last : Values, run : 0..Need, jump : Values,
             jumpStep : Int, jumpPaced : BOOLEAN, prev : Values,
             prevOK : BOOLEAN, paces : Seq(Nat)]
Gate(g) == g \in GateType /\ Len(g.paces) = PaceKept

LEMMA Sizes ==
    ASSUME watch \in Watches
    PROVE  /\ watch.confirm \in Nat \ {0} /\ watch.maxRise \in Nat /\ watch.top \in Nat
           /\ Need \in Nat /\ Need >= 2 /\ Need >= Window /\ Window \in Nat \ {0}
           /\ Window = 2 * (watch.confirm - 1) + 1 /\ watch.confirm - 1 \in Nat
           /\ Values = 0..watch.top /\ 0 \in Values /\ NoValue \notin Values
           /\ RecentKept \in Nat /\ Need <= RecentKept /\ PaceKept \in Nat \ {0}
<1>1. watch.confirm \in Nat \ {0} /\ watch.maxRise \in Nat /\ watch.top \in Nat
  BY WatchAssumption
<1>2. Need = RiseConfirm(watch) /\ Window = 2 * watch.confirm - 1
  BY DEF Need, Window
<1>3. /\ RiseConfirm(watch) \in Nat /\ RiseConfirm(watch) >= 2
      /\ RiseConfirm(watch) >= 2 * watch.confirm - 1
  BY <1>1 DEF RiseConfirm
<1>. QED  BY <1>1, <1>2, <1>3, KeptAssumption DEF Values, NoValue

LEMMA Numbers ==
    ASSUME watch \in Watches, NEW x \in Values
    PROVE  x \in Nat /\ x \in Int /\ x # NoValue
BY Sizes DEF NoValue

LEMMA NewGateIsGate ==
    ASSUME watch \in Watches
    PROVE  /\ Gate(NewGate) /\ ~NewGate.has /\ NewGate.run = 0 /\ NewGate.last = 0
<1>. DEFINE ps == [i \in 1..PaceKept |-> 0]
<1>1. ps \in Seq(Nat) /\ Len(ps) = PaceKept
  BY KeptAssumption
<1>2. 0 \in Values /\ 0 \in 0..Need
  BY Sizes
<1>3. NewGate.paces = ps
  BY DEF NewGate
<1>. HIDE DEF ps
<1>4. NewGate \in GateType
  BY <1>1, <1>2, <1>3 DEF NewGate, GateType
<1>. QED  BY <1>1, <1>3, <1>4 DEF Gate, NewGate

LEMMA AddPace ==
    ASSUME NEW ps \in Seq(Nat), Len(ps) = PaceKept, NEW d \in Int
    PROVE  addPace(ps, d) \in Seq(Nat) /\ Len(addPace(ps, d)) = PaceKept
<1>. DEFINE x == IF d > 0 THEN d ELSE 0
<1>1. x \in Nat
  OBVIOUS
<1>2. Tail(ps) \in Seq(Nat) /\ Len(Tail(ps)) = PaceKept - 1
  BY KeptAssumption
<1>3. addPace(ps, d) = Append(Tail(ps), x)
  BY DEF addPace
<1>. HIDE DEF x
<1>. QED  BY <1>1, <1>2, <1>3, KeptAssumption

LEMMA RunCounts ==
    ASSUME watch \in Watches, NEW g, Gate(g), NEW v \in Values
    PROVE  /\ RunAfter(g, v) \in 1..Need
           /\ RunAfter(g, v) <= g.run + 1
           /\ RunAfter(g, v) > 1 => Agreed(g, v)
           /\ Agreed(g, v) => RunAfter(g, v) = IF g.run < Need THEN g.run + 1 ELSE Need
<1>1. g.run \in 0..Need /\ Need \in Nat /\ Need >= 2
  BY Sizes DEF Gate, GateType
<1>2. CASE Agreed(g, v)
  BY <1>1, <1>2 DEF RunAfter
<1>3. CASE ~Agreed(g, v)
  BY <1>1, <1>3 DEF RunAfter
<1>. QED  BY <1>2, <1>3

\* What observe leaves of the gate, and what it notes of the reading.
LEMMA Observes ==
    ASSUME watch \in Watches, NEW g, Gate(g), NEW v \in Values
    PROVE  /\ Gate(observe(g, v))
           /\ observe(g, v).has = g.has /\ observe(g, v).last = g.last
           /\ observe(g, v).run = IF Over(g, v) THEN RunAfter(g, v) ELSE 0
           /\ observe(g, v).jump = IF Over(g, v) THEN v ELSE g.jump
<1>. USE DEF Gate
<1>1. /\ g.prev \in Values /\ g.jump \in Values /\ v \in Int /\ v - g.prev \in Int
      /\ g.paces \in Seq(Nat) /\ Len(g.paces) = PaceKept /\ 0 \in 0..Need
      /\ RunAfter(g, v) \in 0..Need
  <2>1. g.prev \in Values /\ g.jump \in Values /\ g.paces \in Seq(Nat) /\ Len(g.paces) = PaceKept
    BY DEF GateType
  <2>2. v \in Int /\ v - g.prev \in Int /\ 0 \in 0..Need
    <3>1. v \in Int /\ g.prev \in Int
      BY <2>1, Numbers
    <3>2. Need \in Nat
      BY Sizes
    <3>. QED  BY ONLY <3>1, <3>2
  <2>3. RunAfter(g, v) \in 1..Need /\ Need \in Nat
    BY RunCounts, Sizes
  <2>. QED  BY <2>1, <2>2, <2>3
<1>. DEFINE ps == addPace(g.paces, v - g.prev)
<1>2. ps \in Seq(Nat) /\ Len(ps) = PaceKept
  BY <1>1, AddPace
<1>. HIDE DEF ps
<1>3. CASE Over(g, v)
  <2>. DEFINE qs == IF Agreed(g, v) THEN ps ELSE g.paces
              o  == [g EXCEPT !.run = RunAfter(g, v), !.jump = v, !.jumpStep = v - g.prev,
                              !.jumpPaced = g.prevOK \/ Agreed(g, v),
                              !.prev = v, !.prevOK = Agreed(g, v), !.paces = qs]
  <2>1. observe(g, v) = o
    BY <1>3 DEF observe, ObserveJump, ps
  <2>2. qs \in Seq(Nat) /\ Len(qs) = PaceKept
    BY <1>1, <1>2
  <2>. HIDE DEF qs
  <2>3. Agreed(g, v) \in BOOLEAN /\ (g.prevOK \/ Agreed(g, v)) \in BOOLEAN
    BY DEF Agreed, GateType
  <2>4. o \in GateType /\ Len(o.paces) = PaceKept /\ o.has = g.has /\ o.last = g.last
        /\ o.run = RunAfter(g, v) /\ o.jump = v
    BY <1>1, <2>2, <2>3 DEF GateType
  <2>. QED  BY <1>3, <2>1, <2>4
<1>4. CASE ~Over(g, v)
  <2>. DEFINE ok == ~g.has \/ v >= g.last
              qs == IF ok /\ g.prevOK /\ g.has THEN ps ELSE g.paces
              o  == [g EXCEPT !.run = 0, !.prev = v, !.prevOK = ok, !.paces = qs]
  <2>1. observe(g, v) = o
    BY <1>4 DEF observe, ObserveTrusted, ps
  <2>2. qs \in Seq(Nat) /\ Len(qs) = PaceKept
    BY <1>1, <1>2
  <2>3. ok \in BOOLEAN
    OBVIOUS
  <2>. HIDE DEF qs, ok
  <2>4. o \in GateType /\ Len(o.paces) = PaceKept /\ o.has = g.has /\ o.last = g.last
        /\ o.run = 0 /\ o.jump = g.jump
    BY <1>1, <2>2, <2>3 DEF GateType
  <2>. QED  BY <1>4, <2>1, <2>4
<1>. QED  BY <1>3, <1>4

\* Numbers let through, started from or accepted.
LEMMA GateMoves ==
    ASSUME watch \in Watches, NEW g, Gate(g), NEW v \in Values
    PROVE  /\ Gate(Passed(g, v)) /\ Passed(g, v).has /\ Passed(g, v).last = v
           /\ Passed(g, v).run = (IF g.has THEN g.run ELSE 0)
           /\ Passed(g, v).jump = g.jump
           /\ Gate(RestoreCounter(g, v)) /\ RestoreCounter(g, v).has
           /\ RestoreCounter(g, v).last = v /\ RestoreCounter(g, v).run = 0
           /\ Gate(AcceptedLower(g, v)) /\ AcceptedLower(g, v).has = g.has
           /\ AcceptedLower(g, v).last = v /\ AcceptedLower(g, v).run = 0
<1>1. 0 \in 0..Need /\ g.run \in 0..Need
  BY Sizes DEF Gate, GateType
<1>. QED  BY <1>1 DEF Gate, GateType, Passed, RestoreCounter, AcceptedLower

\* holds and check agree on every number, whatever the watch confirms.
LEMMA HoldsIsCheck ==
    ASSUME watch \in Watches, NEW g, Gate(g), NEW v \in Values
    PROVE  holds(g, v) <=> check(observe(g, v), v) # "none"
<1>. DEFINE o == observe(g, v)
<1>1. o.has = g.has /\ o.last = g.last /\ o.run = IF Over(g, v) THEN RunAfter(g, v) ELSE 0
  BY Observes
<1>2. Over(o, v) = Over(g, v)
  BY <1>1 DEF Over
<1>3. check(o, v) # "none" <=> g.has /\ (v < g.last \/ (Over(g, v) /\ o.run < Need))
  <2>. HIDE DEF o
  <2>. QED  BY <1>1, <1>2 DEF check
<1>4. Over(g, v) => o.run = RunAfter(g, v)
  BY <1>1
<1>. QED  BY <1>3, <1>4 DEF holds

-----------------------------------------------------------------------------
(* The inductive invariant, by parts.                                      *)

\* A run of the watch as a counter is under way.
Up == pc \notin {"down", "plain"}

StatusType == [last : Maybe, held : {"none", "lower", "rise"}, accepting : Maybe]

Types ==
    /\ watch \in Watches /\ counter \in BOOLEAN
    /\ Gate(c)
    /\ nums \in Seq(Values) /\ Len(nums) <= Window
    /\ status \in StatusType
    /\ pending \in [v : Maybe, restored : BOOLEAN]
    /\ savedLast \in Maybe
    /\ row \in [has : BOOLEAN, last : Maybe, accept : Maybe]
    /\ pc \in {"down", "plain", "idle", "take", "taken", "read", "save", "publish"}
    /\ took \in [v : Maybe, drop : BOOLEAN, last : Maybe]
    /\ value \in Maybe
    /\ post \in [v : Maybe, alive : BOOLEAN, counter : BOOLEAN, status : StatusType]
    /\ told \in Maybe /\ fresh \in Maybe
    /\ licence \in SUBSET [v : Values, n : Nat]
    /\ recent \in Seq([v : Values, rise : Int]) /\ Len(recent) <= RecentKept
    /\ stray \in BOOLEAN /\ accepts \in Nat /\ restarts \in Nat

\* Nothing is left in memory of a run that is over.
Ended ==
    ~Up => /\ ~counter /\ c = NewGate /\ nums = <<>> /\ pending = NoPending
           /\ savedLast = NoValue /\ value = NoValue /\ recent = <<>>
           /\ status = NoStatus

\* The row is there as soon as something was accepted or published.
RowWhole ==
    /\ row.has <=> row.last # NoValue
    /\ row.accept # NoValue => row.has
    /\ told # NoValue => row.has
    /\ pending.v # NoValue => row.has
    /\ pc = "take" => row.has /\ took.v # NoValue
    /\ Up => counter

\* What the run believes the store has, and what it has.
Saved ==
    Up => /\ savedLast # NoValue => row.has
          /\ ~c.has => savedLast = NoValue /\ told = NoValue /\ status.last = NoValue
          /\ ~c.has /\ row.has => row.accept # NoValue
          /\ c.has /\ pc # "save" => savedLast = c.last
          /\ row.accept = NoValue => row.last = savedLast

\* What the page shows, and what the poll has in hand.
Shown ==
    Up => /\ c.has /\ (pc # "taken" \/ took.drop) => status.last = c.last
          /\ pc = "taken" => c.has /\ (~took.drop => took.last = c.last)
          /\ value # NoValue =>
                 /\ pc \in {"save", "publish"} /\ c.has /\ c.last = value
                 /\ status.held = "none"
          /\ pc = "take" /\ took.drop =>
                 c.has /\ status.held # "lower" /\ pending.v = NoValue

\* An accept the run waits to take, and its copy in the row.  When the row has
\* lost it, to an accept of the same value being taken, taking it changes nothing.
Waits ==
    /\ pending.v # NoValue /\ ~pending.restored =>
           (post = NoPost \/ post.alive) /\ row.accept \in {pending.v, NoValue}
    /\ pending.v # NoValue /\ pending.restored => row.accept # NoValue /\ pc = "idle"
    /\ pending.v # NoValue /\ row.accept = NoValue =>
           /\ c.has /\ pc # "take"
           /\ pc \in {"taken", "read"} \/ status.held = "lower" => c.last <= pending.v
    /\ pc = "take" /\ row.accept = NoValue => took.drop \/ (c.has /\ c.last <= took.v)
    /\ pc = "take" /\ ~stray => pending.v # took.v
    /\ post.alive => post # NoPost
    /\ post # NoPost => post.v # NoValue

\* The latest readings are what the gate counted and what the median is of.
Counted ==
    c.run > 0 =>
        LET n == Len(recent) IN
        /\ n >= c.run /\ watch.maxRise > 0 /\ c.jump = recent[n].v
        /\ \A i \in 0..c.run - 1 : recent[n - i].rise > watch.maxRise
        /\ \A i \in 0..c.run - 2 : recent[n - i].v >= recent[n - i - 1].v - watch.maxRise

SteadyCounted ==
    LET n == Len(recent) IN
    \A k \in 1..n :
        /\ k <= Need /\ watch.maxRise > 0
        /\ \A i \in 0..k - 1 :
              recent[n - i].rise > watch.maxRise /\ recent[n - i].v = recent[n].v
        => c.run >= k /\ c.jump = recent[n].v

InWindow ==
    LET n == Len(recent) IN
    \A i \in 0..n - 1 :
        i < Window => i < Len(nums) /\ nums[Len(nums) - i] = recent[n - i].v

Judged ==
    /\ ~c.has => c.run = 0 /\ recent = <<>>
    /\ Counted /\ SteadyCounted /\ InWindow
    /\ \A i \in 1..Len(recent) : recent[i].v - recent[i].rise <= c.last

RInv == Types /\ Ended /\ RowWhole /\ Saved /\ Shown /\ Waits /\ AcceptKept /\ Judged

-----------------------------------------------------------------------------
(* A reading.                                                              *)

LEMMA LatestIs ==
    ASSUME NEW S, NEW s \in Seq(S), NEW n \in Nat \ {0}, Len(s) >= n
    PROVE  /\ Len(Latest(s, n)) = n
           /\ \A i \in 1..n : Latest(s, n)[i] = s[Len(s) - n + i]
<1>1. CASE Len(s) = n
  BY <1>1 DEF Latest
<1>2. CASE Len(s) > n
  <2>. DEFINE a == Len(s) - n + 1
  <2>1. Latest(s, n) = SubSeq(s, a, Len(s))
    BY <1>2 DEF Latest
  <2>2. a \in 1..Len(s) /\ Len(s) - a + 1 = n
    BY <1>2
  <2>. HIDE DEF a
  <2>3. Len(SubSeq(s, a, Len(s))) = n /\ \A i \in 1..n : SubSeq(s, a, Len(s))[i] = s[a + i - 1]
    BY <2>2
  <2>4. \A i \in 1..n : a + i - 1 = Len(s) - n + i
    BY DEF a
  <2>. QED  BY <2>1, <2>3, <2>4
<1>. QED  BY <1>1, <1>2

\* What one reading does to the gate, the value and the page.
LEMMA Reading ==
    ASSUME Types, NEW v \in Values, Reads(v)
    PROVE  /\ watch' = watch /\ pc' = "save" /\ pc = "read"
           /\ nums' = Latest(Append(nums, v), Window)
           /\ nums' \in Seq(Values) /\ Len(nums') <= Window
           /\ Gate(c') /\ value' \in Maybe
           /\ c'.run = (IF c.has /\ Over(c, v) THEN RunAfter(c, v) ELSE 0)
           /\ c'.jump = (IF Over(c, v) THEN v ELSE c.jump)
           /\ c.has => c'.has /\ c'.last >= c.last
           /\ value' = NoValue => c'.has = c.has /\ c'.last = c.last
           /\ value' # NoValue => c'.has /\ c'.last = value' /\ status'.held = "none"
           /\ Len(nums') = Window =>
                 /\ value' # NoValue <=> check(observe(c, v), Median(nums')) = "none"
                 /\ value' # NoValue => value' = Median(nums')
           /\ value' # NoValue => Len(nums') = Window
           /\ status'.last = (IF c'.has THEN c'.last ELSE NoValue)
           /\ status'.accepting = status.accepting /\ status' \in StatusType
           /\ status'.held = "lower" => value' = NoValue
<1>. DEFINE w == Latest(Append(nums, v), Window)
            g == observe(c, v)
            out == Outcome(g, w, v)
            m == Median(w)
<1>0. /\ Window \in Nat \ {0} /\ Window = 2 * (watch.confirm - 1) + 1
      /\ watch.confirm - 1 \in Nat /\ Values = 0..watch.top /\ watch.top \in Nat
      /\ NoValue \notin Values /\ watch \in Watches /\ Values \subseteq Nat
  BY Sizes DEF Types
<1>1. w \in Seq(Values) /\ Len(w) <= Window
  <2>1. nums \in Seq(Values) /\ Len(nums) <= Window
    BY DEF Types
  <2>2. w \in Seq(Values) /\ Len(w) = IF Len(nums) < Window THEN Len(nums) + 1 ELSE Window
    <3>1. Window \in Nat \ {0} /\ v \in Values
      BY <1>0
    <3>. DEFINE n == Window
    <3>2. n \in Nat \ {0} /\ Len(nums) <= n
      BY <2>1, <3>1
    <3>. HIDE DEF n
    <3>3. LET l == Latest(Append(nums, v), n) IN
          l \in Seq(Values) /\ Len(l) = IF Len(nums) < n THEN Len(nums) + 1 ELSE n
      BY ONLY <2>1, <3>1, <3>2, LatestAppend
    <3>. QED  BY <3>3 DEF n, w
  <2>. QED  BY <1>0, <2>1, <2>2
<1>2. /\ Gate(g) /\ g.has = c.has /\ g.last = c.last
      /\ g.run = (IF Over(c, v) THEN RunAfter(c, v) ELSE 0)
      /\ g.jump = (IF Over(c, v) THEN v ELSE c.jump)
  BY <1>0, Observes DEF Types
<1>3. ~c.has => ~Over(c, v)
  BY DEF Over
<1>4. g.last \in Values /\ g.has \in BOOLEAN
  BY <1>2 DEF Gate, GateType
<1>5. /\ watch' = watch /\ pc' = "save" /\ pc = "read" /\ nums' = w
      /\ c' = out.gate /\ value' = out.v
      /\ status' = [last |-> IF out.gate.has THEN out.gate.last ELSE NoValue,
                    held |-> IF out.v # NoValue \/ out.held # "none" THEN out.held
                             ELSE status.held,
                    accepting |-> status.accepting]
  BY DEF Reads
<1>6. status.held \in {"none", "lower", "rise"} /\ status.accepting \in Maybe
  BY DEF Types, StatusType
<1>. HIDE DEF w, g, out, m
<1>7. CASE Len(w) < Window
  <2>1. out = [gate |-> g, held |-> "none", v |-> NoValue]
    BY <1>7 DEF out, Outcome
  <2>2. c' = g /\ value' = NoValue /\ status'.last = (IF g.has THEN g.last ELSE NoValue)
        /\ status'.held = status.held /\ status'.accepting = status.accepting
        /\ status' \in StatusType
    BY <1>4, <1>5, <1>6, <2>1 DEF StatusType, Maybe
  <2>. QED  BY <1>0, <1>1, <1>2, <1>3, <1>4, <1>5, <1>7, <2>2 DEF w, Maybe
<1>8. CASE Len(w) = Window
  <2>1. PICK i \in 1..Len(w) : m = w[i]
    BY <1>0, <1>1, <1>8, MedianRead DEF m
  <2>2. m \in Values /\ m # NoValue
    BY <1>0, <1>1, <2>1
  <2>3. CASE check(g, m) = "none"
    <3>1. out = [gate |-> Passed(g, m), held |-> "none", v |-> m]
      BY <1>0, <1>8, <2>3 DEF out, Outcome, m
    <3>. DEFINE p == Passed(g, m)
    <3>2. Gate(p) /\ p.has /\ p.last = m /\ p.run = (IF g.has THEN g.run ELSE 0) /\ p.jump = g.jump
      <4>1. watch \in Watches /\ Gate(g) /\ m \in Values
        BY <1>0, <1>2, <2>2
      <4>. QED  BY ONLY <4>1, GateMoves
    <3>3. g.has => m >= g.last
      BY <1>0, <1>4, <2>2, <2>3 DEF check
    <3>. HIDE DEF p
    <3>4. c' = p /\ value' = m /\ status' = [last |-> m, held |-> "none", accepting |-> status.accepting]
      BY <1>5, <2>2, <3>1, <3>2 DEF p
    <3>5. status' \in StatusType
      BY <1>6, <2>2, <3>4 DEF StatusType, Maybe
    <3>. QED  BY <1>0, <1>1, <1>2, <1>3, <1>5, <1>8, <2>2, <2>3, <3>2, <3>3, <3>4, <3>5
              DEF w, m, g, Maybe
  <2>4. CASE check(g, m) # "none"
    <3>1. out = [gate |-> g, held |-> check(g, m), v |-> NoValue]
      BY <1>0, <1>8, <2>4 DEF out, Outcome, m
    <3>2. check(g, m) \in {"lower", "rise"}
      BY <2>4 DEF check
    <3>3. c' = g /\ value' = NoValue /\ status'.last = (IF g.has THEN g.last ELSE NoValue)
          /\ status'.held = check(g, m) /\ status'.accepting = status.accepting
          /\ status' \in StatusType
      BY <1>4, <1>5, <1>6, <3>1, <3>2 DEF StatusType, Maybe
    <3>. QED  BY <1>0, <1>1, <1>2, <1>3, <1>4, <1>5, <1>8, <2>4, <3>3 DEF w, m, g, Maybe
  <2>. QED  BY <2>3, <2>4
<1>. QED  BY <1>0, <1>1, <1>7, <1>8

LEMMA ReadingNoted ==
    ASSUME Types, NEW v \in Values, Reads(v), c.has
    PROVE  LET e == [v |-> v, rise |-> v - c.last]
               n == Len(recent)
               l == Len(recent')
           IN
           /\ recent' \in Seq([v : Values, rise : Int])
           /\ l = (IF n < RecentKept THEN n + 1 ELSE RecentKept)
           /\ recent'[l] = e /\ e.v = v /\ e.rise = v - c.last
           /\ \A i \in 1..l - 1 : recent'[l - i] = recent[n + 1 - i]
<1>. DEFINE e == [v |-> v, rise |-> v - c.last]
            E == [v : Values, rise : Int]
<1>1. e \in E /\ e.v = v /\ e.rise = v - c.last
  <2>1. Gate(c) /\ watch \in Watches
    BY DEF Types
  <2>2. c.last \in Values
    BY <2>1 DEF Gate, GateType
  <2>3. c.last \in Int /\ v \in Int
    BY <2>1, <2>2, Numbers
  <2>. QED  BY <2>3
<1>2. recent \in Seq(E) /\ Len(recent) <= RecentKept /\ RecentKept \in Nat \ {0}
  BY Sizes DEF Types
<1>3. recent' = Latest(Append(recent, e), RecentKept)
  BY DEF Reads
<1>. HIDE DEF e, E
<1>4. LET l == Latest(Append(recent, e), RecentKept) IN
      /\ l \in Seq(E) /\ Len(l) = IF Len(recent) < RecentKept THEN Len(recent) + 1 ELSE RecentKept
      /\ l[Len(l)] = e
      /\ \A i \in 1..Len(l) - 1 : l[Len(l) - i] = recent[Len(recent) + 1 - i]
  BY ONLY <1>1, <1>2, LatestAppend
<1>. HIDE DEF Latest
<1>. QED  BY <1>1, <1>2, <1>3, <1>4 DEF e, E

LEMMA WindowNoted ==
    ASSUME Types, NEW v \in Values, Reads(v)
    PROVE  LET n == Len(nums)
               l == Len(nums')
           IN
           /\ l = (IF n < Window THEN n + 1 ELSE Window)
           /\ nums'[l] = v
           /\ \A i \in 1..l - 1 : nums'[l - i] = nums[n + 1 - i]
<1>1. nums \in Seq(Values) /\ Len(nums) <= Window /\ Window \in Nat \ {0}
  BY Sizes DEF Types
<1>2. nums' = Latest(Append(nums, v), Window)
  BY Reading
<1>3. v \in Values
  OBVIOUS
<1>. DEFINE k == Window
<1>. HIDE DEF k
<1>4. LET l == Latest(Append(nums, v), k) IN
      /\ Len(l) = IF Len(nums) < k THEN Len(nums) + 1 ELSE k
      /\ l[Len(l)] = v
      /\ \A i \in 1..Len(l) - 1 : l[Len(l) - i] = nums[Len(nums) + 1 - i]
  <2>1. nums \in Seq(Values) /\ k \in Nat \ {0} /\ Len(nums) <= k
    BY <1>1 DEF k
  <2>. QED  BY ONLY <1>3, <2>1, LatestAppend
<1>. QED  BY <1>2, <1>4 DEF k

\* A reading keeps the record of the readings and the gate's count in step.
LEMMA ReadingJudged ==
    ASSUME Types, Judged, NEW v \in Values, Reads(v)
    PROVE  /\ recent' \in Seq([v : Values, rise : Int]) /\ Len(recent') <= RecentKept
           /\ Judged'
<1>0. /\ Need \in Nat /\ Need >= 2 /\ Need <= RecentKept /\ RecentKept \in Nat
      /\ Window \in Nat \ {0} /\ Values \subseteq Nat /\ watch.maxRise \in Nat
      /\ watch \in Watches
  BY Sizes DEF Types
<1>1. /\ watch' = watch /\ Need' = Need /\ Window' = Window
      /\ c'.run = (IF c.has /\ Over(c, v) THEN RunAfter(c, v) ELSE 0)
      /\ c'.jump = (IF Over(c, v) THEN v ELSE c.jump)
      /\ c.has => c'.has /\ c'.last >= c.last
  BY Reading DEF Need, Window
<1>2. c.run \in 0..Need /\ c.last \in Values /\ c.jump \in Values /\ c.last \in Int
      /\ c'.last \in Values /\ Gate(c)
  <2>1. Gate(c) /\ Gate(c')
    BY Reading DEF Types
  <2>2. /\ c.run \in 0..Need /\ c.last \in Values /\ c.jump \in Values
        /\ c'.last \in Values
    BY <2>1 DEF Gate, GateType
  <2>3. c.last \in Int
    BY <1>0, <2>2, Numbers
  <2>. QED  BY <2>1, <2>2, <2>3
<1>3. CASE ~c.has
  <2>1. recent' = <<>> /\ c'.run = 0
    BY <1>1, <1>3 DEF Reads
  <2>. QED  BY <1>0, <1>1, <2>1 DEF Judged, Counted, SteadyCounted, InWindow
<1>4. CASE c.has
  <2>. DEFINE n == Len(recent)
              l == Len(recent')
  <2>1. /\ recent' \in Seq([v : Values, rise : Int])
        /\ l = (IF n < RecentKept THEN n + 1 ELSE RecentKept)
        /\ recent'[l].v = v /\ recent'[l].rise = v - c.last
        /\ \A i \in 1..l - 1 : recent'[l - i] = recent[n + 1 - i]
    <3>. HIDE DEF n, l
    <3>. QED  BY <1>4, ReadingNoted DEF n, l
  <2>2. n \in Nat /\ n <= RecentKept /\ recent \in Seq([v : Values, rise : Int]) /\ l \in Nat
        /\ l >= 1
    BY <1>0, <2>1 DEF Types
  <2>2a. l <= n + 1
    <3>1. /\ l = (IF n < RecentKept THEN n + 1 ELSE RecentKept)
          /\ n \in Nat /\ n <= RecentKept /\ RecentKept \in Nat
      BY <1>0, <2>1, <2>2
    <3>. HIDE DEF n, l
    <3>. QED  BY ONLY <3>1
  <2>3. ASSUME NEW i \in 1..n PROVE recent[i].v \in Nat /\ recent[i].rise \in Int
    <3>1. recent[i] \in [v : Values, rise : Int]
      <4>. DEFINE E == [v : Values, rise : Int]
      <4>1. recent \in Seq(E) /\ i \in 1..Len(recent)
        BY <2>2 DEF n
      <4>. HIDE DEF E
      <4>2. recent[i] \in E
        BY <4>1
      <4>. QED  BY <4>2 DEF E
    <3>2. recent[i].v \in Values /\ recent[i].rise \in Int
      BY <3>1
    <3>. QED  BY <1>0, <3>2, Numbers
  <2>4. /\ RunAfter(c, v) \in 1..Need /\ RunAfter(c, v) <= c.run + 1
        /\ RunAfter(c, v) > 1 => Agreed(c, v)
        /\ Agreed(c, v) => RunAfter(c, v) = IF c.run < Need THEN c.run + 1 ELSE Need
    BY <1>0, <1>2, RunCounts
  <2>5. Over(c, v) <=> watch.maxRise > 0 /\ v - c.last > watch.maxRise
    BY <1>4 DEF Over
  <2>. HIDE DEF n, l
  <2>6. Counted'
    <3>1. SUFFICES ASSUME c'.run > 0
                   PROVE  /\ l >= c'.run /\ watch.maxRise > 0 /\ c'.jump = recent'[l].v
                          /\ \A i \in 0..c'.run - 1 : recent'[l - i].rise > watch.maxRise
                          /\ \A i \in 0..c'.run - 2 :
                                recent'[l - i].v >= recent'[l - i - 1].v - watch.maxRise
      BY <1>1 DEF Counted, l
    <3>. DEFINE k == RunAfter(c, v)
    <3>2. Over(c, v) /\ c'.run = k /\ c'.jump = v
      BY <1>1, <3>1
    <3>3. k \in 1..Need /\ k <= c.run + 1
      BY <2>4
    <3>. HIDE DEF k
    <3>4. k > 1 => /\ c.run > 0 /\ n >= c.run /\ c.jump = recent[n].v
                   /\ \A i \in 0..c.run - 1 : recent[n - i].rise > watch.maxRise
                   /\ \A i \in 0..c.run - 2 : recent[n - i].v >= recent[n - i - 1].v - watch.maxRise
      BY <1>2, <3>3 DEF Judged, Counted, n
    <3>5. l >= k
      BY <1>0, <1>2, <2>1, <2>2, <3>3, <3>4
    <3>6. ASSUME NEW i \in 0..k - 1 PROVE recent'[l - i].rise > watch.maxRise
      <4>1. CASE i = 0
        BY <2>1, <2>2, <2>5, <3>2, <4>1
      <4>2. CASE i # 0
        <5>1. i \in 1..l - 1 /\ k > 1 /\ i - 1 \in 0..c.run - 1 /\ i \in Nat
          BY <1>0, <1>2, <2>2, <3>3, <3>5, <4>2
        <5>2. n + 1 - i = n - (i - 1)
          BY <2>2, <5>1
        <5>3. recent'[l - i] = recent[n - (i - 1)]
          BY <2>1, <5>1, <5>2
        <5>. QED  BY <3>4, <5>1, <5>3
      <4>. QED  BY <4>1, <4>2
    <3>7. ASSUME NEW i \in 0..k - 2
          PROVE  recent'[l - i].v >= recent'[l - i - 1].v - watch.maxRise
      <4>1. i + 1 \in 1..l - 1 /\ k > 1 /\ i \in Nat /\ c.run \in Nat
        BY <1>0, <1>2, <2>2, <3>3, <3>5
      <4>2. recent'[l - i - 1] = recent[n - i]
        <5>1. recent'[l - (i + 1)] = recent[n + 1 - (i + 1)]
          BY <2>1, <4>1
        <5>2. l - (i + 1) = l - i - 1 /\ n + 1 - (i + 1) = n - i
          BY <2>2, <4>1
        <5>. QED  BY <5>1, <5>2
      <4>3. CASE i = 0
        <5>1. Agreed(c, v) /\ c.jump = recent[n].v
          BY <2>4, <3>4, <4>1 DEF k
        <5>2. v >= c.jump - watch.maxRise
          <6>1. c.jump \in Int /\ v \in Int /\ watch.maxRise \in Int
            <7>1. c.jump \in Values /\ v \in Values
              BY <1>2
            <7>2. c.jump \in Int /\ v \in Int
              BY <1>0, <7>1, Numbers
            <7>. QED  BY <1>0, <7>2
          <6>2. agrees(c, v)
            BY <5>1 DEF Agreed
          <6>3. Abs(v - c.jump) <= watch.maxRise \/ v - c.jump >= 0
            BY <6>2 DEF agrees
          <6>4. Abs(v - c.jump) <= watch.maxRise => v >= c.jump - watch.maxRise
            BY <6>1 DEF Abs
          <6>. QED  BY <1>0, <6>1, <6>3, <6>4
        <5>3. recent'[l - 0].v = v /\ n - 0 = n /\ l - 0 = l
          BY <2>1, <2>2
        <5>. QED  BY <4>2, <4>3, <5>1, <5>2, <5>3
      <4>4. CASE i # 0
        <5>1. i \in 1..l - 1 /\ i - 1 \in 0..c.run - 2
          BY <1>0, <1>2, <2>2, <3>3, <3>5, <4>1, <4>4
        <5>2. n - i = n - (i - 1) - 1 /\ n + 1 - i = n - (i - 1)
          BY <2>2, <4>1
        <5>3. recent'[l - i] = recent[n - (i - 1)]
          BY <2>1, <5>1, <5>2
        <5>4. recent'[l - i - 1] = recent[n - (i - 1) - 1]
          BY <4>2, <5>2
        <5>. QED  BY <3>4, <4>1, <5>1, <5>3, <5>4
      <4>. QED  BY <4>3, <4>4
    <3>. QED  BY <2>1, <2>5, <3>2, <3>5, <3>6, <3>7
  <2>7. SteadyCounted'
    <3>1. SUFFICES ASSUME NEW k \in 1..l, k <= Need, watch.maxRise > 0,
                          \A i \in 0..k - 1 : /\ recent'[l - i].rise > watch.maxRise
                                              /\ recent'[l - i].v = recent'[l].v
                   PROVE  c'.run >= k /\ c'.jump = recent'[l].v
      BY <1>1 DEF SteadyCounted, l
    <3>2. Over(c, v) /\ c'.jump = v
      <4>1. 0 \in 0..k - 1 /\ l - 0 = l
        BY <2>2, <3>1
      <4>2. recent'[l].rise > watch.maxRise
        <5>1. recent'[l - 0].rise > watch.maxRise
          BY <3>1, <4>1
        <5>. QED  BY <4>1, <5>1
      <4>. QED  BY <1>1, <2>1, <2>5, <3>1, <4>2
    <3>3. c'.run = RunAfter(c, v)
      BY <1>1, <1>4, <3>2
    <3>4. CASE k = 1
      BY <1>0, <2>1, <2>4, <3>2, <3>3, <3>4
    <3>5. CASE k # 1
      <4>1. k - 1 \in 1..n /\ k - 1 <= Need /\ k \in Nat /\ k - 1 >= 1
        <5>1. l <= n + 1
          BY <2>2a
        <5>2. k \in 1..l /\ k <= Need
          BY <3>1
        <5>. QED  BY <1>0, <2>2, <3>5, <5>1, <5>2
      <4>2. ASSUME NEW i \in 0..(k - 1) - 1
            PROVE  recent[n - i].rise > watch.maxRise /\ recent[n - i].v = v
        <5>1. i + 1 \in 0..k - 1 /\ i + 1 \in 1..l - 1 /\ i \in Nat
          BY <2>2, <3>1, <4>1
        <5>2. n + 1 - (i + 1) = n - i
          BY <2>2, <5>1
        <5>3. recent'[l - (i + 1)] = recent[n - i]
          BY <2>1, <5>1, <5>2
        <5>4. recent'[l - (i + 1)].rise > watch.maxRise /\ recent'[l - (i + 1)].v = recent'[l].v
          BY <3>1, <5>1
        <5>. QED  BY <2>1, <5>3, <5>4
      <4>3. recent[n].v = v
        <5>1. 0 \in 0..(k - 1) - 1 /\ n - 0 = n
          BY <2>2, <4>1
        <5>. QED  BY <4>2, <5>1
      <4>4. c.run >= k - 1 /\ c.jump = v
        <5>1. \A i \in 0..(k - 1) - 1 :
                 recent[n - i].rise > watch.maxRise /\ recent[n - i].v = recent[n].v
          BY <4>2, <4>3
        <5>. QED  BY <3>1, <4>1, <4>3, <5>1 DEF Judged, SteadyCounted, n
      <4>5. Agreed(c, v)
        <5>1. v - c.jump = 0
          BY <1>0, <4>4
        <5>2. agrees(c, v)
          BY <1>0, <5>1 DEF agrees, Abs
        <5>. QED  BY <1>2, <4>1, <4>4, <5>2 DEF Agreed
      <4>. QED  BY <1>0, <1>2, <2>1, <2>4, <3>1, <3>2, <3>3, <4>1, <4>4, <4>5
    <3>. QED  BY <3>4, <3>5
  <2>8. InWindow'
    <3>. DEFINE a == Len(nums)
                b == Len(nums')
    <3>1. /\ b = (IF a < Window THEN a + 1 ELSE Window) /\ nums'[b] = v
          /\ \A i \in 1..b - 1 : nums'[b - i] = nums[a + 1 - i]
      BY WindowNoted
    <3>2. a \in Nat /\ a <= Window /\ b \in Nat /\ b >= 1
      BY <1>0, <3>1 DEF Types
    <3>. HIDE DEF a, b
    <3>3. SUFFICES ASSUME NEW i \in 0..l - 1, i < Window
                   PROVE  i < b /\ nums'[b - i] = recent'[l - i].v
      BY <1>1 DEF InWindow, l, b
    <3>4. CASE i = 0
      <4>1. b - 0 = b /\ l - 0 = l
        BY <2>2, <3>2
      <4>. QED  BY <2>1, <3>1, <3>2, <3>4, <4>1
    <3>5. CASE i # 0
      <4>1. i \in 1..l - 1 /\ i - 1 \in 0..n - 1 /\ i - 1 < Window
        <5>1. l <= n + 1 /\ i \in 0..l - 1 /\ i < Window
          BY <2>2a, <3>3
        <5>. QED  BY ONLY <1>0, <2>2, <3>5, <5>1
      <4>2. i - 1 < a /\ nums[a - (i - 1)] = recent[n - (i - 1)].v
        BY <4>1 DEF Judged, InWindow, n, a
      <4>3. i < b
        BY <1>0, <3>1, <3>2, <3>3, <4>1, <4>2
      <4>4. i \in 1..b - 1 /\ a + 1 - i = a - (i - 1) /\ n + 1 - i = n - (i - 1)
        BY <2>2, <3>2, <4>1, <4>3
      <4>. QED  BY <2>1, <3>1, <4>1, <4>2, <4>3, <4>4
    <3>. QED  BY <3>4, <3>5
  <2>9. ASSUME NEW i \in 1..l PROVE recent'[i].v - recent'[i].rise <= c'.last
    <3>1. CASE i = l
      <4>1. v \in Int /\ c.last \in Int /\ c'.last \in Int /\ c'.last >= c.last
        BY <1>0, <1>1, <1>2, <1>4, Numbers
      <4>2. v - (v - c.last) <= c'.last
        BY ONLY <4>1
      <4>. QED  BY <2>1, <3>1, <4>2
    <3>2. CASE i # l
      <4>1. l - i \in 1..l - 1 /\ l - (l - i) = i /\ n + 1 - (l - i) \in 1..n
        BY <1>0, <2>1, <2>2, <3>2
      <4>2. recent'[i] = recent[n + 1 - (l - i)]
        BY <2>1, <4>1
      <4>. DEFINE j == n + 1 - (l - i)
      <4>. HIDE DEF j
      <4>2a. j \in 1..n /\ recent'[i] = recent[j]
        BY <4>1, <4>2 DEF j
      <4>3. recent[j].v - recent[j].rise <= c.last /\ recent[j].v - recent[j].rise \in Int
            /\ recent'[i] = recent[j]
        <5>1. recent[j].v - recent[j].rise <= c.last
          BY <4>2a DEF Judged, n
        <5>2. recent[j].v - recent[j].rise \in Int
          BY <2>3, <4>2a
        <5>. QED  BY <4>2a, <5>1, <5>2
      <4>4. c'.last \in Int /\ c'.last >= c.last /\ c.last \in Int
        BY <1>0, <1>1, <1>2, <1>4, Numbers
      <4>. QED  BY ONLY <4>3, <4>4
    <3>. QED  BY <3>1, <3>2
  <2>10. Len(recent') <= RecentKept
    BY <1>0, <2>1, <2>2 DEF l
  <2>11. \A i \in 1..Len(recent') : recent'[i].v - recent'[i].rise <= c'.last
    BY <2>9 DEF l
  <2>12. Judged'
    BY <1>1, <1>4, <2>6, <2>7, <2>8, <2>11 DEF Judged
  <2>. QED  BY <2>1, <2>10, <2>12
<1>. QED  BY <1>3, <1>4

-----------------------------------------------------------------------------
(* The invariant is kept, action by action.                                *)

LEMMA Blanks ==
    ASSUME watch \in Watches
    PROVE  /\ NoStatus \in StatusType /\ NoStatus.last = NoValue /\ NoStatus.held = "none"
           /\ NoRow \in [has : BOOLEAN, last : Maybe, accept : Maybe]
           /\ ~NoRow.has /\ NoRow.last = NoValue /\ NoRow.accept = NoValue
           /\ NoPending \in [v : Maybe, restored : BOOLEAN]
           /\ NoPending.v = NoValue /\ ~NoPending.restored
           /\ NoTake \in [v : Maybe, drop : BOOLEAN, last : Maybe]
           /\ NoTake.v = NoValue /\ ~NoTake.drop
           /\ NoPost \in [v : Maybe, alive : BOOLEAN, counter : BOOLEAN, status : StatusType]
           /\ ~NoPost.alive /\ NoPost.status = NoStatus
           /\ NoValue \in Maybe
BY DEF NoStatus, NoRow, NoPending, NoTake, NoPost, StatusType, Maybe

\* Nothing of the readings' record is left, or none was touched.
LEMMA JudgedNothing ==
    ASSUME recent' = <<>>, c'.run = 0
    PROVE  Judged'
BY DEF Judged, Counted, SteadyCounted, InWindow

LEMMA JudgedSame ==
    ASSUME Judged, UNCHANGED <<watch, c, nums, recent>>
    PROVE  Judged'
BY DEF Judged, Counted, SteadyCounted, InWindow, Need, Window

\* The watch stays, so its sets of values do.
LEMMA SameSets ==
    ASSUME watch' = watch
    PROVE  /\ Values' = Values /\ Maybe' = Maybe /\ Need' = Need /\ Window' = Window
           /\ StatusType' = StatusType /\ GateType' = GateType
BY DEF Values, Maybe, Need, Window, StatusType, GateType

LEMMA TypesNext ==
    ASSUME /\ watch \in Watches /\ watch' = watch /\ counter' \in BOOLEAN /\ Gate(c')
           /\ nums' \in Seq(Values) /\ Len(nums') <= Window
           /\ status' \in StatusType
           /\ pending' \in [v : Maybe, restored : BOOLEAN] /\ savedLast' \in Maybe
           /\ row' \in [has : BOOLEAN, last : Maybe, accept : Maybe]
           /\ pc' \in {"down", "plain", "idle", "take", "taken", "read", "save", "publish"}
           /\ took' \in [v : Maybe, drop : BOOLEAN, last : Maybe]
           /\ value' \in Maybe
           /\ post' \in [v : Maybe, alive : BOOLEAN, counter : BOOLEAN, status : StatusType]
           /\ told' \in Maybe /\ fresh' \in Maybe
           /\ licence' \in SUBSET [v : Values, n : Nat]
           /\ recent' \in Seq([v : Values, rise : Int]) /\ Len(recent') <= RecentKept
           /\ stray' \in BOOLEAN /\ accepts' \in Nat /\ restarts' \in Nat
    PROVE  Types'
<1>1. /\ Values' = Values /\ Maybe' = Maybe /\ Window' = Window
      /\ StatusType' = StatusType /\ GateType' = GateType
  BY SameSets
<1>2. Gate(c)'
  BY <1>1 DEF Gate
<1>. QED  BY <1>1, <1>2 DEF Types

LEMMA EmptyLists ==
    ASSUME watch \in Watches
    PROVE  /\ <<>> \in Seq(Values) /\ Len(<<>>) = 0 /\ 0 <= Window
           /\ <<>> \in Seq([v : Values, rise : Int]) /\ 0 <= RecentKept
BY Sizes

LEMMA StartPlainKeeps ==
    ASSUME RInv, StartPlain
    PROVE  RInv'
<1>1. watch \in Watches /\ watch' = watch
  BY DEF RInv, Types, StartPlain
<1>2. Gate(NewGate) /\ ~NewGate.has /\ NewGate.run = 0
  BY <1>1, NewGateIsGate
<1>3. /\ counter' = FALSE /\ c' = NewGate /\ nums' = <<>> /\ status' = NoStatus
      /\ pending' = NoPending /\ savedLast' = NoValue /\ row' = NoRow /\ pc' = "plain"
      /\ told' = NoValue /\ fresh' = NoValue /\ recent' = <<>> /\ licence' = {}
      /\ stray' = FALSE /\ pc = "down"
      /\ UNCHANGED <<watch, took, value, post, accepts, restarts>>
  BY DEF StartPlain
<1>4. Types'
  <2>1. Gate(c')
    BY <1>2, <1>3
  <2>. QED  BY <1>1, <1>3, <2>1, TypesNext, Blanks, EmptyLists DEF RInv, Types
<1>5. Ended' /\ RowWhole' /\ Saved' /\ Shown' /\ AcceptKept'
  BY <1>1, <1>3, Blanks DEF RInv, Ended, RowWhole, Saved, Shown, AcceptKept, Up
<1>6. Waits'
  BY <1>1, <1>3, Blanks DEF RInv, Waits
<1>7. Judged'
  BY <1>2, <1>3, JudgedNothing
<1>. QED  BY <1>4, <1>5, <1>6, <1>7 DEF RInv

LEMMA StartCounterKeeps ==
    ASSUME RInv, StartCounter
    PROVE  RInv'
<1>1. watch \in Watches /\ watch' = watch
  BY DEF RInv, Types, StartCounter
<1>2. Gate(NewGate) /\ ~NewGate.has /\ NewGate.run = 0
  BY <1>1, NewGateIsGate
<1>. DEFINE g == IF row.has THEN RestoreCounter(NewGate, row.last) ELSE NewGate
<1>3. row \in [has : BOOLEAN, last : Maybe, accept : Maybe] /\ (row.has <=> row.last # NoValue)
      /\ (row.accept # NoValue => row.has) /\ (told # NoValue => row.has)
  BY DEF RInv, Types, RowWhole
<1>4. Gate(g) /\ g.run = 0 /\ (g.has <=> row.has) /\ (row.has => g.last = row.last)
  <2>1. row.has => row.last \in Values
    BY <1>3 DEF Maybe
  <2>2. row.has => LET h == RestoreCounter(NewGate, row.last) IN
                   Gate(h) /\ h.has /\ h.last = row.last /\ h.run = 0
    BY <1>1, <1>2, <2>1, GateMoves
  <2>. QED  BY <1>2, <1>3, <2>2
<1>. HIDE DEF g
<1>5. /\ counter' = TRUE /\ c' = g /\ nums' = <<>> /\ recent' = <<>> /\ pc' = "idle"
      /\ status' = [last |-> row.last, held |-> "none", accepting |-> row.accept]
      /\ pending' = [v |-> row.accept, restored |-> row.accept # NoValue]
      /\ savedLast' = row.last /\ stray' = FALSE /\ pc = "down"
      /\ UNCHANGED <<watch, row, took, value, post, told, licence, fresh, accepts, restarts>>
  BY DEF StartCounter, g
<1>6. Types'
  <2>1. Gate(c')
    BY <1>4, <1>5
  <2>2. status' \in StatusType /\ pending' \in [v : Maybe, restored : BOOLEAN] /\ savedLast' \in Maybe
    BY <1>3, <1>5 DEF StatusType
  <2>. QED  BY <1>1, <1>5, <2>1, <2>2, TypesNext, EmptyLists DEF RInv, Types
<1>7. value = NoValue
  BY <1>5 DEF RInv, Ended, Up
<1>8. Ended' /\ RowWhole' /\ Saved' /\ Shown' /\ AcceptKept'
  BY <1>3, <1>4, <1>5, <1>7 DEF RInv, Ended, RowWhole, Saved, Shown, AcceptKept, Up
<1>9. Waits'
  BY <1>1, <1>3, <1>5, Blanks DEF RInv, Waits
<1>10. Judged'
  BY <1>4, <1>5, JudgedNothing
<1>. QED  BY <1>6, <1>8, <1>9, <1>10 DEF RInv

LEMMA TakeAcceptKeeps ==
    ASSUME RInv, TakeAccept
    PROVE  RInv'
<1>. DEFINE d == /\ pending.v # NoValue /\ c.has
                 /\ status.held # "lower" /\ ~pending.restored
<1>1. /\ pc = "idle" /\ pending' = NoPending
      /\ took' = [v |-> pending.v, last |-> NoValue, drop |-> d]
      /\ pc' = (IF pending.v = NoValue THEN "read" ELSE "take")
      /\ UNCHANGED <<watch, counter, c, nums, status, savedLast, row, value, post, told,
                     licence, fresh, recent, stray, accepts, restarts>>
  BY DEF TakeAccept, historyVars
<1>2. watch \in Watches /\ pending \in [v : Maybe, restored : BOOLEAN] /\ c.has \in BOOLEAN
  BY DEF RInv, Types, Gate, GateType
<1>2a. d \in BOOLEAN
  OBVIOUS
<1>2b. d <=> /\ pending.v # NoValue /\ c.has
             /\ status.held # "lower" /\ ~pending.restored
  OBVIOUS
<1>. HIDE DEF d
<1>2c. /\ took'.v = pending.v /\ (took'.drop <=> d)
       /\ took' \in [v : Maybe, drop : BOOLEAN, last : Maybe]
  <2>1. pending.v \in Maybe /\ NoValue \in Maybe
    BY <1>2 DEF Maybe
  <2>. QED  BY <1>1, <1>2a, <2>1
<1>3. Types'
  <2>1. Gate(c')
    BY <1>1 DEF RInv, Types
  <2>. QED  BY <1>1, <1>2, <1>2c, <2>1, TypesNext, Blanks DEF RInv, Types
<1>3a. /\ UNCHANGED <<watch, counter, c, nums, status, savedLast, row, value, post, told,
                      licence, fresh, recent, stray, accepts, restarts>>
       /\ pc = "idle" /\ pc' = (IF pending.v = NoValue THEN "read" ELSE "take")
       /\ pending' = NoPending /\ NoPending.v = NoValue /\ ~NoPending.restored
  BY <1>1, <1>2, Blanks
<1>4. Ended' /\ RowWhole' /\ Saved'
  BY <1>2c, <1>3a DEF RInv, Ended, RowWhole, Saved, Up
<1>5. Shown'
  BY <1>2b, <1>2c, <1>3a DEF RInv, Shown, Up
<1>6. Waits'
  BY <1>2b, <1>2c, <1>3a DEF RInv, Waits
<1>7. AcceptKept'
  BY <1>2c, <1>3a DEF RInv, AcceptKept, Up
<1>8. Judged'
  BY <1>1, JudgedSame DEF RInv
<1>. QED  BY <1>3, <1>4, <1>5, <1>6, <1>7, <1>8 DEF RInv

\* The gate an accept leaves.
LEMMA TakenIs ==
    ASSUME RInv, pc = "take"
    PROVE  /\ took.v \in Values /\ Gate(Taken(took.v)) /\ Taken(took.v).has
           /\ Taken(took.v).last = (IF took.drop THEN c.last
                                    ELSE IF ~c.has THEN took.v
                                    ELSE IF took.v < c.last THEN took.v ELSE c.last)
           /\ Taken(took.v).last \in Values
           /\ Taken(took.v) = c \/ Taken(took.v).run = 0
<1>1. watch \in Watches /\ Gate(c) /\ took.v \in Maybe /\ took.v # NoValue /\ (took.drop => c.has)
  BY DEF RInv, Types, RowWhole, Shown, Up
<1>2. took.v \in Values
  BY <1>1 DEF Maybe
<1>3. /\ Gate(RestoreCounter(c, took.v)) /\ RestoreCounter(c, took.v).has
      /\ RestoreCounter(c, took.v).last = took.v /\ RestoreCounter(c, took.v).run = 0
      /\ Gate(AcceptedLower(c, took.v)) /\ AcceptedLower(c, took.v).has = c.has
      /\ AcceptedLower(c, took.v).last = took.v /\ AcceptedLower(c, took.v).run = 0
  BY <1>1, <1>2, GateMoves
<1>4. c.last \in Values
  BY <1>1 DEF Gate, GateType
<1>. QED  BY <1>1, <1>2, <1>3, <1>4 DEF Taken

LEMMA TakeSavedKeeps ==
    ASSUME RInv, TakeSaved
    PROVE  RInv'
<1>. DEFINE g == Taken(took.v)
<1>1. /\ took.v \in Values /\ Gate(g) /\ g.has
      /\ g.last = (IF took.drop THEN c.last ELSE IF ~c.has THEN took.v
                   ELSE IF took.v < c.last THEN took.v ELSE c.last)
      /\ g.last \in Values /\ (g = c \/ g.run = 0)
  BY TakenIs DEF TakeSaved
<1>. HIDE DEF g
<1>2. /\ pc = "take" /\ pc' = "taken" /\ c' = g
      /\ row' = (IF row.accept = took.v THEN [row EXCEPT !.last = g.last, !.accept = NoValue]
                 ELSE row)
      /\ savedLast' = g.last /\ took' = [took EXCEPT !.last = g.last]
      /\ recent' = (IF g = c THEN recent ELSE <<>>)
      /\ stray' = (stray /\ (row'.accept # NoValue \/ pending.v # NoValue))
      /\ UNCHANGED <<watch, counter, nums, status, pending, value, post, told,
                     licence, fresh, accepts, restarts>>
  BY DEF TakeSaved, RowTaken, g
<1>3. /\ watch \in Watches /\ took \in [v : Maybe, drop : BOOLEAN, last : Maybe]
      /\ row \in [has : BOOLEAN, last : Maybe, accept : Maybe] /\ row.has
      /\ c.last \in Values /\ pending \in [v : Maybe, restored : BOOLEAN]
      /\ status.held \in {"none", "lower", "rise"}
  BY <1>2 DEF RInv, Types, RowWhole, Gate, GateType, StatusType
<1>4. /\ took'.v = took.v /\ took'.drop = took.drop /\ took'.last = g.last
      /\ took' \in [v : Maybe, drop : BOOLEAN, last : Maybe]
  BY <1>1, <1>2, <1>3 DEF Maybe
<1>5. /\ row'.has = row.has /\ row' \in [has : BOOLEAN, last : Maybe, accept : Maybe]
      /\ row'.last = (IF row.accept = took.v THEN g.last ELSE row.last)
      /\ row'.accept = (IF row.accept = took.v THEN NoValue ELSE row.accept)
  BY <1>1, <1>2, <1>3, Blanks DEF Maybe
<1>6. g.last # NoValue /\ took.v # NoValue /\ took.v \in Int /\ c.last \in Int /\ g.last \in Int
  BY <1>1, <1>3, Numbers
<1>7. Types'
  <2>1. Gate(c')
    BY <1>1, <1>2
  <2>2. stray' \in BOOLEAN
    BY <1>2 DEF RInv, Types
  <2>3. recent' \in Seq([v : Values, rise : Int]) /\ Len(recent') <= RecentKept
    BY <1>2, <1>3, EmptyLists DEF RInv, Types
  <2>. QED  BY <1>1, <1>2, <1>3, <1>4, <1>5, <2>1, <2>2, <2>3, TypesNext DEF RInv, Types, Maybe
<1>8. Ended' /\ RowWhole'
  BY <1>2, <1>3, <1>5, <1>6 DEF RInv, Ended, RowWhole, Up
<1>9. Saved'
  <2>1. row'.accept = NoValue => row'.last = savedLast'
    <3>1. CASE row.accept = took.v
      BY <1>2, <1>5, <3>1
    <3>2. CASE row.accept = NoValue
      <4>1. g.last = c.last
        BY <1>1, <1>2, <1>6, <3>2 DEF RInv, Waits
      <4>2. c.has /\ savedLast = c.last /\ row.last = savedLast
        BY <1>2, <1>3, <3>2 DEF RInv, Saved, Up
      <4>. QED  BY <1>2, <1>5, <3>2, <4>1, <4>2
    <3>. QED  BY <1>5, <3>1, <3>2
  <2>. QED  BY <1>1, <1>2, <1>3, <1>5, <2>1 DEF RInv, Saved, Up
<1>10. Shown'
  <2>1. took.drop => c.has /\ g.last = c.last /\ status.last = c.last
    BY <1>1, <1>2 DEF RInv, Shown, Up
  <2>2. value = NoValue
    BY <1>2 DEF RInv, Shown, Up
  <2>. QED  BY <1>1, <1>2, <1>4, <2>1, <2>2 DEF Shown, Up
<1>11. Waits'
  <2>1. /\ pending.v # NoValue => (post = NoPost \/ post.alive)
                                  /\ row.accept \in {pending.v, NoValue} /\ ~pending.restored
                                  /\ ~took.drop
        /\ post.alive => post # NoPost
        /\ post # NoPost => post.v # NoValue
    BY <1>2 DEF RInv, Waits, Shown, Up
  <2>2. ASSUME pending.v # NoValue, row'.accept = NoValue PROVE g.last <= pending.v
    <3>1. row.accept = took.v => pending.v = took.v
      BY <1>6, <2>1, <2>2
    <3>3. row.accept # NoValue
      BY <1>2, <2>2 DEF RInv, Waits
    <3>. QED  BY <1>1, <1>5, <1>6, <2>1, <2>2, <3>1, <3>3
  <2>. QED  BY <1>1, <1>2, <1>5, <2>1, <2>2 DEF Waits
<1>12. AcceptKept'
  BY <1>2, <1>5, <1>6 DEF RInv, AcceptKept, Waits
<1>13. Judged'
  <2>1. CASE g = c
    BY <1>2, <2>1, JudgedSame DEF RInv
  <2>2. CASE g # c
    BY <1>1, <1>2, <2>2, JudgedNothing
  <2>. QED  BY <2>1, <2>2
<1>. QED  BY <1>7, <1>8, <1>9, <1>10, <1>11, <1>12, <1>13 DEF RInv

LEMMA TakeShownKeeps ==
    ASSUME RInv, TakeShown
    PROVE  RInv'
<1>1. /\ pc = "taken" /\ took' = NoTake /\ pc' = "read"
      /\ UNCHANGED <<watch, counter, c, nums, pending, savedLast, row, value, post, told,
                     licence, fresh, recent, stray, accepts, restarts>>
  BY DEF TakeShown, historyVars
<1>2. /\ watch \in Watches /\ status \in StatusType /\ took \in [v : Maybe, drop : BOOLEAN, last : Maybe]
      /\ NoValue \in Maybe
  BY Blanks DEF RInv, Types
<1>3. /\ status' \in StatusType
      /\ status'.last = (IF took.drop THEN status.last ELSE took.last)
      /\ status'.held = (IF took.drop THEN status.held ELSE "none")
  BY <1>2 DEF TakeShown, StatusType
<1>4. Types'
  <2>1. Gate(c')
    BY <1>1 DEF RInv, Types
  <2>. QED  BY <1>1, <1>2, <1>3, <2>1, TypesNext, Blanks DEF RInv, Types
<1>5. Ended' /\ RowWhole' /\ Saved' /\ AcceptKept'
  BY <1>1 DEF RInv, Ended, RowWhole, Saved, AcceptKept, Shown, Up
<1>6. Shown'
  BY <1>1, <1>3 DEF RInv, Shown, Up
<1>7. Waits'
  BY <1>1 DEF RInv, Waits
<1>8. Judged'
  BY <1>1, JudgedSame DEF RInv
<1>. QED  BY <1>4, <1>5, <1>6, <1>7, <1>8 DEF RInv

LEMMA ReadsKeeps ==
    ASSUME RInv, NEW v \in Values, Reads(v)
    PROVE  RInv'
<1>1. /\ watch' = watch /\ pc' = "save" /\ pc = "read"
      /\ nums' \in Seq(Values) /\ Len(nums') <= Window
      /\ Gate(c') /\ value' \in Maybe
      /\ c.has => c'.has /\ c'.last >= c.last
      /\ value' = NoValue => c'.has = c.has /\ c'.last = c.last
      /\ value' # NoValue => c'.has /\ c'.last = value' /\ status'.held = "none"
      /\ status'.last = (IF c'.has THEN c'.last ELSE NoValue)
      /\ status' \in StatusType
      /\ status'.held = "lower" => value' = NoValue
  BY Reading DEF RInv
<1>2. UNCHANGED <<watch, counter, pending, savedLast, row, took, post, told, licence, fresh,
                  stray, accepts, restarts>>
  BY DEF Reads
<1>3. /\ recent' \in Seq([v : Values, rise : Int]) /\ Len(recent') <= RecentKept
      /\ Judged'
  BY ReadingJudged DEF RInv
<1>4. watch \in Watches /\ c'.has \in BOOLEAN
  BY <1>1 DEF RInv, Types, Gate, GateType
<1>5. Types'
  BY <1>1, <1>2, <1>3, <1>4, TypesNext DEF RInv, Types
<1>6. Ended' /\ RowWhole' /\ AcceptKept'
  BY <1>1, <1>2 DEF RInv, Ended, RowWhole, AcceptKept, Up
<1>7. Saved'
  BY <1>1, <1>2 DEF RInv, Saved, Up
<1>8. Shown'
  BY <1>1 DEF Shown, Up
<1>9. Waits'
  BY <1>1, <1>2 DEF RInv, Waits
<1>. QED  BY <1>3, <1>5, <1>6, <1>7, <1>8, <1>9 DEF RInv

LEMMA ReadsNothingKeeps ==
    ASSUME RInv, ReadsNothing
    PROVE  RInv'
<1>1. /\ pc = "read" /\ pc' = "idle"
      /\ UNCHANGED <<watch, counter, c, nums, status, pending, savedLast, row, took, value, post,
                     told, licence, fresh, recent, stray, accepts, restarts>>
  BY DEF ReadsNothing, historyVars, runVars
<1>2. Types'
  <2>1. Gate(c')
    BY <1>1 DEF RInv, Types
  <2>. QED  BY <1>1, <2>1, TypesNext DEF RInv, Types
<1>3. Ended' /\ RowWhole' /\ Saved' /\ AcceptKept'
  BY <1>1 DEF RInv, Ended, RowWhole, Saved, AcceptKept, Up
<1>4. Shown' /\ Waits'
  BY <1>1 DEF RInv, Shown, Waits, Up
<1>5. Judged'
  BY <1>1, JudgedSame DEF RInv
<1>. QED  BY <1>2, <1>3, <1>4, <1>5 DEF RInv

LEMMA SavesLastKeeps ==
    ASSUME RInv, SavesLast
    PROVE  RInv'
<1>1. /\ pc = "save" /\ pc' = "publish"
      /\ UNCHANGED <<watch, counter, c, nums, status, pending, took, value, post,
                     told, licence, fresh, recent, stray, accepts, restarts>>
  BY DEF SavesLast, historyVars
<1>2. /\ watch \in Watches /\ row \in [has : BOOLEAN, last : Maybe, accept : Maybe]
      /\ c.last \in Values /\ c.last \in Maybe /\ c.last # NoValue /\ savedLast \in Maybe
  <2>1. watch \in Watches /\ c.last \in Values
    BY DEF RInv, Types, Gate, GateType
  <2>. QED  BY <2>1, Numbers DEF RInv, Types, Maybe
<1>. DEFINE moved == c.has /\ c.last # savedLast
<1>3. /\ row' \in [has : BOOLEAN, last : Maybe, accept : Maybe]
      /\ row'.accept = row.accept
      /\ row'.has = (row.has \/ moved)
      /\ row'.last = (IF moved THEN c.last ELSE row.last)
      /\ savedLast' = (IF moved THEN c.last ELSE savedLast)
  <2>1. CASE moved
    BY <1>2, <2>1 DEF SavesLast
  <2>2. CASE ~moved
    BY <1>2, <2>2 DEF SavesLast
  <2>. QED  BY <2>1, <2>2
<1>. HIDE DEF moved
<1>4. Types'
  <2>1. Gate(c') /\ savedLast' \in Maybe
    BY <1>1, <1>2, <1>3 DEF RInv, Types
  <2>. QED  BY <1>1, <1>2, <1>3, <2>1, TypesNext DEF RInv, Types
<1>5. Ended' /\ RowWhole' /\ AcceptKept'
  BY <1>1, <1>2, <1>3 DEF RInv, Ended, RowWhole, AcceptKept, Up
<1>6. Saved'
  BY <1>1, <1>2, <1>3 DEF RInv, Saved, Up, moved
<1>7. Shown' /\ Waits'
  BY <1>1, <1>3 DEF RInv, Shown, Waits, Up
<1>8. Judged'
  BY <1>1, JudgedSame DEF RInv
<1>. QED  BY <1>4, <1>5, <1>6, <1>7, <1>8 DEF RInv

LEMMA PublishesKeeps ==
    ASSUME RInv, Publishes
    PROVE  RInv'
<1>1. /\ pc = "publish" /\ pc' = "idle" /\ value' = NoValue
      /\ told' = (IF value # NoValue THEN value ELSE told)
      /\ fresh' = (IF value # NoValue /\ value >= told THEN NoValue ELSE fresh)
      /\ UNCHANGED <<watch, counter, c, nums, status, pending, savedLast, row, took, post,
                     recent, stray, accepts, restarts>>
  BY DEF Publishes, runVars
<1>2. licence' \subseteq licence
  BY DEF Publishes
<1>3. watch \in Watches /\ NoValue \in Maybe
  BY Blanks DEF RInv, Types
<1>4. Types'
  <2>1. Gate(c') /\ told' \in Maybe /\ fresh' \in Maybe /\ licence' \in SUBSET [v : Values, n : Nat]
    BY <1>1, <1>2, <1>3 DEF RInv, Types
  <2>. QED  BY <1>1, <1>3, <2>1, TypesNext DEF RInv, Types
<1>5. value # NoValue => c.has /\ c.last = value /\ savedLast = c.last /\ row.has
  BY <1>1 DEF RInv, Shown, Saved, Up
<1>6. Ended' /\ RowWhole' /\ Saved' /\ AcceptKept'
  BY <1>1, <1>5 DEF RInv, Ended, RowWhole, Saved, AcceptKept, Up
<1>7. Shown' /\ Waits'
  BY <1>1 DEF RInv, Shown, Waits, Up
<1>8. Judged'
  BY <1>1, JudgedSame DEF RInv
<1>. QED  BY <1>4, <1>6, <1>7, <1>8 DEF RInv

LEMMA PostAcceptKeeps ==
    ASSUME RInv, NEW v \in Values, PostAccept(v)
    PROVE  RInv'
<1>1. /\ pc # "down" /\ post = NoPost /\ accepts' = accepts + 1
      /\ post' = [v |-> v, alive |-> TRUE, counter |-> FALSE, status |-> NoStatus]
      /\ UNCHANGED <<watch, counter, c, nums, status, pending, savedLast, row, pc, took, value,
                     told, licence, fresh, recent, stray, restarts>>
  BY DEF PostAccept, runVars
<1>2. /\ watch \in Watches /\ NoStatus \in StatusType /\ v \in Maybe /\ v # NoValue
      /\ NoPost.v = NoValue
  <2>1. watch \in Watches
    BY DEF RInv, Types
  <2>. QED  BY <2>1, Blanks, Numbers DEF Maybe, NoPost
<1>3. /\ post' \in [v : Maybe, alive : BOOLEAN, counter : BOOLEAN, status : StatusType]
      /\ post'.alive /\ post' # NoPost /\ post'.v # NoValue
  BY <1>1, <1>2
<1>4. Types'
  <2>1. Gate(c') /\ accepts' \in Nat
    BY <1>1 DEF RInv, Types
  <2>. QED  BY <1>1, <1>2, <1>3, <2>1, TypesNext DEF RInv, Types
<1>5. Ended' /\ RowWhole' /\ Saved' /\ AcceptKept'
  BY <1>1 DEF RInv, Ended, RowWhole, Saved, AcceptKept, Up
<1>6. Shown' /\ Waits'
  BY <1>1, <1>3 DEF RInv, Shown, Waits, Up
<1>7. Judged'
  BY <1>1, JudgedSame DEF RInv
<1>. QED  BY <1>4, <1>5, <1>6, <1>7 DEF RInv

\* The page finds a run, and what it shows.
LEMMA Refused ==
    ASSUME RInv, AcceptLower, ~Acceptable(post.v)
    PROVE  RInv'
<1>1. /\ post # NoPost /\ post' = NoPost
      /\ UNCHANGED <<watch, counter, c, nums, status, pending, savedLast, row, pc, took, value,
                     told, licence, fresh, recent, stray, accepts, restarts>>
  BY DEF AcceptLower
<1>2. watch \in Watches
  BY DEF RInv, Types
<1>3. Types'
  <2>1. Gate(c')
    BY <1>1 DEF RInv, Types
  <2>. QED  BY <1>1, <1>2, <2>1, TypesNext, Blanks DEF RInv, Types
<1>4. Ended' /\ RowWhole' /\ Saved' /\ AcceptKept'
  BY <1>1 DEF RInv, Ended, RowWhole, Saved, AcceptKept, Up
<1>5. Shown' /\ Waits'
  BY <1>1, <1>2, Blanks DEF RInv, Shown, Waits, Up
<1>6. Judged'
  BY <1>1, JudgedSame DEF RInv
<1>. QED  BY <1>3, <1>4, <1>5, <1>6 DEF RInv

LEMMA Accepting ==
    ASSUME RInv, AcceptLower, Acceptable(post.v)
    PROVE  /\ post # NoPost /\ post' = NoPost /\ post.v \in Values /\ post.v # NoValue
           /\ row'.has /\ row'.accept = post.v
           /\ row'.last = (IF row.has THEN row.last ELSE post.v)
           /\ row' \in [has : BOOLEAN, last : Maybe, accept : Maybe]
           /\ licence' = licence \cup {[v |-> post.v, n |-> accepts]}
           /\ fresh' = (IF fresh = NoValue \/ post.v < fresh THEN post.v ELSE fresh)
           /\ UNCHANGED <<watch, counter, c, nums, savedLast, pc, took, value, told,
                          recent, accepts, restarts>>
           /\ post.alive =>
                 /\ pending'.v = post.v /\ ~pending'.restored
                 /\ pending' \in [v : Maybe, restored : BOOLEAN]
                 /\ status' \in StatusType /\ status'.last = status.last
                 /\ status'.held = status.held
                 /\ Up /\ (status.last # NoValue => status.held = "lower")
                 /\ ~(pc = "take" /\ took.drop)
           /\ ~post.alive => UNCHANGED <<pending, status>>
           /\ stray' = (~post.alive \/ (pc = "take" /\ post.v = took.v))
<1>1. /\ post # NoPost /\ post' = NoPost /\ SavesAccept(post.v)
      /\ IF post.alive
         THEN /\ pending' = [v |-> post.v, restored |-> FALSE]
              /\ status' = [status EXCEPT !.accepting = post.v]
         ELSE UNCHANGED <<pending, status>>
      /\ stray' = (~post.alive \/ (pc = "take" /\ post.v = took.v))
      /\ licence' = licence \cup {[v |-> post.v, n |-> accepts]}
      /\ fresh' = (IF fresh = NoValue \/ post.v < fresh THEN post.v ELSE fresh)
      /\ UNCHANGED <<watch, counter, c, nums, savedLast, pc, took, value, told,
                     recent, accepts, restarts>>
  BY DEF AcceptLower
<1>2. /\ post \in [v : Maybe, alive : BOOLEAN, counter : BOOLEAN, status : StatusType]
      /\ row \in [has : BOOLEAN, last : Maybe, accept : Maybe]
      /\ status \in StatusType /\ watch \in Watches
  BY DEF RInv, Types
<1>3. post.v \in Values /\ post.v # NoValue /\ post.v \in Maybe
  BY <1>1, <1>2 DEF RInv, Waits, Maybe
<1>4. /\ row'.has /\ row'.accept = post.v
      /\ row'.last = (IF row.has THEN row.last ELSE post.v)
      /\ row' \in [has : BOOLEAN, last : Maybe, accept : Maybe]
  BY <1>1, <1>2, <1>3 DEF SavesAccept
<1>5. ASSUME post.alive
      PROVE  /\ pending'.v = post.v /\ ~pending'.restored
             /\ pending' \in [v : Maybe, restored : BOOLEAN]
             /\ status' \in StatusType /\ status'.last = status.last
             /\ status'.held = status.held
             /\ Up /\ (status.last # NoValue => status.held = "lower")
             /\ ~(pc = "take" /\ took.drop)
  <2>1. counter /\ (status.last # NoValue => status.held = "lower")
    BY <1>5 DEF Acceptable, FoundCounter, Found
  <2>2. Up
    BY <2>1 DEF RInv, Ended
  <2>3. c.has => c.last # NoValue
    BY <1>2, Numbers DEF RInv, Types, Gate, GateType
  <2>4. ~(pc = "take" /\ took.drop)
    BY <2>1, <2>2, <2>3 DEF RInv, Shown
  <2>5. status' \in StatusType /\ status'.last = status.last /\ status'.held = status.held
    BY <1>1, <1>2, <1>3, <1>5 DEF StatusType
  <2>6. pending' = [v |-> post.v, restored |-> FALSE]
    BY <1>1, <1>5
  <2>. QED  BY <1>3, <2>1, <2>2, <2>4, <2>5, <2>6
<1>. QED  BY <1>1, <1>3, <1>4, <1>5

LEMMA AcceptedKeeps ==
    ASSUME RInv, AcceptLower, Acceptable(post.v)
    PROVE  RInv'
<1>. DEFINE Same == UNCHANGED <<watch, counter, c, nums, savedLast, pc, took, value, told,
                                recent, accepts, restarts>>
<1>1. /\ post # NoPost /\ post' = NoPost /\ post.v \in Values /\ post.v # NoValue
      /\ row'.has /\ row'.accept = post.v
      /\ row'.last = (IF row.has THEN row.last ELSE post.v)
      /\ row' \in [has : BOOLEAN, last : Maybe, accept : Maybe]
      /\ Same
      /\ post.alive =>
            /\ pending'.v = post.v /\ ~pending'.restored
            /\ pending' \in [v : Maybe, restored : BOOLEAN]
            /\ status' \in StatusType /\ status'.last = status.last
            /\ status'.held = status.held
            /\ Up /\ ~(pc = "take" /\ took.drop)
      /\ ~post.alive => UNCHANGED <<pending, status>>
      /\ stray' = (~post.alive \/ (pc = "take" /\ post.v = took.v))
  BY Accepting
<1>2. /\ licence' = licence \cup {[v |-> post.v, n |-> accepts]}
      /\ fresh' = (IF fresh = NoValue \/ post.v < fresh THEN post.v ELSE fresh)
  BY Accepting
<1>3. watch \in Watches /\ post.alive \in BOOLEAN /\ NoPost.alive = FALSE /\ NoPost.v = NoValue
  BY Blanks DEF RInv, Types, NoPost
<1>4. Types'
  <2>1. Gate(c') /\ stray' \in BOOLEAN
    BY <1>1, <1>3 DEF RInv, Types
  <2>2. licence' \in SUBSET [v : Values, n : Nat] /\ fresh' \in Maybe
    BY <1>1, <1>2 DEF RInv, Types, Maybe
  <2>3. pending' \in [v : Maybe, restored : BOOLEAN] /\ status' \in StatusType
    BY <1>1 DEF RInv, Types
  <2>. QED  BY <1>1, <1>3, <2>1, <2>2, <2>3, TypesNext, Blanks DEF RInv, Types
<1>5. Ended' /\ RowWhole' /\ Saved'
  BY <1>1 DEF RInv, Ended, RowWhole, Saved, Up
<1>6. Shown'
  BY <1>1 DEF RInv, Shown, Up
<1>7. Waits'
  <2>1. ~post.alive => pending.v = NoValue \/ pending.restored
    BY <1>1 DEF RInv, Waits
  <2>. QED  BY <1>1, <1>3, <2>1 DEF RInv, Waits
<1>8. AcceptKept'
  <2>1. ~stray' => post.alive /\ pending'.v # NoValue /\ row'.accept = pending'.v
    BY <1>1
  <2>. QED  BY <2>1 DEF AcceptKept
<1>9. Judged'
  BY <1>1, JudgedSame DEF RInv
<1>. QED  BY <1>4, <1>5, <1>6, <1>7, <1>8, <1>9 DEF RInv

LEMMA GoneKeeps ==
    ASSUME RInv, RunGone, pc # "down",
           post' \in [v : Maybe, alive : BOOLEAN, counter : BOOLEAN, status : StatusType],
           ~post'.alive, post' # NoPost => post'.v # NoValue
    PROVE  RInv'
<1>1. /\ pc' = "down" /\ took' = NoTake /\ value' = NoValue
      /\ counter' = FALSE /\ c' = NewGate /\ nums' = <<>>
      /\ status' = NoStatus /\ pending' = NoPending /\ savedLast' = NoValue
      /\ recent' = <<>> /\ restarts' = restarts + 1
      /\ UNCHANGED <<watch, row, told, licence, fresh, stray, accepts>>
  BY DEF RunGone
<1>2. watch \in Watches
  BY DEF RInv, Types
<1>3. Gate(c') /\ c'.run = 0
  BY <1>1, <1>2, NewGateIsGate
<1>4. Types'
  <2>1. restarts' \in Nat
    BY <1>1 DEF RInv, Types
  <2>. QED  BY <1>1, <1>2, <1>3, <2>1, TypesNext, Blanks, EmptyLists DEF RInv, Types
<1>5. Ended' /\ RowWhole' /\ Saved' /\ Shown' /\ AcceptKept'
  BY <1>1, <1>2, Blanks DEF RInv, Ended, RowWhole, Saved, Shown, AcceptKept, Up
<1>6. Waits'
  BY <1>1, <1>2, Blanks DEF Waits
<1>7. Judged'
  BY <1>1, <1>3, JudgedNothing
<1>. QED  BY <1>4, <1>5, <1>6, <1>7 DEF RInv

LEMMA StopKeeps ==
    ASSUME RInv, Stop \/ Crash
    PROVE  RInv'
<1>1. /\ post \in [v : Maybe, alive : BOOLEAN, counter : BOOLEAN, status : StatusType]
      /\ status \in StatusType /\ counter \in BOOLEAN
      /\ watch \in Watches /\ (post # NoPost => post.v # NoValue)
      /\ (post.alive => post # NoPost)
  BY DEF RInv, Types, Waits
<1>2. CASE Stop
  <2>1. RunGone /\ pc # "down"
        /\ post' = (IF post.alive
                    THEN [post EXCEPT !.alive = FALSE, !.counter = counter, !.status = status]
                    ELSE post)
    BY <1>2 DEF Stop
  <2>2. /\ post' \in [v : Maybe, alive : BOOLEAN, counter : BOOLEAN, status : StatusType] /\ ~post'.alive
        /\ post'.v = post.v
    BY <1>1, <2>1
  <2>3. post' # NoPost => post'.v # NoValue
    BY <1>1, <2>1, <2>2
  <2>. QED  BY <2>1, <2>2, <2>3, GoneKeeps
<1>3. CASE Crash
  BY <1>1, <1>3, Blanks, GoneKeeps DEF Crash
<1>. QED  BY <1>2, <1>3

-----------------------------------------------------------------------------
LEMMA RInit == Init => RInv
<1>. SUFFICES ASSUME Init PROVE RInv
  OBVIOUS
<1>1. /\ watch \in Watches /\ counter = FALSE /\ c = NewGate /\ nums = <<>>
      /\ status = NoStatus /\ pending = NoPending /\ savedLast = NoValue /\ row = NoRow
      /\ pc = "down" /\ took = NoTake /\ value = NoValue /\ post = NoPost
      /\ told = NoValue /\ licence = {} /\ fresh = NoValue
      /\ recent = <<>> /\ stray = FALSE /\ accepts = 0 /\ restarts = 0
  BY DEF Init
<1>2. Gate(NewGate) /\ NewGate.run = 0
  BY <1>1, NewGateIsGate
<1>3. Types
  BY <1>1, <1>2, Blanks, EmptyLists DEF Types
<1>4. Ended /\ RowWhole /\ Saved /\ Shown /\ AcceptKept
  BY <1>1, Blanks DEF Ended, RowWhole, Saved, Shown, AcceptKept, Up
<1>5. Waits
  BY <1>1, Blanks DEF Waits
<1>6. Judged
  BY <1>1, <1>2 DEF Judged, Counted, SteadyCounted, InWindow
<1>. QED  BY <1>3, <1>4, <1>5, <1>6 DEF RInv

LEMMA RStutter ==
    ASSUME RInv, UNCHANGED vars
    PROVE  RInv'
<1>1. UNCHANGED <<watch, counter, c, nums, status, pending, savedLast, row, pc, took, value, post,
                  told, licence, fresh, recent, stray, accepts, restarts>>
  BY DEF vars, runVars, historyVars
<1>2. Types'
  <2>1. Gate(c')
    BY <1>1 DEF RInv, Types
  <2>. QED  BY <1>1, <2>1, TypesNext DEF RInv, Types
<1>3. Ended' /\ RowWhole' /\ Saved' /\ AcceptKept'
  BY <1>1 DEF RInv, Ended, RowWhole, Saved, AcceptKept, Up
<1>4. Shown' /\ Waits'
  BY <1>1 DEF RInv, Shown, Waits, Up
<1>5. Judged'
  BY <1>1, JudgedSame DEF RInv
<1>. QED  BY <1>2, <1>3, <1>4, <1>5 DEF RInv

LEMMA RNext ==
    ASSUME RInv, [Next]_vars
    PROVE  RInv'
<1>1. CASE Start
  BY <1>1, StartPlainKeeps, StartCounterKeeps DEF Start
<1>2. CASE Poll
  <2>1. CASE TakeAccept
    BY <2>1, TakeAcceptKeeps
  <2>2. CASE TakeSaved
    BY <2>2, TakeSavedKeeps
  <2>3. CASE TakeShown
    BY <2>3, TakeShownKeeps
  <2>4. CASE \E v \in Values : Reads(v)
    BY <2>4, ReadsKeeps
  <2>5. CASE ReadsNothing
    BY <2>5, ReadsNothingKeeps
  <2>6. CASE SavesLast
    BY <2>6, SavesLastKeeps
  <2>7. CASE Publishes
    BY <2>7, PublishesKeeps
  <2>8. CASE PlainPoll
    BY <2>8, RStutter DEF PlainPoll
  <2>. QED  BY <1>2, <2>1, <2>2, <2>3, <2>4, <2>5, <2>6, <2>7, <2>8 DEF Poll
<1>3. CASE \E v \in Values : PostAccept(v)
  BY <1>3, PostAcceptKeeps
<1>4. CASE AcceptLower
  BY <1>4, Refused, AcceptedKeeps
<1>5. CASE Stop \/ Crash
  BY <1>5, StopKeeps
<1>6. CASE UNCHANGED vars
  BY <1>6, RStutter
<1>. QED  BY <1>1, <1>2, <1>3, <1>4, <1>5, <1>6 DEF Next

LEMMA RHolds == Spec => []RInv
<1>1. RInv /\ [Next]_vars => RInv'
  BY RNext
<1>. QED  BY <1>1, RInit, PTL DEF Spec

LEMMA InvFollows == RInv => Inv
<1>. SUFFICES ASSUME RInv PROVE Inv
  OBVIOUS
<1>1. watch \in Watches /\ Gate(c) /\ Types
  BY DEF RInv, Types
<1>2. TypeOK
  <2>1. /\ c \in [has : BOOLEAN, last : Nat, run : 0..Need, jump : Nat,
                  jumpStep : Int, jumpPaced : BOOLEAN, prev : Nat,
                  prevOK : BOOLEAN, paces : Seq(Nat)]
        /\ Len(c.paces) = PaceKept
    <3>1. c \in GateType
      BY <1>1 DEF Gate
    <3>2. /\ c.last \in Nat /\ c.jump \in Nat /\ c.prev \in Nat
      <4>1. c.last \in Values /\ c.jump \in Values /\ c.prev \in Values
        BY <3>1 DEF GateType
      <4>. QED  BY <1>1, <4>1, Numbers
    <3>. QED  BY <1>1, <3>1, <3>2 DEF GateType, Gate
  <2>2. nums \in Seq(Nat) /\ Len(nums) <= Window
    <3>1. ASSUME NEW i \in 1..Len(nums) PROVE nums[i] \in Nat
      <4>1. nums[i] \in Values
        BY <1>1 DEF Types
      <4>. QED  BY <1>1, <4>1, Numbers
    <3>2. nums \in Seq(Values) /\ Len(nums) <= Window
      BY <1>1 DEF Types
    <3>. QED  BY <3>1, <3>2
  <2>. QED  BY <1>1, <2>1, <2>2 DEF RInv, Types, TypeOK, StatusType, RowWhole
<1>3. AlertSkipsWhatValueHolds
  BY <1>1, HoldsIsCheck DEF AlertSkipsWhatValueHolds
<1>4. RowFollows
  <2>1. SUFFICES ASSUME pc = "idle", row.accept = NoValue, pending.v = NoValue
                 PROVE  row.has = c.has /\ (c.has => row.last = c.last)
    BY DEF RowFollows
  <2>2. c.has \in BOOLEAN /\ row.has \in BOOLEAN /\ (c.has => c.last # NoValue)
    BY <1>1, Numbers DEF Types, Gate, GateType
  <2>3. c.has => savedLast = c.last /\ row.last = savedLast
    BY <2>1 DEF RInv, Saved, Up
  <2>4. ~c.has => ~row.has
    BY <2>1 DEF RInv, Saved, Up
  <2>. QED  BY <2>2, <2>3, <2>4 DEF RInv, RowWhole
<1>. QED  BY <1>2, <1>3, <1>4 DEF RInv, Inv, StoreKept

\* Between two polls the meter, its store and its alerts agree, whatever the
\* readings, accepts and restarts (trigger/counter.go, runner/meter.go).
THEOREM MeterAgrees == Spec => []Inv
BY RHolds, InvFollows, PTL

-----------------------------------------------------------------------------
(* Rises.                                                                  *)

\* The latest Need readings, oldest first.
LEMMA LatestReadings ==
    ASSUME Types, NEW rs \in Seq([v : Values, rise : Int]), Len(rs) >= Need
    PROVE  /\ Len(Latest(rs, Need)) = Need
           /\ \A i \in 1..Need : Latest(rs, Need)[i] = rs[Len(rs) - (Need - i)]
<1>1. Need \in Nat \ {0} /\ Len(rs) \in Nat
  <2>1. watch \in Watches
    BY DEF Types
  <2>2. Need \in Nat \ {0}
    BY <2>1, Sizes
  <2>. QED  BY <2>2
<1>. DEFINE n == Need
            E == [v : Values, rise : Int]
<1>. HIDE DEF n, E
<1>2. n \in Nat \ {0} /\ rs \in Seq(E) /\ Len(rs) >= n
  BY <1>1 DEF n, E
<1>3. /\ Len(Latest(rs, n)) = n
      /\ \A i \in 1..n : Latest(rs, n)[i] = rs[Len(rs) - n + i]
  BY ONLY <1>2, LatestIs
<1>4. \A i \in 1..n : Len(rs) - n + i = Len(rs) - (n - i)
  BY <1>1, <1>2
<1>. QED  BY <1>3, <1>4 DEF n

LEMMA RiseStep ==
    ASSUME RInv, [Next]_vars, RInv',
           pc = "read", value' # NoValue,
           c.has, watch.maxRise > 0, value' - c.last > watch.maxRise
    PROVE  /\ Len(recent') >= Need
           /\ \A r \in Range(Latest(recent', Need)) : r.rise > watch.maxRise
           /\ \A i \in 2..Need : LET r == Latest(recent', Need) IN
                 r[i].v >= r[i - 1].v - watch.maxRise
<1>1. value = NoValue
  BY DEF RInv, Shown, Up
<1>2. PICK v \in Values : Reads(v)
  BY <1>1 DEF Next, Start, StartPlain, StartCounter, Poll, TakeAccept, TakeSaved, TakeShown,
     ReadsNothing, SavesLast, Publishes, PlainPoll, PostAccept, AcceptLower, Stop, Crash, RunGone,
     vars
<1>3. Types /\ watch \in Watches /\ Gate(c) /\ Need \in Nat /\ Need >= 2
  BY Sizes DEF RInv, Types
<1>. DEFINE g == observe(c, v)
<1>4. /\ watch' = watch
      /\ c'.run = (IF c.has /\ Over(c, v) THEN RunAfter(c, v) ELSE 0)
      /\ check(g, value') = "none"
  BY <1>2, <1>3, Reading
<1>5. g.has = c.has /\ g.last = c.last /\ g.run = (IF Over(c, v) THEN RunAfter(c, v) ELSE 0)
  BY <1>3, Observes
<1>. HIDE DEF g
<1>6. Over(g, value')
  BY <1>5 DEF Over
<1>7. ~(g.run < Need)
  BY <1>4, <1>5, <1>6 DEF check
<1>8. RunAfter(c, v) \in 1..Need
  BY <1>3, RunCounts
<1>9. c'.run = Need /\ Need' = Need
  BY <1>3, <1>4, <1>5, <1>7, <1>8 DEF Need
<1>. DEFINE rs == recent'
            n == Len(rs)
<1>10. /\ n >= Need
       /\ \A i \in 0..Need - 1 : rs[n - i].rise > watch.maxRise
       /\ \A i \in 0..Need - 2 : rs[n - i].v >= rs[n - i - 1].v - watch.maxRise
  <2>1. Counted'
    BY DEF RInv, Judged
  <2>2. c'.run > 0 /\ Need - 1 = c'.run - 1 /\ Need - 2 = c'.run - 2
    BY <1>3, <1>9
  <2>. QED  BY <1>4, <1>9, <2>1, <2>2 DEF Counted
<1>11. rs \in Seq([v : Values, rise : Int]) /\ n \in Nat
  <2>1. Types /\ Judged
    BY DEF RInv
  <2>2. recent' \in Seq([v : Values, rise : Int])
    BY <1>2, <2>1, ReadingJudged
  <2>. QED  BY <2>2
<1>. DEFINE l == Latest(rs, Need)
<1>. HIDE DEF rs
<1>12. Len(l) = Need /\ \A i \in 1..Need : l[i] = rs[n - (Need - i)]
  BY <1>3, <1>10, <1>11, LatestReadings
<1>. HIDE DEF n
<1>13. ASSUME NEW i \in 1..Need PROVE l[i].rise > watch.maxRise
  <2>1. Need - i \in 0..Need - 1
    BY <1>3
  <2>. HIDE DEF l
  <2>. QED  BY <1>10, <1>12, <2>1
<1>14. ASSUME NEW i \in 2..Need PROVE l[i].v >= l[i - 1].v - watch.maxRise
  <2>. DEFINE j == Need - i
  <2>1. /\ j \in 0..Need - 2 /\ i \in 1..Need /\ i - 1 \in 1..Need
        /\ n - (Need - (i - 1)) = n - j - 1
    BY <1>3, <1>11 DEF n
  <2>2. l[i] = rs[n - j]
    BY <1>12, <2>1
  <2>. HIDE DEF l, j
  <2>3. l[i - 1] = rs[n - j - 1]
    BY <1>12, <2>1
  <2>. QED  BY <1>10, <2>1, <2>2, <2>3
<1>15. \A r \in Range(l) : r.rise > watch.maxRise
  <2>1. DOMAIN l = 1..Need
    <3>1. l \in Seq([v : Values, rise : Int])
      BY <1>3, <1>10, <1>11 DEF Latest, n
    <3>. HIDE DEF l
    <3>. QED  BY <1>12, <3>1
  <2>. HIDE DEF l
  <2>. QED  BY <1>13, <2>1 DEF Range
<1>. QED  BY <1>10, <1>14, <1>15 DEF rs, n

\* The median of readings that are all the same.
LEMMA MedianOfSame ==
    ASSUME NEW top \in Nat, NEW s \in Seq(0..top), NEW k \in Nat, Len(s) = 2 * k + 1,
           NEW x, \A i \in 1..Len(s) : s[i] = x
    PROVE  Median(s) = x
<1>1. PICK i \in 1..Len(s) : Median(s) = s[i]
  BY MedianRead
<1>. QED  BY <1>1

LEMMA SteadyStep ==
    ASSUME RInv, [Next]_vars, RInv',
           pc = "read", pc' = "save",
           LET r == Latest(recent', Need) IN
           /\ Len(r) = Need
           /\ \A i \in 1..Need : r[i].v = r[Need].v
           /\ r[Need].v >= c.last
    PROVE  c'.last = Latest(recent', Need)[Need].v /\ status'.held = "none"
<1>1. PICK v \in Values : Reads(v)
  BY DEF Next, Start, StartPlain, StartCounter, Poll, TakeAccept, TakeSaved, TakeShown,
     ReadsNothing, SavesLast, Publishes, PlainPoll, PostAccept, AcceptLower, Stop, Crash, RunGone,
     vars
<1>2. /\ Types /\ watch \in Watches /\ Gate(c) /\ Need \in Nat \ {0} /\ Need >= 2 /\ Need >= Window
      /\ Window \in Nat \ {0} /\ Window = 2 * (watch.confirm - 1) + 1 /\ watch.confirm - 1 \in Nat
      /\ Values = 0..watch.top /\ watch.top \in Nat /\ watch.maxRise \in Nat
  <2>1. Types /\ watch \in Watches /\ Gate(c)
    BY DEF RInv, Types
  <2>. QED  BY <2>1, Sizes
<1>. DEFINE rs == recent'
            n == Len(rs)
            l == Latest(rs, Need)
<1>3. rs \in Seq([v : Values, rise : Int]) /\ n \in Nat
  <2>1. Judged
    BY DEF RInv
  <2>2. recent' \in Seq([v : Values, rise : Int])
    BY <1>1, <1>2, <2>1, ReadingJudged
  <2>. QED  BY <2>2
<1>4. n >= Need
  <2>1. Len(l) = Need
    OBVIOUS
  <2>. HIDE DEF rs
  <2>. QED  BY <1>2, <1>3, <2>1 DEF Latest
<1>5. Len(l) = Need /\ \A i \in 1..Need : l[i] = rs[n - (Need - i)]
  <2>. HIDE DEF rs
  <2>. QED  BY <1>2, <1>3, <1>4, LatestReadings
<1>6. c.has
  <2>1. ~c.has => rs = <<>>
    BY <1>1 DEF Reads
  <2>. QED  BY <1>2, <1>4, <2>1
<1>. DEFINE x == rs[n].v
<1>7. l[Need].v = x
  <2>1. Need \in 1..Need /\ n - (Need - Need) = n
    BY <1>2, <1>3
  <2>. HIDE DEF l, n, rs
  <2>. QED  BY <1>5, <2>1
<1>8. x >= c.last
  <2>1. l[Need].v >= c.last
    OBVIOUS
  <2>. HIDE DEF l, n, rs
  <2>. QED  BY <1>7, <2>1
<1>9. ASSUME NEW i \in 0..Need - 1 PROVE rs[n - i].v = x
  <2>1. \A j \in 1..Need : l[j].v = l[Need].v
    OBVIOUS
  <2>2. Need - i \in 1..Need /\ Need - (Need - i) = i
    BY <1>2
  <2>. HIDE DEF l, n, rs
  <2>3. l[Need - i] = rs[n - i]
    BY <1>5, <2>2
  <2>. QED  BY <1>7, <2>1, <2>2, <2>3
<1>10. x \in Values /\ c.last \in Values /\ v \in Values /\ v = x
  <2>1. rs[n].v = v
    <3>1. recent'[Len(recent')].v = v
      BY <1>1, <1>2, <1>6, ReadingNoted
    <3>. QED  BY <3>1
  <2>2. c.last \in Values
    BY <1>2 DEF Gate, GateType
  <2>. QED  BY <2>1, <2>2
<1>10a. ASSUME NEW i \in 0..n - 1 PROVE rs[n - i].v - rs[n - i].rise <= c.last
  <2>1. /\ recent'[n].v = v /\ recent'[n].rise = v - c.last
        /\ n = (IF Len(recent) < RecentKept THEN Len(recent) + 1 ELSE RecentKept)
        /\ \A j \in 1..n - 1 : recent'[n - j] = recent[Len(recent) + 1 - j]
    BY <1>1, <1>2, <1>6, ReadingNoted
  <2>2. c.last \in Int /\ v \in Int /\ Len(recent) \in Nat /\ RecentKept \in Nat
    <3>1. recent \in Seq([v : Values, rise : Int])
      BY <1>2 DEF Types
    <3>2. c.last \in Int /\ v \in Int
      BY <1>2, <1>10, Numbers
    <3>. QED  BY <3>1, <3>2, KeptAssumption
  <2>3. \A j \in 1..Len(recent) : recent[j].v - recent[j].rise <= c.last
    BY DEF RInv, Judged
  <2>. HIDE DEF n
  <2>4. CASE i = 0
    <3>1. n - i = n
      BY <1>3, <2>4
    <3>2. v - (v - c.last) <= c.last
      BY <2>2
    <3>. QED  BY <2>1, <3>1, <3>2
  <2>5. CASE i # 0
    <3>1. i \in 1..n - 1 /\ Len(recent) + 1 - i \in 1..Len(recent)
      BY <1>3, <2>1, <2>2, <2>5
    <3>. QED  BY <2>1, <2>3, <3>1
  <2>. QED  BY <2>4, <2>5
<1>11. x \in Int /\ c.last \in Int /\ x # NoValue
  BY <1>2, <1>10, Numbers
<1>. DEFINE g == observe(c, v)
<1>12. /\ watch' = watch /\ nums' \in Seq(Values) /\ Len(nums') <= Window
       /\ c'.run = (IF Over(c, v) THEN RunAfter(c, v) ELSE 0)
       /\ value' # NoValue => c'.last = value' /\ status'.held = "none"
       /\ Len(nums') = Window =>
             /\ value' # NoValue <=> check(g, Median(nums')) = "none"
             /\ value' # NoValue => value' = Median(nums')
  BY <1>1, <1>2, <1>6, Reading
<1>13. g.has = c.has /\ g.last = c.last /\ g.run = (IF Over(c, v) THEN RunAfter(c, v) ELSE 0)
  BY <1>2, Observes
<1>. HIDE DEF g
<1>14. Need' = Need /\ Window' = Window
  BY <1>12 DEF Need, Window
<1>15. /\ \A i \in 0..n - 1 : i < Window => i < Len(nums') /\ nums'[Len(nums') - i] = rs[n - i].v
       /\ \A i \in 1..n : rs[i].v - rs[i].rise <= c'.last
       /\ \A k \in 1..n :
            /\ k <= Need /\ watch.maxRise > 0
            /\ \A i \in 0..k - 1 : rs[n - i].rise > watch.maxRise /\ rs[n - i].v = rs[n].v
            => c'.run >= k /\ c'.jump = rs[n].v
  BY <1>12, <1>14 DEF RInv, Judged, InWindow, SteadyCounted
<1>16. Len(nums') = Window /\ \A i \in 1..Window : nums'[i] = x
  <2>. DEFINE b == Len(nums')
  <2>1. b \in Nat
    BY <1>12
  <2>. HIDE DEF rs, n, x, b
  <2>2. Window - 1 \in 0..n - 1 /\ Window - 1 < Window
    BY <1>2, <1>3, <1>4
  <2>3. Window - 1 < b
    BY <1>15, <2>2 DEF b
  <2>4. b = Window
    BY <1>2, <1>12, <2>1, <2>3 DEF b
  <2>5. ASSUME NEW i \in 1..Window PROVE nums'[i] = x
    <3>1. /\ Window - i \in 0..n - 1 /\ Window - i < Window /\ Window - i \in 0..Need - 1
          /\ Window - (Window - i) = i
      <4>1. n >= Window /\ Need >= Window /\ n \in Nat /\ Window \in Nat /\ Need \in Nat
        BY <1>2, <1>3, <1>4
      <4>2. i \in 1..Window
        BY <2>5
      <4>. QED  BY ONLY <4>1, <4>2
    <3>2. nums'[b - (Window - i)] = rs[n - (Window - i)].v
      BY <1>15, <3>1 DEF b
    <3>3. nums'[i] = rs[n - (Window - i)].v
      BY <2>4, <3>1, <3>2
    <3>. QED  BY <1>9, <3>1, <3>3
  <2>. QED  BY <2>4, <2>5 DEF b
<1>17. Median(nums') = x
  <2>. DEFINE ns == nums'
              top == watch.top
              k == watch.confirm - 1
  <2>1. top \in Nat /\ ns \in Seq(0..top) /\ k \in Nat /\ Len(ns) = 2 * k + 1
        /\ \A i \in 1..Len(ns) : ns[i] = x
    BY <1>2, <1>12, <1>16
  <2>. HIDE DEF ns, top, k, x
  <2>2. Median(ns) = x
    BY ONLY <2>1, MedianOfSame
  <2>. QED  BY <2>2 DEF ns
<1>18. check(g, x) = "none"
  <2>1. CASE watch.maxRise > 0 /\ x - c.last > watch.maxRise
    <3>1. ASSUME NEW i \in 0..Need - 1
          PROVE  rs[n - i].rise > watch.maxRise /\ rs[n - i].v = rs[n].v
      <4>1. rs[n - i].v = x
        BY <1>9
      <4>2. n - i \in 1..n /\ i \in 0..n - 1
        <5>1. n >= Need /\ n \in Nat /\ Need \in Nat /\ i \in 0..Need - 1
          BY <1>2, <1>3, <1>4
        <5>. HIDE DEF n
        <5>. QED  BY ONLY <5>1
      <4>3. rs[n - i].v - rs[n - i].rise <= c.last
        BY <1>10a, <4>2
      <4>4. rs[n - i].rise \in Int
        <5>. DEFINE E == [v : Values, rise : Int]
        <5>1. rs \in Seq(E) /\ n - i \in 1..Len(rs)
          BY <1>3, <4>2
        <5>. HIDE DEF E, rs
        <5>2. rs[n - i] \in E
          BY <5>1
        <5>. QED  BY <5>2 DEF E
      <4>. HIDE DEF rs, n, x
      <4>5. rs[n - i].rise > watch.maxRise
        <5>1. watch.maxRise \in Int
          BY <1>2
        <5>. QED  BY ONLY <1>11, <2>1, <4>1, <4>3, <4>4, <5>1
      <4>. QED  BY <4>1, <4>5 DEF x
    <3>2. c'.run >= Need
      <4>1. Need \in 1..n
        BY <1>2, <1>3, <1>4
      <4>. HIDE DEF rs, n
      <4>. QED  BY <1>2, <1>15, <2>1, <3>1, <4>1
    <3>3. g.run = c'.run
      BY <1>12, <1>13
    <3>4. ~(g.run < Need) /\ ~(x < g.last)
      <4>1. c'.run \in Int
        <5>1. c'.run = 0 \/ c'.run = RunAfter(c, v)
          BY <1>12
        <5>. QED  BY <1>2, <1>10, <5>1, RunCounts
      <4>. HIDE DEF rs, n, x
      <4>. QED  BY <1>2, <1>8, <1>11, <1>13, <3>2, <3>3, <4>1
    <3>. QED  BY <3>4 DEF check
  <2>2. CASE ~(watch.maxRise > 0 /\ x - c.last > watch.maxRise)
    <3>1. ~Over(g, x)
      BY <1>13, <2>2 DEF Over
    <3>. QED  BY <1>8, <1>11, <1>13, <3>1 DEF check
  <2>. QED  BY <2>1, <2>2
<1>. QED  BY <1>7, <1>11, <1>12, <1>16, <1>17, <1>18

\* A rise over the limit gets through only when Need readings in a row rose
\* over it, none dropping back, and then it does: misreads that last less are
\* held back, and a real jump is not (counterGate.observe, check).
THEOREM RisesAreJudged == Spec => RisesJudged
<1>1. RInv /\ RInv' /\ [Next]_vars =>
        [/\ pc = "read" /\ value' # NoValue
         /\ c.has /\ watch.maxRise > 0 /\ value' - c.last > watch.maxRise
         => /\ Len(recent') >= Need
            /\ \A r \in Range(Latest(recent', Need)) : r.rise > watch.maxRise
            /\ \A i \in 2..Need : LET r == Latest(recent', Need) IN
                  r[i].v >= r[i - 1].v - watch.maxRise]_vars
  BY RiseStep
<1>2. RInv /\ RInv' /\ [Next]_vars =>
        [LET r == Latest(recent', Need) IN
         /\ pc = "read" /\ pc' = "save" /\ Len(r) = Need
         /\ \A i \in 1..Need : r[i].v = r[Need].v
         /\ r[Need].v >= c.last
         => c'.last = r[Need].v /\ status'.held = "none"]_vars
  BY SteadyStep
<1>3. Spec => JumpNeedsWindow
  BY <1>1, RHolds, PTL DEF Spec, JumpNeedsWindow
<1>4. Spec => SteadyGetsThrough
  BY <1>2, RHolds, PTL DEF Spec, SteadyGetsThrough
<1>. QED  BY <1>3, <1>4 DEF RisesJudged

-----------------------------------------------------------------------------
(* Accepts and drops.  What may still make the published value drop is     *)
(* backed by an accept of its own: m by the last value when Home Assistant *)
(* was told a higher one, t by the accept being taken, p by the one that   *)
(* waits, r by the row's, s by the row's last value.  One accept may back  *)
(* the run and the row; never two drops of one and the same future.        *)

Licences == [v : Nat, n : Nat]

Covers(a, v) == a \in licence /\ a.v <= v

\* A drop to the last value is still to come.
Owed == c.has /\ told > c.last
Taking == pc = "take" /\ ~took.drop
\* The row's last value is lower, and the run takes it to be saved.
Behind == row.has /\ c.has /\ savedLast = c.last /\ row.last < c.last

Backed(m, t, p, r, s) ==
    /\ Owed => /\ Covers(m, c.last)
               /\ pending.v # NoValue => m # p
               /\ row.accept # NoValue => m # r
               /\ Taking => m # t
    /\ Taking => /\ Covers(t, took.v)
                 /\ pending.v # NoValue => t # p
                 /\ row.accept \notin {NoValue, took.v} => r # t
    /\ pending.v # NoValue => /\ Covers(p, pending.v)
                              /\ row.accept \notin {NoValue, pending.v} => r # p
    /\ row.accept # NoValue => Covers(r, row.accept)
    /\ row.has /\ told > row.last =>
           Covers(s, row.last) /\ (row.accept # NoValue => s # r)
    /\ Behind => /\ Covers(s, row.last)
                 /\ row.accept # NoValue => s # r
                 /\ Owed => s # m
                 /\ pending.v # NoValue => s # p
                 /\ Taking => s # t
    /\ Up /\ ~c.has /\ row.has =>
           /\ Covers(s, row.last)
           /\ pc # "take" /\ pending.v \notin {NoValue, row.last} => s # p /\ s # r
           /\ pc = "take" /\ took.v # row.last =>
                  s # t /\ s # r /\ (pending.v # NoValue => s # p)

\* Accepts differ by their numbers.
Numbered == \A a \in licence : a.n <= accepts /\ (post # NoPost => a.n < accepts)

AllBacked == \E m, t, p, r, s \in Licences : Backed(m, t, p, r, s)

\* The drops to come, as long as the watch is not restarted, are to values
\* accepted since the display was last back up.
Fresh(v) == fresh # NoValue /\ fresh <= v

Freshness ==
    restarts = 0 =>
        /\ ~pending.restored /\ (post # NoPost => post.alive)
        /\ pc = "down" => row = NoRow
        /\ Owed => Fresh(c.last)
        /\ Taking => Fresh(took.v)
        /\ /\ pending.v # NoValue
           /\ ~c.has \/ status.held = "lower" \/ pc \in {"take", "taken", "read"}
           => Fresh(pending.v)

LEMMA MaybeInt ==
    ASSUME watch \in Watches, NEW x \in Maybe
    PROVE  x \in Int /\ x >= NoValue /\ NoValue = -1 /\ (x # NoValue => x \in Values /\ x \in Nat)
BY Numbers, Sizes DEF Maybe, NoValue

\* The numbers that are compared.
LEMMA Ints ==
    ASSUME Types
    PROVE  /\ c.last \in Nat /\ told \in Int /\ told >= -1 /\ row.last \in Int /\ row.last >= -1
           /\ row.accept \in Int /\ pending.v \in Int /\ took.v \in Int /\ savedLast \in Int
           /\ value \in Int /\ fresh \in Int /\ post.v \in Int /\ NoValue = -1
           /\ c.has \in BOOLEAN /\ \A a \in licence : a \in Licences /\ a.v \in Nat
<1>1. /\ watch \in Watches /\ c.last \in Values /\ c.has \in BOOLEAN /\ told \in Maybe /\ row.last \in Maybe
      /\ row.accept \in Maybe /\ pending.v \in Maybe /\ took.v \in Maybe /\ savedLast \in Maybe
      /\ value \in Maybe /\ fresh \in Maybe /\ post.v \in Maybe
      /\ licence \in SUBSET [v : Values, n : Nat]
  BY DEF Types, Gate, GateType
<1>2. c.last \in Nat
  BY <1>1, Numbers
<1>3. /\ told \in Int /\ told >= -1 /\ row.last \in Int /\ row.last >= -1
      /\ row.accept \in Int /\ pending.v \in Int /\ took.v \in Int /\ savedLast \in Int
      /\ value \in Int /\ fresh \in Int /\ post.v \in Int /\ NoValue = -1
  BY <1>1, MaybeInt
<1>4. ASSUME NEW a \in licence PROVE a \in Licences /\ a.v \in Nat
  <2>1. a \in [v : Values, n : Nat]
    BY <1>1
  <2>2. a = [v |-> a.v, n |-> a.n] /\ a.v \in Values /\ a.n \in Nat
    BY <2>1
  <2>3. a.v \in Nat
    BY <1>1, <2>2, Numbers
  <2>. QED  BY <2>2, <2>3 DEF Licences
<1>. QED  BY <1>1, <1>2, <1>3, <1>4

LEMMA BackedSame ==
    ASSUME NEW m, NEW t, NEW p, NEW r, NEW s, Backed(m, t, p, r, s),
           UNCHANGED <<told, licence, c, row, savedLast>>, pending'.v = pending.v,
           Up' <=> Up, pc' = "take" <=> pc = "take", pc = "take" => took' = took
    PROVE  Backed(m, t, p, r, s)'
BY DEF Backed, Covers, Owed, Taking, Behind

LEMMA StartsBacked ==
    ASSUME RInv, NEW m \in Licences, NEW t \in Licences, NEW p \in Licences,
           NEW r \in Licences, NEW s \in Licences, Backed(m, t, p, r, s),
           StartCounter
    PROVE  Backed(s, t, r, r, s)'
<1>1. watch \in Watches /\ ~NewGate.has
  BY NewGateIsGate DEF RInv, Types
<1>2. /\ pc' = "idle" /\ pending'.v = row.accept /\ savedLast' = row.last
      /\ UNCHANGED <<row, told, licence>>
      /\ c' = (IF row.has THEN RestoreCounter(NewGate, row.last) ELSE NewGate)
  BY DEF StartCounter
<1>3. (c'.has <=> row.has) /\ (row.has => c'.last = row.last)
  <2>1. row.has => row.last \in Values
    BY DEF RInv, Types, RowWhole, Maybe
  <2>2. row.has => LET h == RestoreCounter(NewGate, row.last) IN h.has /\ h.last = row.last
    BY <1>1, <2>1, NewGateIsGate, GateMoves
  <2>. QED  BY <1>1, <1>2, <2>2
<1>4. Owed' => row.has /\ told > row.last
  BY <1>2, <1>3 DEF Owed
<1>5. ~Taking'
  BY <1>2 DEF Taking
<1>6. ~Behind'
  <2>1. row.last \in Int
    BY Ints DEF RInv
  <2>. QED  BY <1>2, <1>3, <2>1 DEF Behind
<1>7. Owed' => Covers(s, c.last)'
  BY <1>2, <1>3, <1>4 DEF Backed, Covers
<1>. QED  BY <1>2, <1>3, <1>4, <1>5, <1>6, <1>7 DEF Backed, Covers

LEMMA TakeAcceptBacked ==
    ASSUME RInv, NEW m \in Licences, NEW t \in Licences, NEW p \in Licences,
           NEW r \in Licences, NEW s \in Licences, Backed(m, t, p, r, s),
           TakeAccept
    PROVE  Backed(m, p, p, r, s)'
<1>1. /\ pc = "idle" /\ pending'.v = NoValue /\ took'.v = pending.v
      /\ pc' = (IF pending.v = NoValue THEN "read" ELSE "take")
      /\ UNCHANGED <<c, savedLast, row, told, licence>>
  BY DEF TakeAccept, historyVars, NoPending
<1>2. (Owed' <=> Owed) /\ (Behind' <=> Behind) /\ Up' /\ Up
  BY <1>1 DEF Owed, Behind, Up
<1>3. Taking' => pending.v # NoValue
  BY <1>1 DEF Taking
<1>. QED  BY <1>1, <1>2, <1>3 DEF Backed, Covers

LEMMA TakeSavedBacked ==
    ASSUME RInv, NEW m \in Licences, NEW t \in Licences, NEW p \in Licences,
           NEW r \in Licences, NEW s \in Licences, Backed(m, t, p, r, s),
           TakeSaved
    PROVE  AllBacked'
<1>. DEFINE g == Taken(took.v)
<1>1. /\ took.v \in Values /\ g.has
      /\ g.last = (IF took.drop THEN c.last ELSE IF ~c.has THEN took.v
                   ELSE IF took.v < c.last THEN took.v ELSE c.last)
      /\ g.last \in Values
  BY TakenIs DEF TakeSaved
<1>. HIDE DEF g
<1>2. /\ pc = "take" /\ pc' = "taken" /\ c' = g
      /\ row' = (IF row.accept = took.v THEN [row EXCEPT !.last = g.last, !.accept = NoValue]
                 ELSE row)
      /\ savedLast' = g.last
      /\ UNCHANGED <<pending, told, licence>>
  BY DEF TakeSaved, RowTaken, g
<1>3. /\ row \in [has : BOOLEAN, last : Maybe, accept : Maybe] /\ row.has
      /\ Up /\ watch \in Watches
  BY <1>2 DEF RInv, Types, RowWhole, Up
<1>4. /\ row'.has /\ row'.last = (IF row.accept = took.v THEN g.last ELSE row.last)
      /\ row'.accept = (IF row.accept = took.v THEN NoValue ELSE row.accept)
  BY <1>1, <1>2, <1>3
<1>5. /\ c.last \in Nat /\ told \in Int /\ told >= -1 /\ row.last \in Int /\ took.v \in Int
      /\ took.v \in Nat /\ g.last \in Nat /\ NoValue = -1 /\ took.v # NoValue
  BY <1>1, <1>3, Ints, Numbers DEF RInv
<1>6. /\ ~c.has => told = NoValue
      /\ c.has => savedLast = c.last
      /\ took.drop => c.has /\ pending.v = NoValue
  BY <1>2, <1>3 DEF RInv, Saved, Shown
<1>7. ~Taking' /\ Up' /\ c'.has /\ (Owed' <=> told > g.last)
      /\ (Behind' <=> row'.last < g.last)
  BY <1>1, <1>2, <1>4 DEF Taking, Up, Owed, Behind
<1>8. CASE took.drop \/ (c.has /\ ~(took.v < c.last))
  <2>1. c.has /\ g.last = c.last
    BY <1>1, <1>6, <1>8
  <2>2. CASE row.accept = took.v
    <3>1. /\ Owed' <=> Owed
          /\ ~Behind' /\ row'.accept = NoValue /\ row'.last = c.last
      BY <1>2, <1>4, <1>5, <1>7, <2>1, <2>2 DEF Owed
    <3>2. Owed => Covers(m, c.last) /\ (pending.v # NoValue => m # p)
      BY DEF Backed
    <3>3. pending.v # NoValue => Covers(p, pending.v)
      BY DEF Backed
    <3>4. Backed(m, t, p, r, m)'
      BY <1>2, <1>4, <1>7, <2>1, <3>1, <3>2, <3>3 DEF Backed, Covers, Owed
    <3>. QED  BY <3>4 DEF AllBacked
  <2>3. CASE row.accept # took.v
    <3>1. row' = row /\ savedLast' = savedLast /\ c'.last = c.last
      BY <1>2, <1>6, <2>1, <2>3
    <3>2. (Owed' <=> Owed) /\ (Behind' <=> Behind)
      BY <1>2, <1>3, <1>6, <1>7, <2>1, <3>1 DEF Owed, Behind
    <3>3. Backed(m, t, p, r, s)'
      BY <1>2, <1>7, <2>1, <3>1, <3>2 DEF Backed, Covers
    <3>. QED  BY <3>3 DEF AllBacked
  <2>. QED  BY <2>2, <2>3
<1>9. CASE ~took.drop /\ ~c.has
  <2>1. g.last = took.v /\ Taking /\ told = NoValue
    BY <1>1, <1>2, <1>6, <1>9 DEF Taking
  <2>2. ~Owed'
    BY <1>5, <1>7, <2>1
  <2>3. ~(told > row'.last)
    <3>1. row'.last \in Int /\ row'.last >= -1
      <4>1. row.last >= -1
        BY Ints DEF RInv
      <4>. QED  BY <1>4, <1>5, <4>1
    <3>. QED  BY <1>5, <2>1, <3>1
  <2>4. Behind' => row.accept # took.v /\ row'.last = row.last /\ row.last # took.v
    BY <1>4, <1>5, <1>7, <2>1
  <2>5. took.v # row.last =>
            Covers(s, row.last) /\ s # t /\ s # r /\ (pending.v # NoValue => s # p)
    BY <1>2, <1>3, <1>9 DEF Backed
  <2>6. Behind' => Covers(s, row.last)' /\ s # t /\ s # r /\ (pending.v # NoValue => s # p)
    BY <1>2, <2>4, <2>5 DEF Covers
  <2>7. Backed(t, t, p, r, s)'
    BY <1>2, <1>4, <1>7, <2>2, <2>3, <2>6 DEF Backed, Covers
  <2>. QED  BY <2>7 DEF AllBacked
<1>10. CASE ~took.drop /\ c.has /\ took.v < c.last
  <2>1. g.last = took.v /\ Taking
    BY <1>1, <1>2, <1>10 DEF Taking
  <2>2. /\ Covers(t, took.v) /\ (pending.v # NoValue => t # p)
        /\ row.accept \notin {NoValue, took.v} => r # t
    BY <2>1 DEF Backed
  <2>3. CASE row.accept = took.v
    <3>1. ~Behind' /\ row'.accept = NoValue /\ row'.last = took.v
      BY <1>4, <1>5, <1>7, <2>1, <2>3
    <3>2. Backed(t, t, p, r, t)'
      BY <1>2, <1>4, <1>7, <2>1, <2>2, <3>1 DEF Backed, Covers
    <3>. QED  BY <3>2 DEF AllBacked
  <2>4. CASE row.accept # took.v
    <3>1. row' = row
      BY <1>2, <2>4
    <3>2. Behind' => Behind
      BY <1>3, <1>5, <1>6, <1>7, <1>10, <2>1, <3>1 DEF Behind
    <3>3. Behind => /\ Covers(s, row.last) /\ (row.accept # NoValue => s # r)
                    /\ (pending.v # NoValue => s # p) /\ s # t
      BY <2>1 DEF Backed
    <3>4. Backed(t, t, p, r, s)'
      BY <1>2, <1>7, <2>1, <2>2, <2>4, <3>1, <3>2, <3>3 DEF Backed, Covers
    <3>. QED  BY <3>4 DEF AllBacked
  <2>. QED  BY <2>3, <2>4
<1>. QED  BY <1>8, <1>9, <1>10

LEMMA ReadsBacked ==
    ASSUME RInv, NEW m \in Licences, NEW t \in Licences, NEW p \in Licences,
           NEW r \in Licences, NEW s \in Licences, Backed(m, t, p, r, s),
           NEW v \in Values, Reads(v)
    PROVE  Backed(m, t, p, r, s)'
<1>1. /\ pc = "read" /\ pc' = "save" /\ Gate(c') /\ watch' = watch
      /\ c.has => c'.has /\ c'.last >= c.last
      /\ value' = NoValue => c'.has = c.has /\ c'.last = c.last
      /\ value' # NoValue => c'.has
  BY Reading DEF RInv
<1>2. UNCHANGED <<pending, savedLast, row, told, licence>>
  BY DEF Reads
<1>3. /\ Up /\ Up' /\ ~Taking /\ ~Taking'
      /\ ~c.has => savedLast = NoValue /\ told = NoValue
      /\ c.has => savedLast = c.last
      /\ c.has \in BOOLEAN /\ c'.has \in BOOLEAN
  BY <1>1 DEF RInv, Types, Gate, GateType, Saved, Up, Taking
<1>4. c.last \in Nat /\ c'.last \in Nat /\ told \in Int /\ row.last \in Int /\ NoValue = -1
  <2>1. c'.last \in Values /\ watch \in Watches
    BY <1>1 DEF RInv, Types, Gate, GateType
  <2>. QED  BY <2>1, Ints, Numbers DEF RInv
<1>5. CASE c.has
  <2>1. (Owed' => Owed) /\ (Owed' => c.last <= c'.last)
    BY <1>1, <1>2, <1>4, <1>5 DEF Owed
  <2>2. Behind' => Behind
    BY <1>1, <1>2, <1>3, <1>5 DEF Behind
  <2>3. Owed' => Covers(m, c.last)'
    <3>1. Owed' => m \in licence /\ m.v <= c.last /\ m.v \in Nat
      BY <2>1 DEF Backed, Covers, Licences
    <3>. QED  BY <1>1, <1>2, <1>4, <1>5, <3>1 DEF Covers
  <2>. QED  BY <1>1, <1>2, <1>3, <1>5, <2>1, <2>2, <2>3 DEF Backed, Covers
<1>6. CASE ~c.has
  <2>1. ~Owed'
    BY <1>2, <1>3, <1>4, <1>6 DEF Owed
  <2>2. ~Behind'
    BY <1>2, <1>3, <1>4, <1>6 DEF Behind
  <2>. QED  BY <1>1, <1>2, <1>3, <1>6, <2>1, <2>2 DEF Backed, Covers
<1>. QED  BY <1>3, <1>5, <1>6

LEMMA SavesLastBacked ==
    ASSUME RInv, NEW m \in Licences, NEW t \in Licences, NEW p \in Licences,
           NEW r \in Licences, NEW s \in Licences, Backed(m, t, p, r, s),
           SavesLast
    PROVE  AllBacked'
<1>1. /\ pc = "save" /\ pc' = "publish"
      /\ UNCHANGED <<c, pending, took, told, licence>>
  BY DEF SavesLast, historyVars
<1>2. row \in [has : BOOLEAN, last : Maybe, accept : Maybe] /\ c.has \in BOOLEAN
  BY DEF RInv, Types, Gate, GateType
<1>3. Up /\ Up' /\ ~Taking /\ ~Taking'
  BY <1>1 DEF Up, Taking
<1>4. CASE c.has /\ c.last # savedLast
  <2>1. /\ row'.has /\ row'.last = c.last /\ row'.accept = row.accept
        /\ savedLast' = c.last
    BY <1>2, <1>4 DEF SavesLast
  <2>2. (Owed' <=> Owed) /\ (told' > row'.last <=> Owed)
    BY <1>1, <1>4, <2>1 DEF Owed
  <2>3. ~Behind'
    BY <1>1, <2>1, Ints DEF Behind, RInv
  <2>4. Backed(m, t, p, r, m)'
    BY <1>1, <1>3, <1>4, <2>1, <2>2, <2>3 DEF Backed, Covers
  <2>. QED  BY <2>4 DEF AllBacked
<1>5. CASE ~(c.has /\ c.last # savedLast)
  <2>1. UNCHANGED <<row, savedLast>>
    BY <1>5 DEF SavesLast
  <2>2. Backed(m, t, p, r, s)'
    BY <1>1, <1>3, <2>1, BackedSame
  <2>. QED  BY <2>2 DEF AllBacked
<1>. QED  BY <1>4, <1>5

\* A run that ends leaves the row, and what was published.
LEMMA GoneBacked ==
    ASSUME RInv, NEW m \in Licences, NEW t \in Licences, NEW p \in Licences,
           NEW r \in Licences, NEW s \in Licences, Backed(m, t, p, r, s),
           Stop \/ Crash
    PROVE  Backed(m, t, p, r, s)'
<1>1. /\ pc' = "down" /\ c' = NewGate /\ pending' = NoPending
      /\ UNCHANGED <<watch, row, told, licence>>
  BY DEF Stop, Crash, RunGone
<1>2. ~NewGate.has /\ NoPending.v = NoValue
  BY NewGateIsGate, Blanks DEF RInv, Types
<1>3. ~Owed' /\ ~Taking' /\ ~Behind' /\ ~Up'
  BY <1>1, <1>2 DEF Owed, Taking, Behind, Up
<1>. QED  BY <1>1, <1>2, <1>3 DEF Backed, Covers

LEMMA StartPlainBacked ==
    ASSUME RInv, NEW m \in Licences, NEW t \in Licences, NEW p \in Licences,
           NEW r \in Licences, NEW s \in Licences,
           StartPlain
    PROVE  Backed(m, t, p, r, s)'
<1>1. /\ pc' = "plain" /\ c' = NewGate /\ pending' = NoPending /\ row' = NoRow
      /\ watch' = watch /\ told' = NoValue
  BY DEF StartPlain
<1>2. /\ ~NewGate.has /\ NoPending.v = NoValue /\ ~NoRow.has /\ NoRow.accept = NoValue
  BY NewGateIsGate, Blanks DEF RInv, Types
<1>3. ~Owed' /\ ~Taking' /\ ~Behind' /\ ~Up'
  BY <1>1, <1>2 DEF Owed, Taking, Behind, Up
<1>. QED  BY <1>1, <1>2, <1>3 DEF Backed

LEMMA HighestIs ==
    ASSUME Types, NEW x \in Nat, Backing(x) # {}
    PROVE  Highest(Backing(x)) \in Backing(x) /\ \A b \in Backing(x) : b.v <= Highest(Backing(x)).v
<1>. DEFINE V == {b.v : b \in Backing(x)}
<1>1. \A b \in Backing(x) : b.v \in Nat /\ b.v <= x
  BY Ints DEF Backing
<1>2. V # {} /\ V \subseteq Nat /\ \A y \in V : y <= x
  BY <1>1
<1>3. \E y \in V : \A z \in V : z <= y
  <2>. HIDE DEF V
  <2>. QED  BY <1>2, HasHighest
<1>4. \E a \in Backing(x) : \A b \in Backing(x) : b.v <= a.v
  BY <1>3
<1>. HIDE DEF V
<1>. QED  BY <1>4 DEF Highest

\* A drop uses up the highest accept that allows it.  What that one was kept
\* for, the accept behind the drop can stand in for: it is no higher.
LEMMA PublishesBacked ==
    ASSUME RInv, NEW m \in Licences, NEW t \in Licences, NEW p \in Licences,
           NEW r \in Licences, NEW s \in Licences, Backed(m, t, p, r, s),
           Publishes
    PROVE  AllBacked'
<1>1. /\ pc = "publish" /\ pc' = "idle"
      /\ told' = (IF value # NoValue THEN value ELSE told)
      /\ licence' = (IF value # NoValue /\ value < told /\ Backing(value) # {}
                     THEN licence \ {Highest(Backing(value))} ELSE licence)
      /\ UNCHANGED <<watch, c, pending, savedLast, row, took>>
  BY DEF Publishes, runVars
<1>2. Up /\ Up' /\ ~Taking /\ ~Taking'
  BY <1>1 DEF Up, Taking
<1>3. /\ value # NoValue => c.has /\ c.last = value /\ savedLast = c.last
      /\ c.last \in Nat /\ value \in Int /\ told \in Int /\ row.last \in Int
  BY <1>1, <1>2, Ints DEF RInv, Shown, Saved
<1>4. Behind' <=> Behind
  BY <1>1 DEF Behind
<1>5. CASE value = NoValue
  <2>1. told' = told /\ licence' = licence
    BY <1>1, <1>5
  <2>2. Backed(m, t, p, r, s)'
    BY <1>1, <1>2, <2>1, BackedSame
  <2>. QED  BY <2>2 DEF AllBacked
<1>6. ASSUME value # NoValue
      PROVE  told' = value /\ ~Owed' /\ (row.has => (told' > row.last <=> Behind)) /\ c'.has
  BY <1>1, <1>3, <1>6 DEF Owed, Behind
<1>7. CASE value # NoValue /\ ~(value < told)
  <2>1. licence' = licence
    BY <1>1, <1>7
  <2>2. Backed(m, t, p, r, s)'
    BY <1>1, <1>2, <1>4, <1>6, <1>7, <2>1 DEF Backed, Covers
  <2>. QED  BY <2>2 DEF AllBacked
<1>8. CASE value # NoValue /\ value < told
  <2>1. Owed
    BY <1>3, <1>8 DEF Owed
  <2>2. /\ m \in licence /\ m.v <= value
        /\ pending.v # NoValue => m # p
        /\ row.accept # NoValue => m # r
    BY <1>3, <1>8, <2>1 DEF Backed, Covers
  <2>3. m \in Backing(value)
    BY <2>2 DEF Backing
  <2>. DEFINE e == Highest(Backing(value))
              X(a) == IF a = e THEN m ELSE a
  <2>4. e \in licence /\ m.v <= e.v
    <3>1. value \in Nat /\ Backing(value) # {} /\ Types
      BY <1>3, <1>8, <2>3 DEF RInv
    <3>. QED  BY <2>3, <3>1, HighestIs DEF Backing
  <2>5. licence' = licence \ {e}
    BY <1>1, <1>8, <2>3
  <2>. HIDE DEF e
  <2>6. X(p) \in Licences /\ X(r) \in Licences /\ X(s) \in Licences
    OBVIOUS
  <2>7. ASSUME NEW a \in Licences, NEW x \in Int, Covers(a, x), a # m
        PROVE  X(a) \in licence' /\ X(a).v <= x
    <3>1. a \in licence /\ a.v <= x /\ a.v \in Nat /\ m.v \in Nat
      BY <2>7 DEF Covers, Licences
    <3>2. CASE a = e
      BY <2>2, <2>4, <2>5, <2>7, <3>1, <3>2
    <3>3. CASE a # e
      BY <2>5, <3>1, <3>3
    <3>. QED  BY <3>2, <3>3
  <2>8. ASSUME NEW a \in Licences, NEW b \in Licences, a # b, a # m, b # m
        PROVE  X(a) # X(b)
    BY <2>8
  <2>9. row.accept \in Int /\ pending.v \in Int
    BY Ints DEF RInv
  <2>. DEFINE xp == X(p)  xr == X(r)  xs == X(s)
  <2>10. pending.v # NoValue =>
            /\ xp \in licence' /\ xp.v <= pending.v
            /\ row.accept \notin {NoValue, pending.v} => xr # xp
    <3>1. pending.v # NoValue => Covers(p, pending.v) /\ p # m
      BY <2>2 DEF Backed
    <3>2. pending.v # NoValue /\ row.accept \notin {NoValue, pending.v} => r # p /\ r # m
      BY <2>2 DEF Backed
    <3>. QED  BY <2>7, <2>8, <2>9, <3>1, <3>2
  <2>11. row.accept # NoValue => xr \in licence' /\ xr.v <= row.accept
    <3>1. row.accept # NoValue => Covers(r, row.accept) /\ r # m
      BY <2>2 DEF Backed
    <3>. QED  BY <2>7, <2>9, <3>1
  <2>12. Behind =>
            /\ xs \in licence' /\ xs.v <= row.last
            /\ row.accept # NoValue => xs # xr
            /\ pending.v # NoValue => xs # xp
    <3>1. Behind => Covers(s, row.last) /\ s # m
      BY <2>1 DEF Backed
    <3>2. Behind /\ row.accept # NoValue => s # r /\ r # m
      BY <2>2 DEF Backed
    <3>3. Behind /\ pending.v # NoValue => s # p /\ p # m
      BY <2>2 DEF Backed
    <3>. QED  BY <1>3, <2>7, <2>8, <3>1, <3>2, <3>3
  <2>13. xp \in Licences /\ xr \in Licences /\ xs \in Licences
    BY <2>6
  <2>. HIDE DEF xp, xr, xs, X
  <2>14. PICK pp \in Licences, rr \in Licences, ss \in Licences :
            /\ pending.v # NoValue =>
                 /\ pp \in licence' /\ pp.v <= pending.v
                 /\ row.accept \notin {NoValue, pending.v} => rr # pp
            /\ row.accept # NoValue => rr \in licence' /\ rr.v <= row.accept
            /\ Behind =>
                 /\ ss \in licence' /\ ss.v <= row.last
                 /\ row.accept # NoValue => ss # rr
                 /\ pending.v # NoValue => ss # pp
    BY <2>10, <2>11, <2>12, <2>13
  <2>15. Backed(m, t, pp, rr, ss)'
    BY <1>1, <1>2, <1>4, <1>6, <1>8, <2>14 DEF Backed, Covers
  <2>. QED  BY <2>15 DEF AllBacked
<1>. QED  BY <1>5, <1>7, <1>8

\* A new accept is another than those that back what there is already.
LEMMA AcceptedBacked ==
    ASSUME RInv, NEW m \in Licences, NEW t \in Licences, NEW p \in Licences,
           NEW r \in Licences, NEW s \in Licences, Backed(m, t, p, r, s),
           Numbered, AcceptLower, Acceptable(post.v)
    PROVE  AllBacked'
<1>1. /\ post # NoPost /\ post.v \in Values /\ post.v # NoValue
      /\ row'.has /\ row'.accept = post.v
      /\ row'.last = (IF row.has THEN row.last ELSE post.v)
      /\ licence' = licence \cup {[v |-> post.v, n |-> accepts]}
      /\ UNCHANGED <<watch, c, savedLast, pc, took, told>>
      /\ post.alive => pending'.v = post.v
      /\ ~post.alive => UNCHANGED pending
  BY Accepting
<1>2. watch \in Watches /\ accepts \in Nat /\ post.alive \in BOOLEAN
  BY DEF RInv, Types
<1>3. post.v \in Nat
  BY <1>1, <1>2, Numbers
<1>4. PICK e \in Licences : e = [v |-> post.v, n |-> accepts]
  BY <1>2, <1>3 DEF Licences
<1>5. e.v = post.v /\ e \notin licence /\ licence' = licence \cup {e}
  <2>1. e.v = post.v /\ e.n = accepts
    BY <1>4
  <2>2. \A a \in licence : a.n < accepts
    BY <1>1 DEF Numbered
  <2>3. e \notin licence
    BY <1>2, <2>1, <2>2
  <2>. QED  BY <1>1, <1>4, <2>1, <2>3
<1>6. (Owed' <=> Owed) /\ (Taking' <=> Taking) /\ (Up' <=> Up)
  BY <1>1 DEF Owed, Taking, Up
<1>7. /\ e \in licence' /\ e.v <= post.v
      /\ \A a \in Licences, x \in Int : Covers(a, x) => a # e /\ a \in licence'
  BY <1>1, <1>3, <1>5 DEF Covers
<1>8. PICK q \in Licences : q = IF post.alive THEN e ELSE p
  OBVIOUS
<1>9. PICK u \in Licences : u = IF row.has THEN s ELSE e
  OBVIOUS
<1>10. /\ c.last \in Int /\ took.v \in Int /\ row.last \in Int /\ row.accept \in Int
       /\ pending.v \in Int /\ told \in Int /\ NoValue = -1 /\ c.last >= 0
  BY Ints DEF RInv
<1>11. /\ Owed => m \in licence' /\ m.v <= c.last /\ m # e /\ (pending.v # NoValue => m # p)
       /\ Owed /\ Taking => m # t
       /\ Taking => t \in licence' /\ t.v <= took.v /\ t # e /\ (pending.v # NoValue => t # p)
       /\ pending.v # NoValue => p \in licence' /\ p.v <= pending.v /\ p # e
  BY <1>7, <1>10 DEF Backed, Covers
<1>12. CASE row.has
  <2>1. u = s /\ row'.last = row.last /\ (Behind' <=> Behind)
    BY <1>1, <1>9, <1>12 DEF Behind
  <2>2. /\ told > row.last => s \in licence' /\ s.v <= row.last /\ s # e
        /\ Behind => /\ s \in licence' /\ s.v <= row.last /\ s # e
                     /\ Owed => s # m
                     /\ pending.v # NoValue => s # p
                     /\ Taking => s # t
        /\ Up /\ ~c.has => /\ s \in licence' /\ s.v <= row.last /\ s # e
                           /\ pc # "take" /\ pending.v \notin {NoValue, row.last} => s # p
                           /\ pc = "take" /\ took.v # row.last =>
                                  s # t /\ (pending.v # NoValue => s # p)
    BY <1>7, <1>10, <1>12 DEF Backed, Covers
  <2>3. CASE post.alive
    <3>1. q = e /\ pending'.v = post.v
      BY <1>1, <1>8, <2>3
    <3>2. Backed(m, t, q, e, u)'
      BY <1>1, <1>5, <1>6, <1>7, <1>11, <1>12, <2>1, <2>2, <3>1 DEF Backed, Covers
    <3>. QED  BY <3>2 DEF AllBacked
  <2>4. CASE ~post.alive
    <3>1. q = p /\ pending' = pending
      BY <1>1, <1>8, <2>4
    <3>2. Backed(m, t, q, e, u)'
      BY <1>1, <1>5, <1>6, <1>7, <1>11, <1>12, <2>1, <2>2, <3>1 DEF Backed, Covers
    <3>. QED  BY <3>2 DEF AllBacked
  <2>. QED  BY <1>2, <2>3, <2>4
<1>13. CASE ~row.has
  <2>1. /\ told = NoValue /\ pending.v = NoValue /\ pc # "take"
        /\ Up => savedLast = NoValue
    BY <1>13 DEF RInv, RowWhole, Saved
  <2>2. ~Taking /\ row'.last = post.v /\ ~(told > post.v) /\ u = e
    BY <1>1, <1>3, <1>9, <1>10, <1>13, <2>1 DEF Taking
  <2>3. ~Owed
    BY <1>10, <2>1 DEF Owed
  <2>4. ~Behind'
    <3>1. c.has => Up
      <4>1. ~NewGate.has
        BY <1>2, NewGateIsGate
      <4>. QED  BY <4>1 DEF RInv, Ended
    <3>. QED  BY <1>1, <1>10, <2>1, <3>1 DEF Behind
  <2>5. pending'.v # NoValue => q = e /\ pending'.v = post.v
    BY <1>1, <1>2, <1>8, <2>1
  <2>6. Backed(m, t, q, e, u)'
    BY <1>1, <1>6, <1>7, <2>1, <2>2, <2>3, <2>4, <2>5 DEF Backed, Covers
  <2>. QED  BY <2>6 DEF AllBacked
<1>. QED  BY <1>12, <1>13

LEMMA BackedNext ==
    ASSUME RInv, Numbered, AllBacked, [Next]_vars
    PROVE  AllBacked'
<1>1. PICK m \in Licences, t \in Licences, p \in Licences, r \in Licences, s \in Licences :
          Backed(m, t, p, r, s)
  BY DEF AllBacked
<1>2. CASE StartPlain
  <2>1. Backed(m, t, p, r, s)'
    BY <1>2, StartPlainBacked
  <2>. QED  BY <2>1 DEF AllBacked
<1>3. CASE StartCounter
  <2>1. Backed(s, t, r, r, s)'
    BY <1>1, <1>3, StartsBacked
  <2>. QED  BY <2>1 DEF AllBacked
<1>4. CASE TakeAccept
  <2>1. Backed(m, p, p, r, s)'
    BY <1>1, <1>4, TakeAcceptBacked
  <2>. QED  BY <2>1 DEF AllBacked
<1>5. CASE TakeSaved
  BY <1>1, <1>5, TakeSavedBacked
<1>6. CASE TakeShown
  <2>1. /\ pc = "taken" /\ pc' = "read"
        /\ UNCHANGED <<told, licence, c, row, savedLast, pending>>
    BY <1>6 DEF TakeShown, historyVars
  <2>2. Backed(m, t, p, r, s)'
    BY <1>1, <2>1, BackedSame DEF Up
  <2>. QED  BY <2>2 DEF AllBacked
<1>7. CASE \E v \in Values : Reads(v)
  <2>1. Backed(m, t, p, r, s)'
    BY <1>1, <1>7, ReadsBacked
  <2>. QED  BY <2>1 DEF AllBacked
<1>8. CASE ReadsNothing
  <2>1. /\ pc = "read" /\ pc' = "idle"
        /\ UNCHANGED <<told, licence, c, row, savedLast, pending>>
    BY <1>8 DEF ReadsNothing, historyVars, runVars
  <2>2. Backed(m, t, p, r, s)'
    BY <1>1, <2>1, BackedSame DEF Up
  <2>. QED  BY <2>2 DEF AllBacked
<1>9. CASE SavesLast
  BY <1>1, <1>9, SavesLastBacked
<1>10. CASE Publishes
  BY <1>1, <1>10, PublishesBacked
<1>11. CASE \E v \in Values : PostAccept(v)
  <2>1. UNCHANGED <<told, licence, c, row, savedLast, pending, pc, took>>
    BY <1>11 DEF PostAccept, runVars
  <2>2. Backed(m, t, p, r, s)'
    BY <1>1, <2>1, BackedSame DEF Up
  <2>. QED  BY <2>2 DEF AllBacked
<1>12. CASE AcceptLower /\ Acceptable(post.v)
  BY <1>1, <1>12, AcceptedBacked
<1>13. CASE AcceptLower /\ ~Acceptable(post.v)
  <2>1. UNCHANGED <<told, licence, c, row, savedLast, pending, pc, took>>
    BY <1>13 DEF AcceptLower
  <2>2. Backed(m, t, p, r, s)'
    BY <1>1, <2>1, BackedSame DEF Up
  <2>. QED  BY <2>2 DEF AllBacked
<1>14. CASE Stop \/ Crash
  <2>1. Backed(m, t, p, r, s)'
    BY <1>1, <1>14, GoneBacked
  <2>. QED  BY <2>1 DEF AllBacked
<1>15. CASE UNCHANGED vars
  <2>1. UNCHANGED <<told, licence, c, row, savedLast, pending, pc, took>>
    BY <1>15 DEF vars, historyVars, runVars
  <2>2. Backed(m, t, p, r, s)'
    BY <1>1, <2>1, BackedSame DEF Up
  <2>. QED  BY <2>2 DEF AllBacked
<1>. QED  BY <1>2, <1>3, <1>4, <1>5, <1>6, <1>7, <1>8, <1>9, <1>10, <1>11, <1>12, <1>13,
             <1>14, <1>15 DEF Next, Start, Poll, PlainPoll

LEMMA NumberedNext ==
    ASSUME RInv, Numbered, [Next]_vars
    PROVE  Numbered'
<1>1. accepts \in Nat /\ \A a \in licence : a.n \in Nat
  BY DEF RInv, Types
<1>2. CASE AcceptLower
  <2>1. /\ post # NoPost /\ post' = NoPost /\ accepts' = accepts
        /\ licence' \subseteq licence \cup {[v |-> post.v, n |-> accepts]}
    BY <1>2 DEF AcceptLower
  <2>. QED  BY <1>1, <2>1 DEF Numbered
<1>3. CASE \E v \in Values : PostAccept(v)
  <2>1. accepts' = accepts + 1 /\ licence' = licence
    BY <1>3 DEF PostAccept
  <2>. QED  BY <1>1, <2>1 DEF Numbered
<1>4. CASE Stop \/ Crash
  <2>1. accepts' = accepts /\ licence' = licence /\ (post' # NoPost => post # NoPost)
    <3>1. post.alive => post # NoPost
      BY DEF RInv, Waits
    <3>. QED  BY <1>4, <3>1 DEF Stop, Crash, RunGone
  <2>. QED  BY <1>1, <2>1 DEF Numbered
<1>5. CASE Start \/ Poll \/ UNCHANGED vars
  <2>1. accepts' = accepts /\ licence' \subseteq licence /\ post' = post
    BY <1>5 DEF Start, StartPlain, StartCounter, Poll, TakeAccept, TakeSaved, TakeShown, Reads,
                ReadsNothing, SavesLast, Publishes, PlainPoll, vars, historyVars
  <2>. QED  BY <1>1, <2>1 DEF Numbered
<1>. QED  BY <1>2, <1>3, <1>4, <1>5 DEF Next

LEMMA FreshSame ==
    ASSUME Freshness,
           UNCHANGED <<fresh, told, c>>, status'.held = status.held, pending' = pending,
           restarts' = restarts, post' # NoPost => post'.alive \/ (post' = post),
           pc' # "down", pc' # "take" \/ (pc' = pc /\ took' = took),
           pc' \in {"taken", "read"} => pc \in {"take", "taken", "read"}
    PROVE  Freshness'
BY DEF Freshness, Owed, Taking, Fresh

LEMMA StartsFresh ==
    ASSUME RInv, Freshness, Start
    PROVE  Freshness'
<1>1. watch \in Watches /\ ~NewGate.has
  BY NewGateIsGate DEF RInv, Types
<1>2. pc = "down" /\ UNCHANGED <<post, restarts>> /\ pc' \in {"plain", "idle"}
  BY DEF Start, StartPlain, StartCounter
<1>3. ASSUME restarts = 0
      PROVE  c' = NewGate /\ pending'.v = NoValue /\ ~pending'.restored
  <2>1. row = NoRow
    BY <1>2, <1>3 DEF Freshness
  <2>. QED  BY <1>1, <2>1, Blanks DEF Start, StartPlain, StartCounter
<1>. QED  BY <1>1, <1>2, <1>3 DEF Freshness, Owed, Taking

LEMMA TakesFresh ==
    ASSUME RInv, Freshness, TakeAccept \/ TakeSaved
    PROVE  Freshness'
<1>1. watch \in Watches
  BY DEF RInv, Types
<1>2. CASE TakeAccept
  <2>1. /\ pc = "idle" /\ pc' \in {"read", "take"} /\ pending' = NoPending
        /\ took'.v = pending.v
        /\ pc' = "take" => pending.v # NoValue
        /\ took'.drop = (/\ pending.v # NoValue /\ c.has
                         /\ status.held # "lower" /\ ~pending.restored)
        /\ UNCHANGED <<c, fresh, told, post, restarts>>
    BY <1>2 DEF TakeAccept, historyVars
  <2>2. restarts = 0 /\ Taking' => Fresh(took.v)'
    BY <2>1 DEF Taking, Freshness, Fresh
  <2>3. (Owed' <=> Owed) /\ (Owed => (Fresh(c.last) <=> Fresh(c.last)'))
    BY <2>1 DEF Owed, Fresh
  <2>. QED  BY <1>1, <2>1, <2>2, <2>3, Blanks DEF Freshness
<1>3. CASE TakeSaved
  <2>. DEFINE g == Taken(took.v)
  <2>1. /\ took.v \in Values /\ g.has
        /\ g.last = (IF took.drop THEN c.last ELSE IF ~c.has THEN took.v
                     ELSE IF took.v < c.last THEN took.v ELSE c.last)
    BY <1>3, TakenIs DEF TakeSaved
  <2>2. /\ pc = "take" /\ pc' = "taken" /\ c' = g
        /\ UNCHANGED <<fresh, told, pending, post, restarts>>
    BY <1>3 DEF TakeSaved, g
  <2>. HIDE DEF g
  <2>3. ~c.has => told = NoValue
    BY <2>2 DEF RInv, Saved, Up
  <2>4. took.drop => c.has
    BY <2>2 DEF RInv, Shown, Up
  <2>5. /\ took.v \in Int /\ c.last \in Int /\ told \in Int /\ NoValue = -1
        /\ took.v >= 0 /\ c.has \in BOOLEAN
    BY <1>1, <2>1, Ints, Numbers DEF RInv
  <2>6. Owed' => \/ c.has /\ g.last = c.last /\ Owed
                 \/ c.has /\ g.last = took.v /\ Taking
    BY <2>1, <2>2, <2>3, <2>4, <2>5 DEF Owed, Taking
  <2>7. restarts = 0 /\ Owed' => Fresh(c.last)'
    BY <2>2, <2>6 DEF Freshness, Fresh
  <2>. QED  BY <2>2, <2>7 DEF Freshness, Taking, Fresh
<1>. QED  BY <1>2, <1>3

LEMMA ReadsFresh ==
    ASSUME RInv, Freshness, NEW v \in Values, Reads(v)
    PROVE  Freshness'
<1>1. /\ pc = "read" /\ pc' = "save" /\ Gate(c') /\ watch' = watch
      /\ c.has => c'.has /\ c'.last >= c.last
  BY Reading DEF RInv
<1>2. UNCHANGED <<pending, fresh, told, post, restarts>>
  BY DEF Reads
<1>3. ~c.has => told = NoValue
  BY <1>1 DEF RInv, Saved, Up
<1>4. c.last \in Nat /\ c'.last \in Nat /\ told \in Int /\ fresh \in Int /\ NoValue = -1
  <2>1. c'.last \in Values /\ watch \in Watches
    BY <1>1 DEF RInv, Types, Gate, GateType
  <2>. QED  BY <2>1, Ints, Numbers DEF RInv
<1>5. Owed' => Owed /\ c.last <= c'.last
  BY <1>1, <1>2, <1>3, <1>4 DEF Owed
<1>6. restarts = 0 /\ Owed' => Fresh(c.last)'
  <2>1. restarts = 0 /\ Owed' => Fresh(c.last)
    BY <1>5 DEF Freshness
  <2>. QED  BY <1>2, <1>4, <1>5, <2>1 DEF Fresh
<1>. QED  BY <1>1, <1>2, <1>6 DEF Freshness, Taking, Fresh

LEMMA PublishesFresh ==
    ASSUME RInv, Freshness, Publishes
    PROVE  Freshness'
<1>1. /\ pc = "publish" /\ pc' = "idle"
      /\ told' = (IF value # NoValue THEN value ELSE told)
      /\ fresh' = (IF value # NoValue /\ value >= told THEN NoValue ELSE fresh)
      /\ UNCHANGED <<c, status, pending, took, post, restarts>>
  BY DEF Publishes, runVars
<1>2. value # NoValue => c.has /\ c.last = value /\ status.held = "none" /\ value \in Int
  BY <1>1, Ints DEF RInv, Shown, Up
<1>3. CASE value = NoValue
  BY <1>1, <1>3, FreshSame
<1>4. CASE value # NoValue
  <2>1. ~Owed' /\ ~Taking'
    BY <1>1, <1>2, <1>4 DEF Owed, Taking
  <2>. QED  BY <1>1, <1>2, <1>4, <2>1 DEF Freshness
<1>. QED  BY <1>3, <1>4

LEMMA AcceptedFresh ==
    ASSUME RInv, Freshness, AcceptLower, Acceptable(post.v)
    PROVE  Freshness'
<1>1. /\ post # NoPost /\ post' = NoPost /\ post.v \in Values /\ post.v # NoValue
      /\ fresh' = (IF fresh = NoValue \/ post.v < fresh THEN post.v ELSE fresh)
      /\ UNCHANGED <<c, pc, took, told, restarts>>
      /\ post.alive => pending'.v = post.v /\ ~pending'.restored
      /\ post.alive => Up
  BY Accepting
<1>2. restarts = 0 => post.alive
  BY <1>1 DEF Freshness
<1>3. /\ post.v \in Int /\ fresh \in Int /\ c.last \in Int /\ took.v \in Int
  BY Ints DEF RInv
<1>4. /\ fresh' # NoValue /\ fresh' <= post.v
      /\ \A x \in Int : Fresh(x) => fresh' <= x
  BY <1>1, <1>3 DEF Fresh
<1>5. (Owed' <=> Owed) /\ (Taking' <=> Taking)
  BY <1>1 DEF Owed, Taking
<1>6. restarts = 0 => /\ Owed => fresh' <= c.last
                      /\ Taking => fresh' <= took.v
  BY <1>3, <1>4 DEF Freshness
<1>. QED  BY <1>1, <1>2, <1>4, <1>5, <1>6 DEF Freshness, Fresh, Up

LEMMA FreshNext ==
    ASSUME RInv, Freshness, [Next]_vars
    PROVE  Freshness'
<1>1. CASE Start
  BY <1>1, StartsFresh
<1>2. CASE Poll
  <2>1. CASE TakeAccept \/ TakeSaved
    BY <2>1, TakesFresh
  <2>2. CASE TakeShown
    <3>1. /\ pc = "taken" /\ pc' = "read" /\ status'.held \in {"none", status.held}
          /\ UNCHANGED <<fresh, told, c, pending, restarts, post>>
      <4>1. status \in StatusType
        BY DEF RInv, Types
      <4>. QED  BY <2>2, <4>1 DEF TakeShown, historyVars, StatusType
    <3>. QED  BY <3>1 DEF Freshness, Owed, Taking, Fresh
  <2>3. CASE \E v \in Values : Reads(v)
    BY <2>3, ReadsFresh
  <2>4. CASE ReadsNothing
    <3>1. /\ pc = "read" /\ pc' = "idle"
          /\ UNCHANGED <<fresh, told, c, status, pending, restarts, post>>
      BY <2>4 DEF ReadsNothing, historyVars, runVars
    <3>. QED  BY <3>1, FreshSame
  <2>5. CASE SavesLast
    <3>1. /\ pc = "save" /\ pc' = "publish"
          /\ UNCHANGED <<fresh, told, c, status, pending, restarts, post>>
      BY <2>5 DEF SavesLast, historyVars
    <3>. QED  BY <3>1, FreshSame
  <2>6. CASE Publishes
    BY <2>6, PublishesFresh
  <2>7. CASE PlainPoll
    BY <2>7 DEF PlainPoll, vars, runVars, historyVars, Freshness, Owed, Taking, Fresh
  <2>. QED  BY <1>2, <2>1, <2>2, <2>3, <2>4, <2>5, <2>6, <2>7 DEF Poll
<1>3. CASE \E v \in Values : PostAccept(v)
  <2>1. /\ post'.alive /\ pc # "down"
        /\ UNCHANGED <<fresh, told, c, status, pending, restarts, pc, took>>
    BY <1>3 DEF PostAccept, runVars
  <2>. QED  BY <2>1, FreshSame
<1>4. CASE AcceptLower /\ Acceptable(post.v)
  BY <1>4, AcceptedFresh
<1>5. CASE AcceptLower /\ ~Acceptable(post.v)
  <2>1. /\ post' = NoPost
        /\ UNCHANGED <<fresh, told, c, status, pending, restarts, pc, took, row>>
    BY <1>5 DEF AcceptLower
  <2>. QED  BY <2>1 DEF Freshness, Owed, Taking, Fresh
<1>6. CASE Stop \/ Crash
  <2>1. restarts' = restarts + 1 /\ restarts \in Nat
    BY <1>6 DEF Stop, Crash, RunGone, RInv, Types
  <2>2. restarts' # 0
    BY <2>1
  <2>. QED  BY <2>2 DEF Freshness
<1>7. CASE UNCHANGED vars
  BY <1>7 DEF vars, runVars, historyVars, Freshness, Owed, Taking, Fresh
<1>. QED  BY <1>1, <1>2, <1>3, <1>4, <1>5, <1>6, <1>7 DEF Next

-----------------------------------------------------------------------------
LInv == RInv /\ Numbered /\ AllBacked /\ Freshness

LEMMA LInit == Init => LInv
<1>. SUFFICES ASSUME Init PROVE LInv
  OBVIOUS
<1>1. RInv
  BY RInit
<1>2. /\ c = NewGate /\ row = NoRow /\ pending = NoPending /\ pc = "down" /\ licence = {}
      /\ post = NoPost /\ told = NoValue /\ restarts = 0
  BY DEF Init
<1>3. ~NewGate.has /\ ~NoRow.has /\ NoRow.accept = NoValue /\ NoPending.v = NoValue
      /\ ~NoPending.restored
  BY <1>1, NewGateIsGate, Blanks DEF RInv, Types
<1>4. ~Owed /\ ~Taking /\ ~Behind /\ ~Up
  BY <1>2, <1>3 DEF Owed, Taking, Behind, Up
<1>5. Numbered
  BY <1>2 DEF Numbered
<1>6. Freshness
  BY <1>2, <1>3, <1>4 DEF Freshness
<1>7. AllBacked
  <2>1. PICK a \in Licences : TRUE
    <3>1. [v |-> 0, n |-> 0] \in Licences
      BY DEF Licences
    <3>. QED  BY <3>1
  <2>2. Backed(a, a, a, a, a)
    BY <1>2, <1>3, <1>4 DEF Backed
  <2>. QED  BY <2>2 DEF AllBacked
<1>. QED  BY <1>1, <1>5, <1>6, <1>7 DEF LInv

LEMMA LHolds == Spec => []LInv
<1>1. LInv /\ [Next]_vars => LInv'
  BY RNext, NumberedNext, BackedNext, FreshNext DEF LInv
<1>. QED  BY <1>1, LInit, PTL DEF Spec

\* Only publishing moves what Home Assistant was told; a drop was owed.
LEMMA DropStep ==
    ASSUME LInv, [Next]_vars, told # NoValue, told' # NoValue, told' < told
    PROVE  /\ Backing(told') # {}
           /\ restarts = 0 => fresh # NoValue /\ fresh <= told'
<1>0. told' # told
  <2>1. told \in Int
    BY Ints DEF LInv, RInv
  <2>. QED  BY <2>1
<1>1. Publishes /\ value # NoValue /\ told' = value
  <2>1. ~(Start \/ PlainPoll \/ Stop \/ Crash \/ UNCHANGED vars)
    BY <1>0 DEF Start, StartPlain, StartCounter, PlainPoll, Stop, Crash, RunGone, vars, historyVars
  <2>2. ~(TakeAccept \/ TakeSaved \/ TakeShown \/ ReadsNothing \/ SavesLast \/ AcceptLower)
    BY <1>0 DEF TakeAccept, TakeSaved, TakeShown, ReadsNothing, SavesLast, AcceptLower, historyVars
  <2>3. \A v \in Values : ~Reads(v) /\ ~PostAccept(v)
    BY <1>0 DEF Reads, PostAccept
  <2>4. Publishes
    BY <2>1, <2>2, <2>3 DEF Next, Poll
  <2>. QED  BY <1>0, <2>4 DEF Publishes
<1>2. c.has /\ c.last = value
  BY <1>1 DEF LInv, RInv, Shown, Up, Publishes
<1>3. c.last \in Int /\ told \in Int
  BY Ints DEF LInv, RInv
<1>4. Owed
  BY <1>1, <1>2, <1>3 DEF Owed
<1>5. \E a \in licence : a.v <= value
  BY <1>2, <1>4 DEF LInv, AllBacked, Backed, Covers
<1>6. restarts = 0 => fresh # NoValue /\ fresh <= value
  BY <1>2, <1>4 DEF LInv, Freshness, Fresh
<1>7. told' = value /\ Backing(value) # {}
  BY <1>1, <1>5 DEF Backing
<1>. QED  BY <1>6, <1>7

\* Home Assistant never sees the counter drop but to a value no lower than
\* one a person accepted, each accept standing for one drop, whatever the
\* readings, the moments of the accepts, the stops and the crashes; and while
\* the run is not restarted, only for an accept made since the display was last
\* back up (runner/meter.go takeAccept, AcceptLower).
THEOREM DropsAreBacked == Spec => DropBacked
<1>1. LInv /\ LInv' /\ [Next]_vars =>
        [told # NoValue /\ told' # NoValue /\ told' < told
         => /\ Backing(told') # {}
            /\ restarts = 0 => fresh # NoValue /\ fresh <= told']_vars
  BY DropStep
<1>. QED  BY <1>1, LHolds, PTL DEF Spec, DropBacked
=============================================================================
