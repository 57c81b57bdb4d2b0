----------------------------- MODULE ConfigFile -----------------------------
(***************************************************************************)
(* config.yaml: the one file that is written by the program and by hand.   *)
(* A save from the web page merges the running configuration into what the *)
(* file says (internal/config/merge.go, config.go), so that comments, keys *)
(* the program does not know and a person's templates survive: a watch may *)
(* leave a key out, take it from another through a merge key               *)
(* ("<<: *name"), or point at another's block with an alias.               *)
(*                                                                         *)
(* The file is its watches in order; the keys of a watch's trigger stand   *)
(* with those of the watch, but no merge key supplies them. Layout         *)
(* (indent, quoting, line ends, blank lines, where on its line a comment   *)
(* sits) is left out. A reference is the name of the watch it points at,   *)
(* or Shared, a block of defaults above the list.                          *)
(***************************************************************************)
EXTENDS Naturals, Sequences, FiniteSets

CONSTANTS Names,      \* names of watches
          Shared,     \* the template above the list ("x-defaults: &defaults")
          None,
          Known,      \* the keys Load reads
          Foreign,    \* a key it does not
          Block,      \* the key that holds a mapping, which an alias may stand for
          Inner,      \* keys of the trigger, a mapping each watch here writes for itself
          Omitted,    \* the keys left out of what is encoded when zero (omitempty)
          Default,    \* what Validate makes of a zero
          Values,
          Notes,      \* comments parked above a watch or under the last one
          HandFiles,  \* what a person may have written before the program first runs
          HandEdits,  \* and may make of it later
          MaxSaves, MaxHands   \* bounds: saves, and edits by hand

ASSUME ConfigFileAssumption ==
  /\ None \notin Names \cup {Shared} /\ Shared \notin Names
  /\ Foreign \notin Known /\ Block \in Omitted /\ Omitted \subseteq Known /\ Inner \subseteq Known \ {Block}
  /\ 0 \in Values /\ Values \subseteq Nat
  /\ Default \in [Known -> Values] /\ \A k \in Omitted : Default[k] = 0
  /\ MaxSaves \in Nat /\ MaxHands \in Nat

Keys == Known \cup {Foreign}

VARIABLES disk,     \* the file
          mem,      \* the configuration that runs: watches in order
          pc,       \* "down", "idle", or "writes": between reading the file and writing it
          next,     \* the configuration being saved
          out,      \* what the save will write
          failed,   \* how the last save failed: "no", "unreadable", "readback", "write"
          edited,   \* the file was changed by hand since it was last read or saved
          saves, hands

vars == <<disk, mem, pc, next, out, failed, edited, saves, hands>>

(***************************************************************************)
(* What a file can say.                                                    *)
(***************************************************************************)
Absent   == [is |-> "absent", v |-> 0, of |-> None]
Says(v)  == [is |-> "value", v |-> v, of |-> None]
Alias(n) == [is |-> "alias", v |-> 0, of |-> n]
Forms    == {Absent} \cup {Says(v) : v \in Values} \cup {Alias(n) : n \in Names \cup {Shared}}
Spelled(f) == f.is # "absent"

\* A watch in the file. head: comments parked above it; foot: those under
\* it at the end of the list; whole: not left half-written by hand.
Items == [name : Names, own : [Keys -> Forms], from : Names \cup {Shared, None},
          head : SUBSET Notes, foot : SUBSET Notes, whole : BOOLEAN]

Missing   == [kind |-> "missing", shared |-> [k \in Keys |-> Absent], items |-> <<>>, foot |-> {}]
Broken    == [Missing EXCEPT !.kind = "broken"]
FreshFile == [Missing EXCEPT !.kind = "doc"]

\* A configuration: watches in order, each with a value for every key.
Watch(n, val) == [name |-> n, val |-> val]
Watches == [name : Names, val : [Known -> Values]]
NamesIn(list) == {list[i].name : i \in 1..Len(list)}
FirstOf(list, n) == CHOOSE i \in 1..Len(list) : list[i].name = n /\ \A j \in 1..(i - 1) : list[j].name # n
ItemOf(list, n) == list[FirstOf(list, n)]

(***************************************************************************)
(* The mappings of a file by name. block: what its anchored block says, to *)
(* whoever points at it; anchor: that block is still in the file.          *)
(***************************************************************************)
Node(own, from) == [own |-> own, from |-> from, block |-> own[Block].v, anchor |-> own[Block].is = "value"]
Nodes(doc) ==
  [n \in NamesIn(doc.items) \cup {Shared} |->
     IF n = Shared THEN Node(doc.shared, None)
     ELSE Node(ItemOf(doc.items, n).own, ItemOf(doc.items, n).from)]

dealias(nodes, form) == IF form.is = "alias" THEN Says(nodes[form.of].block) ELSE form

\* What a mapping reads through its merge key for a key: the first mapping
\* up the chain that spells it out.
inherited(nodes, n, k) ==
  LET From[x \in DOMAIN nodes \cup {None}] ==
        IF x = None \/ k \in Inner THEN Absent
        ELSE IF Spelled(nodes[x].own[k]) THEN dealias(nodes, nodes[x].own[k])
        ELSE From[nodes[x].from]
  IN  From[nodes[n].from]

\* withDefaults: a zero reads as Validate's default.
withDefaults(k, v) == IF v = 0 THEN Default[k] ELSE v

ReadsAs(nodes, n, k) ==
  LET own == nodes[n].own[k]
  IN  withDefaults(k, (IF Spelled(own) THEN dealias(nodes, own) ELSE inherited(nodes, n, k)).v)

Reads(doc) ==
  LET nodes == Nodes(doc)
  IN  [i \in 1..Len(doc.items) |->
         Watch(doc.items[i].name, [k \in Known |-> ReadsAs(nodes, doc.items[i].name, k)])]

\* A file parses when every reference has its anchor earlier in it.
Ahead(doc, i) == {Shared} \cup {doc.items[j].name : j \in 1..(i - 1)}
Parses(doc) ==
  LET nodes == Nodes(doc) IN
  /\ doc.kind = "doc"
  /\ \A i \in 1..Len(doc.items) :
       /\ doc.items[i].from \in Ahead(doc, i) \cup {None}
       /\ \A k \in Keys : LET f == doc.items[i].own[k]
                          IN  f.is = "alias" => f.of \in Ahead(doc, i) /\ nodes[f.of].anchor

Validate(doc) ==
  /\ Cardinality(NamesIn(doc.items)) = Len(doc.items)
  /\ \A i \in 1..Len(doc.items) : doc.items[i].whole
Load(doc) == Parses(doc) /\ Validate(doc)

(***************************************************************************)
(* The merge of a configuration into the mappings of the file.             *)
(***************************************************************************)
isZero(v) == v = 0
readsSame(k, v, w) == withDefaults(k, v) = withDefaults(k, w)
absentEquivalent(k, w) == w \in {0, Default[k]}
Encoded(k, w) == k \notin Omitted \/ ~isZero(w)
clears(k, v, w) == k # Block /\ isZero(w) /\ ~readsSame(k, v, w)

\* A new watch leaves out what Load fills in the same way.
prune(k, w) == IF absentEquivalent(k, w) THEN Absent ELSE Says(w)

\* A key the watch spells out. An alias is settled in fix. (shadows is never
\* true of such a key: what is inherited leaves out what is spelled out.)
mergeScalar(k, form, w) ==
  IF ~Encoded(k, w) \/ clears(k, form.v, w) THEN Absent
  ELSE IF form.is = "alias" \/ readsSame(k, form.v, w) THEN form
  ELSE Says(w)

\* A key it leaves out, given what its merge key supplies.
mergeAbsent(k, given, w) ==
  IF ~Spelled(given) THEN prune(k, w)
  ELSE IF IF Encoded(k, w) THEN readsSame(k, given.v, w) ELSE isZero(given.v) THEN Absent
  ELSE Says(w)

mergeMapping(nodes, n, val) ==
  LET Becomes(k) == LET form == nodes[n].own[k] IN
        IF k = Foreign THEN form
        ELSE IF Spelled(form) THEN mergeScalar(k, form, val[k])
        ELSE mergeAbsent(k, inherited(nodes, n, k), val[k])
      stays == nodes[n].anchor /\ Spelled(Becomes(Block))
  IN  [nodes[n] EXCEPT !.own = [k \in Keys |-> Becomes(k)],
                       !.anchor = stays,
                       !.block = IF stays THEN Becomes(Block).v ELSE @]

\* mergeWatches: a watch of the file goes with the one of cfg of its name;
\* one that cfg no longer has takes its anchor with it.
mergeWatches(doc, cfg) ==
  LET nodes == Nodes(doc)
  IN  [n \in DOMAIN nodes |->
         IF n \in NamesIn(cfg) THEN mergeMapping(nodes, n, ItemOf(cfg, n).val)
         ELSE IF n = Shared THEN nodes[n] ELSE [nodes[n] EXCEPT !.anchor = FALSE]]

(***************************************************************************)
(* fix settles, from the top of the file down, what could only be decided  *)
(* once every watch was merged. seen: the anchors passed.                  *)
(***************************************************************************)
\* What a merge-keyed mapping inherits now, written out where that is not
\* what cfg says: the mapping it comes from may have been edited as well.
settleInherited(nodes, n, val) ==
  [nodes[n] EXCEPT !.own = [k \in Keys |->
     IF k = Foreign \/ Spelled(nodes[n].own[k]) \/ ~Spelled(inherited(nodes, n, k)) THEN nodes[n].own[k]
     ELSE mergeAbsent(k, inherited(nodes, n, k), val[k])]]

anchorsAhead(from, seen) == from \in seen \cup {None}

\* The merge key gives way to copies of what it supplied.
materialize(nodes, n) ==
  [nodes[n] EXCEPT !.from = None, !.own = [k \in Keys |->
     IF Spelled(nodes[n].own[k]) THEN nodes[n].own[k] ELSE inherited(nodes, n, k)]]

\* An alias whose anchor is gone, comes later or no longer reads as cfg says
\* is replaced by what it should say.
settleAlias(nodes, k, form, seen, val) ==
  LET ahead == form.of \in seen /\ nodes[form.of].anchor
  IN  IF form.is # "alias" THEN form
      ELSE IF k = Foreign THEN (IF ahead THEN form ELSE dealias(nodes, form))
      ELSE IF ahead /\ readsSame(k, nodes[form.of].block, val[k]) THEN form
      ELSE Says(val[k])

fixOne(nodes, n, seen, val) ==
  LET settled == [nodes EXCEPT ![n] = settleInherited(nodes, n, val)]
      inlined == IF anchorsAhead(nodes[n].from, seen) THEN settled
                 ELSE [settled EXCEPT ![n] = materialize(settled, n)]
  IN  [inlined EXCEPT ![n].own = [k \in Keys |-> settleAlias(nodes, k, inlined[n].own[k], seen, val)]]

fix(doc, cfg) ==
  LET kept == NamesIn(doc.items)
      F[i \in 0..Len(cfg)] ==
        IF i = 0 THEN mergeWatches(doc, cfg)
        ELSE IF cfg[i].name \notin kept THEN F[i - 1]
        ELSE fixOne(F[i - 1], cfg[i].name, {Shared} \cup ({cfg[j].name : j \in 1..(i - 1)} \cap kept), cfg[i].val)
  IN  F[Len(cfg)]

(***************************************************************************)
(* The file that comes out of it.                                          *)
(***************************************************************************)
\* carryDropped: the comments above a dropped watch go to the next one that
\* stays, in the file's order; those that find none, and those under the
\* last watch when it goes or another comes after it, stay at the end.
Goes(doc, cfg, j) ==
  LET n == doc.items[j].name IN n \notin NamesIn(cfg) \/ FirstOf(doc.items, n) # j
HeadOf_ItsOwn(doc, cfg, j) == doc.items[j].head
HeadOf(doc, cfg, j) ==
  UNION {doc.items[i].head : i \in {i \in 1..j : \A h \in i..(j - 1) : Goes(doc, cfg, h)}}
LastGoes(doc, cfg) ==
  LET n == Len(doc.items)
  IN  n > 0 /\ (Goes(doc, cfg, n) \/ cfg[Len(cfg)].name # doc.items[n].name)
Parked(doc, cfg) ==
  LET n == Len(doc.items)
  IN  UNION {doc.items[i].head : i \in {i \in 1..n : \A h \in i..n : Goes(doc, cfg, h)}}
      \cup (IF LastGoes(doc, cfg) THEN doc.items[n].foot ELSE {})
FootOf(doc, cfg, j) == IF LastGoes(doc, cfg) /\ j = Len(doc.items) THEN {} ELSE doc.items[j].foot

MergedItems(doc, cfg) ==
  LET nodes == fix(doc, cfg)
      At(n) == FirstOf(doc.items, n)
      Last(i) == IF i = Len(cfg) THEN Parked(doc, cfg) ELSE {}
  IN  [i \in 1..Len(cfg) |-> LET n == cfg[i].name IN
         IF n \in NamesIn(doc.items)
         THEN [name |-> n, own |-> nodes[n].own, from |-> nodes[n].from, whole |-> TRUE,
               head |-> HeadOf(doc, cfg, At(n)), foot |-> FootOf(doc, cfg, At(n)) \cup Last(i)]
         ELSE [name |-> n, from |-> None, whole |-> TRUE, head |-> {}, foot |-> Last(i),
               own |-> [k \in Keys |-> IF k = Foreign THEN Absent ELSE prune(k, cfg[i].val[k])]]]

merge(doc, cfg) ==
  [doc EXCEPT !.items = MergedItems(doc, cfg),
              !.foot = IF Len(cfg) = 0 THEN @ \cup Parked(doc, cfg) ELSE @]

loadsBack_ParsesOnly(doc, cfg) == Load(doc)
\* The last line of defence: what is about to be written reads back as cfg.
loadsBack(doc, cfg) == Load(doc) /\ Reads(doc) = cfg

\* mergeFile: what it makes of the file, or why it gives up. A missing file
\* is merged into an empty one.
parseFile(doc) == IF doc.kind = "missing" THEN FreshFile ELSE doc
mergeFile(doc, cfg) ==
  LET new == merge(doc, cfg)
  IN  IF ~Parses(doc) THEN [is |-> "unreadable", doc |-> doc]
      ELSE IF new = doc THEN [is |-> "same", doc |-> doc]
      ELSE IF loadsBack(new, cfg) THEN [is |-> "new", doc |-> new]
      ELSE [is |-> "readback", doc |-> doc]

(***************************************************************************)
(* The program and the person.                                             *)
(***************************************************************************)
Init ==
  /\ disk \in HandFiles \cup {Missing}
  /\ mem = <<>> /\ next = <<>> /\ out = Missing /\ pc = "down" /\ failed = "no" /\ edited = TRUE
  /\ saves = 0 /\ hands = 0

\* run: a file that is not there is created empty; one Load turns down stops
\* the program, and is left as it is.
Boot ==
  /\ pc = "down"
  /\ LET doc == parseFile(disk)
     IN  Load(doc) /\ disk' = doc /\ mem' = Reads(doc)
  /\ pc' = "idle" /\ edited' = FALSE /\ failed' = "no"
  /\ UNCHANGED <<next, out, saves, hands>>

\* What the handlers of the page make of the configuration: nothing new, a
\* watch changed, deleted or created. Validate has filled the defaults in.
Validated(val) == [k \in Known |-> withDefaults(k, val[k])]
Edits(cfg) ==
  {cfg}
  \cup {[cfg EXCEPT ![i].val[k] = withDefaults(k, v)] : i \in 1..Len(cfg), k \in Known, v \in Values}
  \cup {SelectSeq(cfg, LAMBDA w : w.name # n) : n \in NamesIn(cfg)}
  \cup {Append(cfg, Watch(n, Validated([k \in Known |-> v]))) : n \in Names \ NamesIn(cfg), v \in Values}

\* mutateConfig, under its lock: Save reads the file and merges. A file that
\* already says it is not written.
SaveReads(cfg) ==
  /\ pc = "idle" /\ saves < MaxSaves /\ saves' = saves + 1
  /\ LET made == mergeFile(parseFile(disk), cfg) IN
     \/ /\ made.is \in {"unreadable", "readback"}
        /\ failed' = made.is
        /\ UNCHANGED <<mem, pc, next, out, edited>>
     \/ /\ made.is = "same" /\ disk.kind # "missing"
        /\ mem' = cfg /\ failed' = "no" /\ edited' = FALSE
        /\ UNCHANGED <<pc, next, out>>
     \/ /\ made.is = "new" \/ (made.is = "same" /\ disk.kind = "missing")
        /\ next' = cfg /\ out' = made.doc /\ pc' = "writes" /\ failed' = "no"
        /\ UNCHANGED <<mem, edited>>
  /\ UNCHANGED <<disk, hands>>

\* The new file takes the old one's place at once, or the write failed.  Save
\* writes it beside the old one first (path.tmp), which nothing reads: a stop
\* before the rename leaves what a failed write leaves.
SaveWrites ==
  /\ pc = "writes" /\ pc' = "idle"
  /\ \/ disk' = out /\ mem' = next /\ edited' = FALSE /\ failed' = "no"
     \/ failed' = "write" /\ UNCHANGED <<disk, mem, edited>>
  /\ next' = <<>> /\ out' = Missing
  /\ UNCHANGED <<saves, hands>>

Stop ==
  /\ pc # "down" /\ pc' = "down"
  /\ mem' = <<>> /\ next' = <<>> /\ out' = Missing /\ failed' = "no"
  /\ UNCHANGED <<disk, edited, saves, hands>>

EditByHand(file) ==
  /\ hands < MaxHands /\ hands' = hands + 1
  /\ file # disk /\ disk' = file /\ edited' = TRUE
  /\ UNCHANGED <<mem, pc, next, out, failed, saves>>

Page   == \E cfg \in Edits(mem) : SaveReads(cfg)
Person == \E file \in HandEdits \cup {Broken, Missing} : EditByHand(file)
Next   == Boot \/ Page \/ SaveWrites \/ Stop \/ Person
Spec   == Init /\ [][Next]_vars

(***************************************************************************)
(* Properties.                                                             *)
(***************************************************************************)
FileOK(doc) ==
  /\ doc.kind \in {"missing", "broken", "doc"} /\ doc.foot \subseteq Notes
  /\ doc.shared \in [Keys -> Forms]
  /\ \A i \in 1..Len(doc.items) : doc.items[i] \in Items
CfgOK(cfg) == \A i \in 1..Len(cfg) : cfg[i] \in Watches /\ \A j \in 1..(i - 1) : cfg[j].name # cfg[i].name

\* A file is watches, comments and references; a configuration has each
\* watch once.
TypeOK ==
  /\ FileOK(disk) /\ FileOK(out) /\ CfgOK(mem) /\ CfgOK(next)
  /\ pc \in {"down", "idle", "writes"} /\ failed \in {"no", "unreadable", "readback", "write"}
  /\ edited \in BOOLEAN /\ saves \in 0..MaxSaves /\ hands \in 0..MaxHands

\* Unless someone has edited it since, the file reads as the configuration
\* that runs: a restart at any moment of a save carries on with the old one
\* or the new one, whatever templates, aliases and comments the file is
\* written with (config.Save, mutateConfig).
FileIsWhatRuns ==
  /\ pc # "down" /\ ~edited => Load(disk) /\ Reads(disk) = mem
  /\ pc = "writes" => Load(out) /\ Reads(out) = next

Inv == TypeOK /\ FileIsWhatRuns

\* "The property the merge has to hold whatever the UI does" (the test
\* TestSaveRoundTripsUnderRandomMutation): the merged file reads back as what
\* is saved, so that no legal change from the page is turned down (loadsBack).
NeverTurnedDown == failed # "readback"

\* Comments parked between watches.
ParkedIn(doc) == doc.foot \cup UNION {doc.items[i].head \cup doc.items[i].foot : i \in 1..Len(doc.items)}

\* A watch written without references.
Plain(item) == item.from = None /\ \A k \in Keys : item.own[k].is # "alias"

\* A zero spelled out for nothing: an encoded configuration has no room for
\* the key, so the line goes, and with it the anchor it may carry.
ReadsZero(doc, form) == Spelled(form) /\ dealias(Nodes(doc), form).v = 0
NeedlessZero(doc, i, k) == k \in Omitted /\ ReadsZero(doc, doc.items[i].own[k])

\* Watch j of one file is watch i of another as it was written there, but
\* that a needless zero may have gone, and an alias to one been written out.
AsWritten(doc, i, new, j) ==
  /\ new.items[j].from = doc.items[i].from
  /\ \A k \in Keys : LET was == doc.items[i].own[k]
                       is  == new.items[j].own[k]
                   IN  is # was => /\ ReadsZero(doc, was)
                                   /\ \/ NeedlessZero(doc, i, k) /\ is \in {Absent, Says(0)}
                                      \/ was.is = "alias" /\ is = Says(0)

\* What a save merges into the file is the change and, but for the needless
\* zeros of an omitempty key ("preprocess: {}"), which mergeMapping drops
\* from every watch, no more: no comment parked above or under a watch is
\* lost; a key the program does not know stays; a watch without references
\* that is not changed is left as it was written, whatever happens to the
\* others; a template is taken apart only when its watch is gone or has come
\* after; and a save that changes nothing leaves every watch as it was
\* written, in its place with its comments, so that it writes the file only
\* to take such a zero out of it.
SaveKeepsTheRest ==
  [][out' # out /\ out'.kind = "doc" /\ Load(disk) =>
       LET read == Reads(disk) IN
       /\ ParkedIn(out') = ParkedIn(disk)
       /\ next' = read =>
            /\ out'.foot = disk.foot
            /\ \A i \in 1..Len(disk.items) :
                 /\ AsWritten(disk, i, out', i)
                 /\ out'.items[i].head = disk.items[i].head /\ out'.items[i].foot = disk.items[i].foot
            /\ \E i \in 1..Len(disk.items), k \in Omitted : NeedlessZero(disk, i, k)
       /\ \A i \in 1..Len(disk.items), j \in 1..Len(out'.items) :
            LET was == disk.items[i]
                is  == out'.items[j]
            IN  was.name = is.name =>
                  /\ was.own[Foreign].is = "value" => is.own[Foreign] = was.own[Foreign]
                  /\ Plain(was) /\ next'[j] = read[i] => AsWritten(disk, i, out', j)
                  /\ is.from # was.from =>
                       was.from \notin {out'.items[h].name : h \in 1..(j - 1)}]_vars

\* What docs/configuration.md says of the page ("a save that changes nothing
\* doesn't touch the file") and mergeFile's comment of itself (nil when the
\* file already says exactly that). It does not hold: a file that spells out
\* a needless zero is written without it.
NothingNewNothingWritten ==
  [][out' # out /\ out'.kind = "doc" /\ Load(disk) => next' # Reads(disk)]_vars

=============================================================================
