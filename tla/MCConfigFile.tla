---------------------------- MODULE MCConfigFile ----------------------------
(***************************************************************************)
(* A small instance of ConfigFile: every file of two watches a person      *)
(* could have written with a template, a merge key and an alias, on three  *)
(* keys that differ in what a zero means, zeros spelled out for nothing    *)
(* among them.                                                             *)
(***************************************************************************)
EXTENDS ConfigFile, TLC

CONSTANTS a, b, c, interval, threshold, preprocess, x

MCDefault == interval :> 1 @@ threshold :> 0 @@ preprocess :> 0

Own(i, t, p, f) == interval :> i @@ threshold :> t @@ preprocess :> p @@ x :> f

\* The template above the list, and what the two watches may spell out.
Template == Own(Says(2), Absent, Says(1), Absent)
First  == {Own(Absent, Says(1), p, Says(1)) : p \in {Absent, Says(0), Says(1)}}
Second == {Own(Says(2), Absent, p[1], p[2]) :
             p \in {<<Absent, Absent>>, <<Alias(a), Absent>>, <<Absent, Alias(a)>>}}

Item(n, own, from, head, foot) ==
  [name |-> n, own |-> own, from |-> from, head |-> head, foot |-> foot, whole |-> TRUE]
File(items) == [FreshFile EXCEPT !.shared = Template, !.items = items]

Written == {File(<<Item(a, f, m, {"header"}, {}), Item(b, s, t, {"parked"}, {"last"})>>) :
              f \in First, s \in Second, m \in {None, Shared}, t \in {None, Shared, a}}
Swapped == {File(<<Item(b, s, t, {"header"}, {}), Item(a, f, m, {"parked"}, {"last"})>>) :
              f \in First, s \in Second, m \in {None, b}, t \in {None, Shared}}
MCHandFiles == {d \in Written \cup Swapped : Parses(d)}

\* A watch copied to start another one, both still of one name; a watch
\* begun below another; a template put above the watch it was below.
Plainly == Own(Says(2), Says(1), Says(1), Absent)
Copied == File(<<Item(a, Plainly, Shared, {"header"}, {}), Item(a, Plainly, Shared, {"parked"}, {"last"})>>)
Begun  == File(<<Item(a, Plainly, Shared, {"header"}, {}),
                 [Item(b, Own(Absent, Absent, Absent, Absent), a, {}, {}) EXCEPT !.whole = FALSE]>>)
Moved  == File(<<Item(b, Own(Absent, Absent, Says(2), Says(1)), None, {}, {}),
                 Item(a, Own(Absent, Absent, Alias(b), Alias(b)), b, {"parked"}, {})>>)
MCHandEdits == {Copied, Begun, Moved}
=============================================================================
