---------------------------- MODULE MCLocalSearch ----------------------------
(* Small instances of LocalSearch: two rooms, a grid of two days, a class with two    *)
(* subgroups, two teachers; timetables of sessions of one slot and of two, with locks, *)
(* rules, dislikes and weights, and one timetable that breaks a rule from the start.   *)
EXTENDS LocalSearch

MCSlots    == {<<1, 1>>, <<1, 2>>, <<1, 3>>, <<2, 1>>}
MCFaculty  == {"f", "g"}
MCGroups   == {"class", "a", "b"}
MCWhole    == [g \in MCGroups |-> "class"]
MCFeatures == {"lab"}

Req(f, g, n, times) ==
  [faculty |-> f, group |-> g, features |-> {}, duration |-> n, perWeek |-> times]

Building(second) ==
  [r \in 1 .. 2 |-> [equipment |-> {}, capacity |-> 2,
                     open |-> IF r = 1 THEN MCSlots ELSE second]]

Dislikes(f, n) == [fs \in MCFaculty \X MCSlots |-> IF fs[1] = f THEN n[fs[2]] ELSE 0]
Late  == [c \in MCSlots |-> c[2] - 1]
Early == [c \in MCSlots |-> IF c[2] = 1 THEN 1 ELSE 0]
Nowhere == [c \in MCSlots |-> 0]

Component(id, w) == [id |-> id, weight |-> w]

Problem(reqs, second, locked, rules, dislikes, objective) ==
  [reqs |-> reqs, rooms |-> Building(second), sizes |-> [g \in MCGroups |-> 2], free |-> [t \in MCFaculty |-> MCSlots],
   locked |-> locked, rules |-> rules, mode |-> "BASIC", maxNodes |-> 50,
   dislikes |-> dislikes, objective |-> objective]

At(r, n, room, slot) == [id |-> <<r, n>>, req |-> r, room |-> room, slot |-> slot]

Short == <<Req("f", "a", 1, 2), Req("g", "b", 1, 1)>>
Mixed == <<Req("f", "class", 1, 1), Req("g", "a", 1, 1), Req("f", "b", 1, 1)>>
Long  == <<Req("f", "a", 2, 1), Req("f", "a", 1, 1)>>
Lock  == At(1, 0, 1, <<1, 1>>)
OneADay == {[covers |-> {1}, max |-> 1]}
Custom == <<Component("StudentGapPenalty", 2), Component("RoomChange", 3),
            Component("StudentGapPenalty", 7)>>

\* The gap of a's day can be closed in two ways; the teacher dislikes late periods.
Gap == [problem |-> Problem(Short, {<<1, 2>>}, << >>, {}, Dislikes("f", Late), DefaultObjective),
        list |-> <<At(1, 0, 1, <<1, 1>>), At(1, 1, 1, <<1, 3>>), At(2, 0, 2, <<1, 2>>)>>]
\* A locked session, a rule, and weights of which the second for gaps is ignored.
Locked == [problem |-> Problem(Short, {<<1, 2>>, <<2, 1>>}, <<Lock>>, OneADay, Dislikes("f", Nowhere), Custom),
           list |-> <<Lock, At(1, 1, 2, <<2, 1>>), At(2, 0, 1, <<1, 3>>)>>]
\* Two sessions on the same day where the rule allows one.
Broken == [problem |-> Locked.problem,
           list |-> <<Lock, At(1, 1, 1, <<1, 2>>), At(2, 0, 1, <<2, 1>>)>>]
\* The whole class between its subgroups, and a teacher who would rather start early.
Subgroups == [problem |-> Problem(Mixed, {<<1, 1>>, <<1, 3>>}, << >>, {}, Dislikes("g", Late), << >>),
              list |-> <<At(1, 0, 1, <<1, 2>>), At(2, 0, 1, <<1, 3>>), At(3, 0, 2, <<1, 1>>)>>]
\* A session of two slots and one of one slot, same teacher and group.
Double == [problem |-> Problem(Long, {<<1, 3>>}, << >>, {}, Dislikes("f", Early), << >>),
           list |-> <<At(1, 0, 1, <<1, 1>>), At(2, 0, 1, <<1, 3>>)>>]

MCStarts   == {Gap, Locked, Broken, Subgroups, Double}
MCProblems == {s.problem : s \in MCStarts}
=============================================================================
