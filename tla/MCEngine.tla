------------------------------ MODULE MCEngine ------------------------------
(* A small instance of Engine: two rooms, a day of three periods and one more slot,   *)
(* two teachers, a class with two subgroups; requests that each phase turns down, that *)
(* just pass it, and whose timetables the second search and the users rearrange.       *)
EXTENDS Engine

MCSlots    == {<<1, 1>>, <<1, 2>>, <<1, 3>>, <<2, 1>>}
MCFaculty  == {"f", "g"}
MCGroups   == {"class", "a", "b"}
MCWhole    == [g \in MCGroups |-> "class"]
MCFeatures == {"lab"}

Req(f, g, needs, n, times) ==
  [faculty |-> f, group |-> g, features |-> needs, duration |-> n, perWeek |-> times]
At(id, r, room, slot) == [id |-> id, req |-> r, room |-> room, slot |-> slot]
Comp(id, w) == [id |-> id, weight |-> w]
Inst(t, kind, covers, max) == [template |-> t, kind |-> kind, covers |-> covers, max |-> max]

\* The second room is open for two periods; nobody fits into a lab without seats, except a
\* group without students.
Building(seats) == [r \in 1 .. 2 |->
  IF r = 1 THEN [equipment |-> {"lab"}, capacity |-> seats, open |-> MCSlots]
           ELSE [equipment |-> {}, capacity |-> 1, open |-> {<<1, 2>>, <<2, 1>>}]]
Sizes(b) == [g \in MCGroups |-> CASE g = "class" -> 2 [] g = "a" -> 1 [] g = "b" -> b]

Disliked == [fs \in MCFaculty \X MCSlots |-> IF fs[1] = "f" THEN fs[2][2] - 1 ELSE 0]
Liked    == [fs \in MCFaculty \X MCSlots |-> 0]
Custom   == <<Comp("StudentGapPenalty", 2), Comp("RoomChange", 3)>>
Negative == <<Comp("FacultyPreference", -1)>>

Problem(reqs, free, locked, dislikes, objective) ==
  [reqs |-> reqs, rooms |-> Building(2), sizes |-> Sizes(1),
   free |-> [t \in MCFaculty |-> IF t = "f" THEN free ELSE {<<1, 2>>, <<2, 1>>}],
   locked |-> locked, rules |-> {}, mode |-> "HEURISTIC", maxNodes |-> 50,
   dislikes |-> dislikes, objective |-> objective]

Short == <<Req("f", "a", {}, 1, 2), Req("g", "b", {}, 1, 1)>>
Long  == <<Req("f", "a", {}, 2, 1), Req("f", "a", {}, 1, 1)>>
Full  == <<Req("f", "class", {}, 1, 2), Req("f", "a", {"lab"}, 1, 1)>>

Locks == {<< >>,
          <<At(<<1, 0>>, 1, 1, <<1, 1>>)>>,
          <<At(<<1, 1>>, 1, 1, <<1, 1>>)>>,
          <<At(<<1, 2>>, 1, 1, <<1, 1>>)>>,
          <<At(<<0, 9>>, 1, 2, <<1, 1>>)>>}

OneADay == {Inst("SubjectMaxPerDay", "", {1}, 1)}
Instances == {{}, OneADay, {Inst("RoomConflict", "HARD", {}, 0)},
              {Inst("RoomCapacity", "SOFT", {}, 0)}, {Inst("RoomColour", "", {}, 0)},
              {Inst("SubjectMaxPerDay", "HARD", {}, 1)}, {Inst("SubjectMaxPerDay", "", {1}, 0)}}

Request(p, instances, optimize) ==
  [problem |-> p, instances |-> instances, optimize |-> optimize]

Week == {<<1, 1>>, <<1, 3>>, <<2, 1>>}

\* Subgroup b, of this size, in a lab of that capacity.
LabOf(seats, b) ==
  [Problem(<<Req("f", "b", {"lab"}, 1, 1)>>, Week, << >>, Liked, << >>)
     EXCEPT !.rooms = Building(seats), !.sizes = Sizes(b)]

MCRequests ==
  {Request(Problem(Short, Week, locked, Liked, << >>), {}, TRUE) : locked \in Locks}
  \cup {Request(Problem(Short, {<<1, 1>>, <<2, 1>>}, << >>, Liked, << >>), instances, FALSE) :
          instances \in Instances}
  \cup {Request(Problem(Short, free, << >>, Liked, objective), {}, optimize) :
          free \in {{<<1, 1>>}, {<<1, 1>>, <<1, 3>>}}, objective \in {<< >>, Custom, Negative},
          optimize \in BOOLEAN}
  \cup {Request(Problem(Long, MCSlots, << >>, dislikes, << >>), {}, TRUE) :
          dislikes \in {Liked, Disliked}}
  \cup {Request(Problem(Full, free, << >>, Disliked, << >>), {}, FALSE) :
          free \in {Week, {<<1, 1>>, <<1, 2>>}}}
  \cup {Request(LabOf(seats, b), {}, FALSE) : seats \in {0, 2}, b \in {0, 2, 3}}

MCProblems == {q.problem : q \in MCRequests}
=============================================================================
