--------------------------- MODULE MCBacktracking ---------------------------
(* A small instance of Backtracking: two rooms, a grid of three slots on two days, a  *)
(* class with two subgroups, two teachers, and every combination of the choices below *)
(* as a problem.                                                                       *)
EXTENDS Backtracking

MCSlots    == {<<1, 1>>, <<1, 2>>, <<2, 1>>}
MCFaculty  == {"f", "g"}
MCGroups   == {"class", "a", "b"}
MCWhole    == [g \in MCGroups |-> "class"]
MCFeatures == {"lab"}

Req(f, g, needs, n, times) ==
  [faculty |-> f, group |-> g, features |-> needs, duration |-> n, perWeek |-> times]

Catalogues ==
  {<<Req("f", "class", {}, 2, 1), Req("g", "a", {}, 1, 1), Req("f", "b", {"lab"}, 1, 1)>>,
   <<Req("f", "a", {}, 1, 1), Req("g", "class", {}, 1, 2)>>,
   <<Req("f", "a", {}, 1, 1), Req("g", "b", {"lab"}, 1, 2)>>}

Buildings ==
  {[r \in 1 .. 2 |->
      IF r = 1 THEN [equipment |-> {"lab"}, capacity |-> 2, open |-> MCSlots]
               ELSE [equipment |-> {}, capacity |-> 1, open |-> open]] :
     open \in {MCSlots, {<<1, 2>>}}}

Sizes == [g \in MCGroups |-> IF g = "class" THEN 2 ELSE 1]

Calendars ==
  {[t \in MCFaculty |-> IF t = "f" THEN MCSlots ELSE free] :
     free \in {MCSlots, {<<1, 1>>, <<2, 1>>}}}

Lock(id, r, room, slot) == [id |-> id, req |-> r, room |-> room, slot |-> slot]

Locks ==
  {<< >>,
   <<Lock(<<2, 0>>, 2, 1, <<1, 2>>)>>,
   <<Lock(<<2, 1>>, 2, 1, <<2, 1>>)>>,
   <<Lock(<<0, 1>>, 2, 1, <<1, 1>>), Lock(<<0, 2>>, 2, 1, <<2, 1>>)>>,
   <<Lock(<<2, 0>>, 2, 1, <<1, 1>>), Lock(<<1, 0>>, 1, 1, <<1, 1>>)>>,
   <<Lock(<<2, 0>>, 2, 1, <<1, 1>>), Lock(<<2, 1>>, 2, 1, <<1, 2>>),
     Lock(<<1, 0>>, 1, 2, <<2, 1>>)>>}

Rules == {{}, {[covers |-> {1, 2}, max |-> 1]}, {[covers |-> {2}, max |-> 1]}}

MCProblems ==
  {[reqs |-> reqs, rooms |-> rooms, sizes |-> Sizes, free |-> free, locked |-> locked, rules |-> rules,
    mode |-> mode, maxNodes |-> n] :
     reqs \in Catalogues, rooms \in Buildings, free \in Calendars, locked \in Locks,
     rules \in Rules, mode \in Modes, n \in {2, 50}}
=============================================================================
