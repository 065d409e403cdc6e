---------------------------- MODULE MCSyncSolve ----------------------------
(* A small catalogue of two institutions.  A class is created with its program and,    *)
(* later, its group, while a snapshot is taken and two requests wait to solve it.  The *)
(* guests are a group of a class of the other institution; there are two terms, and    *)
(* one offering, in the second of them.                                                *)
EXTENDS SyncSolve, TLC

CONSTANTS class, group, abroad, guests, autumn, spring, offering

MCRows    == {class, group, abroad, guests, autumn, spring, offering}
MCTables  == 4
MCTerms   == 3
MCTableOf == [r \in MCRows |-> CASE r \in {class, abroad}  -> 1 [] r \in {group, guests} -> 2
                                 [] r \in {autumn, spring} -> 3 [] r = offering -> 4]
MCPlace   == [r \in MCRows |-> IF r = spring THEN 1 ELSE 0]
MCParents == [r \in MCRows |-> CASE r = group -> {class} [] r = guests -> {abroad}
                                 [] r = offering -> {spring} [] OTHER -> {}]
MCOwn     == MCRows \ {abroad}
MCOwners  == {class}
MCParts   == [r \in MCOwners |-> {group}]
MCLoaded  == {abroad, autumn, spring}

Symmetry == Permutations(Requests)
=============================================================================
