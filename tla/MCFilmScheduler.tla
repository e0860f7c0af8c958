--------------------------- MODULE MCFilmScheduler ---------------------------
(* Instances of FilmScheduler for TLC: two films, the first of which may be *)
(* put off or struck off, and the second of which may follow at once.       *)
EXTENDS FilmScheduler

First == [begin |-> 1, end |-> 7]
PutOff == [begin |-> 2, end |-> 8]
Second == [begin |-> 9, end |-> 15]
AtOnce == [begin |-> 7, end |-> 13]

MCOneTable == {{First, Second}}
MCTables == {{First, Second}, {PutOff, Second}, {Second}}
MCPlans == MCTables \cup {{First, AtOnce}}
=============================================================================
