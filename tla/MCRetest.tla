------------------------------ MODULE MCRetest ------------------------------
(* Instances of RetestLive for TLC. *)
EXTENDS RetestLive

Flat   == [high |-> 0, low |-> 0, brk |-> FALSE]
Break  == [high |-> 1, low |-> 1, brk |-> TRUE]
Rise   == [high |-> 3, low |-> 2, brk |-> FALSE]
Stay   == [high |-> 3, low |-> 3, brk |-> FALSE]
Peaked == [high |-> 4, low |-> 2, brk |-> FALSE]

(* A bar that falls back to the level as well as one that leaves it for    *)
(* good may break a level: the next setup may start with either.           *)
Back   == [high |-> 2, low |-> 1, brk |-> TRUE]
Surge  == [high |-> 4, low |-> 3, brk |-> TRUE]

Few  == {Rise, Back, Surge}
Long == {Break, Rise, Stay, Peaked, Flat}

(* Fourteen pips above the level: more than the tolerance of four leaves   *)
(* within reach of a retrace of seventy percent.                           *)
Far   == [high |-> 14, low |-> 9, brk |-> FALSE]
Pips == {Flat, Break, Far}
=============================================================================
