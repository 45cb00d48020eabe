---------------------------- MODULE GridLevels ----------------------------
(***************************************************************************)
(* One grid: the list GridManager.positions of one pair and one direction  *)
(* (app/trading/grid_manager.py), oldest level first.  A level is a        *)
(* GridPosition with the fields that decide what the engine does next:     *)
(*                                                                         *)
(*   cid    client_order_id of the limit order the level was opened with,  *)
(*          or NoOrder for the "restored-<position>" id of a level that    *)
(*          was rebuilt from a broker position;                            *)
(*   pid    position_id, NoOrder while the level is pending.  A position   *)
(*          is named by the order whose fill opened it;                    *)
(*   price  entry_price;                                                   *)
(*   step   grid_step_at_open.                                             *)
(***************************************************************************)
EXTENDS Integers, SequencesExt

CONSTANTS Orders, NoOrder

ASSUME NoOrderAssumption == NoOrder \notin Orders

OrderOrNone == Orders \cup {NoOrder}

Level == [cid : OrderOrNone, pid : OrderOrNone, price : Nat, step : Nat]

NewLevel(cid, pid, price, step) ==
    [cid |-> cid, pid |-> pid, price |-> price, step |-> step]

IsPending(level) == level.pid = NoOrder

(* get_position_by_client_order_id, get_position_by_id *)
HasCid(grid, o) == \E i \in DOMAIN grid : grid[i].cid = o
HasPid(grid, o) == \E i \in DOMAIN grid : grid[i].pid = o

LastLevel(grid) == grid[Len(grid)]

DropAt(grid, i) == RemoveAt(grid, i)

(* remove_position: the first level with the position id goes. *)
IndexOfPid(grid, o) ==
    CHOOSE i \in DOMAIN grid :
        /\ grid[i].pid = o
        /\ \A j \in 1 .. (i - 1) : grid[j].pid # o

DropPid(grid, o) ==
    IF HasPid(grid, o) THEN DropAt(grid, IndexOfPid(grid, o)) ELSE grid

(* remove_position_by_client_order_id.  The code drops the first match;    *)
(* client order ids are unique in a grid (CidUnique of DualGridEngine), so *)
(* the first is the only one.                                              *)
IndexOfCid(grid, o) == CHOOSE i \in DOMAIN grid : grid[i].cid = o

DropCid(grid, o) ==
    IF HasCid(grid, o) THEN DropAt(grid, IndexOfCid(grid, o)) ELSE grid

(* pos.position_id = o on the level at index i *)
SetPid(grid, i, o) == [grid EXCEPT ![i].pid = o]

AddLevel(grid, level) == Append(grid, level)

UniqueCids(grid) ==
    \A i, j \in DOMAIN grid :
        (grid[i].cid = grid[j].cid /\ grid[i].cid # NoOrder) => i = j

Distance(p, q) == IF p >= q THEN p - q ELSE q - p

(* Entry prices that the engine takes for the same level.  Its tolerance   *)
(* is max(spread / 2, a hair), so equal prices always match; width is the  *)
(* half spread in the price units of the model.                            *)
Near(p, q, width) == p = q \/ Distance(p, q) < width
=============================================================================
