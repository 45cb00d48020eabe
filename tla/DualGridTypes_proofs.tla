------------------------ MODULE DualGridTypes_proofs ------------------------
(***************************************************************************)
(* What the operations on a grid keep, every level but the one they are    *)
(* about and the uniqueness of client order ids, and the type correctness  *)
(* of DualGridEngine.                                                      *)
(***************************************************************************)
EXTENDS DualGridProperties, SequenceTheorems, WellFoundedInduction, FiniteSetTheorems,
        TLAPS

(* Concatenation, element by element. *)
LEMMA ConcatElement ==
    ASSUME NEW S, NEW s \in Seq(S), NEW t \in Seq(S)
    PROVE  /\ s \o t \in Seq(S)
           /\ Len(s \o t) = Len(s) + Len(t)
           /\ \A j \in 1 .. Len(s) + Len(t) :
                (s \o t)[j] = IF j <= Len(s) THEN s[j] ELSE t[j - Len(s)]
OBVIOUS

(* remove_position and remove_position_by_client_order_id shift the levels *)
(* behind the removed one by one place, and change nothing else.           *)
LEMMA DropAtProperties ==
    ASSUME NEW S, NEW grid \in Seq(S), NEW i \in DOMAIN grid
    PROVE  /\ DropAt(grid, i) \in Seq(S)
           /\ Len(DropAt(grid, i)) = Len(grid) - 1
           /\ \A j \in 1 .. Len(grid) - 1 :
                DropAt(grid, i)[j] = grid[IF j < i THEN j ELSE j + 1]
<1>0. i \in 1 .. Len(grid)
  OBVIOUS
<1> DEFINE front == SubSeq(grid, 1, i - 1)
           back  == SubSeq(grid, i + 1, Len(grid))
<1>1. /\ front \in Seq(S)
      /\ Len(front) = i - 1
      /\ \A j \in 1 .. i - 1 : front[j] = grid[j]
  OBVIOUS
<1>2. /\ back \in Seq(S)
      /\ Len(back) = Len(grid) - i
      /\ \A j \in 1 .. Len(grid) - i : back[j] = grid[i + j]
  OBVIOUS
<1>3. DropAt(grid, i) = front \o back
  BY DEF DropAt, RemoveAt
<1> HIDE DEF front, back
<1>4. DropAt(grid, i) \in Seq(S) /\ Len(DropAt(grid, i)) = Len(grid) - 1
  BY <1>0, <1>1, <1>2, <1>3
<1>5. ASSUME NEW j \in 1 .. Len(grid) - 1
      PROVE  DropAt(grid, i)[j] = grid[IF j < i THEN j ELSE j + 1]
  <2>1. CASE j < i
    BY <1>0, <1>1, <1>2, <1>3, <2>1, ConcatElement
  <2>2. CASE ~(j < i)
    <3>0. j \in 1 .. Len(front) + Len(back) /\ ~(j <= Len(front)) /\ Len(front) = i - 1
      BY <1>0, <1>1, <1>2, <2>2
    <3>1. (front \o back)[j] = back[j - (i - 1)]
      <4>1. \A k \in 1 .. Len(front) + Len(back) : (front \o back)[k] =
               IF k <= Len(front) THEN front[k] ELSE back[k - Len(front)]
        BY <1>1, <1>2, ConcatElement
      <4> QED  BY <3>0, <4>1
    <3>2. back[j - (i - 1)] = grid[i + (j - (i - 1))] /\ i + (j - (i - 1)) = j + 1
      BY <1>0, <1>2, <2>2
    <3> QED  BY <1>3, <2>2, <3>1, <3>2
  <2> QED  BY <2>1, <2>2
<1> QED  BY <1>4, <1>5

(* A level that is not the removed one is still there ... *)
LEMMA DropAtKeeps ==
    ASSUME NEW S, NEW grid \in Seq(S), NEW i \in DOMAIN grid,
           NEW j \in DOMAIN grid, i # j
    PROVE  \E k \in DOMAIN DropAt(grid, i) : DropAt(grid, i)[k] = grid[j]
<1>1. i \in 1 .. Len(grid) /\ j \in 1 .. Len(grid)
  OBVIOUS
<1>2. DOMAIN DropAt(grid, i) = 1 .. Len(grid) - 1
  BY DropAtProperties
<1>3. CASE j < i
  <2>1. j \in 1 .. Len(grid) - 1
    BY <1>1, <1>3
  <2> QED  BY <1>2, <1>3, <2>1, DropAtProperties
<1>4. CASE i < j
  <2>1. j - 1 \in 1 .. Len(grid) - 1 /\ ~(j - 1 < i) /\ (j - 1) + 1 = j
    BY <1>1, <1>4
  <2>2. DropAt(grid, i)[j - 1] = grid[j]
    BY <2>1, DropAtProperties
  <2> QED  BY <1>2, <2>1, <2>2
<1> QED  BY <1>1, <1>3, <1>4

(* ... and what is left was there before, at another place than i. *)
LEMMA DropAtFrom ==
    ASSUME NEW S, NEW grid \in Seq(S), NEW i \in DOMAIN grid,
           NEW k \in DOMAIN DropAt(grid, i)
    PROVE  \E j \in DOMAIN grid : j # i /\ DropAt(grid, i)[k] = grid[j]
<1>1. i \in 1 .. Len(grid) /\ k \in 1 .. Len(grid) - 1
  BY DropAtProperties
<1>2. (IF k < i THEN k ELSE k + 1) \in DOMAIN grid /\ (IF k < i THEN k ELSE k + 1) # i
  BY <1>1
<1> QED  BY <1>1, <1>2, DropAtProperties

LEMMA DropAtUnique ==
    ASSUME NEW S, NEW grid \in Seq(S), NEW i \in DOMAIN grid, UniqueCids(grid)
    PROVE  UniqueCids(DropAt(grid, i))
<1> SUFFICES ASSUME NEW j \in DOMAIN DropAt(grid, i), NEW k \in DOMAIN DropAt(grid, i),
                    DropAt(grid, i)[j].cid = DropAt(grid, i)[k].cid,
                    DropAt(grid, i)[j].cid # NoOrder
             PROVE  j = k
  BY DEF UniqueCids
<1> DEFINE from(n) == IF n < i THEN n ELSE n + 1
<1>1. i \in 1 .. Len(grid) /\ j \in 1 .. Len(grid) - 1 /\ k \in 1 .. Len(grid) - 1
  BY DropAtProperties
<1>2. DropAt(grid, i)[j] = grid[from(j)] /\ DropAt(grid, i)[k] = grid[from(k)]
  BY <1>1, DropAtProperties
<1>3. from(j) \in DOMAIN grid /\ from(k) \in DOMAIN grid
  BY <1>1
<1> HIDE DEF from
<1>4. from(j) = from(k)
  BY <1>2, <1>3 DEF UniqueCids
<1> QED  BY <1>1, <1>4 DEF from

-----------------------------------------------------------------------------
(* A set of indices has a first one. *)
LEMMA FirstIndex ==
    ASSUME NEW T \in SUBSET Nat, T # {}
    PROVE  \E i \in T : \A j \in T : i <= j
<1> DEFINE R == {ss \in Nat \X Nat : ss[1] < ss[2]}
<1>1. IsWellFoundedOn(R, Nat)
  BY NatLessThanWellFounded DEF OpToRel
<1>2. PICK i \in T : \A j \in T : <<j, i>> \notin R
  <2> HIDE DEF R
  <2> QED  BY <1>1, WFMin
<1>3. ASSUME NEW j \in T PROVE i <= j
  <2>1. <<j, i>> \in Nat \X Nat /\ <<j, i>>[1] = j /\ <<j, i>>[2] = i
    OBVIOUS
  <2>2. ~(j < i)
    BY <1>2, <2>1
  <2> QED  BY <2>2
<1> QED  BY <1>3

LEMMA IndexOfPidProperties ==
    ASSUME NEW grid \in Seq(Level), NEW o, HasPid(grid, o)
    PROVE  /\ IndexOfPid(grid, o) \in DOMAIN grid
           /\ grid[IndexOfPid(grid, o)].pid = o
<1> DEFINE T == {i \in DOMAIN grid : grid[i].pid = o}
<1>1. T \in SUBSET Nat /\ T # {}
  BY DEF HasPid
<1>2. PICK i \in T : \A j \in T : i <= j
  BY <1>1, FirstIndex
<1>3. \A j \in 1 .. (i - 1) : grid[j].pid # o
  BY <1>2
<1> QED  BY <1>2, <1>3 DEF IndexOfPid

(* remove_position: levels with another position id stay. *)
LEMMA DropPidProperties ==
    ASSUME NEW grid \in Seq(Level), NEW o
    PROVE  /\ DropPid(grid, o) \in Seq(Level)
           /\ UniqueCids(grid) => UniqueCids(DropPid(grid, o))
           /\ \A j \in DOMAIN grid : grid[j].pid # o =>
                \E k \in DOMAIN DropPid(grid, o) : DropPid(grid, o)[k] = grid[j]
           /\ \A k \in DOMAIN DropPid(grid, o) :
                \E j \in DOMAIN grid : DropPid(grid, o)[k] = grid[j]
<1>1. CASE HasPid(grid, o)
  <2> DEFINE i == IndexOfPid(grid, o)
  <2>1. i \in DOMAIN grid /\ grid[i].pid = o
    BY <1>1, IndexOfPidProperties
  <2>2. DropPid(grid, o) = DropAt(grid, i)
    BY <1>1 DEF DropPid
  <2> HIDE DEF i
  <2>3. DropAt(grid, i) \in Seq(Level)
    BY <2>1, DropAtProperties
  <2>4. UniqueCids(grid) => UniqueCids(DropAt(grid, i))
    BY <2>1, DropAtUnique
  <2>5. ASSUME NEW j \in DOMAIN grid, grid[j].pid # o
        PROVE  \E k \in DOMAIN DropAt(grid, i) : DropAt(grid, i)[k] = grid[j]
    BY <2>1, <2>5, DropAtKeeps
  <2>6. ASSUME NEW k \in DOMAIN DropAt(grid, i)
        PROVE  \E j \in DOMAIN grid : DropAt(grid, i)[k] = grid[j]
    BY <2>1, DropAtFrom
  <2> QED  BY <2>2, <2>3, <2>4, <2>5, <2>6
<1>2. CASE ~HasPid(grid, o)
  BY <1>2 DEF DropPid
<1> QED  BY <1>1, <1>2

(* remove_position_by_client_order_id: levels of other orders stay. *)
LEMMA DropCidProperties ==
    ASSUME NEW grid \in Seq(Level), NEW o
    PROVE  /\ DropCid(grid, o) \in Seq(Level)
           /\ UniqueCids(grid) => UniqueCids(DropCid(grid, o))
           /\ \A j \in DOMAIN grid : grid[j].cid # o =>
                \E k \in DOMAIN DropCid(grid, o) : DropCid(grid, o)[k] = grid[j]
           /\ \A k \in DOMAIN DropCid(grid, o) :
                \E j \in DOMAIN grid : DropCid(grid, o)[k] = grid[j]
<1>1. CASE HasCid(grid, o)
  <2> DEFINE i == IndexOfCid(grid, o)
  <2>1. i \in DOMAIN grid /\ grid[i].cid = o
    BY <1>1 DEF HasCid, IndexOfCid
  <2>2. DropCid(grid, o) = DropAt(grid, i)
    BY <1>1 DEF DropCid
  <2> HIDE DEF i
  <2>3. DropAt(grid, i) \in Seq(Level)
    BY <2>1, DropAtProperties
  <2>4. UniqueCids(grid) => UniqueCids(DropAt(grid, i))
    BY <2>1, DropAtUnique
  <2>5. ASSUME NEW j \in DOMAIN grid, grid[j].cid # o
        PROVE  \E k \in DOMAIN DropAt(grid, i) : DropAt(grid, i)[k] = grid[j]
    BY <2>1, <2>5, DropAtKeeps
  <2>6. ASSUME NEW k \in DOMAIN DropAt(grid, i)
        PROVE  \E j \in DOMAIN grid : DropAt(grid, i)[k] = grid[j]
    BY <2>1, DropAtFrom
  <2> QED  BY <2>2, <2>3, <2>4, <2>5, <2>6
<1>2. CASE ~HasCid(grid, o)
  BY <1>2 DEF DropCid
<1> QED  BY <1>1, <1>2

(* pos.position_id = o: one level changes, and in its position id only. *)
LEMMA SetPidProperties ==
    ASSUME NEW grid \in Seq(Level), NEW i \in DOMAIN grid, NEW o \in OrderOrNone
    PROVE  /\ SetPid(grid, i, o) \in Seq(Level)
           /\ DOMAIN SetPid(grid, i, o) = DOMAIN grid
           /\ SetPid(grid, i, o)[i] = [grid[i] EXCEPT !.pid = o]
           /\ \A j \in DOMAIN grid : j # i => SetPid(grid, i, o)[j] = grid[j]
           /\ \A j \in DOMAIN grid : SetPid(grid, i, o)[j].cid = grid[j].cid
           /\ UniqueCids(grid) => UniqueCids(SetPid(grid, i, o))
<1>1. grid[i] \in Level /\ [grid[i] EXCEPT !.pid = o] \in Level
  <2>1. grid[i] \in Level
    OBVIOUS
  <2> QED  BY <2>1 DEF Level
<1>2. SetPid(grid, i, o) = [grid EXCEPT ![i] = [grid[i] EXCEPT !.pid = o]]
  BY DEF SetPid
<1>3. /\ SetPid(grid, i, o) \in Seq(Level)
      /\ DOMAIN SetPid(grid, i, o) = DOMAIN grid
      /\ SetPid(grid, i, o)[i] = [grid[i] EXCEPT !.pid = o]
      /\ \A j \in DOMAIN grid : j # i => SetPid(grid, i, o)[j] = grid[j]
  BY <1>1, <1>2
<1>4. \A j \in DOMAIN grid : SetPid(grid, i, o)[j].cid = grid[j].cid
  BY <1>1, <1>3 DEF Level
<1>5. UniqueCids(grid) => UniqueCids(SetPid(grid, i, o))
  BY <1>3, <1>4 DEF UniqueCids
<1> QED  BY <1>3, <1>4, <1>5

(* positions.append *)
LEMMA AddLevelProperties ==
    ASSUME NEW grid \in Seq(Level), NEW level \in Level
    PROVE  /\ AddLevel(grid, level) \in Seq(Level)
           /\ \A j \in DOMAIN grid : /\ j \in DOMAIN AddLevel(grid, level)
                                      /\ AddLevel(grid, level)[j] = grid[j]
           /\ \E k \in DOMAIN AddLevel(grid, level) : AddLevel(grid, level)[k] = level
           /\ \A k \in DOMAIN AddLevel(grid, level) :
                \/ AddLevel(grid, level)[k] = level
                \/ k \in DOMAIN grid /\ AddLevel(grid, level)[k] = grid[k]
           /\ (UniqueCids(grid) /\ (level.cid = NoOrder \/ ~HasCid(grid, level.cid)))
                => UniqueCids(AddLevel(grid, level))
<1>1. /\ AddLevel(grid, level) \in Seq(Level)
      /\ DOMAIN grid = 1 .. Len(grid) /\ Len(grid) \in Nat
      /\ DOMAIN AddLevel(grid, level) = 1 .. Len(grid) + 1
      /\ \A j \in 1 .. Len(grid) : AddLevel(grid, level)[j] = grid[j]
      /\ AddLevel(grid, level)[Len(grid) + 1] = level
  BY DEF AddLevel
<1>2. ASSUME UniqueCids(grid), level.cid = NoOrder \/ ~HasCid(grid, level.cid)
      PROVE  UniqueCids(AddLevel(grid, level))
  BY <1>1, <1>2 DEF UniqueCids, HasCid
<1> QED  BY <1>1, <1>2
-----------------------------------------------------------------------------
(* A grid as the engine's lookups see it: which order ids stand beside      *)
(* which position ids.                                                     *)
Names(grid, c, b) == \E i \in DOMAIN grid : grid[i].cid = c /\ grid[i].pid = b

LEMMA NamesDropCid ==
    ASSUME NEW grid \in Seq(Level), UniqueCids(grid), NEW o, o # NoOrder, NEW c, NEW b
    PROVE  Names(DropCid(grid, o), c, b) <=> (Names(grid, c, b) /\ c # o)
<1>1. CASE ~HasCid(grid, o)
  BY <1>1 DEF DropCid, HasCid, Names
<1>2. CASE HasCid(grid, o)
  <2> DEFINE i == IndexOfCid(grid, o)
             g == DropAt(grid, i)
  <2>1. i \in DOMAIN grid /\ grid[i].cid = o
    BY <1>2 DEF HasCid, IndexOfCid
  <2>2. DropCid(grid, o) = g
    BY <1>2 DEF DropCid
  <2> HIDE DEF i
  <2>3. \A j \in DOMAIN grid : grid[j].cid = o => j = i
    BY <2>1 DEF UniqueCids
  <2>4. \A j \in DOMAIN grid : j # i => \E k \in DOMAIN g : g[k] = grid[j]
    BY <2>1, DropAtKeeps
  <2>5. \A k \in DOMAIN g : \E j \in DOMAIN grid : j # i /\ g[k] = grid[j]
    BY <2>1, DropAtFrom
  <2> HIDE DEF g
  <2> QED  BY <2>1, <2>2, <2>3, <2>4, <2>5 DEF Names
<1> QED  BY <1>1, <1>2

LEMMA NamesDropPid ==
    ASSUME NEW grid \in Seq(Level), NEW o, NEW c, NEW b
    PROVE  /\ Names(DropPid(grid, o), c, b) => Names(grid, c, b)
           /\ (Names(grid, c, b) /\ b # o) => Names(DropPid(grid, o), c, b)
BY DropPidProperties DEF Names

LEMMA NamesSetPid ==
    ASSUME NEW grid \in Seq(Level), UniqueCids(grid), NEW i \in DOMAIN grid,
           NEW o \in OrderOrNone, grid[i].cid # NoOrder, NEW c, NEW b
    PROVE  Names(SetPid(grid, i, o), c, b) <=>
             \/ c # grid[i].cid /\ Names(grid, c, b)
             \/ c = grid[i].cid /\ b = o
<1>1. /\ DOMAIN SetPid(grid, i, o) = DOMAIN grid
      /\ \A j \in DOMAIN grid : j # i => SetPid(grid, i, o)[j] = grid[j]
      /\ SetPid(grid, i, o)[i].cid = grid[i].cid
  <2>1. /\ DOMAIN SetPid(grid, i, o) = DOMAIN grid
        /\ SetPid(grid, i, o)[i] = [grid[i] EXCEPT !.pid = o]
    BY SetPidProperties
  <2>2. grid[i] \in Level
    OBVIOUS
  <2>3. \A j \in DOMAIN grid : j # i => SetPid(grid, i, o)[j] = grid[j]
    BY DEF SetPid
  <2> QED  BY <2>1, <2>2, <2>3 DEF Level
<1>2. SetPid(grid, i, o)[i].pid = o
  <2>1. SetPid(grid, i, o)[i] = [grid[i] EXCEPT !.pid = o] /\ grid[i] \in Level
    BY SetPidProperties
  <2> QED  BY <2>1 DEF Level
<1>3. \A j \in DOMAIN grid : grid[j].cid = grid[i].cid => j = i
  BY DEF UniqueCids
<1> QED  BY <1>1, <1>2, <1>3 DEF Names

LEMMA NamesAddLevel ==
    ASSUME NEW grid \in Seq(Level), NEW level \in Level, NEW c, NEW b
    PROVE  Names(AddLevel(grid, level), c, b) <=>
             Names(grid, c, b) \/ (c = level.cid /\ b = level.pid)
<1>1. /\ \A j \in DOMAIN grid : /\ j \in DOMAIN AddLevel(grid, level)
                                /\ AddLevel(grid, level)[j] = grid[j]
      /\ \E k \in DOMAIN AddLevel(grid, level) : AddLevel(grid, level)[k] = level
      /\ \A k \in DOMAIN AddLevel(grid, level) :
           \/ AddLevel(grid, level)[k] = level
           \/ k \in DOMAIN grid /\ AddLevel(grid, level)[k] = grid[k]
  BY AddLevelProperties
<1> QED  BY <1>1 DEF Names

-----------------------------------------------------------------------------
(* The types. *)

(* What the locals of the handler hold where it uses them. *)
LocalsOK ==
    /\ job.pc \in {"dup", "place", "cl_check"} => job.cur \in Orders
    /\ job.pc \in {"res_loop", "res_wait"} => job.snap # NoSnap

TypeInv == TypeOK /\ LocalsOK

LEMMA TypeInit == Init => TypeInv
<1> SUFFICES ASSUME Init PROVE TypeInv
  OBVIOUS
<1> USE DEF Init, BrokerInit
<1>1. BrokerType
  BY DEF BrokerType, OrderStates
<1>2. BookType
  BY DEF BookType, EmptyGrids, NoMeta, Meta, OrderOrNone
<1>3. ControlType
  BY DEF ControlType, AllVerdicts, Idle, Job, PCs, Running, Fetching, Waiting, PairOrNone,
     OrderOrNone, Dirs
<1>4. LocalsOK
  BY DEF LocalsOK, Idle
<1> QED  BY <1>1, <1>2, <1>3, <1>4 DEF TypeInv, TypeOK

-----------------------------------------------------------------------------
LEMMA BrokerStepType ==
    ASSUME BrokerType, BrokerStep
    PROVE  BrokerType'
<1>1. PICK o \in Orders, from \in OrderStates, to \in OrderStates, type \in EventTypes :
        Turn(o, from, to, type)
  BY DEF BrokerStep, Accept, Reject, Fill, Expire, StopOut, ServeCancel, ServeClose,
     OrderStates, EventTypes
<1>2. [type |-> type, ord |-> o] \in Event
  BY DEF Event
<1> QED  BY <1>1, <1>2 DEF BrokerType, Turn

LEMMA RequestCancelType ==
    ASSUME BrokerType, NEW o \in Orders, RequestCancel(o)
    PROVE  BrokerType'
BY DEF BrokerType, RequestCancel

LEMMA RequestCloseType ==
    ASSUME BrokerType, NEW o \in Orders, RequestClose(o)
    PROVE  BrokerType'
BY DEF BrokerType, RequestClose

LEMMA GridType ==
    ASSUME BookType, NEW p \in Pairs, NEW d \in Dirs
    PROVE  grids[p][d] \in Seq(Level)
BY DEF BookType

LEMMA WithoutMetaType ==
    ASSUME BookType, NEW o
    PROVE  WithoutMeta(o) \in [Orders -> Meta]
BY DEF BookType, WithoutMeta, NoMeta, Meta

GridsType == [Pairs -> [Dirs -> Seq(Level)]]
MetaType == [Orders -> Meta]

LEMMA SetGridType ==
    ASSUME BookType, NEW p, NEW d, NEW g,
           (p \in Pairs /\ d \in Dirs) => g \in Seq(Level)
    PROVE  [grids EXCEPT ![p][d] = g] \in GridsType
<1>1. ASSUME NEW q \in Pairs, NEW e \in Dirs
      PROVE  [grids EXCEPT ![p][d] = g][q][e] \in Seq(Level)
  BY DEF BookType
<1> QED  BY <1>1 DEF BookType, GridsType

LEMMA RemovePendingType ==
    ASSUME BookType, NEW o, RemovePendingLevel(o)
    PROVE  grids' \in GridsType /\ meta' \in MetaType
<1>1. \A p \in Pairs, d \in Dirs : DropCid(grids[p][d], o) \in Seq(Level)
  BY GridType, DropCidProperties
<1>2. grids' \in GridsType
  BY <1>1 DEF BookType, GridsType, RemovePendingLevel
<1> QED  BY <1>2, WithoutMetaType DEF RemovePendingLevel, MetaType

LEMMA OnOrderFilledType ==
    ASSUME BookType, NEW o \in Orders, OnOrderFilled(o)
    PROVE  grids' \in GridsType /\ meta' \in MetaType
<1> DEFINE d == CidHome(o)
           p == PairOf[o]
<1>0. p \in Pairs /\ d \in Dirs
  BY TermsAssumption DEF CidHome, Dirs
<1>1. CASE ~HasCid(grids[p][d], o)
  BY <1>1 DEF OnOrderFilled, BookType, GridsType, MetaType
<1>2. CASE HasCid(grids[p][d], o)
  <2>1. IndexOfCid(grids[p][d], o) \in DOMAIN grids[p][d]
    BY <1>2 DEF HasCid, IndexOfCid
  <2>2. SetPid(grids[p][d], IndexOfCid(grids[p][d], o), o) \in Seq(Level)
    BY <1>0, <2>1, GridType, SetPidProperties DEF OrderOrNone
  <2>3. grids' = [grids EXCEPT ![p][d] = SetPid(grids[p][d], IndexOfCid(grids[p][d], o), o)]
        /\ meta' = WithoutMeta(o)
    BY <1>2 DEF OnOrderFilled
  <2> QED  BY <1>0, <2>2, <2>3, WithoutMetaType DEF BookType, GridsType, MetaType
<1> QED  BY <1>1, <1>2

LEMMA AdoptType ==
    ASSUME BookType, NEW o \in Orders, NEW level \in Level, Adopt(o, level)
    PROVE  grids' \in GridsType
<1>1. PairOf[o] \in Pairs /\ DirOf[o] \in Dirs
  BY TermsAssumption
<1>2. AddLevel(grids[PairOf[o]][DirOf[o]], level) \in Seq(Level)
  BY <1>1, GridType, AddLevelProperties
<1> QED  BY <1>1, <1>2 DEF Adopt, BookType, GridsType

LEMMA MatchType ==
    ASSUME NEW o, NEW width
    PROVE  MatchOrNone(o, width) \in OrderOrNone
<1>1. CASE Matches(o, width) = {}
  BY <1>1, FS_EmptySet DEF MatchOrNone, OrderOrNone
<1>2. CASE Matches(o, width) # {}
  BY <1>2 DEF MatchOrNone, OrderOrNone, Matches
<1> QED  BY <1>1, <1>2

LEMMA RestorePositionType ==
    ASSUME BookType, NEW o \in Orders, NEW width, RestorePosition(o, width)
    PROVE  grids' \in GridsType /\ meta' \in MetaType
<1>0. PairOf[o] \in Pairs /\ DirOf[o] \in Dirs /\ EntryOf[o] \in Nat
  BY TermsAssumption
<1>1. CASE HasPid(OwnGrid(o), o) /\ UNCHANGED <<grids, meta>>
  BY <1>1 DEF BookType, GridsType, MetaType
<1>2. ASSUME NEW i \in Slots(o, width),
             grids' = [grids EXCEPT ![PairOf[o]][DirOf[o]] = SetPid(@, i, o)],
             meta' = WithoutMeta(OwnGrid(o)[i].cid)
      PROVE  grids' \in GridsType /\ meta' \in MetaType
  <2>1. i \in DOMAIN OwnGrid(o)
    BY DEF Slots
  <2>2. SetPid(OwnGrid(o), i, o) \in Seq(Level)
    BY <1>0, <2>1, GridType, SetPidProperties DEF OwnGrid, OrderOrNone
  <2>3. meta' \in MetaType
    BY <1>2, WithoutMetaType DEF MetaType
  <2> QED  BY <1>0, <1>2, <2>2, <2>3 DEF BookType, GridsType, OwnGrid
<1>3. ASSUME NEW c \in OrderOrNone,
             Adopt(o, NewLevel(c, o, EntryOf[o], StepOf(c))),
             meta' = WithoutMeta(c)
      PROVE  grids' \in GridsType /\ meta' \in MetaType
  <2>1. StepOf(c) \in Nat
    BY DEF StepOf, BookType, Meta
  <2>2. NewLevel(c, o, EntryOf[o], StepOf(c)) \in Level
    BY <1>0, <2>1 DEF NewLevel, Level, OrderOrNone
  <2>3. meta' \in MetaType
    BY <1>3, WithoutMetaType DEF MetaType
  <2> QED  BY <1>3, <2>2, <2>3, AdoptType
<1> QED  BY <1>1, <1>2, <1>3, MatchType DEF RestorePosition

-----------------------------------------------------------------------------
(* Steps that move the job only. *)
LEMMA JobStepType ==
    ASSUME TypeInv, job' \in Job, LocalsOK',
           UNCHANGED <<brokerVars, bookVars, modeVars, pollVars, crashes>>
    PROVE  TypeInv'
BY DEF TypeInv, TypeOK, BrokerType, BookType, ControlType, brokerVars, bookVars,
       modeVars, pollVars

LEMMA SweepType ==
    ASSUME NEW j \in Job, NEW pc \in PCs, NEW pairs \in SUBSET Pairs, NEW after,
           NEW next \in Sweep(j, pc, pairs, after)
    PROVE  \/ next \in after
           \/ next \in Job /\ next.pc = pc
<1>1. CASE pairs = {}
  BY <1>1 DEF Sweep
<1>2. CASE pairs # {}
  <2>1. PICK p \in pairs :
          next = [j EXCEPT !.pc = pc, !.here = p, !.left = pairs \ {p},
                           !.snap = NoSnap, !.todo = {}, !.cur = NoOrder,
                           !.wait = NoOrder, !.answer = "none"]
    BY <1>2, Zenon DEF Sweep
  <2> QED  BY <2>1 DEF Job, PairOrNone, OrderOrNone
<1> QED  BY <1>1, <1>2

LEMMA IdleType == Idle \in Job
BY DEF Idle, Job, PCs, AllVerdicts, Dirs, PairOrNone, OrderOrNone

LEMMA LinkType ==
    ASSUME TypeInv, Link
    PROVE  TypeInv'
<1> USE DEF TypeInv, TypeOK, ControlType, LocalsOK, Job, PCs, Running, Fetching,
            Waiting, Snapshot, Answered, Idle
<1>1. ASSUME NEW o \in Orders, LinkPosition(o) PROVE TypeInv'
  <2>1. job' \in Job /\ LocalsOK'
    BY <1>1, IdleType DEF LinkPosition
  <2>2. BrokerType'
    BY <1>1 DEF LinkPosition, BrokerType, brokerVars
  <2>3. BookType'
    <3>1. grids' \in GridsType /\ meta' \in MetaType
      BY <1>1, RestorePositionType DEF LinkPosition
    <3> QED  BY <1>1, <3>1 DEF LinkPosition, BookType, GridsType, MetaType
  <2>4. ControlType'
    BY <1>1, <2>1 DEF LinkPosition, ControlType, modeVars, pollVars
  <2> QED  BY <2>1, <2>2, <2>3, <2>4
<1> QED  BY <1>1 DEF Link

LEMMA BootstrapType ==
    ASSUME TypeInv, Bootstrap
    PROVE  TypeInv'
<1> USE DEF TypeInv, TypeOK, ControlType, LocalsOK, Job, PCs, Running, Fetching,
            Waiting, Snapshot, Answered, Idle
<1>1. CASE BootPositions
  <2>1. job' \in Job /\ LocalsOK'
    <3>1. job' \in Job
      BY <1>1 DEF BootPositions
    <3>2. job'.pc = "boot_link"
      BY <1>1 DEF BootPositions
    <3> QED  BY <3>1, <3>2
  <2> QED  BY <1>1, <2>1, JobStepType DEF BootPositions
<1>2. CASE BootLinked
  <2>1. job' \in Job /\ LocalsOK'
    BY <1>2, IdleType DEF BootLinked
  <2> QED  BY <1>2, <2>1, JobStepType DEF BootLinked
<1>3. CASE BootOrders
  <2>1. job' \in Job /\ LocalsOK'
    <3>1. job' \in Job
      BY <1>3 DEF BootOrders
    <3>2. job'.pc = "boot_ord"
      BY <1>3 DEF BootOrders
    <3> QED  BY <3>1, <3>2
  <2> QED  BY <1>3, <2>1, JobStepType DEF BootOrders
<1>4. CASE BootDone
  <2>1. job' \in Job /\ LocalsOK'
    BY <1>4, IdleType DEF BootDone
  <2> QED  BY <1>4, <2>1, JobStepType DEF BootDone
<1>5. ASSUME NEW o \in Orders, RestorePending(o) PROVE TypeInv'
  <2>1. job' \in Job /\ LocalsOK'
    BY <1>5, IdleType DEF RestorePending
  <2>2. BrokerType'
    BY <1>5 DEF RestorePending, BrokerType, brokerVars
  <2>3. BookType'
    <3>1. CASE UNCHANGED bookVars
      BY <3>1 DEF BookType, bookVars
    <3>2. CASE ~UNCHANGED bookVars
      <4>1. NewLevel(o, NoOrder, PriceOf[o], 0) \in Level
        BY TermsAssumption DEF NewLevel, Level, OrderOrNone
      <4>2. grids' \in GridsType
        BY <1>5, <3>2, <4>1, AdoptType DEF RestorePending
      <4>3. meta' \in MetaType
        <5>1. NewMeta(0) \in Meta
          BY DEF NewMeta, Meta
        <5>2. meta' = [meta EXCEPT ![o] = NewMeta(0)]
          BY <1>5, <3>2 DEF RestorePending
        <5> QED  BY <5>1, <5>2 DEF BookType, MetaType
      <4>4. tracked' \in [Pairs -> OrderOrNone]
        BY <1>5, <3>2 DEF RestorePending, BookType, OrderOrNone
      <4>5. mapped' \in SUBSET Orders
        BY <1>5, <3>2 DEF RestorePending, BookType
      <4> QED  BY <4>2, <4>3, <4>4, <4>5 DEF BookType, GridsType, MetaType
    <3> QED  BY <3>1, <3>2
  <2>4. ControlType'
    BY <1>5, <2>1 DEF RestorePending, ControlType, modeVars, pollVars
  <2> QED  BY <2>1, <2>2, <2>3, <2>4
<1> QED  BY <1>1, <1>2, <1>3, <1>4, <1>5 DEF Bootstrap

LEMMA RefreshType ==
    ASSUME TypeInv, Refresh
    PROVE  TypeInv'
<1> USE DEF TypeInv, TypeOK, ControlType, LocalsOK, Job, PCs, Running, Fetching,
            Waiting, Snapshot, Answered, Idle
<1>1. CASE NextCycle
  <2>1. job' \in Job /\ LocalsOK'
    BY <1>1, IdleType DEF NextCycle
  <2>2. BrokerType'
    BY <1>1 DEF NextCycle, BrokerType, brokerVars
  <2>3. BookType'
    BY <1>1 DEF NextCycle, BookType, bookVars
  <2>4. ControlType'
    BY <1>1, <2>1 DEF NextCycle, ControlType, modeVars, pollVars
  <2> QED  BY <2>1, <2>2, <2>3, <2>4
<1>2. ASSUME NEW p \in Pairs, StartBar(p) PROVE TypeInv'
  <2>1. job' \in Job /\ LocalsOK'
    <3>1. cache \in Snapshot \cup {NoSnap} /\ p \in PairOrNone
      BY DEF PairOrNone
    <3>2. job' \in Job
      BY <1>2, <3>1, IdleType DEF StartBar
    <3>3. job'.pc = "rec"
      BY <1>2 DEF StartBar
    <3> QED  BY <3>2, <3>3
  <2>2. BrokerType'
    BY <1>2 DEF StartBar, BrokerType, brokerVars
  <2>3. BookType'
    BY <1>2 DEF StartBar, BookType, bookVars
  <2>4. ControlType'
    BY <1>2, <2>1 DEF StartBar, ControlType, modeVars, pollVars
  <2> QED  BY <2>1, <2>2, <2>3, <2>4
<1>3. CASE Reconcile
  <2>1. job' \in Job /\ LocalsOK'
    <3>1. job' \in Job
      BY <1>3 DEF Reconcile
    <3>2. job'.pc = "drop"
      BY <1>3 DEF Reconcile
    <3> QED  BY <3>1, <3>2
  <2> QED  BY <1>3, <2>1, JobStepType DEF Reconcile
<1>4. CASE DropStale
  <2>1. job' \in Job /\ LocalsOK'
    BY <1>4, IdleType DEF DropStale
  <2>2. BrokerType'
    BY <1>4 DEF DropStale, BrokerType, brokerVars
  <2>3. BookType'
    <3>1. \A p \in Pairs, d \in Dirs : \A o : DropPid(grids[p][d], o) \in Seq(Level)
      BY GridType, DropPidProperties
    <3>2. PICK d \in Dirs : \E pid :
            grids' = [grids EXCEPT ![job.bar][d] = DropPid(grids[job.bar][d], pid)]
      <4>1. PICK d \in Dirs : \E i \in DOMAIN grids[job.bar][d] :
              grids' = [grids EXCEPT ![job.bar][d] =
                          DropPid(grids[job.bar][d], grids[job.bar][d][i].pid)]
        BY <1>4 DEF DropStale
      <4> QED  BY <4>1
    <3>2a. PICK pid :
            grids' = [grids EXCEPT ![job.bar][d] = DropPid(grids[job.bar][d], pid)]
      BY <3>2
    <3>3. job.bar \in Pairs => DropPid(grids[job.bar][d], pid) \in Seq(Level)
      BY <3>1
    <3>4. grids' \in GridsType
      BY <3>2a, <3>3, SetGridType
    <3> QED  BY <1>4, <3>4 DEF DropStale, BookType, GridsType
  <2>4. ControlType'
    BY <1>4, <2>1 DEF DropStale, ControlType, modeVars, pollVars
  <2> QED  BY <2>1, <2>2, <2>3, <2>4
<1>5. CASE Dropped
  <2>1. job' \in Job /\ LocalsOK'
    <3>1. job' \in Job
      <4> DEFINE todo == {o \in job.todo : PairOf[o] = job.bar}
      <4>1. todo \in SUBSET Orders /\ job' = [job EXCEPT !.pc = "link", !.todo = todo]
        BY <1>5 DEF Dropped
      <4> HIDE DEF todo
      <4> QED  BY <4>1
    <3>2. job'.pc = "link"
      BY <1>5 DEF Dropped
    <3> QED  BY <3>1, <3>2
  <2> QED  BY <1>5, <2>1, JobStepType DEF Dropped
<1>6. CASE Linked
  <2>1. job' \in Job /\ LocalsOK'
    BY <1>6, IdleType DEF Linked
  <2> QED  BY <1>6, <2>1, JobStepType DEF Linked
<1>7. ASSUME NEW o \in Orders, TtlCancel(o) PROVE TypeInv'
  <2>1. job' \in Job /\ LocalsOK'
    <3>1. CASE job' = [job EXCEPT !.pc = "ttl_wait", !.todo = @ \ {o},
                                  !.cur = o, !.wait = o]
      BY <3>1 DEF OrderOrNone
    <3>2. CASE job' = [job EXCEPT !.todo = @ \ {o}]
      BY <3>2
    <3> QED  BY <1>7, <3>1, <3>2 DEF TtlCancel
  <2>2. BrokerType'
    BY <1>7, RequestCancelType DEF TtlCancel, BrokerType, brokerVars
  <2>3. BookType'
    BY <1>7, RemovePendingType DEF TtlCancel, BookType, GridsType, MetaType
  <2>4. ControlType'
    BY <1>7, <2>1 DEF TtlCancel, ControlType, modeVars, pollVars
  <2> QED  BY <2>1, <2>2, <2>3, <2>4
<1>8. CASE TtlCancelled
  <2>1. job' \in Job /\ LocalsOK'
    <3>1. job' \in Job
      BY <1>8 DEF TtlCancelled, OrderOrNone
    <3>2. job'.pc = "ttl"
      BY <1>8 DEF TtlCancelled
    <3> QED  BY <3>1, <3>2
  <2>2. BrokerType'
    BY <1>8 DEF TtlCancelled, BrokerType, brokerVars
  <2>3. BookType'
    BY <1>8, RemovePendingType DEF TtlCancelled, BookType, GridsType, MetaType
  <2>4. ControlType'
    BY <1>8, <2>1 DEF TtlCancelled, ControlType, modeVars, pollVars
  <2> QED  BY <2>1, <2>2, <2>3, <2>4
<1>9. CASE TtlDone
  <2>1. job' \in Job /\ LocalsOK'
    <3>1. CASE job' = [job EXCEPT !.pc = "assess"]
      BY <3>1, <1>9 DEF TtlDone
    <3>2. CASE job' = Idle
      BY <3>2, IdleType
    <3> QED  BY <1>9, <3>1, <3>2 DEF TtlDone
  <2> QED  BY <1>9, <2>1, JobStepType DEF TtlDone
<1>10. ASSUME NEW v \in Verdicts, Assess(v) PROVE TypeInv'
  <2>1. job' \in Job /\ LocalsOK'
    <3> DEFINE j == [job EXCEPT !.verdict = v, !.snap = NoSnap]
    <3>1. v \in AllVerdicts /\ j \in Job /\ [j EXCEPT !.pc = "sig"] \in Job
          /\ [j EXCEPT !.pc = "sig"].pc = "sig"
      BY EngineAssumption
    <3>2. \/ job' \in StartCancelAll(j) \/ job' \in StartResolve(j)
          \/ job' = [j EXCEPT !.pc = "sig"]
      BY <1>10 DEF Assess
    <3>3. ASSUME job' \in Job, job'.pc \in {"ca", "res", "sig"}
          PROVE  LocalsOK'
      BY <3>3
    <3> HIDE DEF j, LocalsOK, Job
    <3>4. CASE job' \in StartCancelAll(j)
      BY <3>1, <3>3, <3>4, SweepType DEF StartCancelAll
    <3>5. CASE job' \in StartResolve(j)
      BY <3>1, <3>3, <3>5, SweepType DEF StartResolve
    <3>6. CASE job' = [j EXCEPT !.pc = "sig"]
      BY <3>1, <3>3, <3>6
    <3> QED  BY <3>2, <3>4, <3>5, <3>6
  <2>2. BrokerType'
    BY <1>10 DEF Assess, BrokerType, brokerVars
  <2>3. BookType'
    BY <1>10 DEF Assess, BookType, bookVars
  <2>4. ControlType'
    <3>1. lastMode' \in AllVerdicts
      BY <1>10, EngineAssumption DEF Assess
    <3>2. UNCHANGED <<halted, cache, polled, crashes>>
      BY <1>10 DEF Assess, pollVars
    <3> QED  BY <2>1, <3>1, <3>2
  <2> QED  BY <2>1, <2>2, <2>3, <2>4
<1>11. CASE AssessFails
  <2>1. job' \in Job /\ LocalsOK'
    BY <1>11, IdleType DEF AssessFails
  <2> QED  BY <1>11, <2>1, JobStepType DEF AssessFails
<1> QED  BY <1>1, <1>2, <1>3, <1>4, <1>5, <1>6, <1>7, <1>8, <1>9, <1>10, <1>11 DEF Refresh

LEMMA CancelPendingType ==
    ASSUME TypeInv, CancelPending
    PROVE  TypeInv'
<1> USE DEF TypeInv, TypeOK, ControlType, LocalsOK, Job, PCs, Running, Fetching,
            Waiting, Snapshot, Answered, Idle
<1>1. CASE CancelAll
  <2>1. job' \in Job /\ LocalsOK'
    <3>1. job' \in Job
      BY <1>1 DEF CancelAll
    <3>2. job'.pc = "ca_loop"
      BY <1>1 DEF CancelAll
    <3> QED  BY <3>1, <3>2
  <2> QED  BY <1>1, <2>1, JobStepType DEF CancelAll
<1>2. CASE CancelledTracked
  <2>1. job' \in Job /\ LocalsOK'
    BY <1>2, IdleType DEF CancelledTracked, OrderOrNone
  <2>2. BrokerType'
    BY <1>2 DEF CancelledTracked, BrokerType, brokerVars
  <2>3. BookType'
    BY <1>2, RemovePendingType DEF CancelledTracked, BookType, GridsType, MetaType,
       OrderOrNone
  <2>4. ControlType'
    BY <1>2, <2>1 DEF CancelledTracked, ControlType, modeVars, pollVars
  <2> QED  BY <2>1, <2>2, <2>3, <2>4
<1>3. CASE TrackedTimesOut
  <2>1. job' \in Job /\ LocalsOK'
    BY <1>3, IdleType DEF TrackedTimesOut, OrderOrNone
  <2> QED  BY <1>3, <2>1, JobStepType DEF TrackedTimesOut
<1>4. CASE CancelDirect
  <2>1. job' \in Job /\ LocalsOK'
    <3>1. CASE job' = [job EXCEPT !.pc = "ca_own", !.wait = job.cur]
      BY <3>1
    <3>2. CASE job' = [job EXCEPT !.pc = "ca_loop", !.cur = NoOrder]
      BY <3>2 DEF OrderOrNone
    <3> QED  BY <1>4, <3>1, <3>2 DEF CancelDirect
  <2>2. BrokerType'
    BY <1>4, RequestCancelType DEF CancelDirect, BookType, BrokerType, brokerVars
  <2>3. BookType'
    BY <1>4, RemovePendingType DEF CancelDirect, BookType, GridsType, MetaType
  <2>4. ControlType'
    BY <1>4, <2>1 DEF CancelDirect, ControlType, modeVars, pollVars
  <2> QED  BY <2>1, <2>2, <2>3, <2>4
<1>5. CASE CancelledOwn
  <2>1. job' \in Job /\ LocalsOK'
    BY <1>5, IdleType DEF CancelledOwn, OrderOrNone
  <2>2. BrokerType'
    BY <1>5 DEF CancelledOwn, BrokerType, brokerVars
  <2>3. BookType'
    BY <1>5, RemovePendingType DEF CancelledOwn, BookType, GridsType, MetaType
  <2>4. ControlType'
    BY <1>5, <2>1 DEF CancelledOwn, ControlType, modeVars, pollVars
  <2> QED  BY <2>1, <2>2, <2>3, <2>4
<1>6. CASE CancelAllDone
  <2>1. job' \in Job /\ LocalsOK'
    <3> DEFINE j == [job EXCEPT !.here = NoPair, !.snap = NoSnap]
    <3>1. /\ j \in Job /\ job.left \in SUBSET Pairs
          /\ [j EXCEPT !.pc = "sig"] \in Job /\ [j EXCEPT !.pc = "sig"].pc = "sig"
          /\ [j EXCEPT !.pc = "cl_list"] \in Job
          /\ [j EXCEPT !.pc = "cl_list"].pc = "cl_list"
      <4>1. j \in Job /\ job.left \in SUBSET Pairs
        BY DEF PairOrNone
      <4> HIDE DEF j
      <4> QED  BY <4>1
    <3>2. \E after \in {{[j EXCEPT !.pc = "cl_list"]}, StartResolve(j),
                        {[j EXCEPT !.pc = "sig"]}} :
            job' \in Sweep(j, "ca", job.left, after)
      BY <1>6 DEF CancelAllDone
    <3>3. ASSUME job' \in Job, job'.pc \in {"ca", "res", "sig", "cl_list"}
          PROVE  LocalsOK'
      BY <3>3
    <3> HIDE DEF j, LocalsOK, Job
    <3>4. \/ job' \in Job /\ job'.pc = "ca"
          \/ job' = [j EXCEPT !.pc = "cl_list"]
          \/ job' \in StartResolve(j)
          \/ job' = [j EXCEPT !.pc = "sig"]
      BY <3>1, <3>2, SweepType
    <3>5. CASE job' \in StartResolve(j)
      BY <3>1, <3>3, <3>5, SweepType DEF StartResolve
    <3> QED  BY <3>1, <3>3, <3>4, <3>5
  <2> QED  BY <1>6, <2>1, JobStepType DEF CancelAllDone
<1>7. ASSUME NEW o \in Orders, CancelTracked(o) PROVE TypeInv'
  <2>1. job' \in Job /\ LocalsOK'
    <3> DEFINE j == [job EXCEPT !.cur = o, !.todo = @ \ {o}]
    <3>1. j \in Job
      BY DEF OrderOrNone
    <3>2. CASE /\ tracked[job.here] \in mapped
               /\ job' = [j EXCEPT !.pc = "ca_tracked", !.wait = tracked[job.here]]
      <4>1. tracked[job.here] \in OrderOrNone
        BY <3>2 DEF BookType, OrderOrNone
      <4> QED  BY <3>1, <3>2, <4>1
    <3>3. CASE job' = [j EXCEPT !.pc = "ca_direct"]
      BY <3>1, <3>3
    <3> QED  BY <1>7, <3>2, <3>3 DEF CancelTracked
  <2>2. BrokerType'
    BY <1>7, RequestCancelType DEF CancelTracked, BookType, BrokerType, brokerVars
  <2>3. BookType'
    BY <1>7 DEF CancelTracked, BookType, bookVars
  <2>4. ControlType'
    BY <1>7, <2>1 DEF CancelTracked, ControlType, modeVars, pollVars
  <2> QED  BY <2>1, <2>2, <2>3, <2>4
<1> HIDE DEF TypeInv, TypeOK, ControlType, LocalsOK, Job, Answered, Idle
<1> QED  BY <1>1, <1>2, <1>3, <1>4, <1>5, <1>6, <1>7 DEF CancelPending

LEMMA ClosePositionsType ==
    ASSUME TypeInv, ClosePositions
    PROVE  TypeInv'
<1> USE DEF TypeInv, TypeOK, ControlType, LocalsOK, Job, PCs, Running, Fetching,
            Waiting, Snapshot, Answered, Idle
<1>1. CASE ResolveStart
  <2>1. job' \in Job /\ LocalsOK'
    <3>1. job' \in Job
      BY <1>1 DEF ResolveStart, PendingCids, Dirs
    <3>2. job'.pc = "res_loop" /\ job'.snap = job.snap /\ job.snap # NoSnap
      BY <1>1 DEF ResolveStart
    <3>3. LocalsOK'
      BY <3>2
    <3> HIDE DEF TypeInv, Job, LocalsOK
    <3> QED  BY <3>1, <3>3
  <2> QED  BY <1>1, <2>1, JobStepType DEF ResolveStart
<1>2. CASE ResolveCancelled
  <2>1. job' \in Job /\ LocalsOK'
    BY <1>2, IdleType DEF ResolveCancelled, OrderOrNone
  <2>2. BrokerType'
    BY <1>2 DEF ResolveCancelled, BrokerType, brokerVars
  <2>3. BookType'
    BY <1>2, RemovePendingType DEF ResolveCancelled, BookType, GridsType, MetaType
  <2>4. ControlType'
    BY <1>2, <2>1 DEF ResolveCancelled, ControlType, modeVars, pollVars
  <2> QED  BY <2>1, <2>2, <2>3, <2>4
<1>3. CASE ResolveDone
  <2>1. job' \in Job /\ LocalsOK'
    <3> DEFINE j == [job EXCEPT !.here = NoPair, !.snap = NoSnap, !.side = "LONG"]
    <3>1. /\ j \in Job /\ job.left \in SUBSET Pairs
          /\ [j EXCEPT !.pc = "cl_list"] \in Job
          /\ [j EXCEPT !.pc = "cl_list"].pc = "cl_list"
      <4>1. j \in Job /\ job.left \in SUBSET Pairs
        BY DEF PairOrNone, Dirs
      <4> HIDE DEF j
      <4> QED  BY <4>1
    <3>2. \/ /\ job.side = "LONG"
             /\ job' = [job EXCEPT !.side = "SHORT",
                                   !.todo = PendingCids(grids[job.here]["SHORT"])]
          \/ \E after \in {StartCancelAll(j), {[j EXCEPT !.pc = "cl_list"]}} :
               job' \in Sweep(j, "res", job.left, after)
      BY <1>3 DEF ResolveDone
    <3>3. ASSUME job' \in Job, job'.pc \in {"ca", "res", "cl_list"}
          PROVE  LocalsOK'
      BY <3>3
    <3>4. CASE job' = [job EXCEPT !.side = "SHORT",
                                  !.todo = PendingCids(grids[job.here]["SHORT"])]
      BY <1>3, <3>4 DEF ResolveDone, PendingCids, Dirs
    <3> HIDE DEF j, LocalsOK, Job
    <3>5. ASSUME NEW after \in {StartCancelAll(j), {[j EXCEPT !.pc = "cl_list"]}},
                 job' \in Sweep(j, "res", job.left, after)
          PROVE  job' \in Job /\ LocalsOK'
      <4>1. \/ job' \in Job /\ job'.pc = "res"
            \/ job' = [j EXCEPT !.pc = "cl_list"]
            \/ job' \in StartCancelAll(j)
        BY <3>1, <3>5, SweepType
      <4>2. CASE job' \in StartCancelAll(j)
        BY <3>1, <3>3, <4>2, SweepType DEF StartCancelAll
      <4> QED  BY <3>1, <3>3, <4>1, <4>2
    <3> QED  BY <3>2, <3>4, <3>5
  <2> QED  BY <1>3, <2>1, JobStepType DEF ResolveDone
<1>4. ASSUME NEW o \in Orders, ResolveLevel(o) PROVE TypeInv'
  <2> DEFINE grid == grids[job.here][job.side]
             next == [job EXCEPT !.todo = @ \ {o}]
  <2>1. PICK i \in DOMAIN grid :
          \/ /\ job' = next
             /\ UNCHANGED <<brokerVars, grids, meta>>
          \/ /\ \E b \in Candidates(grid[i]) :
                  grids' = [grids EXCEPT ![job.here][job.side] = SetPid(grid, i, b)]
             /\ meta' = WithoutMeta(o)
             /\ job' = next
             /\ UNCHANGED brokerVars
          \/ /\ RequestCancel(o)
             /\ job' = [next EXCEPT !.pc = "res_wait", !.cur = o, !.wait = o]
             /\ UNCHANGED <<grids, meta>>
          \/ /\ RemovePendingLevel(o)
             /\ job' = next
             /\ UNCHANGED brokerVars
    BY <1>4 DEF ResolveLevel
  <2>2. job.pc = "res_loop" /\ UNCHANGED <<tracked, mapped, modeVars, pollVars, crashes>>
    BY <1>4 DEF ResolveLevel
  <2>3. job' \in Job /\ LocalsOK'
    <3>1. CASE job' = next
      BY <3>1, <2>2
    <3>2. CASE job' = [next EXCEPT !.pc = "res_wait", !.cur = o, !.wait = o]
      BY <3>2, <2>2 DEF OrderOrNone
    <3> QED  BY <2>1, <3>1, <3>2
  <2>4. BrokerType'
    <3>1. CASE UNCHANGED brokerVars
      BY <3>1 DEF BrokerType, brokerVars
    <3> QED  BY <2>1, <3>1, RequestCancelType
  <2>5. grids' \in GridsType /\ meta' \in MetaType
    <3>1. CASE UNCHANGED <<grids, meta>>
      BY <3>1 DEF BookType, GridsType, MetaType
    <3>2. CASE RemovePendingLevel(o)
      BY <3>2, RemovePendingType
    <3>3. ASSUME NEW b \in Candidates(grid[i]), meta' = WithoutMeta(o),
                 grids' = [grids EXCEPT ![job.here][job.side] = SetPid(grid, i, b)]
          PROVE  grids' \in GridsType /\ meta' \in MetaType
      <4>1. b \in OrderOrNone
        BY <2>2 DEF Candidates, OrderOrNone
      <4>2. job.here \in Pairs /\ job.side \in Dirs => SetPid(grid, i, b) \in Seq(Level)
        BY <4>1, GridType, SetPidProperties
      <4>3. grids' \in GridsType
        BY <3>3, <4>2 DEF BookType, GridsType
      <4> QED  BY <3>3, <4>3, WithoutMetaType DEF MetaType
    <3> QED  BY <2>1, <3>1, <3>2, <3>3
  <2>6. BookType'
    BY <2>2, <2>5 DEF BookType, GridsType, MetaType
  <2>7. ControlType'
    BY <2>2, <2>3 DEF modeVars, pollVars
  <2> QED  BY <2>3, <2>4, <2>6, <2>7
<1>5. ASSUME NEW o \in Orders, ClosePosition(o) PROVE TypeInv'
  <2>1. job' \in Job /\ LocalsOK'
    BY <1>5, IdleType DEF ClosePosition, OrderOrNone
  <2>2. BrokerType'
    BY <1>5, RequestCloseType DEF ClosePosition
  <2>3. BookType'
    BY <1>5 DEF ClosePosition, BookType, bookVars
  <2>4. ControlType'
    BY <1>5, <2>1 DEF ClosePosition, ControlType, modeVars, pollVars
  <2> QED  BY <2>1, <2>2, <2>3, <2>4
<1>6. CASE ListPositions
  <2>1. job' \in Job /\ LocalsOK'
    <3>1. job.snap.pos \in SUBSET Orders
      BY <1>6 DEF ListPositions
    <3> DEFINE j == [job EXCEPT !.pc = "cl_loop", !.snap = NoSnap]
    <3>2. j \in Job /\ j.pc = "cl_loop"
      OBVIOUS
    <3>3. \/ job' = j
          \/ \E todo \in {job.snap.pos} : job' = [j EXCEPT !.todo = todo]
          \/ \E todo \in {{o} : o \in job.snap.pos} : job' = [j EXCEPT !.todo = todo]
      <4> HIDE DEF j
      <4>1. CASE job.verdict = "TPSL"
        BY <1>6, <4>1 DEF ListPositions, j
      <4>2. CASE job.verdict # "TPSL"
        BY <1>6, <4>2 DEF ListPositions, j
      <4> QED  BY <4>1, <4>2
    <3> HIDE DEF j
    <3>4. ASSUME NEW todo \in SUBSET Orders, job' = [j EXCEPT !.todo = todo]
          PROVE  job' \in Job /\ LocalsOK'
      BY <3>2, <3>4
    <3> QED  BY <3>1, <3>2, <3>3, <3>4
  <2> QED  BY <1>6, <2>1, JobStepType DEF ListPositions
<1>7. CASE CloseVerified
  <2>1. job' \in Job /\ LocalsOK'
    <3>1. job' \in Job
      BY <1>7 DEF CloseVerified, OrderOrNone
    <3>2. job'.pc = "cl_loop"
      BY <1>7 DEF CloseVerified
    <3> QED  BY <3>1, <3>2
  <2>2. BrokerType'
    BY <1>7 DEF CloseVerified, BrokerType, brokerVars
  <2>3. BookType'
    <3>1. \A p \in Pairs, d \in Dirs : DropPid(grids[p][d], job.cur) \in Seq(Level)
      BY GridType, DropPidProperties
    <3>2. grids' \in GridsType
      <4> DEFINE p == PairOf[job.cur]
                 d == PidHome(job.cur)
      <4>1. grids' = [grids EXCEPT ![p][d] = DropPid(grids[p][d], job.cur)]
        BY <1>7 DEF CloseVerified
      <4> HIDE DEF p, d
      <4> QED  BY <3>1, <4>1, SetGridType
    <3> QED  BY <1>7, <3>2 DEF CloseVerified, BookType, GridsType
  <2>4. ControlType'
    BY <1>7, <2>1 DEF CloseVerified, ControlType, modeVars, pollVars
  <2> QED  BY <2>1, <2>2, <2>3, <2>4
<1>8. CASE CloseAgain
  <2>1. job' \in Job /\ LocalsOK'
    <3>1. job' \in Job
      BY <1>8 DEF CloseAgain
    <3>2. job'.pc = job.pc /\ job'.cur = job.cur
      BY <1>8 DEF CloseAgain
    <3> QED  BY <1>8, <3>1, <3>2 DEF CloseAgain
  <2>2. BrokerType'
    BY <1>8, RequestCloseType DEF CloseAgain
  <2>3. BookType'
    BY <1>8 DEF CloseAgain, BookType, bookVars
  <2>4. ControlType'
    BY <1>8, <2>1 DEF CloseAgain, ControlType, modeVars, pollVars
  <2> QED  BY <2>1, <2>2, <2>3, <2>4
<1>9. CASE CloseFails
  <2>1. job' \in Job /\ LocalsOK'
    <3>1. job' \in Job
      BY <1>9 DEF CloseFails, OrderOrNone
    <3>2. job'.pc = "cl_loop"
      BY <1>9 DEF CloseFails
    <3> QED  BY <3>1, <3>2
  <2>2. BrokerType'
    BY <1>9 DEF CloseFails, BrokerType, brokerVars
  <2>3. BookType'
    BY <1>9 DEF CloseFails, BookType, bookVars
  <2>4. ControlType'
    BY <1>9, <2>1 DEF CloseFails, ControlType, modeVars, pollVars
  <2> QED  BY <2>1, <2>2, <2>3, <2>4
<1>10. CASE CloseDone
  <2>1. job' \in Job /\ LocalsOK'
    BY <1>10, IdleType DEF CloseDone
  <2>2. BrokerType'
    BY <1>10 DEF CloseDone, BrokerType, brokerVars
  <2>3. BookType'
    BY <1>10 DEF CloseDone, BookType, bookVars
  <2>4. ControlType'
    BY <1>10, <2>1 DEF CloseDone, ControlType, modeVars, pollVars
  <2> QED  BY <2>1, <2>2, <2>3, <2>4
<1> QED  BY <1>1, <1>2, <1>3, <1>4, <1>5, <1>6, <1>7, <1>8, <1>9, <1>10 DEF ClosePositions

LEMMA OpenLevelType ==
    ASSUME TypeInv, OpenLevel
    PROVE  TypeInv'
<1> USE DEF TypeInv, TypeOK, ControlType, LocalsOK, Job, PCs, Running, Fetching,
            Waiting, Snapshot, Answered, Idle
<1>1. CASE NoSignal
  <2>1. job' \in Job /\ LocalsOK'
    BY <1>1, IdleType DEF NoSignal
  <2> QED  BY <1>1, <2>1, JobStepType DEF NoSignal
<1>2. CASE SkipDuplicate
  <2>1. job' \in Job /\ LocalsOK'
    BY <1>2, IdleType DEF SkipDuplicate
  <2>2. BrokerType'
    BY <1>2 DEF SkipDuplicate, BrokerType, brokerVars
  <2>3. BookType'
    <3>1. PICK o \in Duplicates :
            \/ UNCHANGED grids
            \/ grids' = [grids EXCEPT ![job.bar][DirOf[job.cur]] =
                           AddLevel(@, NewLevel(o, NoOrder, PriceOf[o], meta[o].step))]
      BY <1>2 DEF SkipDuplicate
    <3>2. o \in Orders
      BY <1>2 DEF SkipDuplicate, Duplicates
    <3>3. NewLevel(o, NoOrder, PriceOf[o], meta[o].step) \in Level
      BY <3>2, TermsAssumption DEF NewLevel, Level, OrderOrNone, BookType, Meta
    <3>4. \A p \in Pairs, d \in Dirs :
            AddLevel(grids[p][d], NewLevel(o, NoOrder, PriceOf[o], meta[o].step)) \in Seq(Level)
      BY <3>3, GridType, AddLevelProperties
    <3>5. grids' \in GridsType
      <4> DEFINE d == DirOf[job.cur]
                 g == AddLevel(grids[job.bar][d], NewLevel(o, NoOrder, PriceOf[o], meta[o].step))
      <4>1. job.bar \in Pairs /\ d \in Dirs => g \in Seq(Level)
        BY <3>4
      <4>2. UNCHANGED grids \/ grids' = [grids EXCEPT ![job.bar][d] = g]
        BY <3>1
      <4> HIDE DEF g, d
      <4>3. CASE UNCHANGED grids
        BY <4>3 DEF BookType, GridsType
      <4>4. [grids EXCEPT ![job.bar][d] = g] \in GridsType
        BY <4>1, SetGridType
      <4> QED  BY <4>2, <4>3, <4>4
    <3> QED  BY <1>2, <3>5 DEF SkipDuplicate, BookType, GridsType
  <2>4. ControlType'
    BY <1>2, <2>1 DEF SkipDuplicate, ControlType, modeVars, pollVars
  <2> QED  BY <2>1, <2>2, <2>3, <2>4
<1>3. CASE Place
  <2>1. job' \in Job /\ LocalsOK'
    <3>1. job' \in Job
      BY <1>3 DEF Place, OrderOrNone
    <3>2. job.pc = "dup" /\ job'.pc = "place" /\ job'.cur = job.cur
      BY <1>3 DEF Place
    <3> QED  BY <3>1, <3>2
  <2>2. BrokerType'
    BY <1>3 DEF Place, BrokerType, OrderStates
  <2>3. BookType'
    BY <1>3 DEF Place, BookType, bookVars
  <2>4. ControlType'
    BY <1>3, <2>1 DEF Place, ControlType, modeVars, pollVars
  <2> QED  BY <2>1, <2>2, <2>3, <2>4
<1>4. CASE Placed
  <2>1. job' \in Job /\ LocalsOK'
    BY <1>4, IdleType DEF Placed
  <2>2. BrokerType'
    BY <1>4 DEF Placed, BrokerType, brokerVars
  <2>3. BookType'
    <3>1. job.cur \in Orders
      BY <1>4 DEF Placed
    <3>2. NewLevel(job.cur, NoOrder, PriceOf[job.cur], GridStep) \in Level
      BY <3>1, TermsAssumption, EngineAssumption DEF NewLevel, Level, OrderOrNone
    <3>3. grids' \in GridsType
      BY <1>4, <3>1, <3>2, AdoptType DEF Placed
    <3>4. meta' \in MetaType
      BY <1>4, <3>1, EngineAssumption DEF Placed, BookType, MetaType, Meta, NewMeta
    <3>5. tracked' \in [Pairs -> OrderOrNone]
      BY <1>4, <3>1 DEF Placed, BookType, OrderOrNone
    <3> QED  BY <1>4, <3>3, <3>4, <3>5 DEF Placed, BookType, GridsType, MetaType
  <2>4. ControlType'
    BY <1>4, <2>1 DEF Placed, ControlType, modeVars, pollVars
  <2> QED  BY <2>1, <2>2, <2>3, <2>4
<1>5. CASE PlaceFails
  <2>1. job' \in Job /\ LocalsOK'
    BY <1>5, IdleType DEF PlaceFails
  <2> QED  BY <1>5, <2>1, JobStepType DEF PlaceFails
<1>6. ASSUME NEW o \in Orders, Signal(o) PROVE TypeInv'
  <2>1. job' \in Job /\ LocalsOK'
    BY <1>6, IdleType DEF Signal, OrderOrNone
  <2> QED  BY <1>6, <2>1, JobStepType DEF Signal
<1> QED  BY <1>1, <1>2, <1>3, <1>4, <1>5, <1>6 DEF OpenLevel

-----------------------------------------------------------------------------
(* Execution events *)
LEMMA HandleType ==
    ASSUME TypeInv, NEW type, NEW o, Handle(type, o)
    PROVE  BrokerType' /\ UNCHANGED <<lastMode, halted, cache, polled, crashes>>
<1>1. events \in Seq(Event) /\ events # <<>>
  BY DEF TypeInv, TypeOK, BrokerType, Handle
<1>2. Tail(events) \in Seq(Event)
  BY <1>1
<1> QED  BY <1>2 DEF TypeInv, TypeOK, BrokerType, Handle, modeVars, pollVars

LEMMA ResolveType ==
    ASSUME TypeInv, NEW pcs, NEW o, NEW result \in {"ok", "fail"},
           Resolve(pcs, o, result)
    PROVE  job' \in Job /\ LocalsOK'
<1>1. Passed \in Nat
  BY DEF TypeInv, TypeOK, ControlType, Job, Passed
<1>2. PICK answer \in {"none", "ok", "fail"} :
        job' = [job EXCEPT !.barrier = Passed, !.answer = answer]
  BY DEF TypeInv, TypeOK, ControlType, Job, Resolve
<1> HIDE DEF Passed
<1> QED  BY <1>1, <1>2 DEF TypeInv, TypeOK, ControlType, LocalsOK, Job

LEMMA DeliverType ==
    ASSUME TypeInv, NEW o \in Orders,
           \/ OnAccepted(o) \/ OnFilled(o) \/ OnExpired(o)
           \/ OnCancelled(o) \/ OnError(o) \/ OnClosed(o)
    PROVE  TypeInv'
<1> USE DEF Untrack, bookVars
<1>1. /\ BrokerType' /\ UNCHANGED <<lastMode, halted, cache, polled, crashes>>
      /\ job' \in Job /\ LocalsOK'
  BY HandleType, ResolveType
     DEF OnAccepted, OnFilled, OnExpired, OnCancelled, OnError, OnClosed
<1>2. grids' \in GridsType /\ meta' \in MetaType
  <2>1. CASE OnFilled(o)
    BY <2>1, OnOrderFilledType DEF OnFilled, TypeInv, TypeOK
  <2>2. CASE UNCHANGED <<grids, meta>>
    BY <2>2 DEF TypeInv, TypeOK, BookType, GridsType, MetaType
  <2> QED  BY <2>1, <2>2 DEF OnAccepted, OnExpired, OnCancelled, OnError, OnClosed
<1>3. tracked' \in [Pairs -> OrderOrNone]
  BY DEF OnAccepted, OnFilled, OnExpired, OnCancelled, OnError, OnClosed,
         TypeInv, TypeOK, BookType, OrderOrNone
<1>4. mapped' \in SUBSET Orders
  BY DEF OnAccepted, OnFilled, OnExpired, OnCancelled, OnError, OnClosed,
         TypeInv, TypeOK, BookType
<1>5. BookType'
  BY <1>2, <1>3, <1>4 DEF BookType, GridsType, MetaType
<1>6. ControlType'
  BY <1>1 DEF TypeInv, TypeOK, ControlType
<1> QED  BY <1>1, <1>5, <1>6 DEF TypeInv, TypeOK

-----------------------------------------------------------------------------
(* The broker, the clock, the answers and the restarts *)
LEMMA OutsideType ==
    ASSUME TypeInv, Outside
    PROVE  TypeInv'
<1>1. BrokerType'
  BY BrokerStepType DEF Outside, TypeInv, TypeOK
<1>2. BookType'
  BY DEF Outside, TypeInv, TypeOK, BookType, bookVars
<1>3. ControlType' /\ LocalsOK'
  BY DEF Outside, TypeInv, TypeOK, ControlType, LocalsOK, modeVars, pollVars
<1> QED  BY <1>1, <1>2, <1>3 DEF TypeInv, TypeOK

LEMMA ServeReconcileType ==
    ASSUME TypeInv, ServeReconcile
    PROVE  TypeInv'
<1>1. PICK snap \in Snapshot, barrier \in Nat :
        job' = [job EXCEPT !.snap = snap, !.barrier = barrier] /\ cache' = snap
  <2>1. CurrentSnapshot \in Snapshot /\ [pos |-> {}, ords |-> {}] \in Snapshot
    BY DEF CurrentSnapshot, Snapshot, Positions, WorkingOrders
  <2>2. Len(events) \in Nat /\ job = [job EXCEPT !.barrier = job.barrier]
        /\ job.barrier \in Nat
    BY DEF TypeInv, TypeOK, BrokerType, ControlType, Job
  <2>3. CASE /\ job' = [job EXCEPT !.snap = CurrentSnapshot, !.barrier = Len(events)]
             /\ cache' = CurrentSnapshot
    BY <2>1, <2>2, <2>3
  <2>4. CASE /\ job' = [job EXCEPT !.snap = [pos |-> {}, ords |-> {}]]
             /\ cache' = [pos |-> {}, ords |-> {}]
    <3>1. job' = [job EXCEPT !.snap = [pos |-> {}, ords |-> {}],
                             !.barrier = job.barrier]
      BY <2>4 DEF TypeInv, TypeOK, ControlType, Job
    <3> QED  BY <2>1, <2>2, <2>4, <3>1
  <2> QED  BY <2>3, <2>4 DEF ServeReconcile
<1>2. job' \in Job
  BY <1>1 DEF TypeInv, TypeOK, ControlType, Job
<1>3. LocalsOK'
  BY <1>1, EngineAssumption DEF TypeInv, TypeOK, ControlType, LocalsOK, Job
<1>4. ControlType'
  BY <1>1, <1>2 DEF ServeReconcile, TypeInv, TypeOK, ControlType, modeVars
<1>5. BrokerType' /\ BookType'
  BY DEF ServeReconcile, TypeInv, TypeOK, BrokerType, BookType, brokerVars, bookVars
<1> QED  BY <1>3, <1>4, <1>5 DEF TypeInv, TypeOK

LEMMA CacheExpiresType ==
    ASSUME TypeInv, CacheExpires
    PROVE  TypeInv'
BY DEF CacheExpires, TypeInv, TypeOK, BrokerType, BookType, ControlType, LocalsOK,
       brokerVars, bookVars, modeVars

LEMMA AgeType ==
    ASSUME TypeInv, NEW o \in Orders, Age(o)
    PROVE  TypeInv'
<1>1. meta' \in MetaType
  <2>1. [meta[o] EXCEPT !.late = TRUE] \in Meta
    BY DEF TypeInv, TypeOK, BookType, Meta
  <2>2. meta' = [meta EXCEPT ![o] = [meta[o] EXCEPT !.late = TRUE]]
    BY DEF Age
  <2> QED  BY <2>1, <2>2 DEF TypeInv, TypeOK, BookType, MetaType
<1>2. BookType'
  BY <1>1 DEF Age, TypeInv, TypeOK, BookType, MetaType
<1>3. BrokerType' /\ ControlType' /\ LocalsOK'
  BY DEF Age, TypeInv, TypeOK, BrokerType, ControlType, LocalsOK, brokerVars, modeVars,
     pollVars
<1> QED  BY <1>2, <1>3 DEF TypeInv, TypeOK

LEMMA CrashType ==
    ASSUME TypeInv, Crash
    PROVE  TypeInv'
<1> USE DEF Crash, FreshProgram, TypeInv, TypeOK
<1>1. BrokerType'
  <2>1. <<>> \in Seq(Event)
    OBVIOUS
  <2> QED  BY <2>1 DEF BrokerType
<1>2. BookType'
  BY DEF BookType, EmptyGrids, NoMeta, Meta, OrderOrNone
<1>3. job' \in Job /\ LocalsOK'
  BY IdleType DEF LocalsOK, Job, PCs, Fetching
<1>4. ControlType'
  <2>1. crashes' \in Nat
    BY DEF ControlType
  <2>2. lastMode' \in AllVerdicts /\ cache' = NoSnap /\ polled' = {}
    BY DEF AllVerdicts
  <2>3. halted' \in BOOLEAN
    OBVIOUS
  <2> QED  BY <1>3, <2>1, <2>2, <2>3 DEF ControlType
<1> QED  BY <1>1, <1>2, <1>3, <1>4

LEMMA TypeStep == TypeInv /\ [Next]_vars => TypeInv'
<1> SUFFICES ASSUME TypeInv, [Next]_vars PROVE TypeInv'
  OBVIOUS
<1>1. CASE Engine
  BY <1>1, LinkType, BootstrapType, RefreshType, CancelPendingType,
     ClosePositionsType, OpenLevelType DEF Engine
<1>2. CASE Deliver
  BY <1>2, DeliverType DEF Deliver
<1>3. CASE Outside
  BY <1>3, OutsideType
<1>4. CASE ServeReconcile
  BY <1>4, ServeReconcileType
<1>5. CASE CacheExpires
  BY <1>5, CacheExpiresType
<1>6. CASE Crash
  BY <1>6, CrashType
<1>7. ASSUME NEW o \in Orders, Age(o) PROVE TypeInv'
  BY <1>7, AgeType
<1>8. CASE UNCHANGED vars
  BY <1>8 DEF vars, brokerVars, bookVars, modeVars, pollVars, TypeInv, TypeOK,
     BrokerType, BookType, ControlType, LocalsOK
<1> QED  BY <1>1, <1>2, <1>3, <1>4, <1>5, <1>6, <1>7, <1>8 DEF Next

(* In every behaviour each variable keeps its type, and the handler finds  *)
(* an order where it goes on with one.                                     *)
THEOREM TypeCorrect == Spec => [](TypeOK /\ LocalsOK)
<1>1. TypeInv => TypeOK /\ LocalsOK
  BY DEF TypeInv
<1> QED  BY <1>1, TypeInit, TypeStep, PTL DEF Spec
=============================================================================
