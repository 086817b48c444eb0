------------------------- MODULE HaloCoherence_proofs -------------------------
(***************************************************************************)
(* Proofs about HaloCoherence, for any number of devices, any local time   *)
(* extent and any set of fields.                                           *)
(***************************************************************************)
EXTENDS HaloCoherence, TLAPS

(***************************************************************************)
(* Geometry                                                                *)
(***************************************************************************)

(* The neighbours on the ring of devices, as update_halo computes them,    *)
(* are inverse to one another.                                             *)
LEMMA Neighbours ==
    ASSUME NEW d \in Devices
    PROVE  /\ upper_grid_neighbour(d) \in Devices
           /\ lower_grid_neighbour(d) \in Devices
           /\ upper_grid_neighbour(lower_grid_neighbour(d)) = d
           /\ lower_grid_neighbour(upper_grid_neighbour(d)) = d
  BY GridAssumption DEF Devices, upper_grid_neighbour, lower_grid_neighbour

(* The rows in memory are the main rows and the full halo on both sides.   *)
LEMMA RowLayout ==
    /\ MainRows \subseteq MemRows
    /\ \A w \in 1 .. HaloExtent : HaloRows(w) \subseteq MemRows \ MainRows
    /\ MemRows = MainRows \cup HaloRows(HaloExtent)
  BY GridAssumption DEF MainRows, MemRows, MemT, HaloRows, UpperHalo, LowerHalo

(* Every row in memory is meant to hold some global row.                   *)
LEMMA HomeType ==
    ASSUME NEW d \in Devices, NEW r \in MemRows
    PROVE  Home(d, r) \in GlobalRows
  BY Neighbours, GridAssumption DEF MainRows, MemRows, MemT, GlobalRows, Home

(* A step in time of at most w rows from a main row stays within the main  *)
(* rows and the halo of width w, and reaches the neighbouring global row,  *)
(* the wrap-around at row 0 included.                                      *)
LEMMA StepInTime ==
    ASSUME NEW d \in Devices, NEW r \in MainRows, NEW w \in 0 .. HaloExtent,
           NEW o \in -w .. w
    PROVE  /\ NeighbourRow(r, o) \in MainRows \cup HaloRows(w)
           /\ Home(d, NeighbourRow(r, o)) = Shift(Home(d, r), o)
  BY Neighbours, GridAssumption
     DEF MainRows, MemT, HaloRows, UpperHalo, LowerHalo, NeighbourRow, Home, Shift

(* No step: the row itself. *)
LEMMA NoStep ==
    ASSUME NEW d \in Devices, NEW r \in MemRows
    PROVE  /\ NeighbourRow(r, 0) = r
           /\ Shift(Home(d, r), 0) = Home(d, r)
  BY Neighbours, GridAssumption DEF MainRows, MemRows, MemT, NeighbourRow, Home, Shift

(***************************************************************************)
(* The exchange                                                            *)
(***************************************************************************)
MainRight(S, f) == \A d \in Devices : \A r \in MainRows : RowRight(S, f, d, r)

(* What links loaded from current main rows of f carry: for the upper      *)
(* neighbour its lower halo, for the lower neighbour its upper halo.       *)
LinksRight(S, f, w) ==
    /\ LinksHold(S, f, w)
    /\ \A i \in Devices : \A k \in 0 .. w - 1 :
        /\ S.link[<<upper_grid_neighbour(i), i, "DOWN">>].row[k] = Home(i, LocalT + k)
        /\ S.link[<<lower_grid_neighbour(i), i, "UP">>].row[k] = Home(i, MemT - w + k)

\* Starting a transfer extracts, from every device, the rows at its ends.
LEMMA InitializeRight ==
    ASSUME NEW S \in MemStates, NEW f \in Fields, NEW w \in 1 .. HaloExtent
    PROVE  LET T == initialize_update_halo_soa(S, f, w)
           IN /\ T \in MemStates
              /\ T.data = S.data /\ T.valid = S.valid
              /\ LinksHold(T, f, w)
              /\ MainRight(S, f) => LinksRight(T, f, w)
<1> DEFINE T == initialize_update_halo_soa(S, f, w)
           Content(i, first) ==
               [field |-> f, width |-> w,
                row |-> [k \in 0 .. HaloExtent - 1 |->
                           IF k < w THEN S.data[f][i][first + k] ELSE Stale]]
           lk == [l \in Links |->
                    IF l = <<l[1], upper_grid_neighbour(l[1]), "UP">>
                    THEN Content(l[1], LocalT - w)
                    ELSE IF l = <<l[1], lower_grid_neighbour(l[1]), "DOWN">>
                    THEN Content(l[1], 0)
                    ELSE S.link[l]]
<1>1. T = [S EXCEPT !.link = lk]
  BY DEF initialize_update_halo_soa
<1>2. /\ S.data \in [Fields -> [Devices -> [MemRows -> Cells]]]
      /\ S.valid \in [EoFields -> Widths]
      /\ T = [data |-> S.data, link |-> lk, valid |-> S.valid]
  BY <1>1 DEF MemStates
<1>3. \A i \in Devices : \A first \in {LocalT - w, 0} :
        Content(i, first) \in [field : Fields \cup {NoField}, width : Widths,
                                row : [0 .. HaloExtent - 1 -> Cells]]
  <2> SUFFICES ASSUME NEW i \in Devices, NEW first \in {LocalT - w, 0},
                      NEW k \in 0 .. HaloExtent - 1, k < w
               PROVE  S.data[f][i][first + k] \in Cells
    BY GridAssumption DEF Cells, Widths
  <2>1. first + k \in MemRows
    BY GridAssumption DEF MemRows, MemT
  <2> QED BY <1>2, <2>1
<1>4. lk \in [Links -> [field : Fields \cup {NoField}, width : Widths,
                        row : [0 .. HaloExtent - 1 -> Cells]]]
  <2> SUFFICES ASSUME NEW l \in Links
               PROVE  lk[l] \in [field : Fields \cup {NoField}, width : Widths,
                                 row : [0 .. HaloExtent - 1 -> Cells]]
    OBVIOUS
  <2>1. l[1] \in Devices
    BY DEF Links
  <2>2. S.link[l] \in [field : Fields \cup {NoField}, width : Widths,
                       row : [0 .. HaloExtent - 1 -> Cells]]
    BY DEF MemStates
  <2> HIDE DEF Content
  <2> QED BY <1>3, <2>1, <2>2
<1>5. \A i \in Devices :
        /\ lk[<<lower_grid_neighbour(i), i, "UP">>]
             = Content(lower_grid_neighbour(i), LocalT - w)
        /\ lk[<<upper_grid_neighbour(i), i, "DOWN">>]
             = Content(upper_grid_neighbour(i), 0)
  <2> SUFFICES ASSUME NEW i \in Devices
               PROVE  /\ lk[<<lower_grid_neighbour(i), i, "UP">>]
                           = Content(lower_grid_neighbour(i), LocalT - w)
                      /\ lk[<<upper_grid_neighbour(i), i, "DOWN">>]
                           = Content(upper_grid_neighbour(i), 0)
    OBVIOUS
  <2> DEFINE up == <<lower_grid_neighbour(i), i, "UP">>
             down == <<upper_grid_neighbour(i), i, "DOWN">>
  <2>1. up \in Links /\ down \in Links
    BY Neighbours DEF Links, Dirs
  <2>2. /\ up = <<up[1], upper_grid_neighbour(up[1]), "UP">>
        /\ down # <<down[1], upper_grid_neighbour(down[1]), "UP">>
        /\ down = <<down[1], lower_grid_neighbour(down[1]), "DOWN">>
    BY Neighbours
  <2> HIDE DEF Content
  <2> QED BY <2>1, <2>2
<1>6. /\ T.data = S.data /\ T.valid = S.valid
      /\ \A i \in Devices :
           /\ T.link[<<lower_grid_neighbour(i), i, "UP">>]
                = Content(lower_grid_neighbour(i), LocalT - w)
           /\ T.link[<<upper_grid_neighbour(i), i, "DOWN">>]
                = Content(upper_grid_neighbour(i), 0)
  <2> HIDE DEF Content, lk, T
  <2> QED BY <1>2, <1>5
<1>8. T \in MemStates
  <2> HIDE DEF lk, T
  <2> QED BY <1>2, <1>4 DEF MemStates
<1>10. ASSUME NEW i, NEW first
       PROVE  /\ Content(i, first).field = f
              /\ Content(i, first).width = w
              /\ \A k \in 0 .. w - 1 : Content(i, first).row[k] = S.data[f][i][first + k]
  BY GridAssumption
<1> HIDE DEF lk, T, Content
<1>9. LinksHold(T, f, w)
  BY <1>6, <1>10 DEF LinksHold
<1>7. ASSUME MainRight(S, f) PROVE LinksRight(T, f, w)
  <2> SUFFICES ASSUME NEW i \in Devices, NEW k \in 0 .. w - 1
               PROVE  /\ T.link[<<upper_grid_neighbour(i), i, "DOWN">>].row[k]
                            = Home(i, LocalT + k)
                      /\ T.link[<<lower_grid_neighbour(i), i, "UP">>].row[k]
                            = Home(i, MemT - w + k)
    BY <1>9 DEF LinksRight
  <2>1. /\ T.link[<<upper_grid_neighbour(i), i, "DOWN">>].row[k]
             = S.data[f][upper_grid_neighbour(i)][k]
        /\ T.link[<<lower_grid_neighbour(i), i, "UP">>].row[k]
             = S.data[f][lower_grid_neighbour(i)][LocalT - w + k]
    <3>1. S.data[f][upper_grid_neighbour(i)][0 + k] = S.data[f][upper_grid_neighbour(i)][k]
      OBVIOUS
    <3> QED BY <1>6, <1>10, <3>1
  <2>2. k \in MainRows /\ LocalT - w + k \in MainRows
    BY GridAssumption DEF MainRows
  <2>3. /\ S.data[f][upper_grid_neighbour(i)][k] = Home(upper_grid_neighbour(i), k)
        /\ S.data[f][lower_grid_neighbour(i)][LocalT - w + k]
             = Home(lower_grid_neighbour(i), LocalT - w + k)
    BY <1>7, <2>2, Neighbours DEF MainRight, RowRight
  <2>4. /\ Home(upper_grid_neighbour(i), k) = Home(i, LocalT + k)
        /\ Home(lower_grid_neighbour(i), LocalT - w + k) = Home(i, MemT - w + k)
    BY GridAssumption DEF Home, MemT
  <2> QED BY <2>1, <2>3, <2>4
<1> QED BY <1>6, <1>7, <1>8, <1>9 DEF T

Contents == [Devices -> [MemRows -> Cells]]

(* Overwriting one field in memory. *)
LEMMA SetField ==
    ASSUME NEW S \in MemStates, NEW f \in Fields, NEW C \in Contents
    PROVE  LET T == [S EXCEPT !.data[f] = C]
           IN /\ T \in MemStates
              /\ T.link = S.link /\ T.valid = S.valid
              /\ T.data = [S.data EXCEPT ![f] = C]
              /\ T.data[f] = C
              /\ \A g \in Fields \ {f} : T.data[g] = S.data[g]
<1> DEFINE T == [S EXCEPT !.data[f] = C]
<1>1. /\ S.data \in [Fields -> Contents]
      /\ S = [data |-> S.data, link |-> S.link, valid |-> S.valid]
  BY DEF MemStates, Contents
<1>2. T = [data |-> [S.data EXCEPT ![f] = C], link |-> S.link, valid |-> S.valid]
  BY <1>1
<1>3. [S.data EXCEPT ![f] = C] \in [Fields -> Contents]
  BY <1>1
<1> QED BY <1>1, <1>2, <1>3 DEF MemStates, Contents

(* What an exchange of f with width w has to achieve.                      *)
Exchanged(S, T, f, w) ==
    /\ T \in MemStates
    /\ T.valid = S.valid
    /\ \A g \in Fields \ {f} : T.data[g] = S.data[g]
    /\ \A d \in Devices : \A r \in MainRows : T.data[f][d][r] = S.data[f][d][r]
    /\ HaloRight(T, f, w)

\* Dumping what was extracted gives the neighbours' rows to both halos.
LEMMA FinalizeRight ==
    ASSUME NEW S \in MemStates, NEW f \in Fields, NEW w \in 1 .. HaloExtent,
           LinksRight(S, f, w)
    PROVE  Exchanged(S, finalize_update_halo_soa(S, f, w), f, w)
<1> DEFINE T == finalize_update_halo_soa(S, f, w)
           up(i) == <<lower_grid_neighbour(i), i, "UP">>
           down(i) == <<upper_grid_neighbour(i), i, "DOWN">>
           Received(l, k) == IF S.link[l].field = f THEN S.link[l].row[k] ELSE Stale
           C == [i \in Devices |-> [r \in MemRows |->
                    IF r \in UpperHalo(w) THEN Received(down(i), r - LocalT)
                    ELSE IF r \in LowerHalo(w) THEN Received(up(i), r - (MemT - w))
                    ELSE S.data[f][i][r]]]
<1>1. T = [S EXCEPT !.data[f] = C]
  BY DEF finalize_update_halo_soa
<1>2. \A i \in Devices : \A k \in 0 .. w - 1 :
        /\ Received(down(i), k) = Home(i, LocalT + k)
        /\ Received(up(i), k) = Home(i, MemT - w + k)
  BY DEF LinksRight, LinksHold
<1>3. ASSUME NEW i \in Devices, NEW r \in MemRows
      PROVE  /\ r \in HaloRows(w) => C[i][r] = Home(i, r)
             /\ r \notin HaloRows(w) => C[i][r] = S.data[f][i][r]
  <2>1. CASE r \in UpperHalo(w)
    <3>1. r - LocalT \in 0 .. w - 1 /\ LocalT + (r - LocalT) = r
      BY <2>1, GridAssumption DEF UpperHalo
    <3> HIDE DEF Received
    <3>2. C[i][r] = Received(down(i), r - LocalT)
      BY <2>1
    <3> QED BY <1>2, <2>1, <3>1, <3>2 DEF HaloRows
  <2>2. CASE r \in LowerHalo(w) /\ r \notin UpperHalo(w)
    <3>1. r - (MemT - w) \in 0 .. w - 1 /\ MemT - w + (r - (MemT - w)) = r
      BY <2>2, GridAssumption DEF LowerHalo, MemT
    <3> HIDE DEF Received
    <3>2. C[i][r] = Received(up(i), r - (MemT - w))
      BY <2>2
    <3> QED BY <1>2, <2>2, <3>1, <3>2 DEF HaloRows
  <2>3. CASE r \notin HaloRows(w)
    BY <2>3 DEF HaloRows
  <2> QED BY <2>1, <2>2, <2>3 DEF HaloRows
<1>4. C \in Contents
  <2> SUFFICES ASSUME NEW i \in Devices, NEW r \in MemRows
               PROVE  C[i][r] \in Cells
    BY DEF Contents
  <2>1. S.data[f][i][r] \in Cells
    BY DEF MemStates
  <2>2. Home(i, r) \in Cells
    BY HomeType DEF Cells
  <2> HIDE DEF C
  <2> QED BY <1>3, <2>1, <2>2
<1> HIDE DEF C
<1>5. \A d \in Devices : \A r \in MainRows : C[d][r] = S.data[f][d][r]
  BY <1>3, RowLayout
<1>6. \A d \in Devices : \A r \in HaloRows(w) : C[d][r] = Home(d, r)
  BY <1>3, RowLayout
<1> QED
  <2>1. /\ T \in MemStates /\ T.valid = S.valid /\ T.data[f] = C
        /\ \A g \in Fields \ {f} : T.data[g] = S.data[g]
    BY <1>1, <1>4, SetField
  <2> HIDE DEF T
  <2>2. Exchanged(S, T, f, w)
    BY <2>1, <1>5, <1>6 DEF Exchanged, HaloRight, RowRight
  <2> QED BY <2>2 DEF T

\* The copy in one piece fills the halos with the neighbours' rows.
LEMMA AosRight ==
    ASSUME NEW S \in MemStates, NEW f \in Fields, MainRight(S, f)
    PROVE  Exchanged(S, update_halo_aos(S, f), f, HaloExtent)
<1> DEFINE T == update_halo_aos(S, f)
           C == [i \in Devices |-> [r \in MemRows |->
                    IF r \in UpperHalo(HaloExtent)
                    THEN S.data[f][upper_grid_neighbour(i)][r - LocalT]
                    ELSE IF r \in LowerHalo(HaloExtent)
                    THEN S.data[f][lower_grid_neighbour(i)]
                                [LocalT - HaloExtent + (r - (LocalT + HaloExtent))]
                    ELSE S.data[f][i][r]]]
<1>1. T = [S EXCEPT !.data[f] = C]
  BY DEF update_halo_aos
<1>2. \A d \in Devices : \A r \in MainRows : S.data[f][d][r] = Home(d, r)
  BY DEF MainRight, RowRight
<1>3. ASSUME NEW i \in Devices, NEW r \in MemRows
      PROVE  /\ r \in HaloRows(HaloExtent) => C[i][r] = Home(i, r)
             /\ r \notin HaloRows(HaloExtent) => C[i][r] = S.data[f][i][r]
  <2>1. CASE r \in UpperHalo(HaloExtent)
    <3>1. r - LocalT \in MainRows /\ r - LocalT < LocalT
      BY <2>1, GridAssumption DEF UpperHalo, MainRows
    <3>2. C[i][r] = Home(upper_grid_neighbour(i), r - LocalT)
      BY <1>2, <2>1, <3>1, Neighbours
    <3>3. Home(upper_grid_neighbour(i), r - LocalT) = Home(i, r)
      BY <2>1, <3>1, GridAssumption DEF Home, UpperHalo
    <3> QED BY <2>1, <3>2, <3>3 DEF HaloRows
  <2>2. CASE r \in LowerHalo(HaloExtent) /\ r \notin UpperHalo(HaloExtent)
    <3> DEFINE k == LocalT - HaloExtent + (r - (LocalT + HaloExtent))
    <3>1. k \in MainRows /\ k = r - 2 * HaloExtent
      BY <2>2, GridAssumption DEF LowerHalo, MainRows, MemT
    <3>2. C[i][r] = Home(lower_grid_neighbour(i), k)
      BY <1>2, <2>2, <3>1, Neighbours
    <3>3. Home(lower_grid_neighbour(i), k) = Home(i, r)
      BY <2>2, <3>1, GridAssumption DEF Home, LowerHalo, MemT, MainRows
    <3> QED BY <2>2, <3>2, <3>3 DEF HaloRows
  <2>3. CASE r \notin HaloRows(HaloExtent)
    BY <2>3 DEF HaloRows
  <2> QED BY <2>1, <2>2, <2>3 DEF HaloRows
<1>4. C \in Contents
  <2> SUFFICES ASSUME NEW i \in Devices, NEW r \in MemRows
               PROVE  C[i][r] \in Cells
    BY DEF Contents
  <2>1. S.data[f][i][r] \in Cells
    BY DEF MemStates
  <2>2. Home(i, r) \in Cells
    BY HomeType DEF Cells
  <2> HIDE DEF C
  <2> QED BY <1>3, <2>1, <2>2
<1> HIDE DEF C
<1>5. \A d \in Devices : \A r \in MainRows : C[d][r] = S.data[f][d][r]
  <2>1. HaloExtent \in 1 .. HaloExtent
    BY GridAssumption
  <2> QED BY <1>3, <2>1, RowLayout
<1>6. \A d \in Devices : \A r \in HaloRows(HaloExtent) : C[d][r] = Home(d, r)
  BY <1>3, RowLayout
<1> QED
  <2>1. /\ T \in MemStates /\ T.valid = S.valid /\ T.data[f] = C
        /\ \A g \in Fields \ {f} : T.data[g] = S.data[g]
    BY <1>1, <1>4, SetField
  <2> HIDE DEF T
  <2>2. Exchanged(S, T, f, HaloExtent)
    BY <2>1, <1>5, <1>6 DEF Exchanged, HaloRight, RowRight
  <2> QED BY <2>2 DEF T

\* After an exchange every claimed row is current, on both paths.
LEMMA UpdateRight ==
    ASSUME NEW S \in MemStates, NEW f \in Fields, NEW w \in 1 .. HaloExtent,
           MainRight(S, f)
    PROVE  Exchanged(S, update_halo(S, f, w), f, w)
<1>1. CASE SOA
  <2> DEFINE T == initialize_update_halo_soa(S, f, w)
  <2>1. /\ T \in MemStates /\ T.data = S.data /\ T.valid = S.valid
        /\ LinksRight(T, f, w)
    BY InitializeRight
  <2> HIDE DEF T
  <2>2. Exchanged(T, finalize_update_halo_soa(T, f, w), f, w)
    BY <2>1, FinalizeRight
  <2>3. Exchanged(S, finalize_update_halo_soa(T, f, w), f, w)
    BY <2>1, <2>2 DEF Exchanged
  <2> QED BY <1>1, <2>3 DEF T, update_halo
<1>2. CASE ~SOA
  <2>1. Exchanged(S, update_halo_aos(S, f), f, HaloExtent)
    BY AosRight
  <2>2. HaloRows(w) \subseteq HaloRows(HaloExtent)
    BY GridAssumption DEF HaloRows, UpperHalo, LowerHalo, MemT
  <2> QED BY <1>2, <2>1, <2>2 DEF update_halo, Exchanged, HaloRight
<1> QED BY <1>1, <1>2

(***************************************************************************)
(* The bookkeeping                                                         *)
(***************************************************************************)

(* What the protocol guarantees of a field that has been written: its main *)
(* rows, the halo its width claims, and the full halo where updates are    *)
(* eager.                                                                  *)
FieldGood(S, f) ==
    /\ MainRight(S, f)
    /\ (LAZY /\ f \in EoFields) => HaloRight(S, f, S.valid[f])
    /\ (f \in EagerFields \/ ~LAZY) => HaloRight(S, f, HaloExtent)

(* T differs from S only in field f and in the links. *)
OnlyField(S, T, f) ==
    /\ T \in MemStates
    /\ \A g \in Fields \ {f} : T.data[g] = S.data[g]
    /\ \A g \in EoFields \ {f} : T.valid[g] = S.valid[g]

\* An operation that leaves a field alone leaves it good.
LEMMA OthersStayGood ==
    ASSUME NEW S \in MemStates, NEW T, NEW f \in Fields, NEW g \in Fields \ {f},
           OnlyField(S, T, f), FieldGood(S, g)
    PROVE  FieldGood(T, g)
  BY DEF OnlyField, FieldGood, MainRight, HaloRight, RowRight

\* No row is further out than the halo is wide.
LEMMA FullWidth ==
    ASSUME NEW w \in Widths
    PROVE  Full(w) \in 1 .. HaloExtent /\ w <= Full(w)
  BY GridAssumption DEF Full, Widths

\* A narrower claim is implied by a wider one.
LEMMA WidthMonotone ==
    ASSUME NEW S \in MemStates, NEW f \in Fields,
           NEW v \in Widths, NEW w \in Widths, w <= v, HaloRight(S, f, v)
    PROVE  HaloRight(S, f, w)
<1>1. HaloRows(w) \subseteq HaloRows(v)
  BY GridAssumption DEF HaloRows, UpperHalo, LowerHalo, MemT, Widths
<1> QED BY <1>1 DEF HaloRight

\* A claim of width 0 is about the device's own rows only.
LEMMA NoHalo ==
    ASSUME NEW S, NEW f PROVE HaloRight(S, f, 0)
  BY GridAssumption DEF HaloRight, HaloRows, UpperHalo, LowerHalo, MemT

(* Changing the width a field claims. *)
LEMMA SetValid ==
    ASSUME NEW S \in MemStates, NEW f \in EoFields, NEW w \in Widths
    PROVE  LET T == [S EXCEPT !.valid[f] = w]
           IN /\ T \in MemStates /\ T.data = S.data /\ T.link = S.link
              /\ T.valid[f] = w
              /\ \A g \in EoFields \ {f} : T.valid[g] = S.valid[g]
<1>1. S = [data |-> S.data, link |-> S.link, valid |-> S.valid]
  BY DEF MemStates
<1>2. [S EXCEPT !.valid[f] = w]
        = [data |-> S.data, link |-> S.link, valid |-> [S.valid EXCEPT ![f] = w]]
  BY <1>1
<1>3. S.valid \in [EoFields -> Widths] /\ [S.valid EXCEPT ![f] = w] \in [EoFields -> Widths]
  BY DEF MemStates
<1> QED BY <1>1, <1>2, <1>3 DEF MemStates

\* A field marked dirty is good when its own rows are.
LEMMA MarkDirtyGood ==
    ASSUME NEW S \in MemStates, NEW f \in EoFields, MainRight(S, f)
    PROVE  /\ OnlyField(S, mark_halo_dirty(S, f), f)
           /\ FieldGood(mark_halo_dirty(S, f), f)
<1> f \in Fields /\ f \notin EagerFields
  BY FieldAssumption DEF Fields
<1>1. CASE LAZY
  <2> DEFINE T == [S EXCEPT !.valid[f] = 0]
  <2>0. 0 \in Widths
    BY GridAssumption DEF Widths
  <2>1. /\ T \in MemStates /\ T.data = S.data /\ T.valid[f] = 0
        /\ \A g \in EoFields \ {f} : T.valid[g] = S.valid[g]
    BY <2>0, SetValid
  <2> HIDE DEF T
  <2>2. OnlyField(S, T, f)
    BY <2>1 DEF OnlyField
  <2>3. FieldGood(T, f)
    BY <1>1, <2>1, NoHalo DEF FieldGood, MainRight, RowRight
  <2> QED BY <1>1, <2>2, <2>3 DEF mark_halo_dirty, T
<1>2. CASE ~LAZY
  <2> DEFINE T == update_halo(S, f, HaloExtent)
  <2>1. HaloExtent \in 1 .. HaloExtent
    BY GridAssumption
  <2>2. Exchanged(S, T, f, HaloExtent)
    BY <2>1, UpdateRight
  <2> HIDE DEF T
  <2>3. OnlyField(S, T, f)
    BY <2>2 DEF Exchanged, OnlyField
  <2>4. FieldGood(T, f)
    BY <1>2, <2>2 DEF Exchanged, FieldGood, MainRight, RowRight
  <2> QED BY <1>2, <2>3, <2>4 DEF mark_halo_dirty, T
<1> QED BY <1>1, <1>2

\* A field marked clean is good when all its rows are.
LEMMA MarkCleanGood ==
    ASSUME NEW S \in MemStates, NEW f \in EoFields,
           MainRight(S, f), HaloRight(S, f, HaloExtent)
    PROVE  /\ OnlyField(S, mark_halo_clean(S, f, 0), f)
           /\ FieldGood(mark_halo_clean(S, f, 0), f)
<1> f \in Fields /\ f \notin EagerFields
  BY FieldAssumption DEF Fields
<1>1. CASE LAZY
  <2> DEFINE T == [S EXCEPT !.valid[f] = HaloExtent]
  <2>0. HaloExtent \in Widths
    BY GridAssumption DEF Widths
  <2>1. /\ T \in MemStates /\ T.data = S.data /\ T.valid[f] = HaloExtent
        /\ \A g \in EoFields \ {f} : T.valid[g] = S.valid[g]
    BY <2>0, SetValid
  <2> HIDE DEF T
  <2>2. OnlyField(S, T, f)
    BY <2>1 DEF OnlyField
  <2>3. FieldGood(T, f)
    BY <1>1, <2>1 DEF FieldGood, MainRight, HaloRight, RowRight
  <2> QED BY <1>1, <2>2, <2>3 DEF mark_halo_clean, Full, T
<1>2. CASE ~LAZY
  BY <1>2 DEF mark_halo_clean, OnlyField, FieldGood
<1> QED BY <1>1, <1>2

(* After require_halo the required halo is valid, whether or not an        *)
(* exchange was needed.                                                    *)
LEMMA RequireGood ==
    ASSUME NEW S \in MemStates, NEW f \in EoFields, NEW reqd \in Widths, FieldGood(S, f)
    PROVE  LET T == require_halo(S, f, reqd)
           IN /\ OnlyField(S, T, f)
              /\ FieldGood(T, f)
              /\ HaloRight(T, f, Full(reqd))
<1> f \in Fields /\ f \notin EagerFields
  BY FieldAssumption DEF Fields
<1>1. /\ Full(reqd) \in 1 .. HaloExtent /\ Full(reqd) \in Widths
      /\ HaloExtent \in Widths /\ S.valid[f] \in Widths
  BY FullWidth, GridAssumption DEF Widths, MemStates
<1>2. CASE LAZY /\ S.valid[f] < Full(reqd)
  <2> DEFINE U == update_halo(S, f, Full(reqd))
             T == [U EXCEPT !.valid[f] = Full(reqd)]
  <2>1. Exchanged(S, U, f, Full(reqd))
    BY <1>1, UpdateRight DEF FieldGood
  <2> HIDE DEF U
  <2>2. /\ U \in MemStates /\ U.valid = S.valid
        /\ T \in MemStates /\ T.data = U.data /\ T.valid[f] = Full(reqd)
        /\ \A g \in EoFields \ {f} : T.valid[g] = U.valid[g]
    BY <1>1, <2>1, SetValid DEF Exchanged
  <2> HIDE DEF T
  <2>3. OnlyField(S, T, f)
    BY <2>1, <2>2 DEF Exchanged, OnlyField
  <2>4. FieldGood(T, f) /\ HaloRight(T, f, Full(reqd))
    BY <1>2, <2>1, <2>2 DEF Exchanged, FieldGood, MainRight, HaloRight, RowRight
  <2> QED BY <1>2, <2>3, <2>4 DEF require_halo, T, U
<1>3. CASE ~(LAZY /\ S.valid[f] < Full(reqd))
  <2>1. HaloRight(S, f, Full(reqd))
    <3>1. CASE LAZY
      <4>1. Full(reqd) <= S.valid[f]
        BY <1>1, <1>3, <3>1 DEF Widths
      <4> QED BY <1>1, <3>1, <4>1, WidthMonotone DEF FieldGood
    <3>2. CASE ~LAZY
      <4>1. Full(reqd) <= HaloExtent
        BY <1>1
      <4> QED BY <1>1, <3>2, <4>1, WidthMonotone DEF FieldGood
    <3> QED BY <3>1, <3>2
  <2> QED BY <1>3, <2>1 DEF require_halo, OnlyField
<1> QED BY <1>2, <1>3

(***************************************************************************)
(* Kernels                                                                 *)
(***************************************************************************)
LinkStates == [Links -> [field : Fields \cup {NoField}, width : Widths,
                         row : [0 .. HaloExtent - 1 -> Cells]]]

\* A value with no defined content is a buffer like any other.
LEMMA ForgetType ==
    ASSUME NEW lk \in LinkStates, NEW out
    PROVE  /\ Forget(lk, out) \in LinkStates
           /\ \A l \in Links : lk[l].field # out => Forget(lk, out)[l] = lk[l]
<1> DEFINE cleared(l) == [lk[l] EXCEPT !.row = [k \in 0 .. HaloExtent - 1 |-> Stale]]
<1>1. \A l \in Links : cleared(l) \in [field : Fields \cup {NoField}, width : Widths,
                                      row : [0 .. HaloExtent - 1 -> Cells]]
  BY DEF LinkStates, Cells
<1> HIDE DEF cleared
<1>2. Forget(lk, out) = [l \in Links |-> IF lk[l].field = out THEN cleared(l) ELSE lk[l]]
  BY DEF Forget, cleared
<1> QED BY <1>1, <1>2 DEF LinkStates

\* What a kernel leaves in one row.
LEMMA ComputedRow ==
    ASSUME NEW D, NEW out, NEW rows, NEW kept, NEW reads, NEW d \in Devices, NEW r \in MemRows
    PROVE  /\ (r \in rows /\ ReadsRight(D, reads, d, r))
                  => Computed(D, out, rows, kept, reads)[d][r] = Home(d, r)
           /\ (r \notin rows /\ r \in kept)
                  => Computed(D, out, rows, kept, reads)[d][r] = D[out][d][r]
  BY DEF Computed

\* What a kernel leaves in a buffer is a buffer.
LEMMA ComputedType ==
    ASSUME NEW S \in MemStates, NEW out \in Fields, NEW rows, NEW kept, NEW reads
    PROVE  Computed(S.data, out, rows, kept, reads) \in Contents
<1> DEFINE C == Computed(S.data, out, rows, kept, reads)
<1>1. \A d \in Devices : \A r \in MemRows :
        C[d][r] = IF r \in rows
                  THEN IF ReadsRight(S.data, reads, d, r) THEN Home(d, r) ELSE Stale
                  ELSE IF r \in kept THEN S.data[out][d][r] ELSE Stale
  BY DEF Computed
<1>2. \A d \in Devices : \A r \in MemRows : Home(d, r) \in Cells /\ S.data[out][d][r] \in Cells
  BY HomeType DEF Cells, MemStates
<1>3. Stale \in Cells
  BY DEF Cells
<1>4. \A d \in Devices : \A r \in MemRows : C[d][r] \in Cells
  <2> HIDE DEF C
  <2> QED BY <1>1, <1>2, <1>3
<1> QED BY <1>4 DEF Computed, Contents

(* Overwriting a field and forgetting its copies in the links. *)
LEMMA SetFieldAndLinks ==
    ASSUME NEW S \in MemStates, NEW f \in Fields, NEW C \in Contents, NEW K \in LinkStates
    PROVE  LET T == [data |-> [S.data EXCEPT ![f] = C], link |-> K, valid |-> S.valid]
           IN /\ OnlyField(S, T, f)
              /\ T.data[f] = C /\ T.link = K /\ T.valid = S.valid
<1> DEFINE T == [data |-> [S.data EXCEPT ![f] = C], link |-> K, valid |-> S.valid]
<1> DEFINE D == [S.data EXCEPT ![f] = C]
<1>1. /\ S.data \in [Fields -> Contents]
      /\ S = [data |-> S.data, link |-> S.link, valid |-> S.valid]
      /\ S.valid \in [EoFields -> Widths]
  BY DEF MemStates, Contents
<1>2. T = [data |-> D, link |-> K, valid |-> S.valid]
  BY <1>1
<1>3. D \in [Fields -> Contents] /\ D[f] = C /\ \A g \in Fields \ {f} : D[g] = S.data[g]
  BY <1>1
<1> HIDE DEF D, T
<1>4. T \in MemStates
  BY <1>1, <1>2, <1>3 DEF MemStates, Contents, LinkStates
<1>5. T.data = D /\ T.link = K /\ T.valid = S.valid
  BY <1>2
<1> QED BY <1>3, <1>4, <1>5 DEF OnlyField, T

\* A kernel is right on every row whose inputs it reads currently.
LEMMA KernelRight ==
    ASSUME NEW S \in MemStates, NEW out \in Fields, NEW rows \in SUBSET MemRows, NEW reads
    PROVE  LET T == Kernel(S, out, rows, reads)
           IN /\ OnlyField(S, T, out)
              /\ T.valid = S.valid
              /\ T.link = Forget(S.link, out)
              /\ \A d \in Devices : \A r \in rows :
                    ReadsRight(S.data, reads, d, r) => RowRight(T, out, d, r)
<1> DEFINE C == Computed(S.data, out, rows, {}, reads)
           K == Forget(S.link, out)
           T == Kernel(S, out, rows, reads)
<1>1. C \in Contents /\ K \in LinkStates
  BY ComputedType, ForgetType DEF MemStates, LinkStates
<1>2. \A d \in Devices : \A r \in MemRows :
        (r \in rows /\ ReadsRight(S.data, reads, d, r)) => C[d][r] = Home(d, r)
  BY ComputedRow
<1>3. T = [data |-> [S.data EXCEPT ![out] = C], link |-> K, valid |-> S.valid]
  BY DEF Kernel
<1> HIDE DEF C, K, T
<1>4. OnlyField(S, T, out) /\ T.data[out] = C /\ T.link = K /\ T.valid = S.valid
  BY <1>1, <1>3, SetFieldAndLinks
<1>5. \A d \in Devices : \A r \in rows :
        ReadsRight(S.data, reads, d, r) => RowRight(T, out, d, r)
  BY <1>2, <1>4 DEF RowRight
<1> QED BY <1>4, <1>5 DEF K, T

\* A second kernel is right on its own rows and keeps the others.
LEMMA CompletedRight ==
    ASSUME NEW S \in MemStates, NEW out \in Fields, NEW rows \in SUBSET MemRows, NEW reads
    PROVE  LET T == Completed(S, out, rows, reads)
           IN /\ OnlyField(S, T, out)
              /\ T.valid = S.valid
              /\ \A d \in Devices : \A r \in rows :
                    ReadsRight(S.data, reads, d, r) => RowRight(T, out, d, r)
              /\ \A d \in Devices : \A r \in MemRows \ rows :
                    RowRight(S, out, d, r) => RowRight(T, out, d, r)
<1> DEFINE C == Computed(S.data, out, rows, MemRows, reads)
           K == Forget(S.link, out)
           T == Completed(S, out, rows, reads)
<1>1. C \in Contents /\ K \in LinkStates
  BY ComputedType, ForgetType DEF MemStates, LinkStates
<1>2. \A d \in Devices : \A r \in MemRows :
        /\ (r \in rows /\ ReadsRight(S.data, reads, d, r)) => C[d][r] = Home(d, r)
        /\ (r \notin rows /\ r \in MemRows) => C[d][r] = S.data[out][d][r]
  BY ComputedRow
<1>3. T = [data |-> [S.data EXCEPT ![out] = C], link |-> K, valid |-> S.valid]
  BY DEF Completed
<1> HIDE DEF C, K, T
<1>4. OnlyField(S, T, out) /\ T.data[out] = C /\ T.link = K /\ T.valid = S.valid
  BY <1>1, <1>3, SetFieldAndLinks
<1>5. /\ \A d \in Devices : \A r \in rows :
           ReadsRight(S.data, reads, d, r) => RowRight(T, out, d, r)
      /\ \A d \in Devices : \A r \in MemRows \ rows :
           RowRight(S, out, d, r) => RowRight(T, out, d, r)
  BY <1>2, <1>4 DEF RowRight
<1> QED BY <1>4, <1>5 DEF T

(* A site kernel carries over what all its inputs have in common. *)
LEMMA SiteKernelRight ==
    ASSUME NEW S \in MemStates, NEW out \in Fields, NEW ins \in SUBSET Fields
    PROVE  LET T == SiteKernel(S, out, ins)
           IN /\ OnlyField(S, T, out)
              /\ T.valid = S.valid
              /\ (\A f \in ins : MainRight(S, f)) => MainRight(T, out)
              /\ \A w \in 1 .. HaloExtent :
                    (\A f \in ins : HaloRight(S, f, w)) => HaloRight(T, out, w)
<1> DEFINE T == SiteKernel(S, out, ins)
<1>1. /\ OnlyField(S, T, out) /\ T.valid = S.valid
      /\ \A d \in Devices : \A r \in MemRows :
            ReadsRight(S.data, ins \X {0}, d, r) => RowRight(T, out, d, r)
  BY KernelRight DEF SiteKernel
<1> HIDE DEF T
<1>2. ASSUME NEW d \in Devices, NEW r \in MemRows, \A f \in ins : RowRight(S, f, d, r)
      PROVE  RowRight(T, out, d, r)
  BY <1>1, <1>2, NoStep DEF ReadsRight, RowRight
<1>3. (\A f \in ins : MainRight(S, f)) => MainRight(T, out)
  BY <1>2, RowLayout DEF MainRight
<1>4. \A w \in 1 .. HaloExtent : (\A f \in ins : HaloRight(S, f, w)) => HaloRight(T, out, w)
  BY <1>2, RowLayout DEF HaloRight
<1> QED BY <1>1, <1>3, <1>4 DEF T

(* A kernel that steps at most w rows in time from a main row reads the    *)
(* right data from a field whose halo of width w is valid.                 *)
LEMMA StencilRight ==
    ASSUME NEW S \in MemStates, NEW f \in Fields, NEW w \in 0 .. HaloExtent,
           MainRight(S, f), HaloRight(S, f, w),
           NEW d \in Devices, NEW r \in MainRows, NEW o \in -w .. w
    PROVE  S.data[f][d][NeighbourRow(r, o)] = Shift(Home(d, r), o)
  BY StepInTime DEF MainRight, HaloRight, RowRight

(* The inner rows need no halo. *)
LEMMA InnerStencilRight ==
    ASSUME NEW S \in MemStates, NEW f \in Fields, MainRight(S, f),
           NEW d \in Devices, NEW r \in InnerRows, NEW o \in -1 .. 1
    PROVE  S.data[f][d][NeighbourRow(r, o)] = Shift(Home(d, r), o)
<1>1. NeighbourRow(r, o) \in MainRows /\ NeighbourRow(r, o) = r + o /\ r \in MainRows
  BY GridAssumption DEF InnerRows, ReqdHaloWidth, MainRows, NeighbourRow, MemT
<1>2. Home(d, r + o) = Shift(Home(d, r), o)
  BY <1>1, GridAssumption DEF MainRows, Home, Shift
<1> QED BY <1>1, <1>2 DEF MainRight, RowRight

(* The hopping term reads its neighbours' right values on all main rows. *)
LEMMA HoppingRight ==
    ASSUME NEW S \in MemStates, NEW in \in Fields, NEW gf \in Fields,
           MainRight(S, in), HaloRight(S, in, 1),
           MainRight(S, gf), HaloRight(S, gf, HaloExtent)
    PROVE  \A d \in Devices : \A r \in MainRows : ReadsRight(S.data, Hopping(in, gf), d, r)
<1>1. 1 \in 0 .. HaloExtent /\ HaloExtent \in 0 .. HaloExtent
  BY GridAssumption
<1> SUFFICES ASSUME NEW d \in Devices, NEW r \in MainRows
             PROVE  ReadsRight(S.data, Hopping(in, gf), d, r)
  OBVIOUS
<1>2. \A o \in -1 .. 1 : S.data[in][d][NeighbourRow(r, o)] = Shift(Home(d, r), o)
  BY <1>1, StencilRight
<1>3. \A o \in -HaloExtent .. HaloExtent :
        S.data[gf][d][NeighbourRow(r, o)] = Shift(Home(d, r), o)
  BY <1>1, StencilRight
<1>4. {-1, 0, 1} \subseteq -1 .. 1 /\ {-1, 0} \subseteq -HaloExtent .. HaloExtent
  BY GridAssumption
<1> QED BY <1>2, <1>3, <1>4 DEF ReadsRight, Hopping

(***************************************************************************)
(* The inductive invariant.  MainRowsCurrent alone is not inductive: the   *)
(* next kernel may read a halo, so the halos that the bookkeeping vouches  *)
(* for must be current too, and between the steps of a dslash the links    *)
(* must carry what its finalization will dump.                             *)
(***************************************************************************)
DslashInv ==
    pc # "idle" =>
        /\ ASYNC
        /\ op \in Ops /\ op.in # op.out /\ op.in \in written /\ op.gf \in written
        /\ op.reqd_halo_width \in {0, 1}
        /\ pc \in {"inner", "finalize"} =>
             IF op.reqd_halo_width = 0
             THEN mem.valid[op.in] >= 1
             ELSE IF SOA THEN LinksRight(mem, op.in, 1) ELSE HaloRight(mem, op.in, 1)
        /\ pc \in {"finalize", "boundary"} =>
             /\ op.out \notin written
             /\ \A d \in Devices : \A r \in InnerRows : RowRight(mem, op.out, d, r)
        /\ pc = "boundary" => mem.valid[op.in] >= 1

IInv ==
    /\ TypeOK
    /\ phys_width = [f \in EoFields |-> 0]
    /\ \A f \in written : FieldGood(mem, f)
    /\ DslashInv

\* The initial states satisfy the invariant.
LEMMA InitInv == Init => IInv
<1> SUFFICES ASSUME Init PROVE IInv
  OBVIOUS
<1>1. Stale \in Cells /\ 0 \in Widths
  BY GridAssumption DEF Cells, Widths
<1>2. mem \in MemStates
  BY <1>1 DEF Init, MemStates
<1>3. phys_width \in [EoFields -> Widths]
  BY <1>1 DEF Init
<1> QED BY <1>2, <1>3 DEF Init, IInv, TypeOK, DslashInv

(* A call from idle is a good step if it leaves the fields that are        *)
(* written now or before in a good state.                                  *)
LEMMA CallInv ==
    ASSUME IInv, NEW ins, NEW outs \in SUBSET Fields, NEW T \in MemStates,
           Call(ins, outs, T),
           \A f \in written \cup outs : FieldGood(T, f)
    PROVE  IInv'
  BY DEF IInv, TypeOK, DslashInv, Call

(* The common case: one field is given a value. *)
LEMMA CallOneInv ==
    ASSUME IInv, NEW ins, NEW out \in Fields, NEW T,
           Call(ins, {out}, T), OnlyField(mem, T, out), FieldGood(T, out)
    PROVE  IInv'
<1>1. T \in MemStates /\ mem \in MemStates /\ written \subseteq Fields
  BY DEF OnlyField, IInv, TypeOK
<1>2. \A f \in written \cup {out} : FieldGood(T, f)
  BY <1>1, OthersStayGood DEF IInv
<1> QED BY <1>1, <1>2, CallInv

(* OnlyField composes. *)
LEMMA OnlyFieldTrans ==
    ASSUME NEW S, NEW T, NEW U, NEW f,
           OnlyField(S, T, f), OnlyField(T, U, f)
    PROVE  OnlyField(S, U, f)
  BY DEF OnlyField

\* Every field is lazy or eager, and no field is both.
LEMMA FieldKinds ==
    /\ \A f \in EoFields : f \in Fields /\ f \notin EagerFields
    /\ \A f \in EagerFields : f \in Fields /\ f \notin EoFields
    /\ SpinorFields \subseteq EagerFields
    /\ GaugeFields \subseteq EagerFields
    /\ GaugeMomenta \subseteq EagerFields
  BY FieldAssumption DEF Fields, EagerFields

\* The widths the code uses are widths.
LEMMA Extents == /\ 0 \in Widths /\ 1 \in Widths /\ HaloExtent \in Widths
                 /\ 1 \in 1 .. HaloExtent /\ HaloExtent \in 1 .. HaloExtent
                 /\ Full(0) = HaloExtent /\ Full(1) = 1
  BY GridAssumption DEF Widths, Full

(* Even-odd fields: a kernel followed by a mark. *)
LEMMA SiteDiagonalInv ==
    ASSUME IInv, NEW out \in EoFields, NEW ins \in SUBSET EoFields, ins # {},
           SiteDiagonal(out, ins)
    PROVE  IInv'
<1> DEFINE T == SiteKernel(mem, out, ins)
<1>1. /\ mem \in MemStates /\ out \in Fields /\ ins \in SUBSET Fields /\ ins \subseteq written
      /\ Call(ins, {out}, MarkFromInputs(T, out, ins))
  BY FieldKinds DEF IInv, TypeOK, SiteDiagonal, Call
<1>2. \A f \in ins : MainRight(mem, f)
  BY <1>1 DEF IInv, FieldGood
<1>3. OnlyField(mem, T, out) /\ MainRight(T, out)
  BY <1>1, <1>2, SiteKernelRight
<1>4. \A f \in ins : get_valid_halo_width(f) = 0
  BY DEF get_valid_halo_width, IInv
<1>5. {get_valid_halo_width(f) : f \in ins} = {0}
  BY <1>4
<1> HIDE DEF T
<1>6. MarkFromInputs(T, out, ins) = mark_halo_dirty(T, out)
  BY <1>4, <1>5 DEF MarkFromInputs
<1>7. T \in MemStates
  BY <1>3 DEF OnlyField
<1>8. OnlyField(T, mark_halo_dirty(T, out), out) /\ FieldGood(mark_halo_dirty(T, out), out)
  BY <1>3, <1>7, MarkDirtyGood
<1>9. OnlyField(mem, mark_halo_dirty(T, out), out)
  BY <1>3, <1>8, OnlyFieldTrans
<1> QED BY <1>1, <1>6, <1>8, <1>9, CallOneInv

\* zero and cold fill all rows and mark the field clean.
LEMMA ZeroOrColdInv ==
    ASSUME IInv, NEW f \in EoFields, zero_or_cold(f) PROVE IInv'
<1> DEFINE T == SiteKernel(mem, f, {})
<1>1. mem \in MemStates /\ f \in Fields
  BY FieldKinds DEF IInv, TypeOK
<1>2. OnlyField(mem, T, f) /\ MainRight(T, f) /\ HaloRight(T, f, HaloExtent)
  BY <1>1, SiteKernelRight, Extents
<1>3. Call({}, {f}, mark_halo_clean(T, f, 0))
  BY DEF zero_or_cold
<1> HIDE DEF T
<1>4. T \in MemStates
  BY <1>2 DEF OnlyField
<1>5. OnlyField(T, mark_halo_clean(T, f, 0), f) /\ FieldGood(mark_halo_clean(T, f, 0), f)
  BY <1>2, <1>4, MarkCleanGood
<1>6. OnlyField(mem, mark_halo_clean(T, f, 0), f)
  BY <1>2, <1>5, OnlyFieldTrans
<1> QED BY <1>1, <1>3, <1>5, <1>6, CallOneInv

\* gaussian fills the device's own rows and marks the field dirty.
LEMMA GaussianInv ==
    ASSUME IInv, NEW f \in EoFields, gaussian(f) PROVE IInv'
<1> DEFINE T == Kernel(mem, f, MainRows, {})
<1>1. mem \in MemStates /\ f \in Fields /\ MainRows \in SUBSET MemRows
  BY FieldKinds, RowLayout DEF IInv, TypeOK
<1>2. OnlyField(mem, T, f) /\ \A d \in Devices : \A r \in MainRows :
        ReadsRight(mem.data, {}, d, r) => RowRight(T, f, d, r)
  BY <1>1, KernelRight
<1>3. Call({}, {f}, mark_halo_dirty(T, f))
  BY DEF gaussian
<1> HIDE DEF T
<1>4. T \in MemStates /\ MainRight(T, f)
  BY <1>2 DEF OnlyField, MainRight, ReadsRight
<1>5. OnlyField(T, mark_halo_dirty(T, f), f) /\ FieldGood(mark_halo_dirty(T, f), f)
  BY <1>4, MarkDirtyGood
<1>6. OnlyField(mem, mark_halo_dirty(T, f), f)
  BY <1>2, <1>5, OnlyFieldTrans
<1> QED BY <1>1, <1>3, <1>5, <1>6, CallOneInv

(* gamma5 multiplies every row in memory in place and leaves the marks. *)
LEMMA Gamma5Inv ==
    ASSUME IInv, NEW f \in Fields, Call({f}, {f}, SiteKernel(mem, f, {f})) PROVE IInv'
<1> DEFINE T == SiteKernel(mem, f, {f})
<1>1. mem \in MemStates /\ FieldGood(mem, f)
  BY DEF IInv, TypeOK, Call
<1>2. OnlyField(mem, T, f) /\ T.valid = mem.valid
  BY <1>1, SiteKernelRight
<1>3. /\ MainRight(mem, f) => MainRight(T, f)
      /\ \A w \in 1 .. HaloExtent : HaloRight(mem, f, w) => HaloRight(T, f, w)
  BY <1>1, SiteKernelRight
<1>4. f \in EoFields => mem.valid[f] = 0 \/ mem.valid[f] \in 1 .. HaloExtent
  BY <1>1, GridAssumption DEF MemStates, Widths
<1> HIDE DEF T
<1>5. FieldGood(T, f)
  BY <1>1, <1>2, <1>3, <1>4, NoHalo, Extents DEF FieldGood
<1> QED BY <1>2, <1>5, CallOneInv DEF T

\* Splitting a field keeps both halves good.
LEMMA ConvertToInv ==
    ASSUME IInv, NEW even \in EoFields, NEW odd \in EoFields, NEW in \in SpinorFields,
           convert_to_eoprec(even, odd, in)
    PROVE  IInv'
<1> DEFINE A == SiteKernel(mem, even, {in})
           B == SiteKernel(A, odd, {in})
           C == mark_halo_clean(B, even, 0)
           D == mark_halo_clean(C, odd, 0)
<1>1. /\ mem \in MemStates /\ written \subseteq Fields /\ even # odd
      /\ in \in written /\ in \in Fields /\ in # even /\ in # odd
      /\ even \in Fields /\ odd \in Fields
      /\ Call({in}, {even, odd}, D)
  BY FieldKinds DEF IInv, TypeOK, convert_to_eoprec, Call
<1>2. MainRight(mem, in) /\ HaloRight(mem, in, HaloExtent)
  BY <1>1, FieldKinds DEF IInv, FieldGood
<1>3. OnlyField(mem, A, even) /\ MainRight(A, even) /\ HaloRight(A, even, HaloExtent)
  BY <1>1, <1>2, SiteKernelRight, Extents
<1> HIDE DEF A
<1>4. A \in MemStates /\ MainRight(A, in) /\ HaloRight(A, in, HaloExtent)
  BY <1>1, <1>2, <1>3 DEF OnlyField, MainRight, HaloRight, RowRight
<1>5. OnlyField(A, B, odd) /\ MainRight(B, odd) /\ HaloRight(B, odd, HaloExtent)
  BY <1>1, <1>4, SiteKernelRight, Extents
<1> HIDE DEF B
<1>6. B \in MemStates /\ MainRight(B, even) /\ HaloRight(B, even, HaloExtent)
  BY <1>1, <1>3, <1>5 DEF OnlyField, MainRight, HaloRight, RowRight
<1>7. OnlyField(B, C, even) /\ FieldGood(C, even)
  BY <1>6, MarkCleanGood
<1> HIDE DEF C
<1>8. C \in MemStates /\ MainRight(C, odd) /\ HaloRight(C, odd, HaloExtent)
  BY <1>1, <1>5, <1>7 DEF OnlyField, MainRight, HaloRight, RowRight
<1>9. OnlyField(C, D, odd) /\ FieldGood(D, odd)
  BY <1>8, MarkCleanGood
<1> HIDE DEF D
<1>10. D \in MemStates /\ FieldGood(D, even)
  BY <1>1, <1>7, <1>8, <1>9, OthersStayGood DEF OnlyField
<1>11. ASSUME NEW f \in written \ {even, odd} PROVE FieldGood(D, f)
  <2>1. FieldGood(mem, f) /\ f \in Fields
    BY <1>1 DEF IInv
  <2>2. FieldGood(A, f)
    BY <1>1, <1>3, <2>1, OthersStayGood
  <2>3. FieldGood(B, f)
    BY <1>1, <1>4, <1>5, <2>1, <2>2, OthersStayGood
  <2>4. FieldGood(C, f)
    BY <1>1, <1>6, <1>7, <2>1, <2>3, OthersStayGood
  <2> QED BY <1>1, <1>8, <1>9, <2>1, <2>4, OthersStayGood
<1>12. \A f \in written \cup {even, odd} : FieldGood(D, f)
  BY <1>9, <1>10, <1>11
<1>13. {even, odd} \in SUBSET Fields
  BY <1>1
<1> QED BY <1>1, <1>10, <1>12, <1>13, CallInv

(* Requiring the full halo of two even-odd fields, one after the other.    *)
LEMMA RequireBoth ==
    ASSUME IInv, NEW y \in EoFields, NEW x \in EoFields, {y, x} \subseteq written
    PROVE  LET T == require_halo(require_halo(mem, y, 0), x, 0)
           IN /\ T \in MemStates
              /\ \A f \in written : FieldGood(T, f)
              /\ HaloRight(T, y, HaloExtent) /\ HaloRight(T, x, HaloExtent)
<1> DEFINE A == require_halo(mem, y, 0)
           T == require_halo(A, x, 0)
<1>1. /\ mem \in MemStates /\ written \subseteq Fields /\ y \in Fields /\ x \in Fields
      /\ FieldGood(mem, y) /\ \A f \in written : FieldGood(mem, f)
  BY FieldKinds DEF IInv, TypeOK
<1>2. OnlyField(mem, A, y) /\ FieldGood(A, y) /\ HaloRight(A, y, HaloExtent)
  BY <1>1, RequireGood, Extents
<1> HIDE DEF A
<1>3. A \in MemStates /\ \A f \in written : FieldGood(A, f)
  BY <1>1, <1>2, OthersStayGood DEF OnlyField
<1>4. OnlyField(A, T, x) /\ FieldGood(T, x) /\ HaloRight(T, x, HaloExtent)
  BY <1>3, RequireGood, Extents
<1> HIDE DEF T
<1>5. T \in MemStates /\ \A f \in written : FieldGood(T, f)
  BY <1>1, <1>3, <1>4, OthersStayGood DEF OnlyField
<1>6. y # x => HaloRight(T, y, HaloExtent)
  BY <1>1, <1>2, <1>4 DEF OnlyField, HaloRight, RowRight
<1> QED BY <1>4, <1>5, <1>6 DEF T, A

(* A call that works on a state whose written fields are all good and ends *)
(* by giving one field a value.                                            *)
LEMMA CallAfterInv ==
    ASSUME IInv, NEW ins, NEW out \in Fields, NEW S \in MemStates, NEW T,
           \A f \in written : FieldGood(S, f),
           Call(ins, {out}, T), OnlyField(S, T, out), FieldGood(T, out)
    PROVE  IInv'
<1>1. T \in MemStates /\ written \subseteq Fields
  BY DEF OnlyField, IInv, TypeOK
<1>2. \A f \in written \cup {out} : FieldGood(T, f)
  BY <1>1, OthersStayGood
<1> QED BY <1>1, <1>2, CallInv

\* Joining the halves requires both halos before it uses them.
LEMMA ConvertFromInv ==
    ASSUME IInv, NEW even \in EoFields, NEW odd \in EoFields, NEW merged \in SpinorFields,
           convert_from_eoprec(merged, even, odd)
    PROVE  IInv'
<1> DEFINE S == require_halo(require_halo(mem, even, 0), odd, 0)
           T == SiteKernel(S, merged, {even, odd})
<1>1. /\ {even, odd} \subseteq written /\ Call({even, odd}, {merged}, T)
      /\ merged \in Fields /\ merged \in EagerFields /\ merged \notin EoFields
      /\ even \in Fields /\ odd \in Fields
  BY FieldKinds DEF convert_from_eoprec, Call
<1>2. /\ S \in MemStates /\ \A f \in written : FieldGood(S, f)
      /\ HaloRight(S, even, HaloExtent) /\ HaloRight(S, odd, HaloExtent)
  BY <1>1, RequireBoth
<1> HIDE DEF S
<1>3. MainRight(S, even) /\ MainRight(S, odd)
  BY <1>1, <1>2 DEF FieldGood
<1>4. OnlyField(S, T, merged) /\ MainRight(T, merged) /\ HaloRight(T, merged, HaloExtent)
  BY <1>1, <1>2, <1>3, SiteKernelRight, Extents
<1> HIDE DEF T
<1>5. FieldGood(T, merged)
  BY <1>1, <1>4 DEF FieldGood
<1> QED BY <1>1, <1>2, <1>4, <1>5, CallAfterInv

\* The dslash in one piece requires the halo it reads.
LEMMA DslashSyncInv ==
    ASSUME IInv, NEW out \in EoFields, NEW gf \in GaugeFields, NEW in \in EoFields,
           dslash(out, gf, in)
    PROVE  IInv'
<1> DEFINE S == require_halo(mem, in, 1)
           T == Kernel(S, out, MainRows, Hopping(in, gf))
           U == mark_halo_dirty(T, out)
<1>1. /\ mem \in MemStates /\ written \subseteq Fields
      /\ in \in Fields /\ out \in Fields /\ gf \in Fields /\ gf \in EagerFields
      /\ in \in written /\ gf \in written /\ Call({gf, in}, {out}, U)
      /\ \A f \in written : FieldGood(mem, f)
      /\ MainRows \in SUBSET MemRows
  BY FieldKinds, RowLayout DEF IInv, TypeOK, dslash, Call
<1>2. OnlyField(mem, S, in) /\ FieldGood(S, in) /\ HaloRight(S, in, 1)
  BY <1>1, RequireGood, Extents
<1> HIDE DEF S
<1>3. S \in MemStates /\ \A f \in written : FieldGood(S, f)
  BY <1>1, <1>2, OthersStayGood DEF OnlyField
<1>4. MainRight(S, in) /\ MainRight(S, gf) /\ HaloRight(S, gf, HaloExtent)
  BY <1>1, <1>3 DEF FieldGood
<1>5. \A d \in Devices : \A r \in MainRows : ReadsRight(S.data, Hopping(in, gf), d, r)
  BY <1>1, <1>2, <1>3, <1>4, HoppingRight
<1>6. OnlyField(S, T, out) /\ \A d \in Devices : \A r \in MainRows : RowRight(T, out, d, r)
  BY <1>1, <1>3, <1>5, KernelRight
<1> HIDE DEF T
<1>7. T \in MemStates /\ MainRight(T, out)
  BY <1>6 DEF OnlyField, MainRight
<1>8. OnlyField(T, U, out) /\ FieldGood(U, out)
  BY <1>7, MarkDirtyGood
<1> HIDE DEF U
<1>9. OnlyField(S, U, out)
  BY <1>6, <1>8, OnlyFieldTrans
<1> QED BY <1>1, <1>3, <1>8, <1>9, CallAfterInv

(* Equal contents and widths: the same fields are good. *)
LEMMA SameGood ==
    ASSUME NEW S, NEW T, T.data = S.data, T.valid = S.valid, NEW f, FieldGood(S, f)
    PROVE  FieldGood(T, f)
  BY DEF FieldGood, MainRight, HaloRight, RowRight

\* The split dslash: starting the exchange.
LEMMA DslashBeginInv ==
    ASSUME IInv, NEW out \in EoFields, NEW gf \in GaugeFields, NEW in \in EoFields,
           dslash_require_halo_async(out, gf, in)
    PROVE  IInv'
<1> DEFINE T == update_halo_async(mem, in, 1)
<1>1. /\ mem \in MemStates /\ written \subseteq Fields
      /\ in \in Fields /\ in \in written /\ gf \in written /\ out # in
      /\ \A f \in written : FieldGood(mem, f)
      /\ MainRight(mem, in)
      /\ ASYNC /\ pc' = "inner" /\ written' = written /\ phys_width' = phys_width
  BY FieldKinds DEF IInv, TypeOK, FieldGood, dslash_require_halo_async
<1>2. CASE mem.valid[in] < 1
  <2>1. /\ mem' = T
        /\ op' = [out |-> out, in |-> in, gf |-> gf, reqd_halo_width |-> 1]
    BY <1>2, Extents DEF dslash_require_halo_async
  <2>2. op' \in Ops
    BY <2>1, Extents DEF Ops
  <2>3. CASE SOA
    <3>1. T \in MemStates /\ T.data = mem.data /\ T.valid = mem.valid /\ LinksRight(T, in, 1)
      BY <1>1, <2>3, InitializeRight, Extents DEF update_halo_async
    <3> HIDE DEF T
    <3>2. \A f \in written : FieldGood(T, f)
      BY <1>1, <3>1, SameGood
    <3> QED BY <1>1, <2>1, <2>2, <2>3, <3>1, <3>2 DEF IInv, TypeOK, DslashInv
  <2>4. CASE ~SOA
    <3>1. Exchanged(mem, T, in, HaloExtent)
      BY <1>1, <2>4, AosRight DEF update_halo_async
    <3> HIDE DEF T
    <3>2. OnlyField(mem, T, in) /\ T.valid = mem.valid /\ HaloRight(T, in, HaloExtent)
      BY <3>1 DEF Exchanged, OnlyField
    <3>3. /\ T \in MemStates /\ HaloRight(T, in, 1)
          /\ \A w \in Widths : HaloRight(T, in, w)
      <4>1. T \in MemStates
        BY <3>2 DEF OnlyField
      <4>2. \A w \in Widths : w <= HaloExtent
        BY GridAssumption DEF Widths
      <4> QED BY <1>1, <3>2, <4>1, <4>2, WidthMonotone, Extents
    <3>4. FieldGood(T, in)
      <4>1. MainRight(T, in)
        BY <1>1, <3>1 DEF Exchanged, MainRight, RowRight
      <4>2. mem.valid[in] \in Widths
        BY <1>1 DEF MemStates
      <4> QED BY <3>2, <3>3, <4>1, <4>2 DEF FieldGood
    <3>5. \A f \in written : FieldGood(T, f)
      BY <1>1, <3>2, <3>4, OthersStayGood
    <3> QED BY <1>1, <2>1, <2>2, <2>4, <3>3, <3>5 DEF IInv, TypeOK, DslashInv
  <2> QED BY <2>3, <2>4
<1>3. CASE ~(mem.valid[in] < 1)
  <2>1. /\ mem' = mem
        /\ op' = [out |-> out, in |-> in, gf |-> gf, reqd_halo_width |-> 0]
    BY <1>3, Extents DEF dslash_require_halo_async
  <2>2. op' \in Ops
    BY <2>1, Extents DEF Ops
  <2>3. mem.valid[in] >= 1
    BY <1>1, <1>3, GridAssumption DEF MemStates, Widths
  <2> QED BY <1>1, <2>1, <2>2, <2>3 DEF IInv, TypeOK, DslashInv
<1> QED BY <1>2, <1>3

(* The facts about the running dslash that its steps share. *)
LEMMA DslashFacts ==
    ASSUME IInv, pc \in {"inner", "finalize", "boundary"}
    PROVE  /\ mem \in MemStates /\ written \subseteq Fields
           /\ LAZY /\ ASYNC /\ op \in Ops
           /\ op.in \in EoFields /\ op.in \in Fields /\ op.in \in written
           /\ op.out \in EoFields /\ op.out \in Fields /\ op.out # op.in
           /\ op.gf \in Fields /\ op.gf \in written /\ op.gf # op.out
           /\ op.reqd_halo_width \in {0, 1}
           /\ \A f \in written : FieldGood(mem, f)
           /\ MainRight(mem, op.in)
           /\ MainRight(mem, op.gf) /\ HaloRight(mem, op.gf, HaloExtent)
<1>1. /\ mem \in MemStates /\ written \subseteq Fields /\ ASYNC /\ op \in Ops
      /\ op.in \in written /\ op.out # op.in /\ op.gf \in written
      /\ op.reqd_halo_width \in {0, 1}
      /\ \A f \in written : FieldGood(mem, f)
  BY DEF IInv, TypeOK, DslashInv
<1>2. op.in \in EoFields /\ op.out \in EoFields /\ op.gf \in GaugeFields
  BY <1>1 DEF Ops
<1>3. op.gf \in EagerFields /\ op.gf # op.out
  BY <1>2, FieldKinds
<1> QED BY <1>1, <1>2, <1>3, FieldKinds, BuildAssumption DEF FieldGood

\* The split dslash: the rows away from the ends.
LEMMA DslashInnerInv ==
    ASSUME IInv, dslash_eo_inner PROVE IInv'
<1> DEFINE reads == Hopping(op.in, op.gf)
           T == Kernel(mem, op.out, InnerRows, reads)
<1>1. /\ pc = "inner" /\ mem' = T /\ pc' = "finalize" /\ op' = op
      /\ written' = written \ {op.out} /\ phys_width' = phys_width
  BY DEF dslash_eo_inner
<1>2. InnerRows \in SUBSET MemRows
  BY GridAssumption DEF InnerRows, ReqdHaloWidth, MemRows, MemT
<1>3. ASSUME NEW d \in Devices, NEW r \in InnerRows
      PROVE  ReadsRight(mem.data, reads, d, r)
  <2>1. \A o \in -1 .. 1 :
          /\ mem.data[op.in][d][NeighbourRow(r, o)] = Shift(Home(d, r), o)
          /\ mem.data[op.gf][d][NeighbourRow(r, o)] = Shift(Home(d, r), o)
    BY <1>1, DslashFacts, InnerStencilRight
  <2>2. -1 \in -1 .. 1 /\ 0 \in -1 .. 1 /\ 1 \in -1 .. 1
    OBVIOUS
  <2> QED BY <2>1, <2>2 DEF ReadsRight, Hopping
<1>4. /\ OnlyField(mem, T, op.out) /\ T.valid = mem.valid
      /\ T.link = Forget(mem.link, op.out)
      /\ \A d \in Devices : \A r \in InnerRows : RowRight(T, op.out, d, r)
  BY <1>1, <1>2, <1>3, DslashFacts, KernelRight
<1> HIDE DEF T
<1>5. T \in MemStates /\ \A f \in written \ {op.out} : FieldGood(T, f)
  BY <1>1, <1>4, DslashFacts, OthersStayGood DEF OnlyField
<1>6. /\ LinksRight(mem, op.in, 1) => LinksRight(T, op.in, 1)
      /\ HaloRight(mem, op.in, 1) => HaloRight(T, op.in, 1)
  <2>1. HaloRight(mem, op.in, 1) => HaloRight(T, op.in, 1)
    BY <1>1, <1>4, DslashFacts DEF OnlyField, HaloRight, RowRight
  <2>2. ASSUME LinksRight(mem, op.in, 1) PROVE LinksRight(T, op.in, 1)
    <3> DEFINE up(i) == <<lower_grid_neighbour(i), i, "UP">>
               down(i) == <<upper_grid_neighbour(i), i, "DOWN">>
    <3>1. \A i \in Devices : up(i) \in Links /\ down(i) \in Links
      BY Neighbours DEF Links, Dirs
    <3>2. \A i \in Devices : mem.link[up(i)].field = op.in /\ mem.link[down(i)].field = op.in
      BY <2>2 DEF LinksRight, LinksHold
    <3>3. mem.link \in LinkStates
      BY <1>1, DslashFacts DEF MemStates, LinkStates
    <3>4. \A i \in Devices : T.link[up(i)] = mem.link[up(i)] /\ T.link[down(i)] = mem.link[down(i)]
      BY <1>1, <1>4, <3>1, <3>2, <3>3, DslashFacts, ForgetType
    <3> QED BY <2>2, <3>4 DEF LinksRight, LinksHold
  <2> QED BY <2>1, <2>2
<1> QED BY <1>1, <1>4, <1>5, <1>6, DslashFacts DEF IInv, TypeOK, DslashInv

\* The split dslash: the halo arrives.
LEMMA FinalizeInv ==
    ASSUME IInv, finalize PROVE IInv'
<1> DEFINE w == op.reqd_halo_width
<1>1. /\ pc = "finalize" /\ pc' = "boundary"
      /\ written' = written /\ phys_width' = phys_width
      /\ mem' = IF w = 0 THEN mem
                ELSE [update_halo_finalize(mem, op.in, w) EXCEPT !.valid[op.in] = w]
      /\ op.out \notin written
      /\ \A d \in Devices : \A r \in InnerRows : RowRight(mem, op.out, d, r)
  BY DEF finalize, IInv, DslashInv
<1>2. op' \in Ops /\ op'.in = op.in /\ op'.out = op.out /\ op'.gf = op.gf /\ op'.reqd_halo_width = 0
  <2>1. op' = [op EXCEPT !.reqd_halo_width = 0]
    BY DEF finalize
  <2> QED BY <1>1, <2>1, DslashFacts, Extents DEF Ops
<1>5. /\ ASYNC /\ op.in # op.out /\ op.in \in written /\ op.gf \in written
  BY <1>1, DslashFacts
<1>3. CASE w = 0
  <2>1. mem' = mem /\ mem.valid[op.in] >= 1
    BY <1>1, <1>3 DEF IInv, DslashInv
  <2>2. TypeOK' /\ phys_width' = [f \in EoFields |-> 0] /\ \A f \in written' : FieldGood(mem', f)
    BY <1>1, <1>2, <2>1 DEF IInv, TypeOK
  <2>3. DslashInv'
    BY <1>1, <1>2, <1>5, <2>1 DEF DslashInv
  <2> QED BY <2>2, <2>3 DEF IInv
<1>4. CASE w = 1
  <2> DEFINE U == update_halo_finalize(mem, op.in, 1)
             T == [U EXCEPT !.valid[op.in] = 1]
  <2>1. mem' = T
    BY <1>1, <1>4
  <2>2. U \in MemStates /\ OnlyField(mem, U, op.in) /\ HaloRight(U, op.in, 1) /\ MainRight(U, op.in)
    <3>1. CASE SOA
      <4>1. LinksRight(mem, op.in, 1)
        BY <1>1, <1>4, <3>1 DEF IInv, DslashInv
      <4>2. Exchanged(mem, U, op.in, 1)
        BY <1>1, <3>1, <4>1, DslashFacts, FinalizeRight, Extents DEF update_halo_finalize
      <4> HIDE DEF U
      <4> QED BY <1>1, <4>2, DslashFacts DEF Exchanged, OnlyField, MainRight, RowRight
    <3>2. CASE ~SOA
      <4>1. U = mem /\ HaloRight(mem, op.in, 1)
        BY <1>1, <1>4, <3>2 DEF IInv, DslashInv, update_halo_finalize
      <4> QED BY <1>1, <4>1, DslashFacts DEF OnlyField
    <3> QED BY <3>1, <3>2
  <2> HIDE DEF U
  <2>3. /\ T \in MemStates /\ T.data = U.data /\ T.valid[op.in] = 1
        /\ \A g \in EoFields \ {op.in} : T.valid[g] = U.valid[g]
    BY <1>1, <2>2, DslashFacts, SetValid, Extents
  <2> HIDE DEF T
  <2>4. OnlyField(mem, T, op.in)
    BY <2>2, <2>3 DEF OnlyField
  <2>5. FieldGood(T, op.in)
    BY <1>1, <2>2, <2>3, DslashFacts, FieldKinds DEF FieldGood, MainRight, HaloRight, RowRight
  <2>6. \A f \in written : FieldGood(T, f)
    BY <1>1, <2>4, <2>5, DslashFacts, OthersStayGood
  <2>7. \A d \in Devices : \A r \in InnerRows : RowRight(T, op.out, d, r)
    BY <1>1, <2>4, DslashFacts DEF OnlyField, RowRight
  <2>8. TypeOK' /\ phys_width' = [f \in EoFields |-> 0] /\ \A f \in written' : FieldGood(mem', f)
    BY <1>1, <1>2, <2>1, <2>3, <2>6 DEF IInv, TypeOK
  <2>9. mem'.valid[op'.in] >= 1
    BY <1>2, <2>1, <2>3
  <2>10. \A d \in Devices : \A r \in InnerRows : RowRight(mem', op'.out, d, r)
    BY <1>2, <2>1, <2>7
  <2>11. DslashInv'
    BY <1>1, <1>2, <1>5, <2>9, <2>10 DEF DslashInv
  <2> QED BY <2>8, <2>11 DEF IInv
<1> QED BY <1>1, <1>3, <1>4, DslashFacts

\* The split dslash: the rows at the ends.
LEMMA DslashBoundaryInv ==
    ASSUME IInv, dslash_eo_boundary PROVE IInv'
<1> DEFINE reads == Hopping(op.in, op.gf)
           T == Completed(mem, op.out, BoundaryRows, reads)
           U == mark_halo_dirty(T, op.out)
<1>1. /\ pc = "boundary" /\ mem' = U /\ pc' = "idle" /\ op' = NoOp
      /\ written' = written \cup {op.out} /\ phys_width' = phys_width
  BY DEF dslash_eo_boundary
<1>2. /\ BoundaryRows \in SUBSET MemRows
      /\ MainRows = BoundaryRows \cup InnerRows
      /\ InnerRows \subseteq MemRows \ BoundaryRows
  BY GridAssumption DEF InnerRows, BoundaryRows, MainRows, ReqdHaloWidth, MemRows, MemT
<1>3. HaloRight(mem, op.in, 1)
  <2>1. 1 <= mem.valid[op.in] /\ mem.valid[op.in] \in Widths
    BY <1>1, DslashFacts DEF IInv, DslashInv, MemStates
  <2> QED BY <1>1, <2>1, DslashFacts, WidthMonotone, Extents DEF FieldGood
<1>4. \A d \in Devices : \A r \in MainRows : ReadsRight(mem.data, reads, d, r)
  BY <1>1, <1>3, DslashFacts, HoppingRight
<1>5. \A d \in Devices : \A r \in InnerRows : RowRight(mem, op.out, d, r)
  BY <1>1 DEF IInv, DslashInv
<1> HIDE DEF reads
<1>6. /\ OnlyField(mem, T, op.out)
      /\ \A d \in Devices : \A r \in BoundaryRows :
            ReadsRight(mem.data, reads, d, r) => RowRight(T, op.out, d, r)
      /\ \A d \in Devices : \A r \in MemRows \ BoundaryRows :
            RowRight(mem, op.out, d, r) => RowRight(T, op.out, d, r)
  BY <1>1, <1>2, DslashFacts, CompletedRight
<1> HIDE DEF T
<1>7. T \in MemStates /\ MainRight(T, op.out)
  BY <1>2, <1>4, <1>5, <1>6 DEF OnlyField, MainRight
<1>8. OnlyField(T, U, op.out) /\ FieldGood(U, op.out)
  BY <1>1, <1>7, DslashFacts, MarkDirtyGood
<1> HIDE DEF U
<1>9. OnlyField(mem, U, op.out)
  BY <1>6, <1>8, OnlyFieldTrans
<1>10. U \in MemStates /\ \A f \in written \cup {op.out} : FieldGood(U, f)
  BY <1>1, <1>8, <1>9, DslashFacts, OthersStayGood DEF OnlyField
<1> QED BY <1>1, <1>10, DslashFacts DEF IInv, TypeOK, DslashInv

(* Eager fields: what a kernel leaves right on all main rows, the exchange *)
(* completes.                                                              *)
LEMMA UpdateFullGood ==
    ASSUME NEW S \in MemStates, NEW f \in EagerFields, MainRight(S, f)
    PROVE  LET T == update_full_halo(S, f)
           IN OnlyField(S, T, f) /\ FieldGood(T, f)
<1> DEFINE T == update_halo(S, f, HaloExtent)
<1>1. Exchanged(S, T, f, HaloExtent) /\ f \in Fields /\ f \notin EoFields
  BY UpdateRight, Extents, FieldKinds
<1> HIDE DEF T
<1>2. OnlyField(S, T, f) /\ FieldGood(T, f)
  BY <1>1 DEF Exchanged, OnlyField, FieldGood, MainRight, RowRight
<1> QED BY <1>2 DEF T, update_full_halo

(* A kernel over the main rows (or more) followed by an exchange. *)
LEMMA KernelAndUpdateInv ==
    ASSUME IInv, NEW ins, NEW out \in EagerFields, NEW S \in MemStates,
           \A f \in written : FieldGood(S, f),
           NEW rows \in SUBSET MemRows, MainRows \subseteq rows, NEW reads,
           \A d \in Devices : \A r \in MainRows : ReadsRight(S.data, reads, d, r),
           Call(ins, {out}, update_full_halo(Kernel(S, out, rows, reads), out))
    PROVE  IInv'
<1> DEFINE T == Kernel(S, out, rows, reads)
           U == update_full_halo(T, out)
<1>0. out \in Fields
  BY FieldKinds
<1>1. /\ OnlyField(S, T, out)
      /\ \A d \in Devices : \A r \in rows :
            ReadsRight(S.data, reads, d, r) => RowRight(T, out, d, r)
  BY <1>0, KernelRight
<1> HIDE DEF T
<1>2. T \in MemStates /\ MainRight(T, out)
  BY <1>1 DEF OnlyField, MainRight
<1>3. OnlyField(T, U, out) /\ FieldGood(U, out)
  BY <1>2, UpdateFullGood
<1>4. Call(ins, {out}, U)
  BY DEF T
<1> HIDE DEF U
<1>5. OnlyField(S, U, out)
  BY <1>1, <1>3, OnlyFieldTrans
<1> QED BY <1>0, <1>3, <1>4, <1>5, CallAfterInv

(* A site kernel over eager fields needs no exchange. *)
LEMMA EagerSiteInv ==
    ASSUME IInv, NEW out \in EagerFields, NEW ins \in SUBSET EagerFields,
           Call(ins, {out}, SiteKernel(mem, out, ins))
    PROVE  IInv'
<1> DEFINE T == SiteKernel(mem, out, ins)
<1>1. /\ mem \in MemStates /\ out \in Fields /\ out \notin EoFields
      /\ ins \in SUBSET Fields /\ ins \subseteq written
  BY FieldKinds DEF IInv, TypeOK, Call
<1>2. \A f \in ins : MainRight(mem, f) /\ HaloRight(mem, f, HaloExtent)
  BY <1>1 DEF IInv, FieldGood
<1>3. OnlyField(mem, T, out) /\ MainRight(T, out) /\ HaloRight(T, out, HaloExtent)
  BY <1>1, <1>2, SiteKernelRight, Extents
<1> HIDE DEF T
<1>4. FieldGood(T, out)
  BY <1>1, <1>3 DEF FieldGood
<1> QED BY <1>1, <1>3, <1>4, CallOneInv DEF T

\* An eager field set to zero or cold is current everywhere.
LEMMA EagerZeroInv ==
    ASSUME IInv, NEW f \in EagerFields, eager_zero_or_cold(f) PROVE IInv'
  BY EagerSiteInv DEF eager_zero_or_cold

\* A site-diagonal kernel keeps current halos current.
LEMMA EagerSaxpyInv ==
    ASSUME IInv, NEW out \in EagerFields, NEW x \in EagerFields, NEW y \in EagerFields,
           eager_saxpy(out, x, y)
    PROVE  IInv'
<1>1. {x, y} \in SUBSET EagerFields
  OBVIOUS
<1> QED BY <1>1, EagerSiteInv DEF eager_saxpy

(* The gauge field keeps its halo through the update of the links because  *)
(* the momenta's halo is valid.                                            *)
LEMMA MdUpdateGaugefieldInv ==
    ASSUME IInv, NEW gf \in GaugeFields, NEW gm \in GaugeMomenta,
           md_update_gaugefield(gf, gm)
    PROVE  IInv'
<1>1. gf \in EagerFields /\ {gf, gm} \in SUBSET EagerFields
  BY FieldKinds
<1> QED BY <1>1, EagerSiteInv DEF md_update_gaugefield

\* gaussian on an eager field exchanges at once.
LEMMA EagerGaussianInv ==
    ASSUME IInv, NEW f \in EagerFields, eager_gaussian(f) PROVE IInv'
<1>1. /\ mem \in MemStates /\ \A g \in written : FieldGood(mem, g)
      /\ MainRows \in SUBSET MemRows /\ MainRows \subseteq MainRows
  BY RowLayout DEF IInv, TypeOK
<1>2. \A d \in Devices : \A r \in MainRows : ReadsRight(mem.data, {}, d, r)
  BY DEF ReadsRight
<1> QED BY <1>1, <1>2, KernelAndUpdateInv DEF eager_gaussian

\* The Wilson matrix exchanges its result at once.
LEMMA MWilsonInv ==
    ASSUME IInv, NEW out \in SpinorFields, NEW gf \in GaugeFields, NEW in \in SpinorFields,
           M_wilson(out, gf, in)
    PROVE  IInv'
<1>1. /\ mem \in MemStates /\ \A g \in written : FieldGood(mem, g)
      /\ MainRows \in SUBSET MemRows /\ MainRows \subseteq MainRows
      /\ out \in EagerFields
      /\ gf \in written /\ in \in written /\ gf \in Fields /\ in \in Fields
      /\ gf \in EagerFields /\ in \in EagerFields
      /\ Call({gf, in}, {out},
              update_full_halo(Kernel(mem, out, MainRows, Hopping(in, gf)), out))
  BY RowLayout, FieldKinds DEF IInv, TypeOK, M_wilson, Call
<1>2. /\ MainRight(mem, gf) /\ HaloRight(mem, gf, HaloExtent)
      /\ MainRight(mem, in) /\ HaloRight(mem, in, HaloExtent)
  BY <1>1 DEF FieldGood
<1>3. HaloRight(mem, in, 1)
  <2>1. 1 <= HaloExtent
    BY Extents
  <2> QED BY <1>1, <1>2, <2>1, WidthMonotone, Extents
<1>4. \A d \in Devices : \A r \in MainRows : ReadsRight(mem.data, Hopping(in, gf), d, r)
  BY <1>1, <1>2, <1>3, HoppingRight
<1> QED BY <1>1, <1>4, KernelAndUpdateInv

(* The staples of a link reach at most two rows away, which is why the     *)
(* halo is two rows wide.                                                  *)
LEMMA StaplesRight ==
    ASSUME NEW S \in MemStates, NEW gm \in Fields, NEW gf \in Fields,
           MainRight(S, gm), MainRight(S, gf), HaloRight(S, gf, HaloExtent),
           NEW k \in 1 .. 2
    PROVE  \A d \in Devices : \A r \in MainRows :
              ReadsRight(S.data, {<<gm, 0>>} \cup ({gf} \X (-k .. k)), d, r)
<1> SUFFICES ASSUME NEW d \in Devices, NEW r \in MainRows,
                    NEW x \in {<<gm, 0>>} \cup ({gf} \X (-k .. k))
             PROVE  S.data[x[1]][d][NeighbourRow(r, x[2])] = Shift(Home(d, r), x[2])
  BY DEF ReadsRight
<1>1. CASE x = <<gm, 0>>
  <2>1. r \in MemRows
    BY RowLayout
  <2> QED BY <1>1, <2>1, NoStep DEF MainRight, RowRight
<1>2. CASE x \in {gf} \X (-k .. k)
  <2>1. x[1] = gf /\ x[2] \in -HaloExtent .. HaloExtent /\ HaloExtent \in 0 .. HaloExtent
    BY <1>2, GridAssumption
  <2> QED BY <2>1, StencilRight
<1> QED BY <1>1, <1>2

\* The gauge force exchanges its result at once.
LEMMA GaugeForceInv ==
    ASSUME IInv, NEW gm \in GaugeMomenta, NEW gf \in GaugeFields,
           gauge_force(gm, gf) \/ gauge_force_tlsym(gm, gf)
    PROVE  IInv'
<1> DEFINE reads(k) == {<<gm, 0>>} \cup ({gf} \X (-k .. k))
<1>1. PICK k \in 1 .. 2 : Call({gm, gf}, {gm},
              update_full_halo(Kernel(mem, gm, MainRows, reads(k)), gm))
  BY DEF gauge_force, gauge_force_tlsym
<1>2. /\ mem \in MemStates /\ \A g \in written : FieldGood(mem, g)
      /\ MainRows \in SUBSET MemRows /\ MainRows \subseteq MainRows
      /\ gm \in EagerFields /\ gm \in Fields /\ gf \in Fields /\ gf \in EagerFields
      /\ gf \in written /\ gm \in written
  BY <1>1, RowLayout, FieldKinds DEF IInv, TypeOK, Call
<1>3. \A d \in Devices : \A r \in MainRows : ReadsRight(mem.data, reads(k), d, r)
  BY <1>2, StaplesRight DEF FieldGood
<1> HIDE DEF reads
<1> QED BY <1>1, <1>2, <1>3, KernelAndUpdateInv

\* The fermion force finds both its fields current.
LEMMA ForceReadsRight ==
    ASSUME NEW S \in MemStates,
           NEW gm \in Fields, NEW gf \in Fields, NEW Y \in Fields, NEW X \in Fields,
           MainRight(S, gm), MainRight(S, gf), MainRight(S, Y), MainRight(S, X),
           HaloRight(S, Y, HaloExtent), HaloRight(S, X, HaloExtent)
    PROVE  \A d \in Devices : \A r \in MainRows :
              ReadsRight(S.data, ForceReads(gm, Y, X, gf), d, r)
<1> SUFFICES ASSUME NEW d \in Devices, NEW r \in MainRows
             PROVE  ReadsRight(S.data, ForceReads(gm, Y, X, gf), d, r)
  OBVIOUS
<1>1. \A f \in {gm, gf, Y, X} : S.data[f][d][NeighbourRow(r, 0)] = Shift(Home(d, r), 0)
  BY NoStep, RowLayout DEF MainRight, RowRight
<1>2. 1 \in -HaloExtent .. HaloExtent /\ HaloExtent \in 0 .. HaloExtent
  BY GridAssumption
<1>3. \A f \in {Y, X} : S.data[f][d][NeighbourRow(r, 1)] = Shift(Home(d, r), 1)
  BY <1>2, StencilRight
<1> QED BY <1>1, <1>3 DEF ReadsRight, ForceReads

\* The fermion force exchanges its result at once.
LEMMA FermionForceInv ==
    ASSUME IInv, NEW gm \in GaugeMomenta, NEW gf \in GaugeFields,
           NEW Y \in SpinorFields, NEW X \in SpinorFields,
           fermion_force(gm, Y, X, gf)
    PROVE  IInv'
<1>1. /\ mem \in MemStates /\ \A g \in written : FieldGood(mem, g)
      /\ MainRows \in SUBSET MemRows /\ MainRows \subseteq MainRows
      /\ gm \in EagerFields /\ Y \in EagerFields /\ X \in EagerFields
      /\ gm \in Fields /\ gf \in Fields /\ Y \in Fields /\ X \in Fields
      /\ {gm, gf, Y, X} \subseteq written
      /\ Call({gm, Y, X, gf}, {gm},
              update_full_halo(Kernel(mem, gm, MainRows, ForceReads(gm, Y, X, gf)), gm))
  BY RowLayout, FieldKinds DEF IInv, TypeOK, Call, fermion_force
<1>2. \A d \in Devices : \A r \in MainRows :
        ReadsRight(mem.data, ForceReads(gm, Y, X, gf), d, r)
  BY <1>1, ForceReadsRight DEF FieldGood
<1> QED BY <1>1, <1>2, KernelAndUpdateInv

\* The even-odd fermion force requires the halos it reads.
LEMMA FermionForceEoInv ==
    ASSUME IInv, NEW gm \in GaugeMomenta, NEW gf \in GaugeFields,
           NEW Y \in EoFields, NEW X \in EoFields,
           fermion_force_eo(gm, Y, X, gf)
    PROVE  IInv'
<1> DEFINE S == require_halo(require_halo(mem, Y, 0), X, 0)
<1>1. /\ MemRows \in SUBSET MemRows /\ MainRows \subseteq MemRows
      /\ gm \in EagerFields
      /\ gm \in Fields /\ gf \in Fields /\ Y \in Fields /\ X \in Fields
      /\ {gm, gf, Y, X} \subseteq written
      /\ Call({gm, Y, X, gf}, {gm},
              update_full_halo(Kernel(S, gm, MemRows, ForceReads(gm, Y, X, gf)), gm))
  BY RowLayout, FieldKinds DEF fermion_force_eo, Call
<1>2. /\ S \in MemStates /\ \A g \in written : FieldGood(S, g)
      /\ HaloRight(S, Y, HaloExtent) /\ HaloRight(S, X, HaloExtent)
  BY <1>1, RequireBoth
<1> HIDE DEF S
<1>3. \A d \in Devices : \A r \in MainRows :
        ReadsRight(S.data, ForceReads(gm, Y, X, gf), d, r)
  BY <1>1, <1>2, ForceReadsRight DEF FieldGood
<1> QED BY <1>1, <1>2, <1>3, KernelAndUpdateInv

(***************************************************************************)
(* The theorems                                                            *)
(***************************************************************************)
LEMMA EoStepInv == ASSUME IInv, EoNext PROVE IInv'
<1>1. CASE \E f \in EoFields : zero_or_cold(f) \/ gaussian(f) \/ gamma5(f)
  BY <1>1, ZeroOrColdInv, GaussianInv, Gamma5Inv, FieldKinds DEF gamma5
<1>2. CASE \E out, x \in EoFields : sax(out, x) \/ copyData(out, x) \/ M_tm_sitediagonal(out, x)
  <2>1. PICK out \in EoFields, x \in EoFields : SiteDiagonal(out, {x})
    BY <1>2 DEF sax, copyData, M_tm_sitediagonal
  <2>2. {x} \in SUBSET EoFields /\ {x} # {}
    OBVIOUS
  <2> QED BY <2>1, <2>2, SiteDiagonalInv
<1>3. CASE \E out, x, y \in EoFields : saxpy(out, x, y)
  <2>1. PICK out \in EoFields, x \in EoFields, y \in EoFields : SiteDiagonal(out, {x, y})
    BY <1>3 DEF saxpy
  <2>2. {x, y} \in SUBSET EoFields /\ {x, y} # {}
    OBVIOUS
  <2> QED BY <2>1, <2>2, SiteDiagonalInv
<1>4. CASE \E out, x, y, z \in EoFields : saxsbypz(out, x, y, z)
  <2>1. PICK out \in EoFields, x \in EoFields, y \in EoFields, z \in EoFields :
            SiteDiagonal(out, {x, y, z})
    BY <1>4 DEF saxsbypz
  <2>2. {x, y, z} \in SUBSET EoFields /\ {x, y, z} # {}
    OBVIOUS
  <2> QED BY <2>1, <2>2, SiteDiagonalInv
<1>5. CASE \E even, odd \in EoFields, s \in SpinorFields :
              convert_to_eoprec(even, odd, s) \/ convert_from_eoprec(s, even, odd)
  BY <1>5, ConvertToInv, ConvertFromInv
<1>6. CASE \E out, in \in EoFields, gf \in GaugeFields :
              dslash(out, gf, in) \/ dslash_require_halo_async(out, gf, in)
  BY <1>6, DslashSyncInv, DslashBeginInv
<1>7. CASE dslash_eo_inner
  BY <1>7, DslashInnerInv
<1>8. CASE finalize
  BY <1>8, FinalizeInv
<1>9. CASE dslash_eo_boundary
  BY <1>9, DslashBoundaryInv
<1> QED BY <1>1, <1>2, <1>3, <1>4, <1>5, <1>6, <1>7, <1>8, <1>9 DEF EoNext

\* Every operation on eager fields preserves the invariant.
LEMMA EagerStepInv == ASSUME IInv, EagerNext PROVE IInv'
<1>1. CASE \E f \in EagerFields : eager_zero_or_cold(f) \/ eager_gaussian(f)
  BY <1>1, EagerZeroInv, EagerGaussianInv
<1>2. CASE \/ \E out, x, y \in SpinorFields : eager_saxpy(out, x, y)
           \/ \E out, x, y \in GaugeMomenta : eager_saxpy(out, x, y)
  <2>1. \E out, x, y \in EagerFields : eager_saxpy(out, x, y)
    BY <1>2, FieldKinds
  <2> QED BY <2>1, EagerSaxpyInv
<1>3. CASE \E f \in SpinorFields : eager_gamma5(f)
  BY <1>3, Gamma5Inv, FieldKinds DEF eager_gamma5
<1>4. CASE \E out, in \in SpinorFields, gf \in GaugeFields : M_wilson(out, gf, in)
  BY <1>4, MWilsonInv
<1>5. CASE \E gm \in GaugeMomenta, gf \in GaugeFields :
              gauge_force(gm, gf) \/ gauge_force_tlsym(gm, gf) \/ md_update_gaugefield(gf, gm)
  BY <1>5, GaugeForceInv, MdUpdateGaugefieldInv
<1>6. CASE \E gm \in GaugeMomenta, gf \in GaugeFields, Y, X \in SpinorFields :
              fermion_force(gm, Y, X, gf)
  BY <1>6, FermionForceInv
<1>7. CASE \E gm \in GaugeMomenta, gf \in GaugeFields, Y, X \in EoFields :
              fermion_force_eo(gm, Y, X, gf)
  BY <1>7, FermionForceEoInv
<1> QED BY <1>1, <1>2, <1>3, <1>4, <1>5, <1>6, <1>7 DEF EagerNext

\* Every step preserves the invariant.
LEMMA StepInv == ASSUME IInv, [Next]_vars PROVE IInv'
<1>1. CASE Next
  BY <1>1, EoStepInv, EagerStepInv DEF Next
<1>2. CASE UNCHANGED vars
  BY <1>2 DEF vars, IInv, TypeOK, DslashInv
<1> QED BY <1>1, <1>2

(* The inductive invariant holds in every reachable state.                 *)
THEOREM InductiveInvariant == Spec => []IInv
  BY InitInv, StepInv, PTL DEF Spec

(* The state stays of its type: buffers hold only rows of the lattice, a   *)
(* field never claims more halo than there is, and the handle of a dslash  *)
(* names fields of the right kind.                                         *)
THEOREM TypeCorrect == Spec => []TypeOK
<1>1. IInv => TypeOK
  BY DEF IInv
<1> QED BY <1>1, InductiveInvariant, PTL

(* On any number of devices every device's own rows hold what a single     *)
(* device would have computed, for every sequence of calls.                *)
THEOREM MainRowsAlwaysCurrent == Spec => []MainRowsCurrent
<1>1. IInv => MainRowsCurrent
  BY DEF IInv, FieldGood, MainRight, MainRowsCurrent
<1> QED BY <1>1, InductiveInvariant, PTL

(* valid_halo_width never claims a stale halo row. *)
THEOREM ClaimedHaloAlwaysCurrent == Spec => []ClaimedHaloCurrent
<1>1. IInv => ClaimedHaloCurrent
  BY DEF IInv, FieldGood, ClaimedHaloCurrent
<1> QED BY <1>1, InductiveInvariant, PTL

(* The eagerly updated fields never have a stale halo row between calls.   *)
THEOREM EagerHaloAlwaysCurrent == Spec => []EagerHaloCurrent
<1>1. IInv => EagerHaloCurrent
  BY DEF IInv, FieldGood, EagerHaloCurrent
<1> QED BY <1>1, InductiveInvariant, PTL

(* The finalization of a dslash finds in every link what it dumps. *)
THEOREM FinalizeAlwaysFindsItsLoad == Spec => []FinalizeFindsItsLoad
<1>1. ASSUME IInv PROVE FinalizeFindsItsLoad
  <2> SUFFICES ASSUME SOA, pc \in {"inner", "finalize"}, op.reqd_halo_width # 0
               PROVE  LinksHold(mem, op.in, op.reqd_halo_width)
    BY DEF FinalizeFindsItsLoad
  <2>1. op.reqd_halo_width = 1
    BY <1>1, DslashFacts
  <2> QED BY <1>1, <2>1 DEF IInv, DslashInv, LinksRight
<1> QED BY <1>1, InductiveInvariant, PTL

(* The boundary kernel of a dslash always starts with a valid halo. *)
THEOREM BoundaryHaloAlwaysValid == Spec => []BoundaryHaloValid
<1>1. ASSUME IInv PROVE BoundaryHaloValid
  <2> SUFFICES ASSUME pc = "boundary"
               PROVE  /\ mem.valid[op.in] >= ReqdHaloWidth
                      /\ HaloRight(mem, op.in, ReqdHaloWidth)
    BY DEF BoundaryHaloValid
  <2>1. 1 <= mem.valid[op.in] /\ mem.valid[op.in] \in Widths /\ op.in \in EoFields
    BY <1>1, DslashFacts DEF IInv, DslashInv, MemStates
  <2>2. HaloRight(mem, op.in, mem.valid[op.in])
    BY <1>1, <2>1, DslashFacts DEF FieldGood
  <2>3. HaloRight(mem, op.in, 1)
    BY <1>1, <2>1, <2>2, WidthMonotone, DslashFacts, Extents
  <2> QED BY <2>1, <2>3 DEF ReqdHaloWidth, Widths
<1> QED BY <1>1, InductiveInvariant, PTL
=============================================================================
