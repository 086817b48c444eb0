---------------------------- MODULE HaloGeometry ----------------------------
(***************************************************************************)
(* How CL2QCD cuts the lattice along the time direction.  Every device     *)
(* owns LocalT time slices ("rows") of the global lattice and allocates    *)
(* LocalT + 2 * HaloExtent rows: first its own rows, then the copies of    *)
(* the first rows of its upper neighbour (the upper halo), then the copies *)
(* of the last rows of its lower neighbour (the lower halo).  Stepping one *)
(* row down from row 0 wraps around to the last row in memory, which is    *)
(* why the lower halo is stored there.  The spatial directions are never   *)
(* cut, so a row is the unit in which data is valid or stale.              *)
(***************************************************************************)
EXTENDS Integers

CONSTANTS
    GridSize,    \* number of devices, LatticeGrid::tExtent
    LocalT,      \* LocalLatticeExtents::tExtent
    HaloExtent   \* Device::haloSize (2 in the code)

(* The multi-device case: a single device exchanges nothing.  The memory   *)
(* extents refuse a local extent below the halo extent.                    *)
ASSUME GridAssumption ==
    /\ GridSize \in Nat /\ GridSize > 1
    /\ HaloExtent \in Nat /\ HaloExtent >= 2
    /\ LocalT \in Nat /\ LocalT >= HaloExtent

Devices == 0 .. GridSize - 1
MainRows == 0 .. LocalT - 1

(* Rows a device keeps in memory (LocalLatticeMemoryExtents). *)
MemT == LocalT + 2 * HaloExtent
MemRows == 0 .. MemT - 1

(* The neighbour devices on the periodic grid. *)
upper_grid_neighbour(idx) == (idx + 1) % GridSize
lower_grid_neighbour(idx) == (idx + GridSize - 1) % GridSize

(* The halo rows that a halo of width w makes valid: those next to the     *)
(* main rows.                                                              *)
UpperHalo(w) == LocalT .. LocalT + w - 1
LowerHalo(w) == MemT - w .. MemT - 1
HaloRows(w) == UpperHalo(w) \cup LowerHalo(w)

(* The row a kernel addresses when it steps o rows in time from row r:     *)
(* get_neighbor_temporal and get_lower_neighbor_temporal, repeated.        *)
NeighbourRow(r, o) == (r + o + MemT) % MemT

(***************************************************************************)
(* Global rows are named <<device, main row>>.  Home(d, r) is the global   *)
(* row whose data row r of device d is meant to hold.                      *)
(***************************************************************************)
GlobalRows == Devices \X MainRows

Home(d, r) ==
    IF r < LocalT THEN <<d, r>>
    ELSE IF r < LocalT + HaloExtent
         THEN <<upper_grid_neighbour(d), r - LocalT>>
         ELSE <<lower_grid_neighbour(d), r - 2 * HaloExtent>>

(* The global row that is o time steps away from global row c.             *)
Shift(c, o) ==
    LET t == c[2] + o
    IN IF t < 0 THEN <<lower_grid_neighbour(c[1]), t + LocalT>>
       ELSE IF t >= LocalT THEN <<upper_grid_neighbour(c[1]), t - LocalT>>
       ELSE <<c[1], t>>
=============================================================================
