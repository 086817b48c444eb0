---------------------------- MODULE HaloCoherence ----------------------------
(***************************************************************************)
(* The halo protocol of the lattice fields, in the program order of the    *)
(* host thread: which copies of a time slice each device holds, when they  *)
(* are refreshed, and what the fields' bookkeeping claims about them.      *)
(*                                                                         *)
(* Even-odd spinor fields follow the lazy protocol: a kernel that writes   *)
(* one marks its halo dirty, and a kernel that needs the halo requires it. *)
(* All other fields are updated eagerly, by whoever wrote them.            *)
(*                                                                         *)
(* The numbers in the fields are abstracted to their origin.  A cell holds *)
(* the name of the global row whose current value it is a copy of, or      *)
(* Stale: overwritten since, never written, or computed from stale input.  *)
(* The reordering of the commands by the devices is not part of this       *)
(* module.                                                                 *)
(*                                                                         *)
(* Operators named Wrong_... are not part of the model: each is a          *)
(* plausible mistake in the definition that follows it, there to show that *)
(* the properties notice.                                                  *)
(***************************************************************************)
EXTENDS HaloGeometry

CONSTANTS
    EoFields,       \* physics::lattices::Spinorfield_eo objects
    SpinorFields,   \* physics::lattices::Spinorfield objects
    GaugeFields,    \* physics::lattices::Gaugefield objects
    GaugeMomenta,   \* physics::lattices::Gaugemomenta objects
    Stale,          \* content of a cell that is no current value of any row
    NoField, NoOp,  \* an empty link; no dslash in progress
    LAZY,           \* built with LAZY_HALO_UPDATES
    ASYNC,          \* built with ASYNC_HALO_UPDATES
    SOA             \* the buffers use the structure-of-arrays layout

EagerFields == SpinorFields \cup GaugeFields \cup GaugeMomenta
Fields == EoFields \cup EagerFields

ASSUME StaleAssumption == Stale \notin GlobalRows

ASSUME FieldAssumption ==
    /\ EoFields \cap EagerFields = {}
    /\ SpinorFields \cap GaugeFields = {}
    /\ SpinorFields \cap GaugeMomenta = {}
    /\ GaugeFields \cap GaugeMomenta = {}

(* require_halo_async returns no value unless the updates are lazy, so the *)
(* asynchronous build is only meaningful on top of the lazy one.           *)
ASSUME BuildAssumption ==
    /\ LAZY \in BOOLEAN /\ ASYNC \in BOOLEAN /\ SOA \in BOOLEAN
    /\ ASYNC => LAZY

VARIABLES
    mem,              \* contents of the buffers and links, and the widths
    phys_width,       \* physics::lattices::Spinorfield_eo::valid_halo_width
    written,          \* fields the program has given a value (history)
    pc,               \* where the host is inside dslash
    op                \* arguments and update handle of the dslash in progress

vars == <<mem, phys_width, written, pc, op>>

Cells == GlobalRows \cup {Stale}
Dirs == {"UP", "DOWN"}
Links == Devices \X Devices \X Dirs
Widths == 0 .. HaloExtent

MemStates == [data  : [Fields -> [Devices -> [MemRows -> Cells]]],
              link  : [Links -> [field : Fields \cup {NoField}, width : Widths,
                                 row : [0 .. HaloExtent - 1 -> Cells]]],
              valid : [EoFields -> Widths]]

Ops == [out : EoFields, in : EoFields, gf : GaugeFields,
        reqd_halo_width : Widths]

ASSUME NoneAssumption == NoField \notin Fields /\ NoOp \notin Ops
-----------------------------------------------------------------------------
(***************************************************************************)
(* Halo exchange                                                           *)
(***************************************************************************)

(* initialize_update_halo_soa: every device loads its last w rows into the *)
(* link to its upper neighbour and its first w rows into the link to its   *)
(* lower neighbour.                                                        *)
initialize_update_halo_soa(S, f, w) ==
    LET Content(i, first) ==
            [field |-> f, width |-> w,
             row |-> [k \in 0 .. HaloExtent - 1 |->
                        IF k < w THEN S.data[f][i][first + k] ELSE Stale]]
    IN [S EXCEPT !.link = [l \in Links |->
            IF l = <<l[1], upper_grid_neighbour(l[1]), "UP">>
            THEN Content(l[1], LocalT - w)
            ELSE IF l = <<l[1], lower_grid_neighbour(l[1]), "DOWN">>
            THEN Content(l[1], 0)
            ELSE S.link[l]]]

(* Mistake: the partial lower halo is dumped right behind the upper halo   *)
(* instead of at the end of the memory.                                    *)
Wrong_finalize_update_halo_soa(S, f, w) ==
    [S EXCEPT !.data[f] = [i \in Devices |-> [r \in MemRows |->
        IF r \in UpperHalo(w)
        THEN S.link[<<upper_grid_neighbour(i), i, "DOWN">>].row[r - LocalT]
        ELSE IF r \in LocalT + HaloExtent .. LocalT + HaloExtent + w - 1
        THEN S.link[<<lower_grid_neighbour(i), i, "UP">>].row[r - (LocalT + HaloExtent)]
        ELSE S.data[f][i][r]]]]

(* finalize_update_halo_soa: every device dumps the up link of its lower   *)
(* neighbour into the last w rows of its memory and the down link of its   *)
(* upper neighbour right behind its main rows.                             *)
finalize_update_halo_soa(S, f, w) ==
    LET Received(l, k) == IF S.link[l].field = f THEN S.link[l].row[k] ELSE Stale
    IN [S EXCEPT !.data[f] = [i \in Devices |-> [r \in MemRows |->
            IF r \in UpperHalo(w)
            THEN Received(<<upper_grid_neighbour(i), i, "DOWN">>, r - LocalT)
            ELSE IF r \in LowerHalo(w)
            THEN Received(<<lower_grid_neighbour(i), i, "UP">>, r - (MemT - w))
            ELSE S.data[f][i][r]]]]

(* Transfer::dump of AsyncOclCopy and DirectGMA throws on a size other     *)
(* than that of the last load.                                             *)
LinksHold(S, f, w) ==
    \A i \in Devices :
        LET up == S.link[<<lower_grid_neighbour(i), i, "UP">>]
            down == S.link[<<upper_grid_neighbour(i), i, "DOWN">>]
        IN up.field = f /\ up.width = w /\ down.field = f /\ down.width = w

(* Mistake: the two halos are exchanged for one another. *)
Wrong_update_halo_aos(S, f) ==
    [S EXCEPT !.data[f] = [i \in Devices |-> [r \in MemRows |->
        IF r \in UpperHalo(HaloExtent)
        THEN S.data[f][lower_grid_neighbour(i)][r - LocalT]
        ELSE IF r \in LowerHalo(HaloExtent)
        THEN S.data[f][upper_grid_neighbour(i)]
                    [LocalT - HaloExtent + (r - (LocalT + HaloExtent))]
        ELSE S.data[f][i][r]]]]

(* hardware::buffers::update_halo: the exchange through host memory, which *)
(* always covers the full halo.                                            *)
update_halo_aos(S, f) ==
    [S EXCEPT !.data[f] = [i \in Devices |-> [r \in MemRows |->
        IF r \in UpperHalo(HaloExtent)
        THEN S.data[f][upper_grid_neighbour(i)][r - LocalT]
        ELSE IF r \in LowerHalo(HaloExtent)
        THEN S.data[f][lower_grid_neighbour(i)]
                    [LocalT - HaloExtent + (r - (LocalT + HaloExtent))]
        ELSE S.data[f][i][r]]]]

(* Spinorfield_eo::update_halo(width). *)
update_halo(S, f, w) ==
    IF SOA THEN finalize_update_halo_soa(initialize_update_halo_soa(S, f, w), f, w)
           ELSE update_halo_aos(S, f)

(* The eager fields' update_halo, which asks for the full width.           *)
update_full_halo(S, f) == update_halo(S, f, HaloExtent)

(* Spinorfield_eo::update_halo_async: with AoS buffers the whole update    *)
(* happens here and the finalization has nothing left to do.               *)
update_halo_async(S, f, w) ==
    IF SOA THEN initialize_update_halo_soa(S, f, w) ELSE update_halo_aos(S, f)

(* Mistake: the finalization does nothing for either layout. *)
Wrong_update_halo_finalize(S, f, w) == S

update_halo_finalize(S, f, w) ==
    IF SOA THEN finalize_update_halo_soa(S, f, w) ELSE S
-----------------------------------------------------------------------------
(***************************************************************************)
(* Bookkeeping of the lazy protocol.  A width of 0 stands for the full     *)
(* halo wherever it is an argument.                                        *)
(***************************************************************************)
(* Mistake: the halo on both sides is counted. *)
Wrong_Full(w) == IF w = 0 THEN 2 * HaloExtent ELSE w

Full(w) == IF w = 0 THEN HaloExtent ELSE w

(* Mistake: a writer does not mark the halo. *)
Wrong_mark_halo_dirty(S, f) == S

mark_halo_dirty(S, f) ==
    IF LAZY THEN [S EXCEPT !.valid[f] = 0] ELSE update_halo(S, f, HaloExtent)

mark_halo_clean(S, f, w) ==
    IF LAZY THEN [S EXCEPT !.valid[f] = Full(w)] ELSE S

require_halo(S, f, reqd) ==
    IF LAZY /\ S.valid[f] < Full(reqd)
    THEN [update_halo(S, f, Full(reqd)) EXCEPT !.valid[f] = Full(reqd)]
    ELSE S

(* physics::lattices::Spinorfield_eo answers from a width of its own.      *)
get_valid_halo_width(f) == IF LAZY THEN phys_width[f] ELSE 0

(* The epilogue shared by the site-diagonal operations: what they know of  *)
(* their inputs decides what they claim of their output.                   *)
MarkFromInputs(S, out, ins) ==
    LET width == CHOOSE w \in {get_valid_halo_width(f) : f \in ins} :
                    \A f \in ins : w <= get_valid_halo_width(f)
    IN IF width # 0 THEN mark_halo_clean(S, out, width)
                    ELSE mark_halo_dirty(S, out)
-----------------------------------------------------------------------------
(***************************************************************************)
(* Kernels.  A kernel computes the rows `rows' of field out on every       *)
(* device, each from the rows of its input fields that `reads' lists as    *)
(* <<field, time step>>.  The result is current if every row it was        *)
(* computed from is the current value of the right global row.             *)
(***************************************************************************)
ReadsRight(D, reads, d, r) ==
    \A x \in reads : D[x[1]][d][NeighbourRow(r, x[2])] = Shift(Home(d, r), x[2])

(* Rows outside `rows' keep their content if they are in `kept'; otherwise *)
(* they are left with an older value of the field.                         *)
Computed(D, out, rows, kept, reads) ==
    [d \in Devices |-> [r \in MemRows |->
        IF r \in rows THEN IF ReadsRight(D, reads, d, r) THEN Home(d, r) ELSE Stale
        ELSE IF r \in kept THEN D[out][d][r] ELSE Stale]]

(* Copies of out that are still in the links are copies of an old value    *)
(* once out is overwritten.                                                *)
Forget(lk, out) ==
    [l \in Links |-> IF lk[l].field = out
                     THEN [lk[l] EXCEPT !.row = [k \in 0 .. HaloExtent - 1 |-> Stale]]
                     ELSE lk[l]]

Kernel(S, out, rows, reads) ==
    [data  |-> [S.data EXCEPT ![out] = Computed(S.data, out, rows, {}, reads)],
     link  |-> Forget(S.link, out),
     valid |-> S.valid]

(* A second kernel that completes the value a first one has begun.         *)
Completed(S, out, rows, reads) ==
    [data  |-> [S.data EXCEPT ![out] = Computed(S.data, out, rows, MemRows, reads)],
     link  |-> Forget(S.link, out),
     valid |-> S.valid]

(* Kernels that treat every site by itself run over all rows in memory.    *)
SiteKernel(S, out, ins) == Kernel(S, out, MemRows, ins \X {0})

(* The time slices the hopping term connects, for spinors and links.       *)
Hopping(in, gf) == {<<in, -1>>, <<in, 0>>, <<in, 1>>, <<gf, -1>>, <<gf, 0>>}

(* dslash_eo_boundary computes the sites within REQD_HALO_WIDTH of the     *)
(* ends of the local lattice, dslash_eo_inner the others.                  *)
ReqdHaloWidth == 1
InnerRows == ReqdHaloWidth .. LocalT - 1 - ReqdHaloWidth
BoundaryRows == MainRows \ InnerRows
-----------------------------------------------------------------------------
Init ==
    /\ mem = [data  |-> [f \in Fields |-> [d \in Devices |-> [r \in MemRows |-> Stale]]],
              link  |-> [l \in Links |-> [field |-> NoField, width |-> 0,
                                          row |-> [k \in 0 .. HaloExtent - 1 |-> Stale]]],
              valid |-> [f \in EoFields |-> 0]]
    /\ phys_width = [f \in EoFields |-> 0]
    /\ written = {}
    /\ pc = "idle"
    /\ op = NoOp

(* A call the host makes outside dslash that gives the fields in outs a    *)
(* value and leaves the memory in state S.  The program reads only fields  *)
(* it has written.                                                         *)
Call(ins, outs, S) ==
    /\ pc = "idle"
    /\ ins \subseteq written
    /\ mem' = S
    /\ written' = written \cup outs
    /\ UNCHANGED <<phys_width, pc, op>>

(* Operations on even-odd spinor fields *)

zero_or_cold(f) ==
    Call({}, {f}, mark_halo_clean(SiteKernel(mem, f, {}), f, 0))

gaussian(f) ==
    Call({}, {f}, mark_halo_dirty(Kernel(mem, f, MainRows, {}), f))

(* The site-diagonal operations, alone or with a second result.            *)
SiteDiagonal(out, ins) ==
    Call(ins, {out}, MarkFromInputs(SiteKernel(mem, out, ins), out, ins))

saxpy(out, x, y) == SiteDiagonal(out, {x, y})

sax(out, x) == SiteDiagonal(out, {x})

saxsbypz(out, x, y, z) == SiteDiagonal(out, {x, y, z})

copyData(to, from) == to # from /\ SiteDiagonal(to, {from})

M_tm_sitediagonal(out, in) == SiteDiagonal(out, {in})

gamma5(f) == Call({f}, {f}, SiteKernel(mem, f, {f}))

convert_to_eoprec(even, odd, in) ==
    /\ even # odd
    /\ Call({in}, {even, odd},
            mark_halo_clean(
                mark_halo_clean(SiteKernel(SiteKernel(mem, even, {in}), odd, {in}),
                                even, 0),
                odd, 0))

convert_from_eoprec(merged, even, odd) ==
    /\ even # odd
    /\ Call({even, odd}, {merged},
            SiteKernel(require_halo(require_halo(mem, even, 0), odd, 0),
                       merged, {even, odd}))

(* dslash without asynchronous updates *)
dslash(out, gf, in) ==
    /\ ~ASYNC /\ out # in
    /\ Call({gf, in}, {out},
            mark_halo_dirty(Kernel(require_halo(mem, in, 1), out, MainRows,
                                   Hopping(in, gf)), out))

(* Mistake: the handle of an exchange that was skipped has a width. *)
Wrong_dslash_require_halo_async(out, gf, in) ==
    /\ ASYNC /\ out # in
    /\ pc = "idle" /\ {gf, in} \subseteq written
    /\ LET needed == mem.valid[in] < Full(1)
       IN /\ mem' = IF needed THEN update_halo_async(mem, in, Full(1)) ELSE mem
          /\ op' = [out |-> out, in |-> in, gf |-> gf, reqd_halo_width |-> Full(1)]
    /\ pc' = "inner"
    /\ UNCHANGED <<phys_width, written>>

(* dslash with asynchronous updates: the halo travels while the inner      *)
(* sites are computed.                                                     *)
dslash_require_halo_async(out, gf, in) ==
    /\ ASYNC /\ out # in
    /\ pc = "idle" /\ {gf, in} \subseteq written
    /\ LET needed == mem.valid[in] < Full(1)
       IN /\ mem' = IF needed THEN update_halo_async(mem, in, Full(1)) ELSE mem
          /\ op' = [out |-> out, in |-> in, gf |-> gf,
                    reqd_halo_width |-> IF needed THEN Full(1) ELSE 0]
    /\ pc' = "inner"
    /\ UNCHANGED <<phys_width, written>>

dslash_eo_inner ==
    /\ pc = "inner"
    /\ mem' = Kernel(mem, op.out, InnerRows, Hopping(op.in, op.gf))
    /\ pc' = "finalize"
    /\ written' = written \ {op.out}
    /\ UNCHANGED <<phys_width, op>>

(* Spinorfield_eoHaloUpdate::finalize: a handle of width 0 is already done *)
finalize ==
    /\ pc = "finalize"
    /\ LET w == op.reqd_halo_width
       IN mem' = IF w = 0 THEN mem
                 ELSE [update_halo_finalize(mem, op.in, w) EXCEPT !.valid[op.in] = w]
    /\ op' = [op EXCEPT !.reqd_halo_width = 0]
    /\ pc' = "boundary"
    /\ UNCHANGED <<phys_width, written>>

dslash_eo_boundary ==
    /\ pc = "boundary"
    /\ mem' = mark_halo_dirty(Completed(mem, op.out, BoundaryRows,
                                        Hopping(op.in, op.gf)), op.out)
    /\ written' = written \cup {op.out}
    /\ pc' = "idle"
    /\ op' = NoOp
    /\ UNCHANGED phys_width

(* Operations on the eagerly updated fields *)

(* Spinorfield::zero and cold, Gaugemomenta::zero, Gaugefield::set_cold    *)
(* and send_gaugefield_to_buffers write the halo rows along with the rest. *)
eager_zero_or_cold(f) == Call({}, {f}, SiteKernel(mem, f, {}))

(* Spinorfield and Gaugemomenta gaussian, and the hot start, whose random  *)
(* numbers differ between a row and its copies.                            *)
eager_gaussian(f) ==
    Call({}, {f}, update_full_halo(Kernel(mem, f, MainRows, {}), f))

eager_saxpy(out, x, y) == Call({x, y}, {out}, SiteKernel(mem, out, {x, y}))

eager_gamma5(f) == Call({f}, {f}, SiteKernel(mem, f, {f}))

M_wilson(out, gf, in) ==
    /\ out # in
    /\ Call({gf, in}, {out},
            update_full_halo(Kernel(mem, out, MainRows, Hopping(in, gf)), out))

gauge_force(gm, gf) ==
    Call({gm, gf}, {gm},
         update_full_halo(Kernel(mem, gm, MainRows,
                                 {<<gm, 0>>} \cup ({gf} \X (-1 .. 1))), gm))

gauge_force_tlsym(gm, gf) ==
    Call({gm, gf}, {gm},
         update_full_halo(Kernel(mem, gm, MainRows,
                                 {<<gm, 0>>} \cup ({gf} \X (-2 .. 2))), gm))

(* A temporal link collects the contributions of the sites at both ends.   *)
ForceReads(gm, Y, X, gf) ==
    {<<gm, 0>>, <<gf, 0>>, <<Y, 0>>, <<Y, 1>>, <<X, 0>>, <<X, 1>>}

fermion_force(gm, Y, X, gf) ==
    Call({gm, Y, X, gf}, {gm},
         update_full_halo(Kernel(mem, gm, MainRows, ForceReads(gm, Y, X, gf)), gm))

fermion_force_eo(gm, Y, X, gf) ==
    Call({gm, Y, X, gf}, {gm},
         update_full_halo(Kernel(require_halo(require_halo(mem, Y, 0), X, 0),
                                 gm, MemRows, ForceReads(gm, Y, X, gf)), gm))

(* The links are updated on all rows in memory, without an exchange: the   *)
(* halo of the gauge field stays valid only because that of the momenta is *)
md_update_gaugefield(gf, gm) ==
    Call({gf, gm}, {gf}, SiteKernel(mem, gf, {gf, gm}))

EoNext ==
    \/ \E f \in EoFields : zero_or_cold(f) \/ gaussian(f) \/ gamma5(f)
    \/ \E out, x \in EoFields :
        sax(out, x) \/ copyData(out, x) \/ M_tm_sitediagonal(out, x)
    \/ \E out, x, y \in EoFields : saxpy(out, x, y)
    \/ \E out, x, y, z \in EoFields : saxsbypz(out, x, y, z)
    \/ \E even, odd \in EoFields, s \in SpinorFields :
        convert_to_eoprec(even, odd, s) \/ convert_from_eoprec(s, even, odd)
    \/ \E out, in \in EoFields, gf \in GaugeFields :
        dslash(out, gf, in) \/ dslash_require_halo_async(out, gf, in)
    \/ dslash_eo_inner \/ finalize \/ dslash_eo_boundary

EagerNext ==
    \/ \E f \in EagerFields : eager_zero_or_cold(f) \/ eager_gaussian(f)
    \/ \E out, x, y \in SpinorFields : eager_saxpy(out, x, y)
    \/ \E out, x, y \in GaugeMomenta : eager_saxpy(out, x, y)
    \/ \E f \in SpinorFields : eager_gamma5(f)
    \/ \E out, in \in SpinorFields, gf \in GaugeFields : M_wilson(out, gf, in)
    \/ \E gm \in GaugeMomenta, gf \in GaugeFields :
        gauge_force(gm, gf) \/ gauge_force_tlsym(gm, gf) \/ md_update_gaugefield(gf, gm)
    \/ \E gm \in GaugeMomenta, gf \in GaugeFields, Y, X \in SpinorFields :
        fermion_force(gm, Y, X, gf)
    \/ \E gm \in GaugeMomenta, gf \in GaugeFields, Y, X \in EoFields :
        fermion_force_eo(gm, Y, X, gf)

Next == EoNext \/ EagerNext

Spec == Init /\ [][Next]_vars
-----------------------------------------------------------------------------
TypeOK ==
    /\ mem \in MemStates
    /\ phys_width \in [EoFields -> Widths]
    /\ written \subseteq Fields
    /\ pc \in {"idle", "inner", "finalize", "boundary"}
    /\ op \in Ops \cup {NoOp}

(* Row r of device d holds the current value of the global row it is meant *)
(* to hold.                                                                *)
RowRight(S, f, d, r) == S.data[f][d][r] = Home(d, r)

HaloRight(S, f, w) == \A d \in Devices : \A r \in HaloRows(w) : RowRight(S, f, d, r)

(* Whatever the program computed, and however the halos travelled, every   *)
(* device's own rows hold what a single device would have computed: no     *)
(* kernel ever used a stale halo row or a row of the wrong time slice      *)
(* (dslash, fermion_force, gauge_force and md_update_gaugefield).          *)
MainRowsCurrent ==
    \A f \in written : \A d \in Devices : \A r \in MainRows : RowRight(mem, f, d, r)

(* valid_halo_width never claims more than the devices hold: the lazy      *)
(* bookkeeping of Spinorfield_eo is never stale.                           *)
ClaimedHaloCurrent ==
    LAZY => \A f \in EoFields \cap written : HaloRight(mem, f, mem.valid[f])

(* Without lazy updates, and for the eagerly updated fields always, every  *)
(* halo row is a current copy whenever the host is between two calls; the  *)
(* gauge field keeps this through md_update_gaugefield, which exchanges    *)
(* nothing.                                                                *)
EagerHaloCurrent ==
    \A f \in written :
        (f \in EagerFields \/ ~LAZY) => HaloRight(mem, f, HaloExtent)

(* A handle that is to be finalized belongs to rows that are in the links, *)
(* of its own field and in its own width: the links keep the rows of any   *)
(* earlier exchange, which the finalization of an exchange that was not    *)
(* begun would fill the halo with, or throw at (Transfer::dump).           *)
FinalizeFindsItsLoad ==
    (SOA /\ pc \in {"inner", "finalize"} /\ op.reqd_halo_width # 0)
        => LinksHold(mem, op.in, op.reqd_halo_width)

(* The boundary kernel of dslash starts with a valid halo, also when       *)
(* the update was skipped because the halo was valid already.              *)
BoundaryHaloValid ==
    pc = "boundary" => /\ mem.valid[op.in] >= ReqdHaloWidth
                       /\ HaloRight(mem, op.in, ReqdHaloWidth)
=============================================================================
