---------------------------- MODULE TransferLink ----------------------------
(***************************************************************************)
(* What hardware::Transfer promises: a set of links, each a bounded queue  *)
(* between a source and a destination buffer.  A load copies the source    *)
(* into the link; from then on the source may be overwritten.  A dump      *)
(* copies the oldest loaded value to the destination.  Nothing is lost,    *)
(* duplicated, reordered or mixed with another value on the way.           *)
(***************************************************************************)
EXTENDS Naturals, Sequences

CONSTANTS
    Links,       \* the links
    Sources,     \* the buffers loaded from
    SourceOf,    \* [Links -> Sources]
    Values,      \* contents of the buffers
    Capacity     \* values a link holds between load and dump

VARIABLES
    source,      \* content of the source buffers
    inTransit,   \* values loaded into a link and not dumped yet
    destination  \* content of the destination buffers, one per link

linkVars == <<source, inTransit, destination>>

Init ==
    /\ source \in [Sources -> Values]
    /\ inTransit = [l \in Links |-> << >>]
    /\ destination \in [Links -> Values]

Overwrite(s) ==
    /\ \E v \in Values : source' = [source EXCEPT ![s] = v]
    /\ UNCHANGED <<inTransit, destination>>

Load(l) ==
    /\ Len(inTransit[l]) < Capacity
    /\ inTransit' = [inTransit EXCEPT ![l] = Append(@, source[SourceOf[l]])]
    /\ UNCHANGED <<source, destination>>

Dump(l) ==
    /\ inTransit[l] # << >>
    /\ destination' = [destination EXCEPT ![l] = Head(inTransit[l])]
    /\ inTransit' = [inTransit EXCEPT ![l] = Tail(@)]
    /\ UNCHANGED source

Next ==
    \/ \E s \in Sources : Overwrite(s)
    \/ \E l \in Links : Load(l) \/ Dump(l)

Spec == Init /\ [][Next]_linkVars
=============================================================================
