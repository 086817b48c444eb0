---------------------------- MODULE HaloQueues_proofs ----------------------------
(***************************************************************************)
(* Proofs about HaloQueues, for any number of devices and rounds and every *)
(* choice of the methods of the links.                                     *)
(*                                                                         *)
(* The argument counts.  A command of the field is known by its kind, its  *)
(* place (a link or a device) and its round, and every round has at most   *)
(* one of a kind and place, a stream.  F[kind][place] is the number of     *)
(* commands of a stream that have been executed.  What is still pending of *)
(* a stream is then everything above F and up to the last round called     *)
(* (Counted), the queues hold their commands in the order of the script    *)
(* (Ordered, Past), the event lists hold what Needs... says (Fits), and    *)
(* the content of every buffer is the count of the stream that writes it   *)
(* (Contents).  The scalars, which the host writes as well, are described  *)
(* by the place of the host instead (ScalarAt).                            *)
(***************************************************************************)
EXTENDS HaloQueues, SequenceTheorems, FiniteSetTheorems, TLAPS

-----------------------------------------------------------------------------
(***************************************************************************)
(* The script of the host: every call of a round stands at exactly one     *)
(* place, and the calls of a section come before those of the next.  What  *)
(* follows it needs no more of it than the function Pos, from calls to     *)
(* places, and its order.                                                  *)
(***************************************************************************)
K == Len(Dirs)
M == GridSize * K

LinkCalls == {"load", "transfer", "dump"}
DeviceCalls == {"write", "flush", "boundary", "reduce", "map", "unmap", "use"}
               \cup (IF ASYNC THEN {"inner"} ELSE {})
HostCalls == {"end", "wait", "sum"}
AllCalls == [call : LinkCalls, at : Links]
            \cup [call : DeviceCalls, at : OwnPlaces]
            \cup [call : HostCalls, at : {Own(0)}]

CallSeqs == Seq(AllCalls)

(* The neighbours on the ring of devices are devices, and inverse to one   *)
(* another.                                                                *)
LEMMA Ring ==
    ASSUME NEW d \in Devices
    PROVE  /\ upper_grid_neighbour(d) \in Devices
           /\ lower_grid_neighbour(d) \in Devices
           /\ upper_grid_neighbour(lower_grid_neighbour(d)) = d
           /\ lower_grid_neighbour(upper_grid_neighbour(d)) = d
  BY GridAssumption DEF Devices, upper_grid_neighbour, lower_grid_neighbour

(* There are one or two directions, and a link for every device and        *)
(* direction.                                                              *)
LEMMA Directions ==
    /\ K \in {1, 2} /\ Dirs \in [1 .. K -> {"UP", "DOWN"}]
    /\ Dirs[1] = "UP" /\ (K = 2 => Dirs[2] = "DOWN")
    /\ DOMAIN Dirs = 1 .. K
    /\ M \in Nat /\ (K = 1 => M = GridSize) /\ (K = 2 => M = 2 * GridSize)
<1>1. /\ K \in {1, 2} /\ DOMAIN Dirs = 1 .. K
      /\ Dirs[1] = "UP" /\ (K = 2 => Dirs[2] = "DOWN")
  <2>1. CASE BothDirections
    BY <2>1 DEF K, Dirs
  <2>2. CASE ~BothDirections
    BY <2>2 DEF K, Dirs
  <2> QED BY <2>1, <2>2
<1>2. Dirs \in [1 .. K -> {"UP", "DOWN"}]
  BY RoundAssumption DEF K, Dirs
<1> QED BY <1>1, <1>2, GridAssumption DEF M

(* A link is the outgoing one of its source and the incoming one of its    *)
(* destination.                                                            *)
LEMMA LinkType ==
    ASSUME NEW l \in Links
    PROVE  /\ l.from \in Devices /\ l.to \in Devices
           /\ l.id = Dirs[1] \/ (K = 2 /\ l.id = Dirs[2])
           /\ l = Outgoing(l.from, l.id) /\ l = Incoming(l.to, l.id)
           /\ l \notin OwnPlaces
<1>1. /\ l.from \in Devices /\ l.to \in Devices
      /\ l.id = Dirs[1] \/ (K = 2 /\ l.id = Dirs[2])
      /\ l.to = Neighbour(l.from, l.id)
      /\ l = [from |-> l.from, to |-> l.to, id |-> l.id]
  BY Directions DEF Links
<1>2. l.id \in {"UP", "DOWN"}
  BY <1>1, Directions
<1>3. l.from = Neighbour(l.to, IF l.id = "UP" THEN "DOWN" ELSE "UP")
  BY <1>1, <1>2, Ring DEF Neighbour
<1> QED BY <1>1, <1>2, <1>3 DEF Outgoing, Incoming, OwnPlaces, Own

(* Every device has a link in and a link out in every direction.           *)
LEMMA LinksAtDevices ==
    ASSUME NEW d \in Devices, NEW k \in 1 .. K
    PROVE  /\ Outgoing(d, Dirs[k]) \in Links /\ Outgoing(d, Dirs[k]).from = d
           /\ Incoming(d, Dirs[k]) \in Links /\ Incoming(d, Dirs[k]).to = d
           /\ Outgoing(d, Dirs[k]).id = Dirs[k] /\ Incoming(d, Dirs[k]).id = Dirs[k]
  BY Ring, Directions DEF Outgoing, Incoming, Links, Neighbour

(* The calls of a round that concern links, one section of Program.        *)
LEMMA Positions ==
    /\ \A k \in 1 .. M : /\ (k - 1) \div K \in Devices
                         /\ ((k - 1) % K) + 1 \in 1 .. K
                         /\ k = K * ((k - 1) \div K) + ((k - 1) % K) + 1
    /\ \A d \in Devices, j \in 1 .. K, k \in Int :
          k = K * d + j => k \in 1 .. M /\ (k - 1) \div K = d /\ ((k - 1) % K) + 1 = j
<1>1. CASE K = 1
  BY <1>1, Directions, GridAssumption DEF Devices
<1>2. CASE K = 2
  BY <1>2, Directions, GridAssumption DEF Devices
<1> QED BY <1>1, <1>2, Directions

(* A function on 1 .. n is a sequence.                                     *)
LEMMA SequenceOf ==
    ASSUME NEW n \in Nat, NEW S, NEW s \in [1 .. n -> S]
    PROVE  s \in Seq(S) /\ Len(s) = n
<1>1. s \in Seq(S)
  BY SeqDef
<1>2. Len(s) \in Nat /\ DOMAIN s = 1 .. Len(s)
  BY <1>1, LenProperties
<1>3. DOMAIN s = 1 .. n
  OBVIOUS
<1> QED BY <1>1, <1>2, <1>3

(* The calls made for the outgoing links of the devices: load, transfer.   *)
LEMMA OutgoingCalls ==
    ASSUME NEW c \in LinkCalls
    PROVE  LET s == Calls(c, Outgoing)
           IN /\ s \in CallSeqs /\ Len(s) = M
              /\ \A k \in 1 .. M :
                    s[k] = [call |-> c, at |-> Outgoing((k - 1) \div K, Dirs[((k - 1) % K) + 1])]
<1> DEFINE e(k) == [call |-> c, at |-> Outgoing((k - 1) \div K, Dirs[((k - 1) % K) + 1])]
           s == Calls(c, Outgoing)
<1>1. s = [k \in 1 .. M |-> e(k)]
  BY DEF Calls, M, K
<1>2. \A k \in 1 .. M : e(k) \in AllCalls
  BY Positions, LinksAtDevices DEF AllCalls
<1> HIDE DEF e
<1>3. s \in [1 .. M -> AllCalls]
  BY <1>1, <1>2
<1>4. s \in CallSeqs /\ Len(s) = M
  BY <1>3, SequenceOf, Directions DEF CallSeqs
<1> QED BY <1>1, <1>4 DEF e

(* The calls made for the incoming links of the devices: dump.             *)
LEMMA IncomingCalls ==
    ASSUME NEW c \in LinkCalls
    PROVE  LET s == Calls(c, Incoming)
           IN /\ s \in CallSeqs /\ Len(s) = M
              /\ \A k \in 1 .. M :
                    s[k] = [call |-> c, at |-> Incoming((k - 1) \div K, Dirs[((k - 1) % K) + 1])]
<1> DEFINE e(k) == [call |-> c, at |-> Incoming((k - 1) \div K, Dirs[((k - 1) % K) + 1])]
           s == Calls(c, Incoming)
<1>1. s = [k \in 1 .. M |-> e(k)]
  BY DEF Calls, M, K
<1>2. \A k \in 1 .. M : e(k) \in AllCalls
  BY Positions, LinksAtDevices DEF AllCalls
<1> HIDE DEF e
<1>3. s \in [1 .. M -> AllCalls]
  BY <1>1, <1>2
<1>4. s \in CallSeqs /\ Len(s) = M
  BY <1>3, SequenceOf, Directions DEF CallSeqs
<1> QED BY <1>1, <1>4 DEF e

(* The calls made for the devices themselves.                              *)
LEMMA DeviceSection ==
    ASSUME NEW c \in DeviceCalls
    PROVE  LET s == OnDevices(c)
           IN /\ s \in CallSeqs /\ Len(s) = GridSize
              /\ \A k \in 1 .. GridSize : s[k] = [call |-> c, at |-> Own(k - 1)]
<1> DEFINE e(k) == [call |-> c, at |-> Own(k - 1)]
           s == OnDevices(c)
<1>1. s = [k \in 1 .. GridSize |-> e(k)]
  BY DEF OnDevices
<1>2. \A k \in 1 .. GridSize : e(k) \in AllCalls
  BY GridAssumption DEF AllCalls, OwnPlaces, Devices
<1> HIDE DEF e
<1>3. s \in [1 .. GridSize -> AllCalls]
  BY <1>1, <1>2
<1>4. s \in CallSeqs /\ Len(s) = GridSize
  BY <1>3, SequenceOf, GridAssumption DEF CallSeqs
<1> QED BY <1>1, <1>4 DEF e

(* The calls of the host that concern no device.                           *)
LEMMA HostSection ==
    ASSUME NEW c \in HostCalls, NEW e \in HostCalls
    PROVE  /\ <<[call |-> c, at |-> Own(0)]>> \in CallSeqs
           /\ <<[call |-> c, at |-> Own(0)], [call |-> e, at |-> Own(0)]>> \in CallSeqs
<1>1. [call |-> c, at |-> Own(0)] \in AllCalls /\ [call |-> e, at |-> Own(0)] \in AllCalls
  BY DEF AllCalls
<1> QED BY <1>1 DEF CallSeqs

(* The sequence t is part of s, after its first o elements.                *)
Part(s, o, t) ==
    \A k \in 1 .. Len(t) : o + k \in 1 .. Len(s) /\ s[o + k] = t[k]

Join(s, t) == s \o t

(* Both parts of a sequence that is put together.                          *)
LEMMA Concatenation ==
    ASSUME NEW s \in CallSeqs, NEW t \in CallSeqs
    PROVE  /\ Join(s, t) \in CallSeqs /\ Len(Join(s, t)) = Len(s) + Len(t)
           /\ Part(Join(s, t), 0, s) /\ Part(Join(s, t), Len(s), t)
<1>1. /\ s \o t \in CallSeqs /\ Len(s \o t) = Len(s) + Len(t)
      /\ \A i \in 1 .. Len(s) + Len(t) :
            (s \o t)[i] = IF i <= Len(s) THEN s[i] ELSE t[i - Len(s)]
  BY ConcatProperties DEF CallSeqs
<1>2. Len(s) \in Nat /\ Len(t) \in Nat
  BY LenProperties DEF CallSeqs
<1> QED BY <1>1, <1>2 DEF Part, Join

(* A part of a part is a part.                                             *)
LEMMA PartOfPart ==
    ASSUME NEW s, NEW t \in CallSeqs, NEW u \in CallSeqs,
           NEW o \in Nat, NEW p \in Nat, NEW r,
           Part(s, o, t), Part(t, p, u), r = o + p
    PROVE  Part(s, r, u)
<1> SUFFICES ASSUME NEW k \in 1 .. Len(u)
             PROVE  r + k \in 1 .. Len(s) /\ s[r + k] = u[k]
  BY DEF Part
<1>1. p + k \in 1 .. Len(t) /\ t[p + k] = u[k]
  BY DEF Part
<1>2. o + (p + k) \in 1 .. Len(s) /\ s[o + (p + k)] = t[p + k]
  BY <1>1 DEF Part
<1>3. Len(u) \in Nat
  BY LenProperties DEF CallSeqs
<1>4. o + (p + k) = r + k
  BY <1>3
<1> QED BY <1>1, <1>2, <1>4

(* Where the sections of the script start.                                 *)
Inner == IF ASYNC THEN GridSize ELSE 0
Start(c) ==
    CASE c = "write"    -> 0
      [] c = "load"     -> GridSize
      [] c = "flush"    -> GridSize + M
      [] c = "transfer" -> 2 * GridSize + M
      [] c = "inner"    -> 2 * GridSize + 2 * M
      [] c = "dump"     -> 2 * GridSize + 2 * M + Inner
      [] c = "boundary" -> 2 * GridSize + 3 * M + Inner
      [] c = "end"      -> 3 * GridSize + 3 * M + Inner
      [] c = "reduce"   -> 3 * GridSize + 3 * M + Inner + 1
      [] c = "map"      -> 4 * GridSize + 3 * M + Inner + 1
      [] c = "wait"     -> 5 * GridSize + 3 * M + Inner + 1
      [] c = "sum"      -> 5 * GridSize + 3 * M + Inner + 2
      [] c = "unmap"    -> 5 * GridSize + 3 * M + Inner + 3
      [] c = "use"      -> 6 * GridSize + 3 * M + Inner + 3

(* Where the sections of a round without a scalar product are.             *)
LEMMA ProgramSections ==
    /\ Program \in CallSeqs
    /\ Len(Program) = Start("end")
    /\ Part(Program, Start("write"), OnDevices("write"))
    /\ Part(Program, Start("load"), Calls("load", Outgoing))
    /\ Part(Program, Start("flush"), OnDevices("flush"))
    /\ Part(Program, Start("transfer"), Calls("transfer", Outgoing))
    /\ ASYNC => Part(Program, Start("inner"), OnDevices("inner"))
    /\ Part(Program, Start("dump"), Calls("dump", Incoming))
    /\ Part(Program, Start("boundary"), OnDevices("boundary"))
<1>1. PICK wr, ld, fl, tr, inn, du, bo, lf, init, p2, p3, p4 :
        /\ wr = OnDevices("write") /\ ld = Calls("load", Outgoing)
        /\ fl = OnDevices("flush") /\ tr = Calls("transfer", Outgoing)
        /\ inn = IF ASYNC THEN OnDevices("inner") ELSE << >>
        /\ du = Calls("dump", Incoming) /\ bo = OnDevices("boundary")
        /\ lf = Join(ld, fl) /\ init = Join(lf, tr)
        /\ p2 = Join(wr, init) /\ p3 = Join(p2, inn) /\ p4 = Join(p3, du) /\ Program = Join(p4, bo)
  BY Zenon DEF Join, Program, initialize_update_halo_soa, finalize_update_halo_soa
<1>wr. wr \in CallSeqs /\ Len(wr) = GridSize
  BY <1>1, DeviceSection DEF DeviceCalls
<1>ld. ld \in CallSeqs /\ Len(ld) = M
  BY <1>1, OutgoingCalls DEF LinkCalls
<1>fl. fl \in CallSeqs /\ Len(fl) = GridSize
  BY <1>1, DeviceSection DEF DeviceCalls
<1>tr. tr \in CallSeqs /\ Len(tr) = M
  BY <1>1, OutgoingCalls DEF LinkCalls
<1>du. du \in CallSeqs /\ Len(du) = M
  BY <1>1, IncomingCalls DEF LinkCalls
<1>bo. bo \in CallSeqs /\ Len(bo) = GridSize
  BY <1>1, DeviceSection DEF DeviceCalls
<1>in. inn \in CallSeqs /\ Len(inn) = Inner
  <2>1. CASE ASYNC
    BY <1>1, <2>1, DeviceSection DEF DeviceCalls, Inner
  <2>2. CASE ~ASYNC
    BY <1>1, <2>2, EmptySeq DEF CallSeqs, Inner
  <2> QED BY <2>1, <2>2
<1>4. GridSize \in Nat /\ M \in Nat /\ Inner \in Nat
  BY GridAssumption, Directions DEF Inner
<1> DEFINE n1 == M + GridSize
           n2 == n1 + M
           n3 == GridSize + n2
           n4 == n3 + Inner
           n5 == n4 + M
<1>5. n1 \in Nat /\ n2 \in Nat /\ n3 \in Nat /\ n4 \in Nat /\ n5 \in Nat
  BY <1>4
<1>e1. n1 = M + GridSize
  OBVIOUS
<1>e2. n2 = n1 + M
  OBVIOUS
<1>e3. n3 = GridSize + n2
  OBVIOUS
<1>e4. n4 = n3 + Inner
  OBVIOUS
<1>e5. n5 = n4 + M
  OBVIOUS
<1> HIDE DEF n1, n2, n3, n4, n5
<1>c1. lf = Join(ld, fl)
  BY <1>1, Zenon
<1>c2. init = Join(lf, tr)
  BY <1>1, Zenon
<1>c3. p2 = Join(wr, init)
  BY <1>1, Zenon
<1>c4. p3 = Join(p2, inn)
  BY <1>1, Zenon
<1>c5. p4 = Join(p3, du)
  BY <1>1, Zenon
<1>c6. Program = Join(p4, bo)
  BY <1>1, Zenon
<1>6. /\ lf \in CallSeqs /\ Len(lf) = n1
      /\ Part(lf, 0, ld) /\ Part(lf, M, fl)
  <2>1. /\ lf \in CallSeqs /\ Len(lf) = M + GridSize
        /\ Part(lf, 0, ld) /\ Part(lf, M, fl)
    BY <1>c1, <1>ld, <1>fl, <1>4, Concatenation, Zenon
  <2> QED BY <2>1, <1>e1, Zenon
<1>7. /\ init \in CallSeqs /\ Len(init) = n2
      /\ Part(init, 0, lf) /\ Part(init, n1, tr)
  <2>1. /\ init \in CallSeqs /\ Len(init) = n1 + M
        /\ Part(init, 0, lf) /\ Part(init, n1, tr)
    BY <1>c2, <1>6, <1>tr, <1>4, <1>5, Concatenation, Zenon
  <2> QED BY <2>1, <1>e2, Zenon
<1>8. /\ p2 \in CallSeqs /\ Len(p2) = n3
      /\ Part(p2, 0, wr) /\ Part(p2, GridSize, init)
  <2>1. /\ p2 \in CallSeqs /\ Len(p2) = GridSize + n2
        /\ Part(p2, 0, wr) /\ Part(p2, GridSize, init)
    BY <1>c3, <1>7, <1>wr, <1>4, <1>5, Concatenation, Zenon
  <2> QED BY <2>1, <1>e3, Zenon
<1>9. /\ p3 \in CallSeqs /\ Len(p3) = n4
      /\ Part(p3, 0, p2) /\ Part(p3, n3, inn)
  <2>1. /\ p3 \in CallSeqs /\ Len(p3) = n3 + Inner
        /\ Part(p3, 0, p2) /\ Part(p3, n3, inn)
    BY <1>c4, <1>8, <1>in, <1>4, <1>5, Concatenation, Zenon
  <2> QED BY <2>1, <1>e4, Zenon
<1>10. /\ p4 \in CallSeqs /\ Len(p4) = n5
       /\ Part(p4, 0, p3) /\ Part(p4, n4, du)
  <2>1. /\ p4 \in CallSeqs /\ Len(p4) = n4 + M
        /\ Part(p4, 0, p3) /\ Part(p4, n4, du)
    BY <1>c5, <1>9, <1>du, <1>4, <1>5, Concatenation, Zenon
  <2> QED BY <2>1, <1>e5, Zenon
<1>11. /\ Program \in CallSeqs /\ Len(Program) = n5 + GridSize
       /\ Part(Program, 0, p4) /\ Part(Program, n5, bo)
  BY <1>c6, <1>10, <1>bo, <1>4, <1>5, Concatenation, Zenon
<1>z. 0 \in Nat /\ 0 = 0 + 0
  OBVIOUS
<1>12. Part(Program, 0, p3) /\ Part(Program, n4, du)
  <2>1. n4 = 0 + n4
    BY <1>5
  <2> QED BY <2>1, <1>z, <1>du, <1>5, <1>9, <1>10, <1>11, PartOfPart, Zenon
<1>13. Part(Program, 0, p2) /\ Part(Program, n3, inn)
  <2>1. n3 = 0 + n3
    BY <1>5
  <2> QED BY <2>1, <1>z, <1>in, <1>5, <1>8, <1>9, <1>12, PartOfPart, Zenon
<1>14. Part(Program, 0, wr) /\ Part(Program, GridSize, init)
  <2>1. GridSize = 0 + GridSize
    BY <1>4
  <2> QED BY <2>1, <1>z, <1>wr, <1>4, <1>7, <1>8, <1>13, PartOfPart, Zenon
<1>15. Part(Program, GridSize, lf) /\ Part(Program, GridSize + n1, tr)
  <2>1. GridSize = GridSize + 0
    BY <1>4
  <2> QED BY <2>1, <1>z, <1>tr, <1>4, <1>5, <1>6, <1>7, <1>14, PartOfPart, Zenon
<1>16. Part(Program, GridSize, ld) /\ Part(Program, GridSize + M, fl)
  <2>1. GridSize = GridSize + 0
    BY <1>4
  <2> QED BY <2>1, <1>z, <1>fl, <1>ld, <1>4, <1>6, <1>15, PartOfPart, Zenon
<1>17. /\ GridSize + n1 = Start("transfer")
       /\ GridSize + M = Start("flush") /\ GridSize = Start("load") /\ 0 = Start("write")
       /\ n3 = Start("inner") /\ n4 = Start("dump")
       /\ n5 = Start("boundary") /\ n5 + GridSize = Start("end")
  BY <1>4 DEF Start, n1, n2, n3, n4, n5
<1> QED
  BY <1>1, <1>11, <1>12, <1>13, <1>14, <1>15, <1>16, <1>17, Zenon

(* Where the sections of the scalar product are.                           *)
LEMMA ScriptSections ==
    /\ Script \in CallSeqs
    /\ Len(Script) = Start("use") + GridSize
    /\ Part(Script, 0, Program)
    /\ Part(Script, Start("end"), <<[call |-> "end", at |-> Own(0)]>>)
    /\ Part(Script, Start("reduce"), OnDevices("reduce"))
    /\ Part(Script, Start("map"), OnDevices("map"))
    /\ Part(Script, Start("wait"),
            <<[call |-> "wait", at |-> Own(0)], [call |-> "sum", at |-> Own(0)]>>)
    /\ Part(Script, Start("unmap"), OnDevices("unmap"))
    /\ Part(Script, Start("use"), OnDevices("use"))
<1>1. PICK en, re, ma, ws, un, us, pe, q1, q2, q3, sp :
        /\ en = <<[call |-> "end", at |-> Own(0)]>>
        /\ re = OnDevices("reduce") /\ ma = OnDevices("map")
        /\ ws = <<[call |-> "wait", at |-> Own(0)], [call |-> "sum", at |-> Own(0)]>>
        /\ un = OnDevices("unmap") /\ us = OnDevices("use")
        /\ pe = Join(Program, en) /\ q1 = Join(re, ma) /\ q2 = Join(q1, ws) /\ q3 = Join(q2, un)
        /\ sp = Join(q3, us) /\ Script = Join(pe, sp)
  BY Zenon DEF Join, Script, scalar_product
<1>re. re \in CallSeqs /\ Len(re) = GridSize
  BY <1>1, DeviceSection DEF DeviceCalls
<1>ma. ma \in CallSeqs /\ Len(ma) = GridSize
  BY <1>1, DeviceSection DEF DeviceCalls
<1>un. un \in CallSeqs /\ Len(un) = GridSize
  BY <1>1, DeviceSection DEF DeviceCalls
<1>us. us \in CallSeqs /\ Len(us) = GridSize
  BY <1>1, DeviceSection DEF DeviceCalls
<1>en. en \in CallSeqs /\ Len(en) = 1
  BY <1>1, HostSection DEF HostCalls
<1>ws. ws \in CallSeqs /\ Len(ws) = 2
  BY <1>1, HostSection DEF HostCalls
<1>4. GridSize \in Nat
  BY GridAssumption
<1>4e. Start("end") \in Nat
  BY GridAssumption, Directions DEF Inner, Start
<1>4m. M \in Nat
  BY Directions
<1>4i. Inner \in Nat
  BY GridAssumption DEF Inner
<1>4o. 1 \in Nat
  OBVIOUS
<1>4t. 2 \in Nat
  OBVIOUS
<1>4z. 0 \in Nat
  OBVIOUS
<1>5. Program \in CallSeqs /\ Len(Program) = Start("end")
  BY ProgramSections
<1> DEFINE n0 == Start("end") + 1
           n1 == GridSize + GridSize
           n2 == n1 + 2
           n3 == n2 + GridSize
           n4 == n3 + GridSize
<1>m0. n0 \in Nat
  BY <1>4, <1>4e
<1>m1. n1 \in Nat
  BY <1>4, <1>4e
<1>m2. n2 \in Nat
  BY <1>4, <1>4e
<1>m3. n3 \in Nat
  BY <1>4, <1>4e
<1>m4. n4 \in Nat
  BY <1>4, <1>4e
<1>e1. n0 = Start("end") + 1
  OBVIOUS
<1>e2. n1 = GridSize + GridSize
  OBVIOUS
<1>e3. n2 = n1 + 2
  OBVIOUS
<1>e4. n3 = n2 + GridSize
  OBVIOUS
<1>e5. n4 = n3 + GridSize
  OBVIOUS
<1> HIDE DEF n0, n1, n2, n3, n4
<1>c1. pe = Join(Program, en)
  BY <1>1, Zenon
<1>c2. q1 = Join(re, ma)
  BY <1>1, Zenon
<1>c3. q2 = Join(q1, ws)
  BY <1>1, Zenon
<1>c4. q3 = Join(q2, un)
  BY <1>1, Zenon
<1>c5. sp = Join(q3, us)
  BY <1>1, Zenon
<1>c6. Script = Join(pe, sp)
  BY <1>1, Zenon
<1>7. /\ pe \in CallSeqs /\ Len(pe) = n0
      /\ Part(pe, 0, Program) /\ Part(pe, Start("end"), en)
  <2>1. /\ pe \in CallSeqs /\ Len(pe) = Start("end") + 1
        /\ Part(pe, 0, Program) /\ Part(pe, Start("end"), en)
    BY <1>c1, <1>5, <1>en, <1>4e, <1>4o, Concatenation, Zenon
  <2> QED BY <2>1, <1>e1, Zenon
<1>8. /\ q1 \in CallSeqs /\ Len(q1) = n1
      /\ Part(q1, 0, re) /\ Part(q1, GridSize, ma)
  <2>1. /\ q1 \in CallSeqs /\ Len(q1) = GridSize + GridSize
        /\ Part(q1, 0, re) /\ Part(q1, GridSize, ma)
    BY <1>c2, <1>re, <1>ma, <1>4, Concatenation, Zenon
  <2> QED BY <2>1, <1>e2, Zenon
<1>9. /\ q2 \in CallSeqs /\ Len(q2) = n2
      /\ Part(q2, 0, q1) /\ Part(q2, n1, ws)
  <2>1. /\ q2 \in CallSeqs /\ Len(q2) = n1 + 2
        /\ Part(q2, 0, q1) /\ Part(q2, n1, ws)
    BY <1>c3, <1>8, <1>ws, <1>m1, <1>4t, Concatenation, Zenon
  <2> QED BY <2>1, <1>e3, Zenon
<1>10. /\ q3 \in CallSeqs /\ Len(q3) = n3
       /\ Part(q3, 0, q2) /\ Part(q3, n2, un)
  <2>1. /\ q3 \in CallSeqs /\ Len(q3) = n2 + GridSize
        /\ Part(q3, 0, q2) /\ Part(q3, n2, un)
    BY <1>c4, <1>9, <1>un, <1>4, <1>m2, Concatenation, Zenon
  <2> QED BY <2>1, <1>e4, Zenon
<1>11. /\ sp \in CallSeqs /\ Len(sp) = n4
       /\ Part(sp, 0, q3) /\ Part(sp, n3, us)
  <2>1. /\ sp \in CallSeqs /\ Len(sp) = n3 + GridSize
        /\ Part(sp, 0, q3) /\ Part(sp, n3, us)
    BY <1>c5, <1>10, <1>us, <1>4, <1>m3, Concatenation, Zenon
  <2> QED BY <2>1, <1>e5, Zenon
<1>12. /\ Script \in CallSeqs /\ Len(Script) = n0 + n4
       /\ Part(Script, 0, pe) /\ Part(Script, n0, sp)
  BY <1>c6, <1>7, <1>11, <1>m0, <1>m4, Concatenation, Zenon
<1>z. 0 = 0 + 0
  OBVIOUS
<1>y. n0 = n0 + 0
  BY <1>m0
<1>x. Start("end") = 0 + Start("end")
  BY <1>4e
<1>13. Part(Script, 0, Program)
  BY <1>z, <1>4z, <1>5, <1>7, <1>12, PartOfPart, Zenon
<1>13e. Part(Script, Start("end"), en)
  BY <1>x, <1>en, <1>4z, <1>4e, <1>7, <1>12, PartOfPart, Zenon
<1>14. Part(Script, n0, q3)
  BY <1>y, <1>m0, <1>4z, <1>10, <1>11, <1>12, PartOfPart, Zenon
<1>14u. Part(Script, n0 + n3, us)
  BY <1>us, <1>m0, <1>m3, <1>11, <1>12, PartOfPart, Zenon
<1>15. Part(Script, n0, q2)
  BY <1>y, <1>m0, <1>4z, <1>9, <1>10, <1>14, PartOfPart, Zenon
<1>15u. Part(Script, n0 + n2, un)
  BY <1>un, <1>m0, <1>m2, <1>10, <1>14, PartOfPart, Zenon
<1>16. Part(Script, n0, q1)
  BY <1>y, <1>m0, <1>4z, <1>8, <1>9, <1>15, PartOfPart, Zenon
<1>16w. Part(Script, n0 + n1, ws)
  BY <1>ws, <1>m0, <1>m1, <1>9, <1>15, PartOfPart, Zenon
<1>17. Part(Script, n0, re)
  BY <1>y, <1>re, <1>m0, <1>4z, <1>8, <1>16, PartOfPart, Zenon
<1>17m. Part(Script, n0 + GridSize, ma)
  BY <1>ma, <1>4, <1>m0, <1>8, <1>16, PartOfPart, Zenon
<1>18. /\ Start("reduce") = n0
       /\ Start("map") = n0 + GridSize
       /\ Start("wait") = n0 + n1
       /\ Start("unmap") = n0 + n2
       /\ Start("use") = n0 + n3
       /\ Start("use") + GridSize = n0 + n4
  BY <1>4, <1>4m, <1>4i DEF Start, n0, n1, n2, n3, n4
<1> QED
  BY <1>1, <1>12, <1>13, <1>13e, <1>14u, <1>15u, <1>16w, <1>17, <1>17m, <1>18, Zenon

(* Sections start at numbers.                                              *)
LEMMA Starts ==
    ASSUME NEW c \in LinkCalls \cup DeviceCalls \cup HostCalls
    PROVE  Start(c) \in Nat
<1>1. GridSize \in Nat /\ M \in Nat /\ Inner \in Nat
  BY GridAssumption, Directions DEF Inner
<1>2. CASE c \in {"write", "load", "flush", "transfer", "inner", "dump", "boundary"}
  BY <1>1, <1>2 DEF Start
<1>3. CASE c \in {"end", "reduce", "map", "wait", "sum", "unmap", "use"}
  BY <1>1, <1>3 DEF Start
<1> QED BY <1>2, <1>3 DEF LinkCalls, DeviceCalls, HostCalls

(* What stands where, section by section.                                  *)
LEMMA DeviceElements ==
    ASSUME NEW c \in DeviceCalls, NEW d \in Devices
    PROVE  /\ Start(c) + d + 1 \in 1 .. Len(Script)
           /\ Script[Start(c) + d + 1] = [call |-> c, at |-> Own(d)]
<1> DEFINE s == OnDevices(c)
           k == d + 1
<1>1. k \in 1 .. GridSize
  BY GridAssumption DEF Devices
<1>2. Len(s) = GridSize /\ s[k] = [call |-> c, at |-> Own(k - 1)]
  BY <1>1, DeviceSection
<1>3. Part(Script, Start(c), s)
  <2>1. CASE c \in {"reduce", "map", "unmap", "use"}
    BY <2>1, ScriptSections
  <2>2. CASE c \in {"write", "flush", "boundary", "inner"}
    <3>1. Part(Program, Start(c), s)
      BY <2>2, ProgramSections DEF DeviceCalls
    <3>2. Part(Script, 0, Program) /\ Program \in CallSeqs /\ s \in CallSeqs
      BY ScriptSections, ProgramSections, DeviceSection
    <3>3. Start(c) \in Nat /\ Start(c) = 0 + Start(c)
      BY Starts
    <3> HIDE DEF s
    <3> QED BY <3>1, <3>2, <3>3, PartOfPart
  <2> QED BY <2>1, <2>2 DEF DeviceCalls
<1> HIDE DEF s
<1>4. Start(c) + k \in 1 .. Len(Script) /\ Script[Start(c) + k] = s[k]
  BY <1>1, <1>2, <1>3 DEF Part
<1>5. Start(c) \in Nat
  BY Starts
<1>6. Start(c) + k = Start(c) + d + 1 /\ k - 1 = d
  BY <1>5 DEF Devices
<1> QED BY <1>2, <1>4, <1>6

(* Where the sections for the links are in the script.                     *)
LEMMA LinkSections ==
    /\ Part(Script, Start("load"), Calls("load", Outgoing))
    /\ Part(Script, Start("transfer"), Calls("transfer", Outgoing))
    /\ Part(Script, Start("dump"), Calls("dump", Incoming))
<1>1. Part(Script, 0, Program) /\ Program \in CallSeqs /\ 0 \in Nat
  BY ScriptSections, ProgramSections
<1>2. /\ Start("load") \in Nat /\ Start("load") = 0 + Start("load")
      /\ Start("transfer") \in Nat /\ Start("transfer") = 0 + Start("transfer")
      /\ Start("dump") \in Nat /\ Start("dump") = 0 + Start("dump")
  <2>1. Start("load") \in Nat /\ Start("transfer") \in Nat /\ Start("dump") \in Nat
    BY Starts DEF LinkCalls
  <2> QED BY <2>1
<1>3. Calls("load", Outgoing) \in CallSeqs
  BY OutgoingCalls DEF LinkCalls
<1>4. Calls("transfer", Outgoing) \in CallSeqs
  BY OutgoingCalls DEF LinkCalls
<1>5. Calls("dump", Incoming) \in CallSeqs
  BY IncomingCalls DEF LinkCalls
<1>6. Part(Script, Start("load"), Calls("load", Outgoing))
  BY <1>1, <1>2, <1>3, ProgramSections, PartOfPart, Zenon
<1>7. Part(Script, Start("transfer"), Calls("transfer", Outgoing))
  BY <1>1, <1>2, <1>4, ProgramSections, PartOfPart, Zenon
<1>8. Part(Script, Start("dump"), Calls("dump", Incoming))
  BY <1>1, <1>2, <1>5, ProgramSections, PartOfPart, Zenon
<1> QED BY <1>6, <1>7, <1>8, Zenon

(* A place in a section of link calls, by device and direction.            *)
LEMMA LinkElements ==
    ASSUME NEW d \in Devices, NEW j \in 1 .. K, NEW k, k = K * d + j
    PROVE  /\ \A c \in {"load", "transfer"} :
                 /\ Start(c) + k \in 1 .. Len(Script)
                 /\ Script[Start(c) + k] = [call |-> c, at |-> Outgoing(d, Dirs[j])]
           /\ Start("dump") + k \in 1 .. Len(Script)
           /\ Script[Start("dump") + k] = [call |-> "dump", at |-> Incoming(d, Dirs[j])]
<1>0. k \in Int
  BY Directions DEF Devices
<1>1. k \in 1 .. M /\ (k - 1) \div K = d /\ ((k - 1) % K) + 1 = j
  BY <1>0, Positions, Zenon
<1>2. ASSUME NEW c \in {"load", "transfer"}
      PROVE  /\ Start(c) + k \in 1 .. Len(Script)
             /\ Script[Start(c) + k] = [call |-> c, at |-> Outgoing(d, Dirs[j])]
  <2>1. PICK s : s = Calls(c, Outgoing)
    OBVIOUS
  <2>2. Len(s) = M /\ s[k] = [call |-> c, at |-> Outgoing((k - 1) \div K, Dirs[((k - 1) % K) + 1])]
    BY <1>1, <2>1, OutgoingCalls, Zenon DEF LinkCalls
  <2>3. Part(Script, Start(c), s)
    BY <2>1, LinkSections, Zenon
  <2> QED BY <1>1, <2>2, <2>3 DEF Part
<1>3. /\ Start("dump") + k \in 1 .. Len(Script)
      /\ Script[Start("dump") + k] = [call |-> "dump", at |-> Incoming(d, Dirs[j])]
  <2>1. PICK s : s = Calls("dump", Incoming)
    OBVIOUS
  <2>2. Len(s) = M /\ s[k] = [call |-> "dump", at |-> Incoming((k - 1) \div K, Dirs[((k - 1) % K) + 1])]
    BY <1>1, <2>1, IncomingCalls, Zenon DEF LinkCalls
  <2>3. Part(Script, Start("dump"), s)
    BY <2>1, LinkSections, Zenon
  <2> QED BY <1>1, <2>2, <2>3 DEF Part
<1> QED BY <1>2, <1>3

(* The calls of the host that concern no device stand where Start says.    *)
LEMMA HostElements ==
    ASSUME NEW c \in HostCalls
    PROVE  /\ Start(c) + 1 \in 1 .. Len(Script)
           /\ Script[Start(c) + 1] = [call |-> c, at |-> Own(0)]
<1>1. CASE c = "end"
  BY <1>1, ScriptSections DEF Part
<1>2. CASE c \in {"wait", "sum"}
  <2> DEFINE s == <<[call |-> "wait", at |-> Own(0)], [call |-> "sum", at |-> Own(0)]>>
  <2>1. Part(Script, Start("wait"), s) /\ Len(s) = 2
    BY ScriptSections
  <2>2. Start("wait") \in Nat /\ Start("sum") = Start("wait") + 1
    <3>1. GridSize \in Nat /\ M \in Nat /\ Inner \in Nat
      BY GridAssumption, Directions DEF Inner
    <3>2. /\ Start("wait") = 5 * GridSize + 3 * M + Inner + 1
          /\ Start("sum") = 5 * GridSize + 3 * M + Inner + 2
      BY DEF Start
    <3> QED BY <3>1, <3>2
  <2>3. /\ Start("wait") + 1 \in 1 .. Len(Script) /\ Start("wait") + 2 \in 1 .. Len(Script)
        /\ Script[Start("wait") + 1] = s[1] /\ Script[Start("wait") + 2] = s[2]
    BY <2>1 DEF Part
  <2> QED BY <1>2, <2>2, <2>3
<1> QED BY <1>1, <1>2 DEF HostCalls

(* The place of every call in the script.                                  *)
Index(id) == IF id = "UP" THEN 1 ELSE 2
LinkOffset(d, id) == K * d + Index(id)
Offset(c) ==
    IF c.call \in {"load", "transfer"} THEN LinkOffset(c.at.from, c.at.id)
    ELSE IF c.call = "dump" THEN LinkOffset(c.at.to, c.at.id)
    ELSE IF c.call \in HostCalls THEN 1
    ELSE c.at.from + 1
Pos(c) == Start(c.call) + Offset(c)

(* The call for a link stands where Offset says.                           *)
LEMMA LinkOffsets ==
    ASSUME NEW l \in Links
    PROVE  /\ LinkOffset(l.from, l.id) \in 1 .. M /\ LinkOffset(l.to, l.id) \in 1 .. M
           /\ \A c \in {"load", "transfer"} :
                 /\ Start(c) + LinkOffset(l.from, l.id) \in 1 .. Len(Script)
                 /\ Script[Start(c) + LinkOffset(l.from, l.id)] = [call |-> c, at |-> l]
           /\ Start("dump") + LinkOffset(l.to, l.id) \in 1 .. Len(Script)
           /\ Script[Start("dump") + LinkOffset(l.to, l.id)] = [call |-> "dump", at |-> l]
<1>1. /\ l.from \in Devices /\ l.to \in Devices
      /\ Index(l.id) \in 1 .. K /\ Dirs[Index(l.id)] = l.id
      /\ l = Outgoing(l.from, l.id) /\ l = Incoming(l.to, l.id)
  BY LinkType, Directions DEF Index
<1>2. /\ LinkOffset(l.from, l.id) = K * l.from + Index(l.id)
      /\ LinkOffset(l.to, l.id) = K * l.to + Index(l.id)
  BY Zenon DEF LinkOffset
<1>3. LinkOffset(l.from, l.id) \in 1 .. M /\ LinkOffset(l.to, l.id) \in 1 .. M
  <2> DEFINE i == Index(l.id)
  <2> HIDE DEF i
  <2>0. K * l.from + i \in Int /\ K * l.to + i \in Int
    BY <1>1, Directions DEF i, Devices
  <2>1. K * l.from + i \in 1 .. M /\ K * l.to + i \in 1 .. M
    BY <1>1, <2>0, Positions, Zenon DEF i
  <2> QED BY <1>2, <2>1, Zenon DEF i
<1>4. ASSUME NEW d \in Devices, NEW k \in 1 .. K, NEW o, o = K * d + k
      PROVE  /\ \A c \in {"load", "transfer"} :
                   /\ Start(c) + o \in 1 .. Len(Script)
                   /\ Script[Start(c) + o] = [call |-> c, at |-> Outgoing(d, Dirs[k])]
             /\ Start("dump") + o \in 1 .. Len(Script)
             /\ Script[Start("dump") + o] = [call |-> "dump", at |-> Incoming(d, Dirs[k])]
  BY <1>4, LinkElements, Zenon
<1>5. ASSUME NEW c \in {"load", "transfer"}
      PROVE  /\ Start(c) + LinkOffset(l.from, l.id) \in 1 .. Len(Script)
             /\ Script[Start(c) + LinkOffset(l.from, l.id)] = [call |-> c, at |-> l]
  <2>1. /\ Start(c) + LinkOffset(l.from, l.id) \in 1 .. Len(Script)
        /\ Script[Start(c) + LinkOffset(l.from, l.id)]
              = [call |-> c, at |-> Outgoing(l.from, Dirs[Index(l.id)])]
    BY <1>1, <1>2, <1>4, Zenon
  <2> QED BY <2>1, <1>1, Zenon
<1>6. /\ Start("dump") + LinkOffset(l.to, l.id) \in 1 .. Len(Script)
      /\ Script[Start("dump") + LinkOffset(l.to, l.id)] = [call |-> "dump", at |-> l]
  <2>1. /\ Start("dump") + LinkOffset(l.to, l.id) \in 1 .. Len(Script)
        /\ Script[Start("dump") + LinkOffset(l.to, l.id)]
              = [call |-> "dump", at |-> Incoming(l.to, Dirs[Index(l.id)])]
    BY <1>1, <1>2, <1>4, Zenon
  <2> QED BY <2>1, <1>1, Zenon
<1> QED BY <1>3, <1>5, <1>6, Zenon

(* Every call has one of the names.                                        *)
LEMMA CallNames ==
    ASSUME NEW c \in AllCalls
    PROVE  c.call \in LinkCalls \cup DeviceCalls \cup HostCalls
  BY DEF AllCalls

(* Every call is made at its place.                                        *)
LEMMA PosScript ==
    ASSUME NEW c \in AllCalls
    PROVE  Pos(c) \in 1 .. Len(Script) /\ Script[Pos(c)] = c
<1>1. CASE c \in [call : LinkCalls, at : Links]
  <2>1. PICK l \in Links : c = [call |-> c.call, at |-> l] /\ c.call \in LinkCalls
    BY <1>1
  <2>2. CASE c.call \in {"load", "transfer"}
    <3>1. Pos(c) = Start(c.call) + LinkOffset(l.from, l.id)
      BY <2>1, <2>2 DEF Pos, Offset
    <3>2. c = [call |-> c.call, at |-> l]
      BY <2>1
    <3>3. /\ Start(c.call) + LinkOffset(l.from, l.id) \in 1 .. Len(Script)
          /\ Script[Start(c.call) + LinkOffset(l.from, l.id)] = [call |-> c.call, at |-> l]
      BY <2>1, <2>2, LinkOffsets, Zenon
    <3> QED BY <3>1, <3>2, <3>3, Zenon
  <2>3. CASE c.call = "dump"
    <3>1. Pos(c) = Start("dump") + LinkOffset(l.to, l.id)
      BY <2>1, <2>3 DEF Pos, Offset
    <3> QED BY <2>1, <2>3, <3>1, LinkOffsets
  <2> QED BY <2>1, <2>2, <2>3 DEF LinkCalls
<1>2. CASE c \in [call : DeviceCalls, at : OwnPlaces]
  <2>1. PICK d \in Devices : c = [call |-> c.call, at |-> Own(d)] /\ c.call \in DeviceCalls
    BY <1>2 DEF OwnPlaces
  <2>2. Pos(c) = Start(c.call) + (d + 1)
    BY <2>1 DEF Pos, Offset, DeviceCalls, HostCalls, Own
  <2>3. Start(c.call) + (d + 1) = Start(c.call) + d + 1
    BY <2>1, Starts DEF Devices
  <2> QED BY <2>1, <2>2, <2>3, DeviceElements
<1>3. CASE c \in [call : HostCalls, at : {Own(0)}]
  <2>1. c = [call |-> c.call, at |-> Own(0)] /\ c.call \in HostCalls
    BY <1>3
  <2>2. Pos(c) = Start(c.call) + 1
    BY <2>1 DEF Pos, Offset, HostCalls
  <2> QED BY <2>1, <2>2, HostElements
<1> QED BY <1>1, <1>2, <1>3 DEF AllCalls

(* The calls of a section come before those of the next ones.              *)
Rank(c) ==
    CASE c = "write" -> 1 [] c = "load" -> 2 [] c = "flush" -> 3 [] c = "transfer" -> 4
      [] c = "inner" -> 5 [] c = "dump" -> 6 [] c = "boundary" -> 7 [] c = "end" -> 8
      [] c = "reduce" -> 9 [] c = "map" -> 10 [] c = "wait" -> 11 [] c = "sum" -> 12
      [] c = "unmap" -> 13 [] c = "use" -> 14

Size(c) == IF c \in LinkCalls THEN M ELSE IF c \in DeviceCalls THEN GridSize ELSE 1

(* Its place is in the section of its name.                                *)
LEMMA PosInSection ==
    ASSUME NEW c \in AllCalls
    PROVE  Pos(c) > Start(c.call) /\ Pos(c) <= Start(c.call) + Size(c.call)
<1>0. Start(c.call) \in Nat /\ GridSize \in Nat
  BY GridAssumption, Starts, CallNames
<1>1. CASE c \in [call : LinkCalls, at : Links]
  <2>1. PICK l \in Links : c = [call |-> c.call, at |-> l] /\ c.call \in LinkCalls
    BY <1>1
  <2>3. Offset(c) \in {LinkOffset(l.from, l.id), LinkOffset(l.to, l.id)}
    BY <2>1 DEF Offset, LinkCalls
  <2>4. Offset(c) \in 1 .. M
    BY <2>3, LinkOffsets, Zenon
  <2>6. Size(c.call) = M /\ M \in Nat
    BY <2>1, Directions DEF Size
  <2> QED BY <1>0, <2>4, <2>6 DEF Pos
<1>2. CASE c \in [call : DeviceCalls, at : OwnPlaces]
  <2>1. PICK d \in Devices : c = [call |-> c.call, at |-> Own(d)] /\ c.call \in DeviceCalls
    BY <1>2 DEF OwnPlaces
  <2>2. Pos(c) = Start(c.call) + (d + 1)
    BY <2>1 DEF Pos, Offset, DeviceCalls, HostCalls, Own
  <2>3. Size(c.call) = GridSize
    BY <2>1 DEF Size, DeviceCalls, LinkCalls
  <2> QED BY <1>0, <2>2, <2>3 DEF Devices
<1>3. CASE c \in [call : HostCalls, at : {Own(0)}]
  <2>1. Pos(c) = Start(c.call) + 1 /\ Size(c.call) = 1
    BY <1>3 DEF Pos, Offset, HostCalls, Size, DeviceCalls, LinkCalls
  <2> QED BY <1>0, <2>1
<1> QED BY <1>1, <1>2, <1>3 DEF AllCalls

(* Calls of an earlier section come earlier.                               *)
LEMMA Order ==
    ASSUME NEW c \in AllCalls, NEW e \in AllCalls, Rank(c.call) < Rank(e.call)
    PROVE  Pos(c) < Pos(e)
<1>1. Pos(c) <= Start(c.call) + Size(c.call) /\ Pos(e) > Start(e.call)
  BY PosInSection
<1>2. GridSize \in Nat /\ GridSize > 1 /\ M \in Nat /\ Inner \in Nat
  BY GridAssumption, Directions DEF Inner
<1>3. Start(c.call) + Size(c.call) <= Start(e.call)
  BY <1>2 DEF Start, Size, Rank, AllCalls, DeviceCalls, LinkCalls, HostCalls, Inner
<1>4. Pos(c) \in Nat /\ Pos(e) \in Nat
  BY PosScript
<1>5. Start(e.call) \in Nat /\ Start(c.call) \in Nat /\ Size(c.call) \in Nat
  BY <1>2, Starts, CallNames DEF Size
<1> QED BY <1>1, <1>3, <1>4, <1>5

(* Where the sections start, as numbers.                                   *)
LEMMA StartValues ==
    /\ Start("write") = 0 /\ Start("load") = GridSize
    /\ Start("flush") = GridSize + M /\ Start("transfer") = 2 * GridSize + M
    /\ Start("inner") = 2 * GridSize + 2 * M /\ Start("dump") = 2 * GridSize + 2 * M + Inner
    /\ Start("boundary") = 2 * GridSize + 3 * M + Inner
    /\ Start("end") = 3 * GridSize + 3 * M + Inner
    /\ Start("reduce") = 3 * GridSize + 3 * M + Inner + 1
    /\ Start("map") = 4 * GridSize + 3 * M + Inner + 1
    /\ Start("wait") = 5 * GridSize + 3 * M + Inner + 1
    /\ Start("sum") = 5 * GridSize + 3 * M + Inner + 2
    /\ Start("unmap") = 5 * GridSize + 3 * M + Inner + 3
    /\ Start("use") = 6 * GridSize + 3 * M + Inner + 3
    /\ Len(Script) = Start("use") + GridSize
    /\ GridSize \in Nat /\ GridSize > 1 /\ M \in Nat /\ Inner \in Nat
<1>1. GridSize \in Nat /\ GridSize > 1 /\ M \in Nat /\ Inner \in Nat
  BY GridAssumption, Directions DEF Inner
<1>2. Len(Script) = Start("use") + GridSize
  BY ScriptSections
<1> QED BY <1>1, <1>2 DEF Start

(* Every place of the script belongs to a section.                         *)
LEMMA Sectioned ==
    ASSUME NEW i \in 1 .. Len(Script)
    PROVE  \E c \in LinkCalls \cup DeviceCalls \cup HostCalls : \E k \in 1 .. Size(c) :
              i = Start(c) + k
<1>3. ASSUME NEW c \in LinkCalls \cup DeviceCalls \cup HostCalls,
             i > Start(c), i <= Start(c) + Size(c)
      PROVE  \E e \in LinkCalls \cup DeviceCalls \cup HostCalls : \E k \in 1 .. Size(e) :
              i = Start(e) + k
  <2>1. Start(c) \in Nat /\ Size(c) \in Nat /\ i \in Int
    BY StartValues, Starts DEF Size
  <2>2. i - Start(c) \in 1 .. Size(c) /\ i = Start(c) + (i - Start(c))
    BY <1>3, <2>1
  <2> QED BY <2>2, Zenon
<1>4. Size("write") = GridSize /\ Size("load") = M /\ Size("flush") = GridSize
      /\ Size("transfer") = M /\ Size("dump") = M /\ Size("boundary") = GridSize
      /\ Size("end") = 1 /\ Size("reduce") = GridSize /\ Size("map") = GridSize
      /\ Size("wait") = 1 /\ Size("sum") = 1 /\ Size("unmap") = GridSize
      /\ Size("use") = GridSize
  BY DEF Size, LinkCalls, DeviceCalls
<1>5. ASYNC => Size("inner") = GridSize
  BY DEF Size, LinkCalls, DeviceCalls
<1>6. \E c \in LinkCalls \cup DeviceCalls \cup HostCalls : i > Start(c) /\ i <= Start(c) + Size(c)
  <2> DEFINE In(c) == i > Start(c) /\ i <= Start(c) + Size(c)
  <2>1. CASE ASYNC
    <3>1. \/ In("write") \/ In("load") \/ In("flush") \/ In("transfer") \/ In("inner")
          \/ In("dump") \/ In("boundary") \/ In("end") \/ In("reduce") \/ In("map")
          \/ In("wait") \/ In("sum") \/ In("unmap") \/ In("use")
      <4>1. Inner = GridSize
        BY <2>1 DEF Inner
      <4>2. Size("inner") = GridSize
        BY <1>5, <2>1
      <4> QED BY <4>1, <4>2, <1>4, StartValues
    <3> HIDE DEF In
    <3>2. \E c \in LinkCalls \cup DeviceCalls \cup HostCalls : In(c)
      BY <3>1, <2>1 DEF LinkCalls, DeviceCalls, HostCalls
    <3> QED BY <3>2 DEF In
  <2>2. CASE ~ASYNC
    <3>1. \/ In("write") \/ In("load") \/ In("flush") \/ In("transfer")
          \/ In("dump") \/ In("boundary") \/ In("end") \/ In("reduce") \/ In("map")
          \/ In("wait") \/ In("sum") \/ In("unmap") \/ In("use")
      <4>1. Inner = 0
        BY <2>2 DEF Inner
      <4> QED BY <4>1, <1>4, StartValues
    <3> HIDE DEF In
    <3>2. \E c \in LinkCalls \cup DeviceCalls \cup HostCalls : In(c)
      BY <3>1 DEF LinkCalls, DeviceCalls, HostCalls
    <3> QED BY <3>2 DEF In
  <2> QED BY <2>1, <2>2
<1> QED BY <1>3, <1>6

(* At every place of the script there is a call whose place it is: calls   *)
(* and places correspond one to one.                                       *)
LEMMA ScriptPos ==
    ASSUME NEW i \in 1 .. Len(Script)
    PROVE  Script[i] \in AllCalls /\ Pos(Script[i]) = i
<1>0. PICK c \in LinkCalls \cup DeviceCalls \cup HostCalls :
              \E k \in 1 .. Size(c) : i = Start(c) + k
  BY Sectioned
<1>1. PICK k \in 1 .. Size(c) : i = Start(c) + k
  BY <1>0
<1> SUFFICES \E e \in AllCalls : Pos(e) = i
  <2>1. PICK e \in AllCalls : Pos(e) = i
    OBVIOUS
  <2>2. Script[i] = e
    BY <2>1, PosScript, Zenon
  <2> QED BY <2>1, <2>2
<1>2. CASE c \in LinkCalls
  <2>1. k \in 1 .. M
    BY <1>1, <1>2 DEF Size
  <2>2. PICK d \in Devices, j \in 1 .. K : k = K * d + j
    <3>1. /\ (k - 1) \div K \in Devices /\ ((k - 1) % K) + 1 \in 1 .. K
          /\ k = K * ((k - 1) \div K) + ((k - 1) % K) + 1
      BY <2>1, Positions, Zenon
    <3> DEFINE d == (k - 1) \div K
               j == ((k - 1) % K) + 1
    <3>2. k = K * d + j
      <4> DEFINE a == K * d
                 b == (k - 1) % K
      <4>1. k = a + b + 1
        BY <3>1
      <4>2. a \in Int /\ b \in Int
        BY <3>1, <2>1, Directions DEF Devices
      <4> HIDE DEF a, b
      <4>3. k = a + (b + 1)
        BY <4>1, <4>2
      <4> QED BY <4>3 DEF a, b
    <3> QED BY <3>1, <3>2
  <2>3. Index(Dirs[j]) = j
    BY Directions DEF Index
  <2>4. LinkOffset(d, Dirs[j]) = k
    BY <2>2, <2>3, Zenon DEF LinkOffset
  <2> DEFINE out == Outgoing(d, Dirs[j])
             inc == Incoming(d, Dirs[j])
  <2>5. /\ out \in Links /\ out.from = d /\ out.id = Dirs[j]
        /\ inc \in Links /\ inc.to = d /\ inc.id = Dirs[j]
    BY LinksAtDevices
  <2> HIDE DEF out, inc
  <2>6. CASE c \in {"load", "transfer"}
    <3>1. [call |-> c, at |-> out] \in AllCalls
      BY <1>2, <2>5 DEF AllCalls
    <3>2. Offset([call |-> c, at |-> out]) = k
      BY <2>4, <2>5, <2>6 DEF Offset
    <3> QED BY <1>1, <3>1, <3>2 DEF Pos
  <2>7. CASE c = "dump"
    <3>1. [call |-> c, at |-> inc] \in AllCalls
      BY <1>2, <2>5 DEF AllCalls
    <3>2. Offset([call |-> c, at |-> inc]) = k
      BY <2>4, <2>5, <2>7 DEF Offset
    <3> QED BY <1>1, <3>1, <3>2 DEF Pos
  <2> QED BY <1>2, <2>6, <2>7 DEF LinkCalls
<1>3. CASE c \in DeviceCalls
  <2>1. k \in 1 .. GridSize
    BY <1>1, <1>3 DEF Size, DeviceCalls, LinkCalls
  <2>2. [call |-> c, at |-> Own(k - 1)] \in AllCalls
    BY <1>3, <2>1, GridAssumption DEF AllCalls, OwnPlaces, Devices
  <2>3. Offset([call |-> c, at |-> Own(k - 1)]) = k
    BY <1>3, <2>1, GridAssumption DEF Offset, DeviceCalls, HostCalls, Own
  <2> QED BY <1>1, <2>2, <2>3 DEF Pos
<1>4. CASE c \in HostCalls
  <2>1. k = 1
    BY <1>1, <1>4 DEF Size, HostCalls, DeviceCalls, LinkCalls
  <2>2. [call |-> c, at |-> Own(0)] \in AllCalls
    BY <1>4 DEF AllCalls
  <2>3. Offset([call |-> c, at |-> Own(0)]) = 1
    BY <1>4 DEF Offset, HostCalls
  <2> QED BY <1>1, <2>1, <2>2, <2>3 DEF Pos
<1> QED BY <1>1, <1>2, <1>3, <1>4

-----------------------------------------------------------------------------
(***************************************************************************)
(* What the queues hold                                                    *)
(***************************************************************************)
MainKinds == {"write", "load", "transfer", "back", "inner", "dump", "boundary"}
ScalarKinds == {"reduce", "map", "unmap", "use"}
Places == Links \cup OwnPlaces

Entries == [cmd : [kind : CommandKinds, at : Places, n : 1 .. MaxRounds],
            waits : SUBSET [kind : CommandKinds, at : Places, n : Nat]]

(* The commands a place has in every round.                                *)
Uses(k, p) ==
    \/ k \in {"load", "dump"} /\ p \in Links
    \/ k = "transfer" /\ p \in Links /\ method[p] # "OclCopy"
    \/ k = "back" /\ p \in Links /\ method[p] = "AsyncOclCopy"
    \/ k \in {"write", "boundary"} /\ p \in OwnPlaces
    \/ k = "inner" /\ ASYNC /\ p \in OwnPlaces

CallOf(k, p) == [call |-> IF k = "back" THEN "transfer" ELSE k, at |-> p]
Turn(k, p) == Pos(CallOf(k, p))

(* The last round whose command has been enqueued.                         *)
Called(k, p) == pc > Turn(k, p)
Last(k, p) == IF Called(k, p) THEN round ELSE round - 1

Pend(k, p, n) == Pending(Command(k, p, n))
Cmd(q, i) == queue[q][i].cmd
StreamQueue(k, p) == QueueOf(Command(k, p, 0))

Earlier(c, e) ==
    \/ c.n < e.n
    \/ c.n = e.n /\ (Turn(c.kind, c.at) < Turn(e.kind, e.at) \/ {c.kind, e.kind} \subseteq ScalarKinds)

(* What a command of a link waits for: commands of its own round, and of   *)
(* the round before.                                                       *)
NeedsNow(k, l) ==
    CASE k = "transfer" -> {"load"}
      [] k = "back" -> {"transfer"}
      [] k = "dump" -> IF method[l] = "OclCopy" THEN {"load"} ELSE {"transfer"}
      [] OTHER -> {}
NeedsBefore(k, l) ==
    CASE k = "load" -> (IF method[l] = "OclCopy" THEN {"dump"}
                        ELSE IF method[l] = "AsyncOclCopy" THEN {"transfer", "back"}
                        ELSE {"transfer"})
      [] k = "transfer" -> {"dump"}
      [] OTHER -> {}

WaitsRight(e) ==
    LET c == e.cmd
    IN c.kind \in EventKinds =>
          /\ \A k \in NeedsNow(c.kind, c.at) : Command(k, c.at, c.n) \in e.waits
          /\ \A k \in NeedsBefore(c.kind, c.at) : c.n > 1 => Command(k, c.at, c.n - 1) \in e.waits

EntryFits(q, e) ==
    LET c == e.cmd
    IN /\ QueueOf(c) = q /\ c.n <= round
       /\ \/ Uses(c.kind, c.at) /\ (c.n = round => Called(c.kind, c.at))
          \/ c.kind \in ScalarKinds /\ c.at \in OwnPlaces /\ (c.n = round => pc >= EndOfProgram)
       /\ WaitsRight(e)

(* F counts what has been executed.                                        *)
Within(q, e) == \E i \in 1 .. Len(queue[q]) : queue[q][i] = e
Fits == \A q \in Queues, e \in Entries : Within(q, e) => EntryFits(q, e)
Ordered == \A q \in Queues : \A i, j \in 1 .. Len(queue[q]) : i < j => Earlier(Cmd(q, i), Cmd(q, j))
Counted(F) ==
    \A k \in MainKinds, p \in Places : Uses(k, p) =>
        /\ F[k][p] <= Last(k, p)
        /\ \A n \in 1 .. MaxRounds : Pend(k, p, n) <=> F[k][p] < n /\ n <= Last(k, p)
Past(F) ==
    \A k \in MainKinds, p \in Places : Uses(k, p) =>
        \A i \in 1 .. Len(queue[StreamQueue(k, p)]) :
            Earlier(Command(k, p, F[k][p]), Cmd(StreamQueue(k, p), i))

Types(F) ==
    /\ method \in [Links -> Methods]
    /\ queue \in [Queues -> Seq(Entries)]
    /\ F \in [MainKinds -> [Places -> Nat]]
    /\ pc \in 1 .. Done
    /\ round \in 1 .. MaxRounds

Queued(F) == Types(F) /\ Fits /\ Ordered /\ Counted(F) /\ Past(F)
-----------------------------------------------------------------------------

(* The commands counted are those of a field.                              *)
LEMMA ScalarApart ==
    ASSUME NEW k, NEW p, Uses(k, p)
    PROVE  k \in MainKinds /\ k \notin ScalarKinds /\ p \in Places
  BY DEF Uses, MainKinds, ScalarKinds, Places

(* A command of a field is called before the scalar product begins.        *)
LEMMA CallsOfStreams ==
    ASSUME NEW k \in MainKinds, NEW p \in Places, Uses(k, p)
    PROVE  /\ CallOf(k, p) \in AllCalls
           /\ Turn(k, p) \in 1 .. Len(Script)
           /\ Turn(k, p) < EndOfProgram
           /\ Script[Turn(k, p)] = CallOf(k, p)
<1>1. CallOf(k, p) \in AllCalls
  BY DEF CallOf, Uses, AllCalls, LinkCalls, DeviceCalls, MainKinds
<1>2. [call |-> "end", at |-> Own(0)] \in AllCalls
  BY DEF AllCalls, HostCalls
<1>3. Pos([call |-> "end", at |-> Own(0)]) = EndOfProgram
  <2>1. Offset([call |-> "end", at |-> Own(0)]) = 1
    BY DEF Offset, HostCalls
  <2> QED BY <2>1, ProgramSections DEF EndOfProgram, Pos
<1>4. Turn(k, p) < EndOfProgram
  <2>1. Rank(CallOf(k, p).call) < Rank("end")
    BY DEF CallOf, Rank, MainKinds
  <2> QED BY <1>1, <1>2, <1>3, <2>1, Order DEF Turn
<1> QED BY <1>1, <1>4, PosScript DEF Turn

(* A command of a scalar has its place in the script.                      *)
LEMMA ScalarTurns ==
    ASSUME NEW k \in ScalarKinds, NEW p \in OwnPlaces
    PROVE  Turn(k, p) \in 1 .. Len(Script)
<1>1. CallOf(k, p) \in AllCalls
  BY DEF CallOf, AllCalls, DeviceCalls, ScalarKinds
<1> QED BY <1>1, PosScript DEF Turn

(* The places of the host after the calls of a round are apart.            *)
LEMMA ProgramLength ==
    /\ EndOfProgram \in Nat /\ Len(Script) \in Nat /\ EndOfProgram <= Len(Script)
    /\ EndOfScript = Len(Script) + 1 /\ Done = EndOfScript + GridSize + 1
    /\ \A d \in Devices : Wait(d) > EndOfScript /\ Wait(d) < Done /\ Wait(d) \in Nat
<1>1. Len(Program) = Start("end") /\ Start("end") \in Nat /\ Start("use") >= Start("end")
  BY ProgramSections, StartValues
<1>2. GridSize \in Nat /\ GridSize > 1 /\ Len(Script) = Start("use") + GridSize /\ Start("use") \in Nat
  BY StartValues
<1>3. EndOfProgram \in Nat /\ Len(Script) \in Nat /\ EndOfProgram <= Len(Script)
  BY <1>1, <1>2 DEF EndOfProgram
<1>4. EndOfScript = Len(Script) + 1 /\ Done = EndOfScript + GridSize + 1
  BY DEF EndOfScript, Done
<1>5. EndOfScript \in Nat
  BY <1>3, <1>4
<1>6. ASSUME NEW d \in Devices
      PROVE  Wait(d) > EndOfScript /\ Wait(d) < Done /\ Wait(d) \in Nat
  <2>1. d \in Nat /\ d < GridSize
    BY <1>2 DEF Devices
  <2>2. Wait(d) = EndOfScript + 1 + d
    BY DEF Wait
  <2>3. Wait(d) \in Nat /\ Wait(d) > EndOfScript
    BY <1>5, <2>1, <2>2
  <2>4. GridSize \in Nat /\ Done = EndOfScript + GridSize + 1
    BY <1>2, <1>4
  <2>5. Wait(d) < Done
    BY <1>5, <2>1, <2>2, <2>4
  <2> QED BY <2>3, <2>5
<1> QED BY <1>3, <1>4, <1>6

(* A kind of command of a place always goes to the same queue.             *)
LEMMA StreamQueues ==
    ASSUME method \in [Links -> Methods], NEW k \in MainKinds, NEW p \in Places, Uses(k, p), NEW n
    PROVE  /\ QueueOf(Command(k, p, n)) = StreamQueue(k, p)
           /\ StreamQueue(k, p) \in Queues
           /\ StreamQueue(k, p) = IF k \in {"transfer", "back"} THEN [of |-> k, at |-> p]
                                  ELSE IF k = "dump" THEN DeviceQueue(p.to) ELSE DeviceQueue(p.from)
<1>1. /\ QueueOf(Command(k, p, n)) = StreamQueue(k, p)
      /\ StreamQueue(k, p) = IF k \in {"transfer", "back"} THEN [of |-> k, at |-> p]
                                  ELSE IF k = "dump" THEN DeviceQueue(p.to) ELSE DeviceQueue(p.from)
  BY DEF StreamQueue, QueueOf, Command, MainKinds
<1>2. CASE p \in Links
  <2>1. p.from \in Devices /\ p.to \in Devices
    BY <1>2, LinkType
  <2>2. k \in {"load", "transfer", "back", "dump"}
    BY <1>2, LinkType DEF Uses
  <2> QED BY <1>1, <1>2, <2>1, <2>2 DEF DeviceQueue, Queues, OwnPlaces
<1>3. CASE p \in OwnPlaces
  <2>1. PICK d \in Devices : p = Own(d)
    BY <1>3 DEF OwnPlaces
  <2>2. p.from = d /\ k \notin {"transfer", "back", "dump"}
    BY <1>3, <2>1, LinkType DEF Own, Uses
  <2> QED BY <1>1, <2>1, <2>2 DEF DeviceQueue, Queues, OwnPlaces
<1> QED BY <1>1, <1>2, <1>3 DEF Places

(* What Append, Head and Tail make of a queue.                             *)
LEMMA QueueSteps ==
    ASSUME NEW s \in Seq(Entries)
    PROVE  /\ Len(s) \in Nat /\ DOMAIN s = 1 .. Len(s)
           /\ \A i \in 1 .. Len(s) : s[i] \in Entries
           /\ \A e \in Entries :
                 /\ Append(s, e) \in Seq(Entries) /\ Len(Append(s, e)) = Len(s) + 1
                 /\ \A i \in 1 .. Len(s) : Append(s, e)[i] = s[i]
                 /\ Append(s, e)[Len(s) + 1] = e
           /\ s # << >> =>
                 /\ Len(s) > 0 /\ Head(s) = s[1]
                 /\ Tail(s) \in Seq(Entries) /\ Len(Tail(s)) = Len(s) - 1
                 /\ \A i \in 1 .. Len(s) - 1 : Tail(s)[i] = s[i + 1]
  BY AppendProperties, HeadTailProperties, LenProperties, ElementOfSeq, EmptySeq

(* Calls are made one after the other, a scalar product after the rest.    *)
LEMMA TurnIsNow ==
    ASSUME pc \in 1 .. Len(Script), NEW k \in MainKinds \cup ScalarKinds, NEW p \in Places,
           CallOf(k, p) = Script[pc]
    PROVE  /\ Turn(k, p) = pc
           /\ k \in ScalarKinds => pc > EndOfProgram
           /\ k \in MainKinds => pc < EndOfProgram
<1>1. CallOf(k, p) \in AllCalls /\ Turn(k, p) = pc
  BY ScriptPos DEF Turn
<1>2. [call |-> "end", at |-> Own(0)] \in AllCalls
  BY DEF AllCalls, HostCalls
<1>3. Pos([call |-> "end", at |-> Own(0)]) = EndOfProgram
  <2>1. Offset([call |-> "end", at |-> Own(0)]) = 1
    BY DEF Offset, HostCalls
  <2> QED BY <2>1, ProgramSections DEF EndOfProgram, Pos
<1>4. CASE k \in ScalarKinds
  <2>1. Rank("end") < Rank(CallOf(k, p).call)
    BY <1>4 DEF CallOf, Rank, ScalarKinds
  <2> QED BY <1>1, <1>2, <1>3, <1>4, <2>1, Order DEF Turn, ScalarKinds, MainKinds
<1>5. CASE k \in MainKinds
  <2>1. Rank(CallOf(k, p).call) < Rank("end")
    BY <1>5 DEF CallOf, Rank, MainKinds
  <2> QED BY <1>1, <1>2, <1>3, <1>5, <2>1, Order DEF Turn, ScalarKinds, MainKinds
<1> QED BY <1>4, <1>5

(* A call is the last one of its streams, and nothing else changes.        *)
LEMMA LastCalled ==
    ASSUME pc \in 1 .. Len(Script), pc' = pc + 1, round' = round,
           NEW k \in MainKinds, NEW p \in Places, Uses(k, p)
    PROVE  IF CallOf(k, p) = Script[pc] THEN Last(k, p)' = round /\ Last(k, p) = round - 1
           ELSE Last(k, p)' = Last(k, p)
<1>1. Called(k, p) <=> pc > Turn(k, p)
  BY DEF Called
<1>2. Called(k, p)' <=> pc' > Turn(k, p)
  BY DEF Called
<1>3. Last(k, p) = IF Called(k, p) THEN round ELSE round - 1
  BY DEF Last
<1>4. Last(k, p)' = IF Called(k, p)' THEN round' ELSE round' - 1
  BY DEF Last
<1>5. pc \in Nat /\ Turn(k, p) \in Nat /\ (Turn(k, p) = pc <=> CallOf(k, p) = Script[pc])
  BY CallsOfStreams, ScriptPos, ProgramLength DEF Turn
<1> QED BY <1>1, <1>2, <1>3, <1>4, <1>5

(* Nor does a jump change what has been called of a round.                 *)
LEMMA LastKept ==
    ASSUME NEW CONSTANT F, Types(F), pc >= EndOfProgram,
           \/ round' = round /\ pc' \in EndOfProgram .. Done
           \/ round < MaxRounds /\ round' = round + 1 /\ pc' = 1,
           NEW k \in MainKinds, NEW p \in Places, Uses(k, p)
    PROVE  Last(k, p)' = Last(k, p)
<1>1. Turn(k, p) \in Nat /\ Turn(k, p) < EndOfProgram /\ Turn(k, p) >= 1
  BY CallsOfStreams, ProgramLength
<1>2. pc \in Nat /\ round \in Nat /\ EndOfProgram \in Nat /\ Done \in Nat
  BY ProgramLength, GridAssumption, RoundAssumption DEF Types
<1>3. Last(k, p) = round
  BY <1>1, <1>2 DEF Last, Called
<1>4. (Called(k, p)' /\ round' = round) \/ (~Called(k, p)' /\ round' = round + 1)
  BY <1>1, <1>2 DEF Called
<1> QED BY <1>2, <1>3, <1>4 DEF Last

(* What a call of the host puts into a queue, and that it puts nothing.    *)
NewEntry(q, e) ==
    LET c == e.cmd
    IN /\ e \in Entries /\ QueueOf(c) = q /\ c.n = round
       /\ CallOf(c.kind, c.at) = Script[pc]
       /\ Uses(c.kind, c.at) \/ (c.kind \in ScalarKinds /\ c.at \in OwnPlaces)
       /\ WaitsRight(e)
NothingNew(q) ==
    \A k \in MainKinds \cup ScalarKinds, p \in Places :
        (Uses(k, p) \/ (k \in ScalarKinds /\ p \in OwnPlaces)) /\ StreamQueue(k, p) = q =>
            CallOf(k, p) # Script[pc]

(* A call of the host keeps the queues in order.                           *)
LEMMA HostCall ==
    ASSUME NEW CONSTANT F, Queued(F), pc \in 1 .. Len(Script), pc' = pc + 1, UNCHANGED <<round, method>>,
           queue' \in [Queues -> Seq(Entries)],
           \A q \in Queues : \/ queue'[q] = queue[q] /\ NothingNew(q)
                             \/ \E e \in Entries : queue'[q] = Append(queue[q], e) /\ NewEntry(q, e)
    PROVE  Queued(F)'
<1>t. Types(F)'
  BY ProgramLength, GridAssumption DEF Queued, Types
<1>q. \A q \in Queues :
        /\ Len(queue[q]) \in Nat /\ Len(queue'[q]) \in Nat
        /\ \A i \in 1 .. Len(queue[q]) : i \in 1 .. Len(queue'[q]) /\ queue'[q][i] = queue[q][i]
        /\ \A i \in 1 .. Len(queue'[q]) :
              \/ i \in 1 .. Len(queue[q])
              \/ i = Len(queue[q]) + 1 /\ NewEntry(q, queue'[q][i])
        /\ NothingNew(q) \/ (Len(queue'[q]) = Len(queue[q]) + 1 /\ NewEntry(q, queue'[q][Len(queue'[q])]))
  <2> SUFFICES ASSUME NEW q \in Queues
               PROVE
        /\ Len(queue[q]) \in Nat /\ Len(queue'[q]) \in Nat
        /\ \A i \in 1 .. Len(queue[q]) : i \in 1 .. Len(queue'[q]) /\ queue'[q][i] = queue[q][i]
        /\ \A i \in 1 .. Len(queue'[q]) :
              \/ i \in 1 .. Len(queue[q])
              \/ i = Len(queue[q]) + 1 /\ NewEntry(q, queue'[q][i])
        /\ NothingNew(q) \/ (Len(queue'[q]) = Len(queue[q]) + 1 /\ NewEntry(q, queue'[q][Len(queue'[q])]))
    OBVIOUS
  <2>1. queue[q] \in Seq(Entries)
    BY DEF Queued, Types
  <2>2. CASE queue'[q] = queue[q] /\ NothingNew(q)
    BY <2>1, <2>2, QueueSteps
  <2>3. CASE \E e \in Entries : queue'[q] = Append(queue[q], e) /\ NewEntry(q, e)
    <3>1. PICK e \in Entries : queue'[q] = Append(queue[q], e) /\ NewEntry(q, e)
      BY <2>3
    <3>2. /\ Len(queue'[q]) = Len(queue[q]) + 1 /\ Len(queue[q]) \in Nat
          /\ \A i \in 1 .. Len(queue[q]) : queue'[q][i] = queue[q][i]
          /\ queue'[q][Len(queue[q]) + 1] = e
      BY <2>1, <3>1, QueueSteps
    <3> QED BY <3>1, <3>2
  <2> QED BY <2>2, <2>3
<1>u. \A k, p : Uses(k, p)' <=> Uses(k, p)
  BY DEF Uses
<1>s. \A k \in MainKinds, p \in Places : Uses(k, p) =>
        /\ \A n : QueueOf(Command(k, p, n)) = StreamQueue(k, p)
        /\ StreamQueue(k, p) \in Queues
        /\ Turn(k, p) \in 1 .. Len(Script) /\ (Turn(k, p) = pc <=> CallOf(k, p) = Script[pc])
  BY StreamQueues, CallsOfStreams, PosScript, ScriptPos DEF Queued, Types, Turn
<1>l. \A k \in MainKinds, p \in Places : Uses(k, p) =>
        IF CallOf(k, p) = Script[pc] THEN Last(k, p)' = round /\ Last(k, p) = round - 1
        ELSE Last(k, p)' = Last(k, p)
  BY LastCalled
<1>n. \A k, p : NeedsNow(k, p)' = NeedsNow(k, p) /\ NeedsBefore(k, p)' = NeedsBefore(k, p)
  BY DEF NeedsNow, NeedsBefore
<1>f. Fits'
  <2> SUFFICES ASSUME NEW q \in Queues, NEW e \in Entries, Within(q, e)'
               PROVE  EntryFits(q, e)'
    BY DEF Fits
  <2> DEFINE c == e.cmd
  <2>0. /\ pc \in Nat /\ EndOfProgram \in Nat /\ round \in Nat
        /\ c.at \in Places /\ (Uses(c.kind, c.at) => c.kind \in MainKinds)
    <3>1. pc \in Nat /\ EndOfProgram \in Nat /\ round \in Nat
      BY ProgramLength, RoundAssumption DEF Queued, Types
    <3>2. c.at \in Places
      BY DEF Entries
    <3>3. Uses(c.kind, c.at) => c.kind \in MainKinds
      BY DEF Uses, MainKinds
    <3> QED BY <3>1, <3>2, <3>3
  <2>1. (WaitsRight(e)' <=> WaitsRight(e)) /\ (Uses(c.kind, c.at)' <=> Uses(c.kind, c.at))
    BY <1>n, <1>u DEF WaitsRight
  <2>2. CASE Within(q, e)
    <3>1. EntryFits(q, e)
      BY <2>2 DEF Queued, Fits
    <3>2. Uses(c.kind, c.at) /\ Called(c.kind, c.at) => Called(c.kind, c.at)'
      <4>1. Uses(c.kind, c.at) => Turn(c.kind, c.at) \in Nat
        BY <2>0, CallsOfStreams, ProgramLength
      <4> QED BY <4>1, <2>0 DEF Called
    <3> QED BY <2>0, <2>1, <3>1, <3>2 DEF EntryFits
  <2>3. CASE NewEntry(q, e)
    <3>1. /\ QueueOf(c) = q /\ c.n = round /\ CallOf(c.kind, c.at) = Script[pc]
          /\ Uses(c.kind, c.at) \/ (c.kind \in ScalarKinds /\ c.at \in OwnPlaces)
          /\ WaitsRight(e)
      BY <2>3 DEF NewEntry
    <3>2. Uses(c.kind, c.at) => Called(c.kind, c.at)'
      <4>1. Uses(c.kind, c.at) => Turn(c.kind, c.at) = pc
        BY <3>1, <2>0, TurnIsNow
      <4> QED BY <4>1, <2>0 DEF Called
    <3>3. c.kind \in ScalarKinds => pc' >= EndOfProgram
      BY <3>1, <2>0, TurnIsNow
    <3> QED BY <2>0, <2>1, <3>1, <3>2, <3>3 DEF EntryFits
  <2>4. Within(q, e) \/ NewEntry(q, e)
    BY <1>q DEF Within
  <2> QED BY <2>2, <2>3, <2>4
<1>p. \A q \in Queues, e \in Entries : NewEntry(q, e) =>
        /\ Turn(e.cmd.kind, e.cmd.at) = pc /\ e.cmd.n = round
        /\ (e.cmd.kind \in ScalarKinds => pc > EndOfProgram)
        /\ (e.cmd.kind \in MainKinds => pc < EndOfProgram /\ Uses(e.cmd.kind, e.cmd.at))
        /\ (e.cmd.kind \in ScalarKinds \/ e.cmd.kind \in MainKinds)
        /\ QueueOf(e.cmd) = q /\ CallOf(e.cmd.kind, e.cmd.at) = Script[pc]
  <2> SUFFICES ASSUME NEW q \in Queues, NEW e \in Entries, NewEntry(q, e)
               PROVE
        /\ Turn(e.cmd.kind, e.cmd.at) = pc /\ e.cmd.n = round
        /\ (e.cmd.kind \in ScalarKinds => pc > EndOfProgram)
        /\ (e.cmd.kind \in MainKinds => pc < EndOfProgram /\ Uses(e.cmd.kind, e.cmd.at))
        /\ (e.cmd.kind \in ScalarKinds \/ e.cmd.kind \in MainKinds)
        /\ QueueOf(e.cmd) = q /\ CallOf(e.cmd.kind, e.cmd.at) = Script[pc]
    OBVIOUS
  <2>1. /\ QueueOf(e.cmd) = q /\ e.cmd.n = round /\ CallOf(e.cmd.kind, e.cmd.at) = Script[pc]
        /\ Uses(e.cmd.kind, e.cmd.at) \/ (e.cmd.kind \in ScalarKinds /\ e.cmd.at \in OwnPlaces)
    BY DEF NewEntry
  <2>2. e.cmd.at \in Places
    BY DEF Entries
  <2>3. Uses(e.cmd.kind, e.cmd.at) => e.cmd.kind \in MainKinds
    BY DEF Uses, MainKinds
  <2>4. e.cmd.kind \in ScalarKinds => e.cmd.kind \notin MainKinds
    BY DEF ScalarKinds, MainKinds
  <2> QED BY <2>1, <2>2, <2>3, <2>4, TurnIsNow
<1>o. Ordered'
  <2> SUFFICES ASSUME NEW q \in Queues, NEW i \in 1 .. Len(queue'[q]), NEW j \in 1 .. Len(queue'[q]), i < j
               PROVE  Earlier(queue'[q][i].cmd, queue'[q][j].cmd)
    BY DEF Ordered, Cmd
  <2>1. i \in 1 .. Len(queue[q]) /\ queue'[q][i] = queue[q][i]
    BY <1>q
  <2>2. CASE j \in 1 .. Len(queue[q])
    BY <1>q, <2>1, <2>2 DEF Queued, Ordered, Cmd
  <2>3. CASE NewEntry(q, queue'[q][j])
    <3>1. PICK e \in Entries : e = queue[q][i]
      BY <2>1, QueueSteps DEF Queued, Types
    <3>2. EntryFits(q, e)
      BY <2>1, <3>1 DEF Queued, Fits, Within
    <3>3. PICK f \in Entries : f = queue'[q][j]
      BY <2>3 DEF NewEntry
    <3>4. NewEntry(q, f)
      BY <2>3, <3>3
    <3> DEFINE c == e.cmd
               d == f.cmd
    <3>5. /\ Turn(d.kind, d.at) = pc /\ d.n = round
          /\ (d.kind \in ScalarKinds => pc > EndOfProgram)
          /\ (d.kind \in MainKinds => pc < EndOfProgram)
          /\ (d.kind \in ScalarKinds \/ d.kind \in MainKinds)
      BY <1>p, <3>4
    <3>6. /\ c.n <= round /\ c.n \in Nat /\ round \in Nat
          /\ \/ Uses(c.kind, c.at) /\ (c.n = round => Called(c.kind, c.at))
             \/ c.kind \in ScalarKinds /\ c.at \in OwnPlaces /\ (c.n = round => pc >= EndOfProgram)
      BY <3>2 DEF EntryFits, Queued, Types, Entries
    <3>7. c.n = round => Turn(c.kind, c.at) < pc \/ (c.kind \in ScalarKinds /\ d.kind \in ScalarKinds)
      <4>1. CASE Uses(c.kind, c.at)
        <5>1. c.kind \in MainKinds /\ c.at \in Places
          BY <4>1 DEF Uses, MainKinds, Places
        <5>2. Turn(c.kind, c.at) \in Nat
          BY <4>1, <5>1, CallsOfStreams, ProgramLength
        <5>3. c.n = round => Called(c.kind, c.at)
          BY <3>6, <4>1, ScalarApart
        <5> QED BY <5>2, <5>3 DEF Called
      <4>2. CASE c.kind \in ScalarKinds /\ (c.n = round => pc >= EndOfProgram)
        BY <3>5, <4>2, ProgramLength
      <4> QED BY <3>6, <4>1, <4>2
    <3>8. Earlier(c, d)
      BY <3>5, <3>6, <3>7 DEF Earlier
    <3> QED BY <2>1, <3>1, <3>3, <3>8
  <2> QED BY <1>q, <2>2, <2>3
(* What is pending of a stream: the new command, if its turn has come.     *)
<1>e. ASSUME NEW k \in MainKinds, NEW p \in Places, Uses(k, p), NEW e \in Entries, NewEntry(StreamQueue(k, p), e)
      PROVE  IF CallOf(k, p) = Script[pc] THEN e.cmd = Command(k, p, round)
             ELSE e.cmd.kind # k \/ e.cmd.at # p
  <2> DEFINE c == e.cmd
  <2>1. /\ QueueOf(c) = StreamQueue(k, p) /\ CallOf(c.kind, c.at) = Script[pc]
        /\ c.n = round /\ c \in [kind : CommandKinds, at : Places, n : 1 .. MaxRounds]
    BY <1>e DEF NewEntry, Entries
  <2>2. CASE CallOf(k, p) = Script[pc]
    <3>1. c.at = p /\ (c.kind = k \/ (c.kind \in {"transfer", "back"} /\ k \in {"transfer", "back"}))
      BY <2>1, <2>2 DEF CallOf, MainKinds, CommandKinds, EventKinds, Kernels
    <3>2. k \in {"transfer", "back"} /\ c.kind \in {"transfer", "back"} => c.kind = k
      BY <2>1 DEF QueueOf, StreamQueue, Command
    <3>3. c.kind = k /\ c.at = p
      BY <3>1, <3>2
    <3> QED BY <2>1, <2>2, <3>3 DEF Command
  <2> QED BY <2>1, <2>2
<1>d. ASSUME NEW k \in MainKinds, NEW p \in Places, Uses(k, p), NEW n \in 1 .. MaxRounds
      PROVE  Pend(k, p, n)' <=> Pend(k, p, n) \/ (CallOf(k, p) = Script[pc] /\ n = round)
  <2> DEFINE q == StreamQueue(k, p)
  <2>1. q \in Queues /\ QueueOf(Command(k, p, n)) = q
    BY <1>d, <1>s
  <2>2. Pend(k, p, n) <=> \E i \in 1 .. Len(queue[q]) : queue[q][i].cmd = Command(k, p, n)
    BY <2>1, QueueSteps DEF Pend, Pending, Queued, Types
  <2>3. Pend(k, p, n)' <=> \E i \in 1 .. Len(queue'[q]) : queue'[q][i].cmd = Command(k, p, n)
    <3>1. queue'[q] \in Seq(Entries)
      BY <2>1
    <3> QED BY <2>1, <3>1, QueueSteps DEF Pend, Pending
  <2> HIDE DEF q
  <2>4. Pend(k, p, n) => Pend(k, p, n)'
    BY <2>1, <2>2, <2>3, <1>q
  <2>5. ASSUME CallOf(k, p) = Script[pc], n = round
        PROVE  Pend(k, p, n)'
    <3>1. ~NothingNew(q)
      BY <1>d, <2>5 DEF NothingNew, q
    <3>2. Len(queue'[q]) = Len(queue[q]) + 1 /\ NewEntry(q, queue'[q][Len(queue'[q])])
      BY <2>1, <3>1, <1>q
    <3>3. queue'[q][Len(queue'[q])].cmd = Command(k, p, round)
      <4>1. PICK e \in Entries : e = queue'[q][Len(queue'[q])]
        BY <3>2 DEF NewEntry
      <4> QED BY <1>d, <1>e, <2>5, <3>2, <4>1 DEF q
    <3>4. Len(queue'[q]) \in 1 .. Len(queue'[q])
      BY <2>1, <3>2, <1>q
    <3> QED BY <2>3, <2>5, <3>3, <3>4
  <2>6. ASSUME Pend(k, p, n)', ~Pend(k, p, n)
        PROVE  CallOf(k, p) = Script[pc] /\ n = round
    <3>1. PICK i \in 1 .. Len(queue'[q]) : queue'[q][i].cmd = Command(k, p, n)
      BY <2>3, <2>6
    <3>2. NewEntry(q, queue'[q][i])
      BY <2>1, <2>2, <2>6, <3>1, <1>q
    <3>3. PICK e \in Entries : e = queue'[q][i]
      BY <3>2 DEF NewEntry
    <3>4. e.cmd = Command(k, p, n) /\ e.cmd.kind = k /\ e.cmd.at = p /\ e.cmd.n = n
      BY <3>1, <3>3 DEF Command
    <3>5. e.cmd.n = round
      BY <3>2, <3>3 DEF NewEntry
    <3>6. CallOf(k, p) = Script[pc]
      BY <1>d, <1>e, <3>2, <3>3, <3>4 DEF q
    <3> QED BY <3>4, <3>5, <3>6
  <2> QED BY <2>4, <2>5, <2>6
<1>c. Counted(F)'
  <2> SUFFICES ASSUME NEW k \in MainKinds, NEW p \in Places, Uses(k, p)
               PROVE  /\ F[k][p] <= Last(k, p)'
                      /\ \A n \in 1 .. MaxRounds : Pend(k, p, n)' <=> F[k][p] < n /\ n <= Last(k, p)'
    BY <1>u DEF Counted
  <2>1. /\ F[k][p] <= Last(k, p) /\ F[k][p] \in Nat
        /\ \A n \in 1 .. MaxRounds : Pend(k, p, n) <=> F[k][p] < n /\ n <= Last(k, p)
    BY DEF Queued, Counted, Types
  <2>2. round \in 1 .. MaxRounds /\ MaxRounds \in Nat
    BY RoundAssumption DEF Queued, Types
  <2>3. CASE CallOf(k, p) = Script[pc]
    BY <2>1, <2>2, <2>3, <1>l, <1>d
  <2>4. CASE CallOf(k, p) # Script[pc]
    BY <2>1, <2>4, <1>l, <1>d
  <2> QED BY <2>3, <2>4
<1>b. Past(F)'
  <2> SUFFICES ASSUME NEW k \in MainKinds, NEW p \in Places, Uses(k, p),
                      NEW i \in 1 .. Len(queue'[StreamQueue(k, p)])
               PROVE  Earlier(Command(k, p, F[k][p]), queue'[StreamQueue(k, p)][i].cmd)
    BY <1>u DEF Past, Cmd
  <2> DEFINE q == StreamQueue(k, p)
  <2>1. q \in Queues
    BY <1>s
  <2>2. CASE i \in 1 .. Len(queue[q])
    BY <2>1, <2>2, <1>q DEF Queued, Past, Cmd
  <2>3. CASE NewEntry(q, queue'[q][i])
    <3>1. PICK e \in Entries : e = queue'[q][i]
      BY <2>3 DEF NewEntry
    <3>2. Turn(e.cmd.kind, e.cmd.at) = pc /\ e.cmd.n = round
      BY <1>p, <2>1, <2>3, <3>1
    <3>3. F[k][p] \in Nat /\ F[k][p] <= Last(k, p) /\ round \in Nat
      BY DEF Queued, Counted, Types
    <3>4. F[k][p] = round => Turn(k, p) < pc
      BY <3>3, CallsOfStreams, ProgramLength DEF Last, Called
    <3>5. Command(k, p, F[k][p]).kind = k /\ Command(k, p, F[k][p]).at = p /\ Command(k, p, F[k][p]).n = F[k][p]
      BY DEF Command
    <3>6. F[k][p] <= round
      BY <3>3 DEF Last
    <3>7. Earlier(Command(k, p, F[k][p]), e.cmd)
      BY <3>2, <3>3, <3>4, <3>5, <3>6 DEF Earlier
    <3> QED BY <3>1, <3>7
  <2> QED BY <2>1, <2>2, <2>3, <1>q
<1> QED BY <1>t, <1>f, <1>o, <1>c, <1>b DEF Queued

(* The host goes on to the next round, waits, or ends: nothing is called,  *)
(* and every command of the round has been.                                *)
LEMMA HostJump ==
    ASSUME NEW CONSTANT F, Queued(F), pc >= EndOfProgram, UNCHANGED <<queue, method>>,
           \/ round' = round /\ pc' \in EndOfProgram .. Done
           \/ round < MaxRounds /\ round' = round + 1 /\ pc' = 1
    PROVE  Queued(F)'
<1>0. /\ EndOfProgram \in Nat /\ pc \in Nat /\ round \in Nat /\ Done \in Nat /\ pc' \in Nat
      /\ EndOfProgram >= 1 /\ 1 <= Done /\ MaxRounds \in Nat
  <2>1. /\ EndOfProgram \in Nat /\ Done \in Nat /\ Done >= 1
    BY ProgramLength, GridAssumption
  <2>2. pc \in Nat /\ round \in Nat /\ MaxRounds \in Nat
    BY <2>1, RoundAssumption DEF Queued, Types
  <2>3. EndOfProgram >= 1
    BY <2>1, StartValues, ProgramSections DEF EndOfProgram
  <2>4. pc' \in Nat
    BY <2>1, <2>3
  <2> QED BY <2>1, <2>2, <2>3, <2>4
<1>t. Types(F)'
  BY <1>0 DEF Queued, Types
<1>u. \A k, p : Uses(k, p)' <=> Uses(k, p)
  BY DEF Uses
<1>l. \A k \in MainKinds, p \in Places : Uses(k, p) => Last(k, p)' = Last(k, p)
  BY LastKept DEF Queued
<1>n. \A k, p : NeedsNow(k, p)' = NeedsNow(k, p) /\ NeedsBefore(k, p)' = NeedsBefore(k, p)
  BY DEF NeedsNow, NeedsBefore
<1>f. Fits'
  <2> SUFFICES ASSUME NEW q \in Queues, NEW e \in Entries, Within(q, e)
               PROVE  EntryFits(q, e)'
    BY DEF Fits, Within
  <2> DEFINE c == e.cmd
  <2>1. (WaitsRight(e)' <=> WaitsRight(e)) /\ (Uses(c.kind, c.at)' <=> Uses(c.kind, c.at))
    BY <1>n, <1>u DEF WaitsRight
  <2>2. EntryFits(q, e) /\ c.n \in Nat
    BY DEF Queued, Fits, Entries
  <2>3. CASE round' = round /\ pc' \in EndOfProgram .. Done
    <3>1. Uses(c.kind, c.at) => Called(c.kind, c.at)'
      <4>1. Uses(c.kind, c.at) => Turn(c.kind, c.at) \in Nat /\ Turn(c.kind, c.at) < EndOfProgram
        BY ScalarApart, CallsOfStreams, ProgramLength
      <4> QED BY <1>0, <2>3, <4>1 DEF Called
    <3> QED BY <1>0, <2>1, <2>2, <2>3, <3>1 DEF EntryFits
  <2>4. CASE round' = round + 1
    <3>1. c.n <= round /\ c.n # round'
      BY <1>0, <2>2, <2>4 DEF EntryFits
    <3> QED BY <1>0, <2>1, <2>2, <2>4, <3>1 DEF EntryFits
  <2> QED BY <2>3, <2>4
<1>o. Ordered'
  BY DEF Queued, Ordered, Cmd
<1>c. Counted(F)'
  <2>1. \A k, p, n : Pend(k, p, n)' <=> Pend(k, p, n)
    BY DEF Pend, Pending
  <2> QED BY <2>1, <1>u, <1>l DEF Queued, Counted
<1>b. Past(F)'
  BY <1>u DEF Queued, Past, Cmd
<1> QED BY <1>t, <1>f, <1>o, <1>c, <1>b DEF Queued
-----------------------------------------------------------------------------
(* When a command is the next one of its queue, the commands of the queue  *)
(* that come before it in a round have been executed as often as its round *)
(* says, itself and those that follow it in a round once less.             *)
LEMMA AtHead ==
    ASSUME NEW CONSTANT F, Queued(F), NEW q \in Queues, queue[q] # << >>,
           NEW c, c = Cmd(q, 1),
           NEW k \in MainKinds, NEW p \in Places, Uses(k, p), StreamQueue(k, p) = q
    PROVE  /\ Turn(k, p) < Turn(c.kind, c.at) => F[k][p] = c.n
           /\ c.kind \in MainKinds /\ Turn(k, p) >= Turn(c.kind, c.at) => F[k][p] = c.n - 1
<1>1. /\ 1 \in 1 .. Len(queue[q]) /\ Len(queue[q]) \in Nat /\ queue[q][1] \in Entries
  BY QueueSteps DEF Queued, Types
<1>2. /\ c.kind \in CommandKinds /\ c.at \in Places /\ c.n \in 1 .. MaxRounds /\ c = queue[q][1].cmd
  BY <1>1 DEF Entries, Cmd
<1>3. EntryFits(q, queue[q][1])
  BY <1>1 DEF Queued, Fits, Within
<1>4. /\ c.n <= round
      /\ \/ Uses(c.kind, c.at) /\ (c.n = round => Called(c.kind, c.at))
         \/ c.kind \in ScalarKinds /\ c.at \in OwnPlaces /\ (c.n = round => pc >= EndOfProgram)
  BY <1>2, <1>3 DEF EntryFits
<1>5. /\ F[k][p] \in Nat /\ F[k][p] <= Last(k, p)
      /\ \A n \in 1 .. MaxRounds : Pend(k, p, n) <=> F[k][p] < n /\ n <= Last(k, p)
  BY DEF Queued, Types, Counted
<1>6. /\ F[k][p] < c.n \/ (F[k][p] = c.n /\ (Turn(k, p) < Turn(c.kind, c.at)))
  <2>1. Earlier(Command(k, p, F[k][p]), c)
    BY <1>1 DEF Queued, Past, Cmd
  <2>2. k \notin ScalarKinds
    BY DEF MainKinds, ScalarKinds
  <2> QED BY <2>1, <2>2 DEF Earlier, Command
<1>7. \A n \in 1 .. MaxRounds : Pend(k, p, n) /\ Command(k, p, n) # c =>
         c.n < n \/ (c.n = n /\ Turn(c.kind, c.at) < Turn(k, p))
  <2> SUFFICES ASSUME NEW n \in 1 .. MaxRounds, Pend(k, p, n), Command(k, p, n) # c
               PROVE  c.n < n \/ (c.n = n /\ Turn(c.kind, c.at) < Turn(k, p))
    OBVIOUS
  <2>1. PICK i \in 1 .. Len(queue[q]) : queue[q][i].cmd = Command(k, p, n)
    <3>1. QueueOf(Command(k, p, n)) = q
      BY StreamQueues DEF Queued, Types
    <3> QED BY <3>1, QueueSteps DEF Pend, Pending, Queued, Types
  <2>2. i # 1
    BY <2>1, <1>2
  <2>3. Earlier(c, Command(k, p, n))
    BY <1>1, <1>2, <2>1, <2>2 DEF Queued, Ordered, Cmd
  <2>4. k \notin ScalarKinds
    BY DEF MainKinds, ScalarKinds
  <2> QED BY <2>3, <2>4 DEF Earlier, Command
<1>8. c.n <= MaxRounds /\ MaxRounds \in Nat /\ c.n \in Nat /\ round \in Nat /\ Turn(k, p) \in Nat
  BY <1>2, RoundAssumption, CallsOfStreams, ProgramLength DEF Queued, Types
<1>9. Turn(k, p) < Turn(c.kind, c.at) => F[k][p] = c.n
  <2> SUFFICES ASSUME Turn(k, p) < Turn(c.kind, c.at), F[k][p] # c.n PROVE FALSE
    OBVIOUS
  <2>0. Turn(c.kind, c.at) \in Nat
    BY <1>4, ScalarApart, ScalarTurns, CallsOfStreams, ProgramLength
  <2>1. c.n <= Last(k, p)
    <3>1. CASE c.n < round
      BY <1>8, <3>1 DEF Last
    <3>2. CASE c.n = round
      <4>1. Called(k, p)
        <5>1. CASE Uses(c.kind, c.at)
          <6>1. Called(c.kind, c.at) /\ Turn(c.kind, c.at) \in Nat
            BY <1>2, <1>4, <3>2, <5>1, ScalarApart, CallsOfStreams, ProgramLength
          <6> QED BY <1>8, <6>1, ProgramLength DEF Called, Queued, Types
        <5>2. CASE pc >= EndOfProgram
          BY <1>8, <5>2, CallsOfStreams, ProgramLength DEF Called, Queued, Types
        <5> QED BY <1>4, <3>2, <5>1, <5>2
      <4>2. Last(k, p) = round
        BY <4>1 DEF Last
      <4> QED BY <1>8, <3>2, <4>2
    <3> QED BY <1>4, <1>8, <3>1, <3>2
  <2>2. F[k][p] < c.n
    BY <1>6
  <2>3. Pend(k, p, c.n)
    BY <1>2, <1>5, <2>1, <2>2
  <2>4. Command(k, p, c.n) # c
    <3>1. Command(k, p, c.n).kind = k /\ Command(k, p, c.n).at = p
      BY DEF Command
    <3>2. ~(k = c.kind /\ p = c.at)
      BY <1>8, <2>0
    <3> QED BY <3>1, <3>2
  <2>5. c.n < c.n \/ Turn(c.kind, c.at) < Turn(k, p)
    BY <1>2, <1>7, <2>3, <2>4
  <2> QED BY <1>8, <2>0, <2>5
<1>10. ASSUME c.kind \in MainKinds, Turn(k, p) >= Turn(c.kind, c.at)
       PROVE  F[k][p] = c.n - 1
  <2>0. Uses(c.kind, c.at) /\ Turn(c.kind, c.at) \in Nat
    <3>1. c.kind \notin ScalarKinds
      BY <1>10 DEF MainKinds, ScalarKinds
    <3>2. Uses(c.kind, c.at)
      BY <1>4, <3>1
    <3>3. Turn(c.kind, c.at) \in 1 .. Len(Script)
      BY <1>2, <1>10, <3>2, CallsOfStreams
    <3> QED BY <3>2, <3>3
  <2>1. F[k][p] < c.n
    BY <1>6, <1>8, <1>10, <2>0
  <2>2. CASE c.n = 1
    BY <1>5, <2>1, <2>2
  <2>3. CASE c.n > 1
    <3> SUFFICES ASSUME F[k][p] # c.n - 1 PROVE FALSE
      OBVIOUS
    <3>1. c.n - 1 \in 1 .. MaxRounds /\ F[k][p] < c.n - 1
      BY <1>5, <1>8, <2>1, <2>3
    <3>2. c.n - 1 <= Last(k, p)
      BY <1>4, <1>8 DEF Last
    <3>3. Pend(k, p, c.n - 1)
      BY <1>5, <3>1, <3>2
    <3>4. Command(k, p, c.n - 1) # c
      BY <1>8 DEF Command
    <3> QED BY <1>7, <1>8, <3>1, <3>3, <3>4
  <2> QED BY <1>8, <1>2, <2>2, <2>3
<1> QED BY <1>9, <1>10

(* The executed commands after c.                                          *)
After(F, c) == IF c.kind \in MainKinds THEN [F EXCEPT ![c.kind][c.at] = c.n] ELSE F

(* G counts one command more than F, c if that is counted.                 *)
OneMore(F, G, c) ==
    \A k \in MainKinds, p \in Places : Uses(k, p) =>
        G[k][p] = IF k = c.kind /\ p = c.at THEN F[k][p] + 1 ELSE F[k][p]

(* Executing a command keeps the queues in order, and counts it.           *)
LEMMA DeviceStep ==
    ASSUME NEW CONSTANT F, NEW CONSTANT G, NEW CONSTANT c, NEW CONSTANT q \in Queues,
           Queued(F), queue[q] # << >>, c = Cmd(q, 1), G = After(F, c),
           queue' = [queue EXCEPT ![q] = Tail(@)], UNCHANGED <<method, pc, round>>
    PROVE  /\ Queued(G)'
           /\ OneMore(F, G, c)
<1>0. /\ queue[q] \in Seq(Entries) /\ queue'[q] = Tail(queue[q])
      /\ \A r \in Queues : r # q => queue'[r] = queue[r]
      /\ queue' \in [Queues -> Seq(Entries)]
  <2>1. queue \in [Queues -> Seq(Entries)]
    BY DEF Queued, Types
  <2>2. Tail(queue[q]) \in Seq(Entries)
    BY <2>1, QueueSteps
  <2> QED BY <2>1, <2>2
<1>1. /\ Len(queue[q]) \in Nat /\ Len(queue[q]) > 0 /\ Len(queue'[q]) = Len(queue[q]) - 1
      /\ \A i \in 1 .. Len(queue'[q]) : i + 1 \in 1 .. Len(queue[q]) /\ queue'[q][i] = queue[q][i + 1]
      /\ \A i \in 1 .. Len(queue[q]) : i = 1 \/ (i - 1 \in 1 .. Len(queue'[q]) /\ queue'[q][i - 1] = queue[q][i])
      /\ 1 \in 1 .. Len(queue[q]) /\ queue[q][1] \in Entries /\ c = queue[q][1].cmd
  <2>1. /\ Len(queue[q]) \in Nat /\ Len(queue[q]) > 0 /\ Len(queue'[q]) = Len(queue[q]) - 1
        /\ \A i \in 1 .. Len(queue[q]) - 1 : queue'[q][i] = queue[q][i + 1]
        /\ \A i \in 1 .. Len(queue[q]) : queue[q][i] \in Entries
    BY <1>0, QueueSteps
  <2>2. c = queue[q][1].cmd
    BY DEF Cmd
  <2> QED BY <2>1, <2>2
<1>2. /\ c.kind \in CommandKinds /\ c.at \in Places /\ c.n \in 1 .. MaxRounds
      /\ c = Command(c.kind, c.at, c.n)
  BY <1>1 DEF Entries, Command
<1>3. /\ QueueOf(c) = q
      /\ Uses(c.kind, c.at) \/ (c.kind \in ScalarKinds /\ c.at \in OwnPlaces)
      /\ c.kind \in MainKinds => Uses(c.kind, c.at) /\ c.n <= Last(c.kind, c.at)
  <2>1. EntryFits(q, queue[q][1])
    BY <1>1 DEF Queued, Fits, Within
  <2>2. c.kind \in MainKinds => c.kind \notin ScalarKinds
    BY DEF MainKinds, ScalarKinds
  <2>3. c.n \in Nat /\ round \in Nat
    BY <1>2 DEF Queued, Types
  <2> QED BY <1>1, <2>1, <2>2, <2>3 DEF EntryFits, Last
<1>4. F \in [MainKinds -> [Places -> Nat]] /\ G \in [MainKinds -> [Places -> Nat]]
  BY <1>2 DEF After, Queued, Types
<1>5. \A k \in MainKinds, p \in Places :
        G[k][p] = IF k = c.kind /\ p = c.at THEN c.n ELSE F[k][p]
  BY <1>2, <1>4 DEF After
<1>6. c.kind \in MainKinds => /\ F[c.kind][c.at] = c.n - 1 /\ StreamQueue(c.kind, c.at) = q
                             /\ Turn(c.kind, c.at) \in Nat
  <2> SUFFICES ASSUME c.kind \in MainKinds
               PROVE  F[c.kind][c.at] = c.n - 1 /\ StreamQueue(c.kind, c.at) = q /\ Turn(c.kind, c.at) \in Nat
    OBVIOUS
  <2>1. StreamQueue(c.kind, c.at) = q
    BY <1>2, <1>3, StreamQueues DEF Queued, Types
  <2>2. Turn(c.kind, c.at) \in Nat
    BY <1>2, <1>3, CallsOfStreams, ProgramLength
  <2> QED BY <1>2, <1>3, <2>1, <2>2, AtHead
<1>u. \A k, p : (Uses(k, p)' <=> Uses(k, p)) /\ Last(k, p)' = Last(k, p)
  BY DEF Uses, Last, Called
<1>n. \A k, p : NeedsNow(k, p)' = NeedsNow(k, p) /\ NeedsBefore(k, p)' = NeedsBefore(k, p)
  BY DEF NeedsNow, NeedsBefore
<1>t. Types(G)'
  BY <1>0, <1>4 DEF Queued, Types
<1>f. Fits'
  <2> SUFFICES ASSUME NEW r \in Queues, NEW e \in Entries, Within(r, e)'
               PROVE  EntryFits(r, e)'
    BY DEF Fits
  <2>1. Within(r, e)
    BY <1>0, <1>1 DEF Within
  <2>2. (WaitsRight(e)' <=> WaitsRight(e)) /\ (Uses(e.cmd.kind, e.cmd.at)' <=> Uses(e.cmd.kind, e.cmd.at))
    BY <1>n, <1>u DEF WaitsRight
  <2>3. Called(e.cmd.kind, e.cmd.at)' <=> Called(e.cmd.kind, e.cmd.at)
    BY DEF Called
  <2> QED BY <2>1, <2>2, <2>3 DEF Queued, Fits, EntryFits
<1>o. Ordered'
  <2> SUFFICES ASSUME NEW r \in Queues, NEW i \in 1 .. Len(queue'[r]), NEW j \in 1 .. Len(queue'[r]), i < j
               PROVE  Earlier(queue'[r][i].cmd, queue'[r][j].cmd)
    BY DEF Ordered, Cmd
  <2>1. CASE r # q
    BY <1>0, <2>1 DEF Queued, Ordered, Cmd
  <2>2. CASE r = q
    <3>1. i + 1 < j + 1
      OBVIOUS
    <3> QED BY <1>1, <2>2, <3>1 DEF Queued, Ordered, Cmd
  <2> QED BY <2>1, <2>2
<1>d. ASSUME NEW k \in MainKinds, NEW p \in Places, Uses(k, p), NEW n \in 1 .. MaxRounds
      PROVE  Pend(k, p, n)' <=> Pend(k, p, n) /\ Command(k, p, n) # c
  <2> DEFINE r == StreamQueue(k, p)
  <2>1. r \in Queues /\ QueueOf(Command(k, p, n)) = r
    BY <1>d, StreamQueues DEF Queued, Types
  <2>2. Pend(k, p, n) <=> \E i \in 1 .. Len(queue[r]) : queue[r][i].cmd = Command(k, p, n)
    BY <2>1, QueueSteps DEF Pend, Pending, Queued, Types
  <2>3. Pend(k, p, n)' <=> \E i \in 1 .. Len(queue'[r]) : queue'[r][i].cmd = Command(k, p, n)
    <3>1. queue'[r] \in Seq(Entries)
      BY <1>0, <2>1
    <3> QED BY <2>1, <3>1, QueueSteps DEF Pend, Pending
  <2> HIDE DEF r
  <2>4. CASE r # q
    <3>1. Command(k, p, n) # c
      BY <1>3, <2>1, <2>4
    <3> QED BY <1>0, <2>1, <2>2, <2>3, <2>4, <3>1
  <2>5. CASE r = q
    <3>1. Pend(k, p, n)' => Pend(k, p, n)
      BY <1>1, <2>2, <2>3, <2>5
    <3>2. ASSUME Pend(k, p, n), Command(k, p, n) # c
          PROVE  Pend(k, p, n)'
      <4>1. PICK i \in 1 .. Len(queue[q]) : queue[q][i].cmd = Command(k, p, n)
        BY <2>2, <2>5, <3>2
      <4>2. i # 1
        BY <1>1, <3>2, <4>1
      <4>3. i - 1 \in 1 .. Len(queue'[q]) /\ queue'[q][i - 1] = queue[q][i]
        BY <1>1, <4>2
      <4> QED BY <2>3, <2>5, <4>1, <4>3
    <3>3. ASSUME Pend(k, p, n)', Command(k, p, n) = c
          PROVE  FALSE
      <4>1. PICK i \in 1 .. Len(queue'[q]) : queue'[q][i].cmd = c
        BY <2>3, <2>5, <3>3
      <4>2. i + 1 \in 1 .. Len(queue[q]) /\ queue[q][i + 1].cmd = c /\ 1 < i + 1
        BY <1>1, <4>1
      <4>3. Earlier(c, c)
        BY <1>1, <4>2 DEF Queued, Ordered, Cmd
      <4>4. c.kind = k
        BY <3>3 DEF Command
      <4> QED BY <1>2, <1>6, <4>3, <4>4, RoundAssumption DEF Earlier, MainKinds, ScalarKinds
    <3> QED BY <3>1, <3>2, <3>3
  <2> QED BY <2>4, <2>5
<1>c. Counted(G)'
  <2> SUFFICES ASSUME NEW k \in MainKinds, NEW p \in Places, Uses(k, p)
               PROVE  /\ G[k][p] <= Last(k, p)
                      /\ \A n \in 1 .. MaxRounds : Pend(k, p, n)' <=> G[k][p] < n /\ n <= Last(k, p)
    BY <1>u DEF Counted
  <2>1. /\ F[k][p] <= Last(k, p) /\ F[k][p] \in Nat
        /\ \A n \in 1 .. MaxRounds : Pend(k, p, n) <=> F[k][p] < n /\ n <= Last(k, p)
    BY DEF Queued, Counted, Types
  <2>2. CASE k = c.kind /\ p = c.at
    <3>1. G[k][p] = c.n /\ F[k][p] = c.n - 1 /\ c.n <= Last(k, p) /\ c.n \in Nat
      BY <1>2, <1>3, <1>5, <1>6, <2>2
    <3>2. \A n \in 1 .. MaxRounds : Command(k, p, n) = c <=> n = c.n
      BY <1>2, <2>2 DEF Command
    <3> QED BY <1>d, <2>1, <3>1, <3>2
  <2>3. CASE ~(k = c.kind /\ p = c.at)
    <3>1. \A n \in 1 .. MaxRounds : Command(k, p, n) # c
      BY <2>3 DEF Command
    <3>2. G[k][p] = F[k][p]
      BY <1>5, <2>3
    <3> QED BY <1>d, <2>1, <3>1, <3>2
  <2> QED BY <2>2, <2>3
<1>b. Past(G)'
  <2> SUFFICES ASSUME NEW k \in MainKinds, NEW p \in Places, Uses(k, p),
                      NEW i \in 1 .. Len(queue'[StreamQueue(k, p)])
               PROVE  Earlier(Command(k, p, G[k][p]), queue'[StreamQueue(k, p)][i].cmd)
    BY <1>u DEF Past, Cmd
  <2> DEFINE r == StreamQueue(k, p)
  <2>1. r \in Queues
    BY StreamQueues DEF Queued, Types
  <2>2. PICK j \in 1 .. Len(queue[r]) : queue'[r][i] = queue[r][j] /\ (r = q => j > 1)
    <3>1. CASE r # q
      BY <1>0, <2>1, <3>1
    <3>2. CASE r = q
      BY <1>1, <3>2
    <3> QED BY <3>1, <3>2
  <2>3. CASE k = c.kind /\ p = c.at
    <3>1. r = q
      BY <1>6, <2>3
    <3>2. Earlier(c, queue[q][j].cmd)
      BY <1>1, <2>2, <3>1 DEF Queued, Ordered, Cmd
    <3>3. Command(k, p, G[k][p]) = c
      BY <1>2, <1>5, <2>3
    <3> QED BY <2>2, <3>1, <3>2, <3>3
  <2>4. CASE ~(k = c.kind /\ p = c.at)
    <3>1. G[k][p] = F[k][p]
      BY <1>5, <2>4
    <3> QED BY <2>1, <2>2, <3>1 DEF Queued, Past, Cmd
  <2> QED BY <2>3, <2>4
<1>g. OneMore(F, G, c)
  <2> SUFFICES ASSUME NEW k \in MainKinds, NEW p \in Places
               PROVE  G[k][p] = IF k = c.kind /\ p = c.at THEN F[k][p] + 1 ELSE F[k][p]
    BY DEF OneMore
  <2>1. CASE k = c.kind /\ p = c.at
    BY <1>2, <1>5, <1>6, <2>1
  <2>2. CASE ~(k = c.kind /\ p = c.at)
    BY <1>5, <2>2
  <2> QED BY <2>1, <2>2
<1> QED BY <1>t, <1>f, <1>o, <1>c, <1>b, <1>g DEF Queued

(* The event a link has kept of a kind belongs to the last command of it.  *)
EventsRight ==
    \A l \in Links, k \in EventKinds : event[l][k] = IF Uses(k, l) THEN Last(k, l) ELSE 0

InTurn(F) ==
    \A l \in Links, k \in EventKinds : Uses(k, l) =>
        /\ \A j \in NeedsNow(k, l) : F[k][l] <= F[j][l]
        /\ \A j \in NeedsBefore(k, l) : F[k][l] <= F[j][l] + 1

Contents(F) ==
    /\ \A d \in Devices : content[Main(d)] = F["write"][Own(d)]
    /\ \A l \in Links :
        /\ content[Halo(l)] = F["dump"][l]
        /\ method[l] # "OclCopy" => content[DestCache(l)] = F["transfer"][l]
        /\ method[l] # "AsyncOclCopy" \/ F["back"][l] < F["load"][l] =>
              content[SrcCache(l)] = F["load"][l]

SumTurn == Pos([call |-> "sum", at |-> Own(0)])

(* The scalar of a device d: s is the queue of the device, v what the      *)
(* scalar holds, the host is at place p of round n.                        *)
NoReduce(s, I) == \A i \in I : s[i].cmd.kind # "reduce"

MapsLast(d, s, p, n) ==
    Turn("map", Own(d)) < p /\ p <= SumTurn =>
        s = << >> \/ s[Len(s)].cmd = Command("map", Own(d), n)

Reduced(d, s, v, p, n) ==
    Turn("reduce", Own(d)) < p /\ p <= SumTurn =>
        \/ \E i \in 1 .. Len(s) : s[i].cmd = Command("reduce", Own(d), n)
                                  /\ NoReduce(s, i + 1 .. Len(s))
        \/ NoReduce(s, 1 .. Len(s)) /\ v = n

Summed(s, v, p, n) ==
    SumTurn < p /\ p <= EndOfScript => NoReduce(s, 1 .. Len(s)) /\ v = Sum(n)

Used(s, v) ==
    \A i \in 1 .. Len(s) : s[i].cmd.kind = "use" =>
        v = Sum(s[i].cmd.n) /\ NoReduce(s, 1 .. i - 1)

ScalarAt(d, s, v, p, n) ==
    /\ MapsLast(d, s, p, n) /\ Reduced(d, s, v, p, n)
    /\ Summed(s, v, p, n) /\ Used(s, v)

Scalars ==
    \A d \in Devices : ScalarAt(d, queue[DeviceQueue(d)], content[Scalar(d)], pc, round)
-----------------------------------------------------------------------------

(* The steps of a scalar product follow one another.                       *)
LEMMA ScalarOrder ==
    ASSUME NEW d \in Devices
    PROVE  /\ EndOfProgram < Turn("reduce", Own(d)) /\ Turn("reduce", Own(d)) < Turn("map", Own(d))
           /\ Turn("map", Own(d)) < SumTurn
           /\ SumTurn < Turn("unmap", Own(d)) /\ SumTurn < Turn("use", Own(d))
           /\ SumTurn \in 1 .. Len(Script) /\ Script[SumTurn] = [call |-> "sum", at |-> Own(0)]
           /\ \A k \in ScalarKinds : Turn(k, Own(d)) \in 1 .. Len(Script)
           /\ EndOfProgram \in Nat /\ Len(Script) \in Nat
<1> DEFINE c(k) == [call |-> k, at |-> Own(d)]
           h(k) == [call |-> k, at |-> Own(0)]
<1>1. \A k \in ScalarKinds : c(k) \in AllCalls /\ Turn(k, Own(d)) = Pos(c(k))
  BY DEF AllCalls, DeviceCalls, ScalarKinds, OwnPlaces, Turn, CallOf
<1>2. h("end") \in AllCalls /\ h("sum") \in AllCalls
  BY DEF AllCalls, HostCalls
<1>3. Pos(h("end")) = EndOfProgram
  <2>1. Offset(h("end")) = 1
    BY DEF Offset, HostCalls
  <2> QED BY <2>1, ProgramSections DEF EndOfProgram, Pos
<1> HIDE DEF c, h
<1>4. c("reduce").call = "reduce" /\ c("map").call = "map" /\ c("unmap").call = "unmap"
      /\ c("use").call = "use" /\ h("end").call = "end" /\ h("sum").call = "sum"
  BY DEF c, h
<1>5. /\ Rank("end") < Rank("reduce") /\ Rank("reduce") < Rank("map") /\ Rank("map") < Rank("sum")
      /\ Rank("sum") < Rank("unmap") /\ Rank("sum") < Rank("use")
  BY DEF Rank
<1>6. c("reduce") \in AllCalls /\ c("map") \in AllCalls /\ c("unmap") \in AllCalls /\ c("use") \in AllCalls
  BY <1>1 DEF ScalarKinds
<1>7. Pos(h("end")) < Pos(c("reduce"))
  BY <1>2, <1>4, <1>5, <1>6, Order
<1>8. Pos(c("reduce")) < Pos(c("map"))
  BY <1>4, <1>5, <1>6, Order
<1>9. Pos(c("map")) < Pos(h("sum"))
  BY <1>2, <1>4, <1>5, <1>6, Order
<1>10. Pos(h("sum")) < Pos(c("unmap"))
  BY <1>2, <1>4, <1>5, <1>6, Order
<1>11. Pos(h("sum")) < Pos(c("use"))
  BY <1>2, <1>4, <1>5, <1>6, Order
<1>12. /\ Pos(h("sum")) \in 1 .. Len(Script) /\ Script[Pos(h("sum"))] = h("sum")
       /\ \A k \in ScalarKinds : Pos(c(k)) \in 1 .. Len(Script)
  BY <1>1, <1>2, PosScript
<1>13. SumTurn = Pos(h("sum")) /\ h("sum") = [call |-> "sum", at |-> Own(0)]
  BY DEF SumTurn, h
<1> QED
  BY <1>1, <1>3, <1>7, <1>8, <1>9, <1>10, <1>11, <1>12, <1>13, ProgramLength DEF ScalarKinds

(* The scalar commands in the queue of a device are its own.               *)
LEMMA OwnScalars ==
    ASSUME NEW d \in Devices, NEW c \in [kind : CommandKinds, at : Places, n : Nat],
           c.kind \in ScalarKinds, c.at \in OwnPlaces, QueueOf(c) = DeviceQueue(d)
    PROVE  c.at = Own(d)
<1>1. QueueOf(c) = DeviceQueue(c.at.from)
  BY DEF QueueOf, ScalarKinds
<1>2. PICK e \in Devices : c.at = Own(e)
  BY DEF OwnPlaces
<1>3. c.at.from = e
  BY <1>2 DEF Own
<1> QED BY <1>1, <1>2, <1>3 DEF DeviceQueue, Own

(* Every device has a queue.                                               *)
LEMMA DeviceQueueIs ==
    ASSUME NEW d \in Devices
    PROVE  DeviceQueue(d) \in Queues
  BY DEF DeviceQueue, Queues, OwnPlaces

(* The places of the steps of a scalar product, as numbers.                *)
LEMMA ScalarPlaces ==
    ASSUME NEW d \in Devices
    PROVE  /\ EndOfProgram \in Nat /\ SumTurn \in Nat /\ EndOfScript \in Nat
           /\ EndOfProgram < Turn("reduce", Own(d)) /\ Turn("reduce", Own(d)) < Turn("map", Own(d))
           /\ Turn("map", Own(d)) < SumTurn /\ SumTurn < EndOfScript
           /\ SumTurn < Turn("unmap", Own(d)) /\ SumTurn < Turn("use", Own(d))
           /\ Turn("reduce", Own(d)) \in Nat /\ Turn("map", Own(d)) \in Nat
           /\ Turn("unmap", Own(d)) \in Nat /\ Turn("use", Own(d)) \in Nat
           /\ EndOfScript < Done /\ Done \in Nat
<1>1. /\ Turn("reduce", Own(d)) \in Nat /\ Turn("map", Own(d)) \in Nat
      /\ Turn("unmap", Own(d)) \in Nat /\ Turn("use", Own(d)) \in Nat
  BY ScalarOrder DEF ScalarKinds
<1>2. SumTurn \in Nat /\ SumTurn < EndOfScript /\ EndOfScript \in Nat
  BY ScalarOrder, ProgramLength
<1>3. EndOfScript < Done /\ Done \in Nat
  BY <1>2, ProgramLength, GridAssumption
<1> QED BY <1>1, <1>2, <1>3, ScalarOrder

(* A call that concerns the scalar of another device, or none.             *)
LEMMA ScalarKept ==
    ASSUME NEW d \in Devices, NEW s \in Seq(Entries), NEW v, NEW p \in Nat, NEW n \in Nat,
           ScalarAt(d, s, v, p, n), p # SumTurn,
           p # Turn("reduce", Own(d)), p # Turn("map", Own(d))
    PROVE  ScalarAt(d, s, v, p + 1, n)
<1>1. MapsLast(d, s, p + 1, n)
  BY ScalarPlaces DEF ScalarAt, MapsLast
<1>2. Reduced(d, s, v, p + 1, n)
  BY ScalarPlaces DEF ScalarAt, Reduced
<1>3. Summed(s, v, p + 1, n)
  BY ScalarPlaces DEF ScalarAt, Summed
<1> QED BY <1>1, <1>2, <1>3 DEF ScalarAt

(* A command is added to the queue.                                        *)
LEMMA ScalarAdded ==
    ASSUME NEW d \in Devices, NEW s \in Seq(Entries), NEW v, NEW p \in Nat, NEW n \in Nat,
           ScalarAt(d, s, v, p, n), NEW e \in Entries,
           \/ e.cmd.kind \in MainKinds /\ p < EndOfProgram
           \/ /\ e.cmd.kind \in ScalarKinds /\ p = Turn(e.cmd.kind, Own(d))
              /\ e.cmd = Command(e.cmd.kind, Own(d), n)
    PROVE  ScalarAt(d, Append(s, e), v, p + 1, n)
<1> DEFINE t == Append(s, e)
           c == e.cmd
<1>1. /\ Len(s) \in Nat /\ Len(t) = Len(s) + 1 /\ t[Len(t)] = e
      /\ \A i \in 1 .. Len(s) : t[i] = s[i]
      /\ t # << >>
  <2>1. /\ Len(s) \in Nat /\ Len(t) = Len(s) + 1 /\ t[Len(s) + 1] = e
        /\ \A i \in 1 .. Len(s) : t[i] = s[i]
    BY QueueSteps
  <2>2. Len(t) # 0
    BY <2>1
  <2> QED BY <2>1, <2>2, EmptySeq
<1> HIDE DEF t
<1>2. /\ \/ p < EndOfProgram
         \/ c = Command("reduce", Own(d), n) /\ p = Turn("reduce", Own(d))
         \/ c = Command("map", Own(d), n) /\ p = Turn("map", Own(d))
         \/ c.kind \in {"unmap", "use"} /\ c = Command(c.kind, Own(d), n) /\ p > SumTurn /\ p < EndOfScript
      /\ p < EndOfProgram => c.kind \notin {"reduce", "use"}
  <2>1. CASE c.kind \in MainKinds /\ p < EndOfProgram
    BY <2>1 DEF MainKinds
  <2>2. CASE c.kind \in ScalarKinds /\ p = Turn(c.kind, Own(d)) /\ c = Command(c.kind, Own(d), n)
    <3>1. ~(p < EndOfProgram)
      BY <2>2, ScalarPlaces DEF ScalarKinds
    <3>2. c.kind \in {"unmap", "use"} => p > SumTurn /\ p < EndOfScript
      <4>1. p <= Len(Script)
        BY <2>2, ScalarOrder
      <4> QED BY <2>2, <4>1, ScalarPlaces, ProgramLength
    <3> QED BY <2>2, <3>1, <3>2 DEF ScalarKinds
  <2> QED BY <2>1, <2>2
<1>3. c.kind = "reduce" => c = Command("reduce", Own(d), n) /\ p = Turn("reduce", Own(d))
  BY <1>2 DEF Command
<1>4. c.kind = "use" => c = Command("use", Own(d), n) /\ p > SumTurn /\ p < EndOfScript
  BY <1>2 DEF Command
<1>m. MapsLast(d, t, p + 1, n)
  <2> SUFFICES ASSUME Turn("map", Own(d)) < p + 1, p + 1 <= SumTurn
               PROVE  t[Len(t)].cmd = Command("map", Own(d), n)
    BY DEF MapsLast
  <2> QED BY <1>1, <1>2, ScalarPlaces
<1>r. Reduced(d, t, v, p + 1, n)
  <2> SUFFICES ASSUME Turn("reduce", Own(d)) < p + 1, p + 1 <= SumTurn
               PROVE \/ \E i \in 1 .. Len(t) : t[i].cmd = Command("reduce", Own(d), n)
                                               /\ NoReduce(t, i + 1 .. Len(t))
                     \/ NoReduce(t, 1 .. Len(t)) /\ v = n
    BY DEF Reduced
  <2>1. CASE p = Turn("reduce", Own(d))
    <3>1. c = Command("reduce", Own(d), n)
      BY <1>2, <2>1, ScalarPlaces
    <3>2. Len(t) \in 1 .. Len(t) /\ t[Len(t)].cmd = Command("reduce", Own(d), n)
      BY <1>1, <3>1
    <3>3. NoReduce(t, Len(t) + 1 .. Len(t))
      BY <1>1 DEF NoReduce
    <3> QED BY <3>2, <3>3
  <2>2. CASE p # Turn("reduce", Own(d))
    <3>1. Turn("reduce", Own(d)) < p /\ p <= SumTurn
      BY <2>2, ScalarPlaces
    <3>2. c.kind # "reduce"
      BY <1>3, <2>2
    <3>3. \/ \E i \in 1 .. Len(s) : s[i].cmd = Command("reduce", Own(d), n)
                                    /\ NoReduce(s, i + 1 .. Len(s))
          \/ NoReduce(s, 1 .. Len(s)) /\ v = n
      BY <3>1 DEF ScalarAt, Reduced
    <3>4. ASSUME NEW i \in 1 .. Len(s), s[i].cmd = Command("reduce", Own(d), n),
                 NoReduce(s, i + 1 .. Len(s))
          PROVE  /\ i \in 1 .. Len(t) /\ t[i].cmd = Command("reduce", Own(d), n)
                 /\ NoReduce(t, i + 1 .. Len(t))
      <4>1. i \in 1 .. Len(t) /\ t[i] = s[i]
        BY <1>1
      <4>2. ASSUME NEW j \in i + 1 .. Len(t)
            PROVE  t[j].cmd.kind # "reduce"
        <5>1. j \in i + 1 .. Len(s) \/ j = Len(t)
          BY <1>1
        <5>2. CASE j \in i + 1 .. Len(s)
          <6>1. t[j] = s[j]
            BY <1>1, <5>2
          <6> QED BY <3>4, <5>2, <6>1 DEF NoReduce
        <5> QED BY <1>1, <3>2, <5>1, <5>2
      <4> QED BY <3>4, <4>1, <4>2 DEF NoReduce
    <3>5. NoReduce(s, 1 .. Len(s)) => NoReduce(t, 1 .. Len(t))
      BY <1>1, <3>2 DEF NoReduce
    <3> QED BY <3>3, <3>4, <3>5
  <2> QED BY <2>1, <2>2
<1>s. Summed(t, v, p + 1, n)
  <2> SUFFICES ASSUME SumTurn < p + 1, p + 1 <= EndOfScript
               PROVE  NoReduce(t, 1 .. Len(t)) /\ v = Sum(n)
    BY DEF Summed
  <2>1. SumTurn < p /\ p <= EndOfScript /\ c.kind # "reduce"
    BY <1>2, <1>3, ScalarPlaces
  <2>2. NoReduce(s, 1 .. Len(s)) /\ v = Sum(n)
    BY <2>1 DEF ScalarAt, Summed
  <2> QED BY <1>1, <2>1, <2>2 DEF NoReduce
<1>u. Used(t, v)
  <2> SUFFICES ASSUME NEW i \in 1 .. Len(t), t[i].cmd.kind = "use"
               PROVE  v = Sum(t[i].cmd.n) /\ NoReduce(t, 1 .. i - 1)
    BY DEF Used
  <2>1. CASE i \in 1 .. Len(s)
    <3>1. v = Sum(s[i].cmd.n) /\ NoReduce(s, 1 .. i - 1)
      BY <1>1, <2>1 DEF ScalarAt, Used
    <3> QED BY <1>1, <2>1, <3>1 DEF NoReduce
  <2>2. CASE i = Len(t)
    <3>1. c = Command("use", Own(d), n) /\ p > SumTurn /\ p < EndOfScript
      BY <1>1, <1>4, <2>2
    <3>2. NoReduce(s, 1 .. Len(s)) /\ v = Sum(n)
      BY <3>1, ScalarPlaces DEF ScalarAt, Summed
    <3>3. t[i].cmd.n = n
      BY <1>1, <2>2, <3>1 DEF Command
    <3> QED BY <1>1, <2>2, <3>2, <3>3 DEF NoReduce
  <2> QED BY <1>1, <2>1, <2>2
<1> QED BY <1>m, <1>r, <1>s, <1>u DEF ScalarAt, t

(* The host goes on with another round or waits.                           *)
LEMMA ScalarElsewhere ==
    ASSUME NEW d \in Devices, NEW s, NEW v, NEW p, NEW n, NEW q \in Nat, NEW m,
           ScalarAt(d, s, v, p, n), q <= EndOfProgram \/ q > EndOfScript
    PROVE  ScalarAt(d, s, v, q, m)
  BY ScalarPlaces DEF ScalarAt, MapsLast, Reduced, Summed

(* The device executes the first command of the queue.                     *)
LEMMA ScalarTaken ==
    ASSUME NEW d \in Devices, NEW s \in Seq(Entries), s # << >>, NEW v, NEW w, NEW p \in Nat, NEW n \in Nat,
           ScalarAt(d, s, v, p, n),
           s[1].cmd.kind # "reduce" => w = v,
           s[1].cmd = Command("reduce", Own(d), n) => w = n
    PROVE  ScalarAt(d, Tail(s), w, p, n)
<1> DEFINE t == Tail(s)
<1>1. /\ Len(s) \in Nat /\ Len(s) > 0 /\ Len(t) = Len(s) - 1 /\ t \in Seq(Entries)
      /\ \A i \in 1 .. Len(t) : t[i] = s[i + 1]
  BY QueueSteps
<1>2. t # << >> => t[Len(t)] = s[Len(s)]
  <2>1. t # << >> => Len(t) > 0
    BY <1>1, QueueSteps
  <2> QED BY <1>1, <2>1
<1> HIDE DEF t
<1>3. NoReduce(s, 1 .. Len(s)) => NoReduce(t, 1 .. Len(t)) /\ w = v
  BY <1>1 DEF NoReduce
<1>m. MapsLast(d, t, p, n)
  BY <1>2 DEF ScalarAt, MapsLast
<1>r. Reduced(d, t, w, p, n)
  <2> SUFFICES ASSUME Turn("reduce", Own(d)) < p, p <= SumTurn
               PROVE \/ \E i \in 1 .. Len(t) : t[i].cmd = Command("reduce", Own(d), n)
                                               /\ NoReduce(t, i + 1 .. Len(t))
                     \/ NoReduce(t, 1 .. Len(t)) /\ w = n
    BY DEF Reduced
  <2>1. CASE NoReduce(s, 1 .. Len(s)) /\ v = n
    BY <1>3, <2>1
  <2>2. ASSUME NEW i \in 1 .. Len(s), s[i].cmd = Command("reduce", Own(d), n),
               NoReduce(s, i + 1 .. Len(s))
        PROVE  \/ \E j \in 1 .. Len(t) : t[j].cmd = Command("reduce", Own(d), n)
                                               /\ NoReduce(t, j + 1 .. Len(t))
               \/ NoReduce(t, 1 .. Len(t)) /\ w = n
    <3>1. NoReduce(t, i .. Len(t))
      BY <1>1, <2>2 DEF NoReduce
    <3>2. CASE i = 1
      BY <2>2, <3>1, <3>2
    <3>3. CASE i # 1
      <4>1. i - 1 \in 1 .. Len(t) /\ t[i - 1] = s[i] /\ (i - 1) + 1 = i
        BY <1>1, <3>3
      <4> QED BY <2>2, <3>1, <4>1
    <3> QED BY <3>2, <3>3
  <2> QED BY <2>1, <2>2 DEF ScalarAt, Reduced
<1>s. Summed(t, w, p, n)
  BY <1>3 DEF ScalarAt, Summed
<1>u. Used(t, w)
  <2> SUFFICES ASSUME NEW i \in 1 .. Len(t), t[i].cmd.kind = "use"
               PROVE  w = Sum(t[i].cmd.n) /\ NoReduce(t, 1 .. i - 1)
    BY DEF Used
  <2>1. i + 1 \in 1 .. Len(s) /\ t[i] = s[i + 1] /\ i \in Nat
    BY <1>1
  <2>2. v = Sum(t[i].cmd.n) /\ NoReduce(s, 1 .. (i + 1) - 1)
    BY <2>1 DEF ScalarAt, Used
  <2>3. 1 \in 1 .. (i + 1) - 1
    BY <1>1
  <2>4. w = v
    BY <2>2, <2>3 DEF NoReduce
  <2>5. NoReduce(t, 1 .. i - 1)
    BY <1>1, <2>1, <2>2 DEF NoReduce
  <2> QED BY <2>2, <2>4, <2>5
<1> QED BY <1>m, <1>r, <1>s, <1>u DEF ScalarAt, t

(* What the host and the devices have agreed on, F counting what has been  *)
(* executed.                                                               *)
Sound ==
    /\ event \in [Links -> [EventKinds -> 0 .. MaxRounds]]
    /\ content \in [Buffers -> Versions]
    /\ submitted \in [Queues -> Nat]
    /\ \A q \in Queues : submitted[q] <= Len(queue[q])

Right(F) == Queued(F) /\ EventsRight /\ InTurn(F) /\ Contents(F) /\ Scalars /\ Sound
-----------------------------------------------------------------------------
(* The calls for a link, and those of a device, in the order of a round.   *)
LEMMA LinkTurns ==
    ASSUME NEW l \in Links
    PROVE  /\ Turn("load", l) < Turn("transfer", l) /\ Turn("transfer", l) < Turn("dump", l)
           /\ Turn("back", l) = Turn("transfer", l)
           /\ Turn("write", Own(l.from)) < Turn("load", l)
           /\ Turn("dump", l) < Turn("boundary", Own(l.to))
           /\ \A k \in EventKinds : Turn(k, l) \in Nat
<1> DEFINE e(k) == [call |-> k, at |-> l]
           f(k, d) == [call |-> k, at |-> Own(d)]
<1>1. \A k \in LinkCalls : e(k) \in AllCalls
  BY DEF AllCalls, LinkCalls
<1>2. f("write", l.from) \in AllCalls /\ f("boundary", l.to) \in AllCalls
  BY LinkType DEF AllCalls, DeviceCalls, OwnPlaces
<1>3. /\ Turn("load", l) = Pos(e("load")) /\ Turn("transfer", l) = Pos(e("transfer"))
      /\ Turn("dump", l) = Pos(e("dump")) /\ Turn("back", l) = Pos(e("transfer"))
      /\ Turn("write", Own(l.from)) = Pos(f("write", l.from))
      /\ Turn("boundary", Own(l.to)) = Pos(f("boundary", l.to))
  BY DEF Turn, CallOf
<1>4. /\ e("load").call = "load" /\ e("transfer").call = "transfer" /\ e("dump").call = "dump"
      /\ f("write", l.from).call = "write" /\ f("boundary", l.to).call = "boundary"
  OBVIOUS
<1>5. /\ Rank("write") < Rank("load") /\ Rank("load") < Rank("transfer")
      /\ Rank("transfer") < Rank("dump") /\ Rank("dump") < Rank("boundary")
  BY DEF Rank
<1>6. e("load") \in AllCalls /\ e("transfer") \in AllCalls /\ e("dump") \in AllCalls
  BY <1>1 DEF LinkCalls
<1> HIDE DEF e, f
<1>7. Pos(e("load")) < Pos(e("transfer")) /\ Pos(e("transfer")) < Pos(e("dump"))
  BY <1>4, <1>5, <1>6, Order
<1>8. Pos(f("write", l.from)) < Pos(e("load"))
  BY <1>2, <1>4, <1>5, <1>6, Order
<1>9. Pos(e("dump")) < Pos(f("boundary", l.to))
  BY <1>2, <1>4, <1>5, <1>6, Order
<1>10. Pos(e("load")) \in Nat /\ Pos(e("transfer")) \in Nat /\ Pos(e("dump")) \in Nat
  BY <1>6, PosScript
<1> QED BY <1>3, <1>7, <1>8, <1>9, <1>10 DEF EventKinds

(* A device overwrites its field before its kernels read it.               *)
LEMMA DeviceTurns ==
    ASSUME NEW d \in Devices
    PROVE  /\ Turn("write", Own(d)) < Turn("boundary", Own(d))
           /\ ASYNC => Turn("write", Own(d)) < Turn("inner", Own(d))
           /\ \A k \in ScalarKinds : Turn("write", Own(d)) < Turn(k, Own(d))
<1> DEFINE f(k) == [call |-> k, at |-> Own(d)]
<1>1. \A k \in {"write", "boundary"} \cup (IF ASYNC THEN {"inner"} ELSE {}) \cup ScalarKinds :
        f(k) \in AllCalls /\ Turn(k, Own(d)) = Pos(f(k)) /\ f(k).call = k
  BY DEF AllCalls, DeviceCalls, OwnPlaces, Turn, CallOf, ScalarKinds
<1>2. /\ Rank("write") < Rank("boundary") /\ Rank("write") < Rank("inner")
      /\ \A k \in ScalarKinds : Rank("write") < Rank(k)
  BY DEF Rank, ScalarKinds
<1> HIDE DEF f
<1>3. \A k \in {"boundary"} \cup (IF ASYNC THEN {"inner"} ELSE {}) \cup ScalarKinds :
        Pos(f("write")) < Pos(f(k))
  BY <1>1, <1>2, Order
<1> QED BY <1>1, <1>3

(* What a link command waits for are commands of the link, those of its    *)
(* own round called before it and those of the round before after it.      *)
LEMMA Needs ==
    ASSUME method \in [Links -> Methods], NEW l \in Links, NEW k \in EventKinds, Uses(k, l)
    PROVE  /\ \A j \in NeedsNow(k, l) :
                /\ j \in EventKinds /\ j \in MainKinds /\ Uses(j, l) /\ j # k
                /\ Turn(j, l) <= Turn(k, l)
           /\ \A j \in NeedsBefore(k, l) :
                /\ j \in EventKinds /\ j \in MainKinds /\ Uses(j, l) /\ j # k
                /\ Turn(j, l) >= Turn(k, l)
<1>1. method[l] \in {"OclCopy", "AsyncOclCopy", "DirectGMA"}
  BY DEF Methods, StandardMethod
<1>2. /\ k \in {"load", "transfer", "back", "dump"}
      /\ k = "transfer" => method[l] # "OclCopy"
      /\ k = "back" => method[l] = "AsyncOclCopy"
  BY LinkType DEF EventKinds, Uses
<1>3. \A j \in NeedsNow(k, l) : j \in EventKinds /\ j \in MainKinds /\ Uses(j, l) /\ j # k
  BY <1>1, <1>2, LinkType DEF NeedsNow, Uses, EventKinds, MainKinds
<1>4. \A j \in NeedsBefore(k, l) : j \in EventKinds /\ j \in MainKinds /\ Uses(j, l) /\ j # k
  BY <1>1, <1>2, LinkType DEF NeedsBefore, Uses, EventKinds, MainKinds
<1>5. \A j \in NeedsNow(k, l) : Turn(j, l) <= Turn(k, l)
  BY <1>2, LinkTurns DEF NeedsNow, EventKinds
<1>6. \A j \in NeedsBefore(k, l) : Turn(j, l) >= Turn(k, l)
  BY <1>2, LinkTurns DEF NeedsBefore, EventKinds
<1> QED BY <1>3, <1>4, <1>5, <1>6

-----------------------------------------------------------------------------
(***************************************************************************)
(* The devices                                                             *)
(***************************************************************************)
(* The next command of a queue.                                            *)
LEMMA HeadOf ==
    ASSUME NEW CONSTANT F, Queued(F), NEW q \in Queues, Ready(q), NEW c, c = NextCommand(q)
    PROVE  /\ c = Cmd(q, 1) /\ queue[q] # << >> /\ Head(queue[q]) = queue[q][1]
           /\ queue[q][1] \in Entries /\ Within(q, queue[q][1]) /\ EntryFits(q, queue[q][1])
           /\ c \in [kind : CommandKinds, at : Places, n : 1 .. MaxRounds]
           /\ c = Command(c.kind, c.at, c.n) /\ c.n \in Nat /\ c.n >= 1 /\ c.n <= round
           /\ QueueOf(c) = q
           /\ \/ Uses(c.kind, c.at) /\ c.kind \in MainKinds /\ (c.n = round => Called(c.kind, c.at))
              \/ c.kind \in ScalarKinds /\ c.at \in OwnPlaces
<1>1. /\ queue[q] # << >> /\ Head(queue[q]) = queue[q][1] /\ 1 \in 1 .. Len(queue[q])
      /\ queue[q][1] \in Entries
  BY QueueSteps DEF Ready, Queued, Types
<1>2. c = queue[q][1].cmd
  BY <1>1 DEF NextCommand
<1>3. Within(q, queue[q][1])
  BY <1>1 DEF Within
<1>4. EntryFits(q, queue[q][1])
  BY <1>1, <1>3 DEF Queued, Fits
<1>5. /\ c \in [kind : CommandKinds, at : Places, n : 1 .. MaxRounds]
      /\ c = Command(c.kind, c.at, c.n) /\ c.n \in Nat /\ c.n >= 1
  BY <1>1, <1>2, RoundAssumption DEF Entries, Command
<1>6. /\ QueueOf(c) = q /\ c.n <= round
      /\ \/ Uses(c.kind, c.at) /\ (c.n = round => Called(c.kind, c.at))
         \/ c.kind \in ScalarKinds /\ c.at \in OwnPlaces
  BY <1>2, <1>4 DEF EntryFits
<1> QED BY <1>1, <1>2, <1>3, <1>4, <1>5, <1>6, ScalarApart DEF Cmd

(* A command of a link that may be executed is the next of its kind, and   *)
(* what it waits for has been executed.                                    *)
LEMMA LinkHead ==
    ASSUME NEW CONSTANT F, Queued(F), InTurn(F), NEW q \in Queues, Ready(q),
           NEW c, c = NextCommand(q), c.kind \in EventKinds
    PROVE  /\ c.at \in Links /\ Uses(c.kind, c.at)
           /\ F[c.kind][c.at] = c.n - 1
           /\ \A j \in NeedsNow(c.kind, c.at) : F[j][c.at] >= c.n
           /\ \A j \in NeedsBefore(c.kind, c.at) : F[j][c.at] >= c.n - 1
           /\ \A k \in EventKinds : Uses(k, c.at) => F[k][c.at] \in Nat
<1> DEFINE k == c.kind
           l == c.at
           n == c.n
<1>1. /\ c = Cmd(q, 1) /\ queue[q] # << >> /\ Head(queue[q]) = queue[q][1]
      /\ EntryFits(q, queue[q][1]) /\ c = Command(k, l, n) /\ n \in Nat /\ n >= 1 /\ n <= round
      /\ n \in 1 .. MaxRounds /\ l \in Places /\ QueueOf(c) = q
  BY HeadOf
<1>2. Uses(k, l) /\ (n = round => Called(k, l))
  BY HeadOf DEF EventKinds, ScalarKinds
<1>3. l \in Links /\ k \in MainKinds
  BY <1>2, LinkType DEF Uses, EventKinds, MainKinds
<1>4. method \in [Links -> Methods] /\ round \in Nat /\ pc \in Nat
  BY ProgramLength, RoundAssumption, GridAssumption DEF Queued, Types
<1>5. \A j \in MainKinds : Uses(j, l) => F[j][l] \in Nat
  BY <1>1 DEF Queued, Types
<1>6. F[k][l] = n - 1
  <2>1. StreamQueue(k, l) = q
    BY <1>1, <1>2, <1>3, <1>4, StreamQueues
  <2>2. Turn(k, l) \in Nat
    BY <1>3, LinkTurns
  <2> QED BY <1>1, <1>2, <1>3, <2>1, <2>2, AtHead
<1>7. WaitsRight(queue[q][1]) /\ queue[q][1].cmd = c
  BY <1>1 DEF EntryFits, Cmd
<1>8. \A d \in queue[q][1].waits : ~Pending(d)
  BY <1>1 DEF Ready
<1> HIDE DEF k, l, n
<1>9. ASSUME NEW j \in NeedsNow(k, l)
      PROVE  F[j][l] >= n
  <2>1. j \in MainKinds /\ Uses(j, l) /\ Turn(j, l) <= Turn(k, l)
    BY <1>2, <1>3, <1>4, Needs DEF k
  <2>2. ~Pend(j, l, n)
    BY <1>7, <1>8 DEF WaitsRight, k, l, n, Pend
  <2>3. Pend(j, l, n) <=> F[j][l] < n /\ n <= Last(j, l)
    BY <1>1, <2>1 DEF Queued, Counted
  <2>4. n <= Last(j, l)
    <3>1. Turn(j, l) \in Nat /\ Turn(k, l) \in Nat
      BY <1>3, <2>1, LinkTurns, Needs, <1>2, <1>4 DEF k
    <3> QED BY <1>1, <1>2, <1>4, <2>1, <3>1 DEF Last, Called
  <2> QED BY <1>1, <1>5, <2>1, <2>2, <2>3, <2>4
<1>10. ASSUME NEW j \in NeedsBefore(k, l)
       PROVE  F[j][l] >= n - 1
  <2>1. j \in MainKinds /\ Uses(j, l)
    BY <1>2, <1>3, <1>4, Needs DEF k
  <2>2. CASE n = 1
    BY <1>5, <2>1, <2>2
  <2>3. CASE n > 1
    <3>1. ~Pend(j, l, n - 1)
      BY <1>7, <1>8, <2>3 DEF WaitsRight, k, l, n, Pend
    <3>2. n - 1 \in 1 .. MaxRounds
      BY <1>1, <2>3, RoundAssumption
    <3>3. Pend(j, l, n - 1) <=> F[j][l] < n - 1 /\ n - 1 <= Last(j, l)
      BY <1>1, <2>1, <3>2 DEF Queued, Counted
    <3>4. n - 1 <= Last(j, l)
      BY <1>1, <1>4 DEF Last
    <3> QED BY <1>1, <1>5, <2>1, <3>1, <3>3, <3>4
  <2> QED BY <1>1, <2>2, <2>3
<1>11. EventKinds \subseteq MainKinds
  BY DEF EventKinds, MainKinds
<1> QED BY <1>2, <1>3, <1>5, <1>6, <1>9, <1>10, <1>11 DEF k, l, n

(* The commands of a link are never more than one round apart.             *)
LEMMA LinkCounts ==
    ASSUME NEW CONSTANT F, Queued(F), InTurn(F), NEW l \in Links
    PROVE  /\ method[l] \in {"OclCopy", "AsyncOclCopy", "DirectGMA"}
           /\ F["load"][l] \in Nat /\ F["dump"][l] \in Nat
           /\ F["transfer"][l] \in Nat /\ F["back"][l] \in Nat
           /\ method[l] = "OclCopy" =>
                 /\ F["dump"][l] <= F["load"][l] /\ F["load"][l] <= F["dump"][l] + 1
           /\ method[l] # "OclCopy" =>
                 /\ F["transfer"][l] <= F["load"][l] /\ F["load"][l] <= F["transfer"][l] + 1
                 /\ F["dump"][l] <= F["transfer"][l] /\ F["transfer"][l] <= F["dump"][l] + 1
           /\ method[l] = "AsyncOclCopy" =>
                 /\ F["back"][l] <= F["transfer"][l] /\ F["load"][l] <= F["back"][l] + 1
<1>1. method[l] \in {"OclCopy", "AsyncOclCopy", "DirectGMA"}
  BY DEF Queued, Types, Methods, StandardMethod
<1>2. l \in Places
  BY DEF Places
<1>3. \A k \in {"load", "dump", "transfer", "back"} : F[k][l] \in Nat
  BY <1>2 DEF Queued, Types, MainKinds
<1>4. Uses("load", l) /\ Uses("dump", l)
  BY DEF Uses
<1>5. (method[l] # "OclCopy" => Uses("transfer", l)) /\ (method[l] = "AsyncOclCopy" => Uses("back", l))
  BY DEF Uses
<1>6. \A k \in EventKinds : Uses(k, l) =>
        /\ \A j \in NeedsNow(k, l) : F[k][l] <= F[j][l]
        /\ \A j \in NeedsBefore(k, l) : F[k][l] <= F[j][l] + 1
  BY DEF InTurn
<1>7. CASE method[l] = "OclCopy"
  <2>1. "load" \in NeedsNow("dump", l) /\ "dump" \in NeedsBefore("load", l)
    BY <1>7 DEF NeedsNow, NeedsBefore
  <2> QED BY <1>1, <1>3, <1>4, <1>6, <1>7, <2>1 DEF EventKinds
<1>8. CASE method[l] # "OclCopy"
  <2>1. /\ "transfer" \in NeedsNow("dump", l) /\ "transfer" \in NeedsBefore("load", l)
        /\ "load" \in NeedsNow("transfer", l) /\ "dump" \in NeedsBefore("transfer", l)
        /\ "transfer" \in NeedsNow("back", l)
        /\ method[l] = "AsyncOclCopy" => "back" \in NeedsBefore("load", l)
    BY <1>8 DEF NeedsNow, NeedsBefore
  <2>2. /\ F["transfer"][l] <= F["load"][l] /\ F["transfer"][l] <= F["dump"][l] + 1
    BY <1>5, <1>6, <1>8, <2>1 DEF EventKinds
  <2>3. F["load"][l] <= F["transfer"][l] + 1 /\ F["dump"][l] <= F["transfer"][l]
    BY <1>4, <1>6, <1>8, <2>1 DEF EventKinds
  <2>4. method[l] = "AsyncOclCopy" => F["back"][l] <= F["transfer"][l] /\ F["load"][l] <= F["back"][l] + 1
    BY <1>4, <1>5, <1>6, <1>8, <2>1 DEF EventKinds
  <2> QED BY <1>1, <1>3, <1>8, <2>2, <2>3, <2>4
<1> QED BY <1>7, <1>8

(* A command of a device is in the queue of the device.                    *)
LEMMA OwnQueue ==
    ASSUME NEW F, Queued(F), NEW q \in Queues, Ready(q), NEW c, c = NextCommand(q),
           c.kind \in Kernels \cup {"map", "unmap"}
    PROVE  /\ c.at \in OwnPlaces /\ c.at.from \in Devices /\ c.at = Own(c.at.from)
           /\ c.at.to = c.at.from
           /\ q = DeviceQueue(c.at.from)
           /\ c.kind \in {"write", "boundary"} \/ (c.kind = "inner" /\ ASYNC) \/ c.kind \in ScalarKinds
<1>1. /\ QueueOf(c) = q
      /\ Uses(c.kind, c.at) \/ (c.kind \in ScalarKinds /\ c.at \in OwnPlaces)
  BY HeadOf
<1>2. /\ c.at \in OwnPlaces
      /\ c.kind \in {"write", "boundary"} \/ (c.kind = "inner" /\ ASYNC) \/ c.kind \in ScalarKinds
  BY <1>1 DEF Uses, Kernels, ScalarKinds
<1>3. PICK d \in Devices : c.at = Own(d)
  BY <1>2 DEF OwnPlaces
<1>4. c.at.from = d /\ c.at.to = d
  BY <1>3 DEF Own
<1>5. QueueOf(c) = DeviceQueue(c.at.from)
  BY DEF QueueOf, Kernels
<1> QED BY <1>1, <1>2, <1>3, <1>4, <1>5

(* What a command reads of the field is of the round of the command.       *)
LEMMA MainIsOfTheRound ==
    ASSUME NEW CONSTANT F, Queued(F), InTurn(F), Contents(F), NEW q \in Queues, Ready(q),
           NEW c, c = NextCommand(q), c.kind \in {"load", "inner", "boundary", "reduce", "use"}
    PROVE  c.at.from \in Devices /\ content[Main(c.at.from)] = c.n
<1> DEFINE d == c.at.from
<1>1. /\ c = Cmd(q, 1) /\ queue[q] # << >> /\ QueueOf(c) = q
      /\ c.at \in Places
  BY HeadOf
<1>2. c.kind # "load" => /\ d \in Devices /\ c.at = Own(d) /\ q = DeviceQueue(d)
                         /\ c.kind \in {"boundary", "reduce", "use"} \/ (c.kind = "inner" /\ ASYNC)
  BY OwnQueue DEF Kernels, ScalarKinds
<1>3. c.kind = "load" => c.at \in Links /\ d \in Devices /\ q = DeviceQueue(d)
  <2>1. c.kind = "load" => c.at \in Links
    BY LinkHead DEF EventKinds
  <2>2. c.kind = "load" => q = DeviceQueue(d)
    BY <1>1 DEF QueueOf
  <2> QED BY <2>1, <2>2, LinkType
<1>4. d \in Devices /\ q = DeviceQueue(d)
  BY <1>2, <1>3
<1>5. /\ "write" \in MainKinds /\ Own(d) \in Places /\ Uses("write", Own(d))
      /\ StreamQueue("write", Own(d)) = q
  BY <1>4 DEF MainKinds, Places, OwnPlaces, Uses, StreamQueue, QueueOf, Command, Own
<1>6. Turn("write", Own(d)) < Turn(c.kind, c.at)
  <2>1. CASE c.kind = "load"
    BY <1>3, <2>1, LinkTurns
  <2>2. CASE c.kind # "load"
    BY <1>2, <2>2, DeviceTurns DEF ScalarKinds
  <2> QED BY <2>1, <2>2
<1>7. F["write"][Own(d)] = c.n
  BY <1>1, <1>5, <1>6, AtHead
<1> QED BY <1>4, <1>7 DEF Contents

(* The halos a kernel reads are of the round of the kernel.                *)
LEMMA HaloIsOfTheRound ==
    ASSUME NEW CONSTANT F, Queued(F), InTurn(F), Contents(F), NEW q \in Queues, Ready(q),
           NEW c, c = NextCommand(q), c.kind = "boundary", NEW l \in Links, l.to = c.at.to
    PROVE  content[Halo(l)] = c.n
<1> DEFINE d == c.at.from
<1>1. /\ c = Cmd(q, 1) /\ queue[q] # << >>
  BY HeadOf
<1>2. d \in Devices /\ c.at = Own(d) /\ q = DeviceQueue(d) /\ l.to = d
  BY OwnQueue DEF Kernels
<1>3. "dump" \in MainKinds /\ l \in Places /\ Uses("dump", l) /\ StreamQueue("dump", l) = q
  BY <1>2 DEF MainKinds, Places, Uses, StreamQueue, QueueOf, Command
<1>4. Turn("dump", l) < Turn(c.kind, c.at)
  BY <1>2, LinkTurns
<1>5. F["dump"][l] = c.n
  BY <1>1, <1>3, <1>4, AtHead
<1> QED BY <1>5 DEF Contents

(* What a command writes is of the round of the command, too.              *)
LEMMA Results ==
    ASSUME NEW CONSTANT F, Queued(F), InTurn(F), Contents(F), NEW q \in Queues, Ready(q),
           NEW c, c = NextCommand(q), c.kind \in {"write", "load", "transfer", "dump", "reduce"}
    PROVE  Result(c) = c.n
<1>1. CASE c.kind = "write"
  BY <1>1 DEF Result
<1>2. CASE c.kind \in {"load", "reduce"}
  BY <1>2, MainIsOfTheRound DEF Result
<1>3. ASSUME c.kind \in {"transfer", "dump"}
      PROVE  Result(c) = c.n
  <2> DEFINE l == c.at
             n == c.n
  <2>1. /\ l \in Links /\ F[c.kind][l] = n - 1 /\ Uses(c.kind, l)
        /\ \A j \in NeedsNow(c.kind, l) : F[j][l] >= n
    BY <1>3, LinkHead DEF EventKinds
  <2>2. n \in Nat
    BY HeadOf
  <2>3. /\ method[l] # "OclCopy" => content[DestCache(l)] = F["transfer"][l]
        /\ method[l] # "AsyncOclCopy" \/ F["back"][l] < F["load"][l] =>
              content[SrcCache(l)] = F["load"][l]
    BY <2>1 DEF Contents
  <2> HIDE DEF l, n
  <2>4. CASE c.kind = "transfer"
    <3>1. F["load"][l] >= n /\ F["transfer"][l] = n - 1
      BY <2>1, <2>4 DEF NeedsNow
    <3>2. method[l] # "OclCopy"
      BY <2>1, <2>4, LinkType DEF Uses
    <3>3. F["load"][l] = n /\ (method[l] = "AsyncOclCopy" => F["back"][l] < F["load"][l])
      BY <2>1, <2>2, <3>1, <3>2, LinkCounts
    <3> QED BY <2>3, <2>4, <3>3 DEF Result, l, n
  <2>5. CASE c.kind = "dump" /\ method[l] = "OclCopy"
    <3>1. F["load"][l] >= n /\ F["dump"][l] = n - 1
      BY <2>1, <2>5 DEF NeedsNow
    <3>2. F["load"][l] = n
      BY <2>1, <2>2, <2>5, <3>1, LinkCounts
    <3> QED BY <2>3, <2>5, <3>2 DEF Result, DumpedFrom, l, n
  <2>6. CASE c.kind = "dump" /\ method[l] # "OclCopy"
    <3>1. F["transfer"][l] >= n /\ F["dump"][l] = n - 1
      BY <2>1, <2>6 DEF NeedsNow
    <3>2. F["transfer"][l] = n
      BY <2>1, <2>2, <2>6, <3>1, LinkCounts
    <3> QED BY <2>3, <2>6, <3>2 DEF Result, DumpedFrom, l, n
  <2> QED BY <1>3, <2>4, <2>5, <2>6
<1> QED BY <1>1, <1>2, <1>3

(* One device executes one command: the commands of a link stay in turn.   *)
LEMMA TurnsKept ==
    ASSUME NEW CONSTANT F, NEW CONSTANT G, NEW CONSTANT q \in Queues, Queued(F), InTurn(F), Ready(q),
           NEW CONSTANT c, c = NextCommand(q),
           OneMore(F, G, c)
    PROVE  InTurn(G)
<1> SUFFICES ASSUME NEW l \in Links, NEW k \in EventKinds, Uses(k, l)
             PROVE  /\ \A j \in NeedsNow(k, l) : G[k][l] <= G[j][l]
                    /\ \A j \in NeedsBefore(k, l) : G[k][l] <= G[j][l] + 1
  BY DEF InTurn
<1>1. l \in Places /\ k \in MainKinds
  BY DEF Places, EventKinds, MainKinds
<1>2. /\ \A j \in NeedsNow(k, l) : j \in MainKinds /\ Uses(j, l) /\ j # k
      /\ \A j \in NeedsBefore(k, l) : j \in MainKinds /\ Uses(j, l) /\ j # k
  BY Needs DEF Queued, Types
<1>3. \A j \in MainKinds : F[j][l] \in Nat
  BY <1>1 DEF Queued, Types
<1>4. /\ \A j \in NeedsNow(k, l) : F[k][l] <= F[j][l]
      /\ \A j \in NeedsBefore(k, l) : F[k][l] <= F[j][l] + 1
  BY DEF InTurn
<1>5. \A j \in MainKinds : Uses(j, l) => G[j][l] = F[j][l] \/ G[j][l] = F[j][l] + 1
  BY <1>1 DEF OneMore
<1>6. CASE k = c.kind /\ l = c.at
  <2>1. /\ F[k][l] = c.n - 1 /\ c.n \in Nat
        /\ \A j \in NeedsNow(k, l) : F[j][l] >= c.n
        /\ \A j \in NeedsBefore(k, l) : F[j][l] >= c.n - 1
    BY <1>6, LinkHead, HeadOf
  <2>2. G[k][l] = c.n
    BY <1>1, <1>6, <2>1 DEF OneMore
  <2> QED BY <1>2, <1>3, <1>5, <2>1, <2>2
<1>7. CASE ~(k = c.kind /\ l = c.at)
  <2>1. G[k][l] = F[k][l]
    BY <1>1, <1>7 DEF OneMore
  <2> QED BY <1>1, <1>2, <1>3, <1>4, <1>5, <2>1
<1> QED BY <1>6, <1>7

(* Where a command writes.                                                 *)
LEMMA WritesOf ==
    ASSUME NEW c, c.kind \in CommandKinds
    PROVE  /\ \A d : Main(d) \in Writes(c) <=> c.kind = "write" /\ d = c.at.from
           /\ \A d : Scalar(d) \in Writes(c) <=> c.kind = "reduce" /\ d = c.at.from
           /\ \A l : Halo(l) \in Writes(c) <=> c.kind = "dump" /\ l = c.at
           /\ \A l : SrcCache(l) \in Writes(c) <=> c.kind \in {"load", "back"} /\ l = c.at
           /\ \A l : DestCache(l) \in Writes(c) <=> c.kind = "transfer" /\ l = c.at
<1>1. \A d, e : Own(d) = Own(e) <=> d = e
  BY DEF Own
<1>2. c.kind \in {"write", "load", "back", "transfer", "dump", "reduce",
                  "inner", "boundary", "use", "map", "unmap"}
  BY DEF CommandKinds, EventKinds, Kernels
<1> QED BY <1>1, <1>2 DEF Writes, Main, Scalar, Halo, SrcCache, DestCache

(* The buffers hold what the counts say.                                   *)
LEMMA ContentsKept ==
    ASSUME NEW CONSTANT F, NEW CONSTANT G, NEW CONSTANT q \in Queues, Queued(F), InTurn(F), Contents(F),
           Ready(q), NEW CONSTANT c, c = NextCommand(q), UNCHANGED method,
           content' = [b \in Buffers |-> IF b \in Writes(c) THEN Result(c) ELSE content[b]],
           OneMore(F, G, c)
    PROVE  Contents(G)'
<1>0. /\ c.kind \in CommandKinds /\ c.n \in Nat
      /\ c.kind = "write" => c.at = Own(c.at.from) /\ c.at.from \in Devices
  BY HeadOf, OwnQueue DEF Kernels
<1>1. ASSUME NEW d \in Devices
      PROVE  content'[Main(d)] = G["write"][Own(d)]
  <2>1. Main(d) \in Buffers
    BY DEF Main, Buffers, OwnPlaces
  <2>2. content[Main(d)] = F["write"][Own(d)]
    BY DEF Contents
  <2>3. Main(d) \in Writes(c) <=> c.kind = "write" /\ d = c.at.from
    BY <1>0, WritesOf
  <2>4. "write" \in MainKinds /\ Own(d) \in Places /\ Uses("write", Own(d))
    BY DEF MainKinds, Places, OwnPlaces, Uses
  <2>5. CASE c.kind = "write" /\ d = c.at.from
    <3>1. F["write"][Own(d)] = c.n - 1
      <4>1. /\ c = Cmd(q, 1) /\ queue[q] # << >> /\ QueueOf(c) = q
        BY HeadOf
      <4>2. StreamQueue("write", Own(d)) = q
        BY <1>0, <2>5, OwnQueue DEF StreamQueue, QueueOf, Command, Own, Kernels
      <4>3. c.at = Own(d)
        BY <1>0, <2>5
      <4>4. Turn("write", Own(d)) \in Nat
        BY <2>4, CallsOfStreams, ProgramLength
      <4> QED BY <2>4, <2>5, <4>1, <4>2, <4>3, <4>4, AtHead
    <3>2. Result(c) = c.n
      BY <2>5, Results
    <3> QED BY <1>0, <2>1, <2>3, <2>4, <2>5, <3>1, <3>2 DEF OneMore
  <2>6. CASE ~(c.kind = "write" /\ d = c.at.from)
    <3>1. ~("write" = c.kind /\ Own(d) = c.at)
      BY <2>6 DEF Own
    <3> QED BY <2>1, <2>2, <2>3, <2>4, <2>6, <3>1 DEF OneMore
  <2> QED BY <2>5, <2>6
<1>2. ASSUME NEW l \in Links
      PROVE  /\ content'[Halo(l)] = G["dump"][l]
             /\ method[l] # "OclCopy" => content'[DestCache(l)] = G["transfer"][l]
             /\ method[l] # "AsyncOclCopy" \/ G["back"][l] < G["load"][l] =>
                   content'[SrcCache(l)] = G["load"][l]
  <2>1. Halo(l) \in Buffers /\ DestCache(l) \in Buffers /\ SrcCache(l) \in Buffers
    BY DEF Halo, DestCache, SrcCache, Buffers
  <2>2. /\ content[Halo(l)] = F["dump"][l]
        /\ method[l] # "OclCopy" => content[DestCache(l)] = F["transfer"][l]
        /\ method[l] # "AsyncOclCopy" \/ F["back"][l] < F["load"][l] =>
              content[SrcCache(l)] = F["load"][l]
    BY DEF Contents
  <2>3. /\ Halo(l) \in Writes(c) <=> c.kind = "dump" /\ l = c.at
        /\ SrcCache(l) \in Writes(c) <=> c.kind \in {"load", "back"} /\ l = c.at
        /\ DestCache(l) \in Writes(c) <=> c.kind = "transfer" /\ l = c.at
    BY <1>0, WritesOf
  <2>4. \A b \in Buffers : content'[b] = IF b \in Writes(c) THEN Result(c) ELSE content[b]
    OBVIOUS
  <2>5. \A k \in {"load", "dump", "transfer", "back"} : Uses(k, l) =>
            G[k][l] = IF k = c.kind /\ l = c.at THEN F[k][l] + 1 ELSE F[k][l]
    BY DEF MainKinds, Places, OneMore
  <2>6. /\ Uses("load", l) /\ Uses("dump", l)
        /\ method[l] # "OclCopy" => Uses("transfer", l)
        /\ method[l] = "AsyncOclCopy" => Uses("back", l)
    BY DEF Uses
  <2>7. c.kind \in {"load", "dump", "transfer", "back"} /\ l = c.at =>
            F[c.kind][l] = c.n - 1 /\ (c.kind # "back" => Result(c) = c.n)
    BY LinkHead, Results DEF EventKinds
  <2>8. content'[Halo(l)] = G["dump"][l]
    BY <1>0, <2>1, <2>2, <2>3, <2>4, <2>5, <2>6, <2>7
  <2>9. method[l] # "OclCopy" => content'[DestCache(l)] = G["transfer"][l]
    BY <1>0, <2>1, <2>2, <2>3, <2>4, <2>5, <2>6, <2>7
  <2>10. ASSUME method[l] # "AsyncOclCopy" \/ G["back"][l] < G["load"][l]
         PROVE  content'[SrcCache(l)] = G["load"][l]
    <3>1. CASE c.kind = "load" /\ l = c.at
      BY <1>0, <2>1, <2>3, <2>4, <2>5, <2>6, <2>7, <3>1
    <3>2. CASE c.kind = "back" /\ l = c.at
      <4>1. method[l] = "AsyncOclCopy" /\ F["back"][l] = c.n - 1
        BY <3>2, LinkHead, LinkType DEF EventKinds, Uses
      <4>2. F["load"][l] <= F["back"][l] + 1 /\ F["load"][l] \in Nat
        BY <4>1, LinkCounts
      <4>3. G["back"][l] = F["back"][l] + 1 /\ G["load"][l] = F["load"][l]
        BY <2>5, <2>6, <3>2, <4>1
      <4> QED BY <1>0, <2>10, <4>1, <4>2, <4>3
    <3>3. CASE ~(c.kind \in {"load", "back"} /\ l = c.at)
      <4>1. G["load"][l] = F["load"][l] /\ (method[l] = "AsyncOclCopy" => G["back"][l] = F["back"][l])
        BY <2>5, <2>6, <3>3
      <4>2. content'[SrcCache(l)] = content[SrcCache(l)]
        BY <2>1, <2>3, <2>4, <3>3
      <4> QED BY <2>2, <2>10, <4>1, <4>2
    <3> QED BY <3>1, <3>2, <3>3
  <2> QED BY <2>8, <2>9, <2>10
<1> QED BY <1>1, <1>2 DEF Contents, Main, Halo, SrcCache, DestCache

(* The scalars are in the state the place of the host asks for.            *)
LEMMA ScalarsKept ==
    ASSUME NEW CONSTANT F, NEW CONSTANT q \in Queues, Queued(F), InTurn(F), Contents(F), Scalars,
           Ready(q), NEW CONSTANT c, c = NextCommand(q), UNCHANGED <<pc, round>>,
           content' = [b \in Buffers |-> IF b \in Writes(c) THEN Result(c) ELSE content[b]],
           queue' = [queue EXCEPT ![q] = Tail(@)]
    PROVE  Scalars'
<1> SUFFICES ASSUME NEW CONSTANT d \in Devices
             PROVE  ScalarAt(d, queue'[DeviceQueue(d)], content'[Scalar(d)], pc, round)
  BY DEF Scalars, DeviceQueue, Scalar
<1> DEFINE s == queue[DeviceQueue(d)]
           v == content[Scalar(d)]
           w == content'[Scalar(d)]
<1>1. /\ DeviceQueue(d) \in Queues /\ Scalar(d) \in Buffers
      /\ s \in Seq(Entries) /\ pc \in Nat /\ round \in Nat
  <2>1. DeviceQueue(d) \in Queues /\ Scalar(d) \in Buffers
    BY DeviceQueueIs DEF Scalar, Buffers, OwnPlaces
  <2> QED BY <2>1, ProgramLength, RoundAssumption, GridAssumption DEF Queued, Types
<1>2. ScalarAt(d, s, v, pc, round)
  BY DEF Scalars
<1>3. c.kind \in CommandKinds /\ c = queue[q][1].cmd /\ queue[q] # << >>
  BY HeadOf DEF Cmd
<1>4. w = IF c.kind = "reduce" /\ d = c.at.from THEN Result(c) ELSE v
  BY <1>1, <1>3, WritesOf
<1>5. c.kind = "reduce" => q = DeviceQueue(c.at.from) /\ Result(c) = c.n
  BY OwnQueue, Results DEF Kernels
<1>6. CASE q = DeviceQueue(d)
  <2>1. queue'[DeviceQueue(d)] = Tail(s) /\ s # << >>
    BY <1>1, <1>3, <1>6 DEF Queued, Types
  <2>2. s[1].cmd.kind # "reduce" => w = v
    BY <1>3, <1>4, <1>6
  <2>3. s[1].cmd = Command("reduce", Own(d), round) => w = round
    <3> SUFFICES ASSUME c = Command("reduce", Own(d), round)
                 PROVE  w = round
      BY <1>3, <1>6
    <3>1. c.kind = "reduce" /\ c.at.from = d /\ c.n = round
      BY DEF Command, Own
    <3> QED BY <1>4, <1>5, <3>1
  <2> HIDE DEF s, v, w
  <2>4. ScalarAt(d, Tail(s), w, pc, round)
    BY <1>1, <1>2, <2>1, <2>2, <2>3, ScalarTaken
  <2> QED BY <2>1, <2>4 DEF w
<1>7. CASE q # DeviceQueue(d)
  <2>1. queue'[DeviceQueue(d)] = s
    BY <1>1, <1>7 DEF Queued, Types
  <2>2. w = v
    BY <1>4, <1>5, <1>7
  <2> QED BY <1>2, <2>1, <2>2
<1> QED BY <1>6, <1>7

(* The types are kept.                                                     *)
LEMMA SoundKept ==
    ASSUME NEW CONSTANT F, NEW CONSTANT q \in Queues, Queued(F), InTurn(F), Contents(F), Sound,
           Execute(q)
    PROVE  Sound'
<1>1. PICK c : c = NextCommand(q)
  OBVIOUS
<1>2. Ready(q) /\ queue[q] # << >> /\ c.kind \in CommandKinds /\ c.n \in 1 .. MaxRounds
  BY <1>1, HeadOf DEF Execute
<1>3. \A b \in Writes(c) : Result(c) \in Versions
  <2>1. CASE c.kind \in {"write", "load", "transfer", "dump", "reduce"}
    <3>1. Result(c) = c.n
      BY <1>1, <1>2, <2>1, Results
    <3> QED BY <1>2, <3>1, RoundAssumption DEF Versions, Undefined, Sum
  <2>2. CASE c.kind = "back"
    BY <2>2, RoundAssumption DEF Result, Versions, Undefined, Sum
  <2>3. CASE c.kind \in {"inner", "boundary", "use", "map", "unmap"}
    BY <2>3 DEF Writes
  <2> QED BY <1>2, <2>1, <2>2, <2>3 DEF CommandKinds, EventKinds, Kernels
<1>4. content' \in [Buffers -> Versions]
  BY <1>1, <1>3 DEF Execute, Sound
<1>5. /\ queue[q] \in Seq(Entries) /\ queue'[q] = Tail(queue[q])
      /\ \A r \in Queues : r # q => queue'[r] = queue[r] /\ submitted'[r] = submitted[r]
      /\ submitted'[q] = IF submitted[q] > 0 THEN submitted[q] - 1 ELSE 0
      /\ submitted' \in [Queues -> Nat]
  BY DEF Execute, Queued, Types, Sound
<1>6. Len(queue'[q]) = Len(queue[q]) - 1 /\ Len(queue[q]) \in Nat /\ Len(queue[q]) > 0
  BY <1>2, <1>5, QueueSteps
<1>7. \A r \in Queues : submitted'[r] <= Len(queue'[r])
  <2>1. \A r \in Queues : submitted[r] \in Nat /\ submitted[r] <= Len(queue[r])
    BY DEF Sound
  <2>2. submitted'[q] <= Len(queue'[q])
    BY <1>5, <1>6, <2>1
  <2> QED BY <1>5, <2>1, <2>2
<1> QED BY <1>4, <1>5, <1>7 DEF Sound, Execute

(* A step of a device keeps all of it.                                     *)
LEMMA DeviceRight ==
    ASSUME NEW CONSTANT F, Right(F), NEW CONSTANT q \in Queues, Execute(q),
           NEW CONSTANT c, c = NextCommand(q), NEW CONSTANT G, G = After(F, c)
    PROVE  Right(G)' /\ OneMore(F, G, c)
<1>1. /\ Queued(F) /\ EventsRight /\ InTurn(F) /\ Contents(F) /\ Scalars /\ Sound
      /\ Ready(q) /\ UNCHANGED <<method, event, pc, round>>
      /\ content' = [b \in Buffers |-> IF b \in Writes(c) THEN Result(c) ELSE content[b]]
      /\ queue' = [queue EXCEPT ![q] = Tail(@)]
  BY DEF Right, Execute
<1>2. queue[q] # << >> /\ c = Cmd(q, 1)
  BY <1>1, HeadOf
<1>3. /\ Queued(G)'
      /\ OneMore(F, G, c)
  <2>1. UNCHANGED <<method, pc, round>>
    BY <1>1
  <2>2. Queued(F) /\ queue' = [queue EXCEPT ![q] = Tail(@)] /\ G = After(F, c)
    BY <1>1
  <2> QED BY <1>2, <2>1, <2>2, DeviceStep, Zenon
<1>4. EventsRight'
  <2>1. \A k, l : (Uses(k, l)' <=> Uses(k, l)) /\ Last(k, l)' = Last(k, l)
    BY <1>1 DEF Uses, Last, Called
  <2> QED BY <1>1, <2>1 DEF EventsRight
<1>5. InTurn(G)'
  <2>1. InTurn(G)
    BY <1>1, <1>3, TurnsKept
  <2>2. \A k, l : /\ Uses(k, l)' <=> Uses(k, l)
                  /\ NeedsNow(k, l)' = NeedsNow(k, l) /\ NeedsBefore(k, l)' = NeedsBefore(k, l)
    BY <1>1 DEF Uses, NeedsNow, NeedsBefore
  <2> QED BY <2>1, <2>2 DEF InTurn
<1>6. Contents(G)'
  BY <1>1, <1>3, ContentsKept
<1>7. Scalars'
  BY <1>1, ScalarsKept
<1>8. Sound'
  BY <1>1, SoundKept
<1> QED BY <1>3, <1>4, <1>5, <1>6, <1>7, <1>8 DEF Right

-----------------------------------------------------------------------------
(***************************************************************************)
(* The host                                                                *)
(***************************************************************************)
(* A call that puts what belongs to it into the queues, and no other.      *)
PutsCommands ==
    \A q \in Queues : \/ queue'[q] = queue[q] /\ NothingNew(q)
                      \/ \E e \in Entries : queue'[q] = Append(queue[q], e) /\ NewEntry(q, e)

KeepsEvents ==
    \A l \in Links, k \in EventKinds :
        event'[l][k] = IF Uses(k, l) /\ CallOf(k, l) = Script[pc] THEN round ELSE event[l][k]

(* A call that keeps to the order of the script keeps all of it.           *)
LEMMA RightAfterCall ==
    ASSUME NEW CONSTANT F, Right(F), pc \in 1 .. Len(Script), Script[pc].call # "sum", pc' = pc + 1,
           UNCHANGED <<round, method>>, UNCHANGED content, queue' \in [Queues -> Seq(Entries)],
           PutsCommands, KeepsEvents, Sound'
    PROVE  Right(F)'
<1>0. /\ Queued(F) /\ EventsRight /\ InTurn(F) /\ Contents(F) /\ Scalars
      /\ round \in Nat /\ round' = round /\ method' = method
  BY RoundAssumption DEF Right, Queued, Types
<1>u. \A k, l : /\ Uses(k, l)' <=> Uses(k, l)
                /\ NeedsNow(k, l)' = NeedsNow(k, l) /\ NeedsBefore(k, l)' = NeedsBefore(k, l)
  BY <1>0 DEF Uses, NeedsNow, NeedsBefore
<1>1. Queued(F)'
  BY <1>0, HostCall DEF PutsCommands
<1>2. EventsRight'
  <2> SUFFICES ASSUME NEW l \in Links, NEW k \in EventKinds
               PROVE  event'[l][k] = IF Uses(k, l) THEN Last(k, l)' ELSE 0
    BY <1>u DEF EventsRight
  <2>1. event[l][k] = IF Uses(k, l) THEN Last(k, l) ELSE 0
    BY <1>0 DEF EventsRight
  <2>2. event'[l][k] = IF Uses(k, l) /\ CallOf(k, l) = Script[pc] THEN round ELSE event[l][k]
    BY DEF KeepsEvents
  <2>3. Uses(k, l) =>
           IF CallOf(k, l) = Script[pc] THEN Last(k, l)' = round ELSE Last(k, l)' = Last(k, l)
    BY <1>0, LastCalled DEF EventKinds, MainKinds, Places
  <2> QED BY <2>1, <2>2, <2>3
<1>3. InTurn(F)'
  BY <1>0, <1>u DEF InTurn
<1>4. Contents(F)'
  BY <1>0 DEF Contents, Main, Halo, SrcCache, DestCache
<1>5. Scalars'
  <2> SUFFICES ASSUME NEW CONSTANT d \in Devices
               PROVE  ScalarAt(d, queue'[DeviceQueue(d)], content[Scalar(d)], pc + 1, round)
    BY <1>0 DEF Scalars, DeviceQueue, Scalar
  <2> DEFINE q == DeviceQueue(d)
             v == content[Scalar(d)]
  <2>1. /\ q \in Queues /\ queue[q] \in Seq(Entries) /\ pc \in Nat
        /\ ScalarAt(d, queue[q], v, pc, round)
    BY <1>0, DeviceQueueIs, ProgramLength DEF Queued, Types, Scalars
  <2>2. pc # SumTurn
    BY ScalarOrder
  <2> HIDE DEF v
  <2>3. CASE queue'[q] = queue[q] /\ NothingNew(q)
    <3>1. \A k \in {"reduce", "map"} : StreamQueue(k, Own(d)) = q
      BY DEF StreamQueue, QueueOf, Command, Own
    <3>2. \A k \in {"reduce", "map"} : CallOf(k, Own(d)) # Script[pc]
      BY <2>3, <3>1 DEF NothingNew, ScalarKinds, OwnPlaces, Places
    <3>3. \A k \in {"reduce", "map"} : CallOf(k, Own(d)) \in AllCalls
      BY DEF CallOf, AllCalls, DeviceCalls, OwnPlaces
    <3>4. \A k \in {"reduce", "map"} : pc # Turn(k, Own(d))
      BY <3>2, <3>3, PosScript DEF Turn
    <3>5. ScalarAt(d, queue[q], v, pc + 1, round)
      BY <1>0, <2>1, <2>2, <3>4, ScalarKept
    <3> QED BY <2>3, <3>5 DEF v
  <2>4. ASSUME NEW e \in Entries, queue'[q] = Append(queue[q], e), NewEntry(q, e)
        PROVE  ScalarAt(d, queue'[q], v, pc + 1, round)
    <3> DEFINE c == e.cmd
    <3>2. /\ c \in [kind : CommandKinds, at : Places, n : Nat]
          /\ QueueOf(c) = q /\ c.n = round /\ CallOf(c.kind, c.at) = Script[pc]
          /\ Uses(c.kind, c.at) \/ (c.kind \in ScalarKinds /\ c.at \in OwnPlaces)
      BY <2>4 DEF NewEntry, Entries
    <3>3. CASE Uses(c.kind, c.at)
      <4>1. c.kind \in MainKinds /\ pc < EndOfProgram
        BY <3>2, <3>3, ScalarApart, TurnIsNow
      <4>2. ScalarAt(d, Append(queue[q], e), v, pc + 1, round)
        BY <1>0, <2>1, <4>1, ScalarAdded
      <4> QED BY <2>4, <4>2
    <3>4. CASE c.kind \in ScalarKinds /\ c.at \in OwnPlaces
      <4>1. c.at = Own(d)
        BY <3>2, <3>4, OwnScalars
      <4>2. pc = Turn(c.kind, Own(d))
        BY <3>2, <3>4, <4>1, TurnIsNow
      <4>3. c = Command(c.kind, Own(d), round)
        BY <3>2, <4>1 DEF Command
      <4>4. ScalarAt(d, Append(queue[q], e), v, pc + 1, round)
        BY <1>0, <2>1, <3>4, <4>2, <4>3, ScalarAdded
      <4> QED BY <2>4, <4>4
    <3> QED BY <3>2, <3>3, <3>4
  <2> QED BY <2>1, <2>3, <2>4 DEF PutsCommands, v
<1> QED BY <1>1, <1>2, <1>3, <1>4, <1>5 DEF Right

(* So does going on to another round, or waiting.                          *)
LEMMA RightAfterJump ==
    ASSUME NEW CONSTANT F, Right(F), pc >= EndOfProgram, UNCHANGED <<queue, method>>,
           UNCHANGED <<event, content>>,
           pc' = EndOfProgram \/ pc' > EndOfScript \/ pc' = 1,
           \/ round' = round /\ pc' \in EndOfProgram .. Done
           \/ round < MaxRounds /\ round' = round + 1 /\ pc' = 1,
           Sound'
    PROVE  Right(F)'
<1>0. /\ Queued(F) /\ EventsRight /\ InTurn(F) /\ Contents(F) /\ Scalars
      /\ queue' = queue /\ method' = method /\ event' = event /\ content' = content
  BY DEF Right
<1>u. \A k, l : /\ Uses(k, l)' <=> Uses(k, l)
                /\ NeedsNow(k, l)' = NeedsNow(k, l) /\ NeedsBefore(k, l)' = NeedsBefore(k, l)
  BY <1>0 DEF Uses, NeedsNow, NeedsBefore
<1>1. Queued(F)'
  BY <1>0, HostJump
<1>2. EventsRight'
  <2>1. \A l \in Links, k \in EventKinds : Uses(k, l) => Last(k, l)' = Last(k, l)
    BY <1>0, LastKept DEF Queued, EventKinds, MainKinds, Places
  <2> QED BY <1>0, <1>u, <2>1 DEF EventsRight
<1>3. InTurn(F)'
  BY <1>0, <1>u DEF InTurn
<1>4. Contents(F)'
  BY <1>0 DEF Contents, Main, Halo, SrcCache, DestCache
<1>5. Scalars'
  <2> SUFFICES ASSUME NEW CONSTANT d \in Devices
               PROVE  ScalarAt(d, queue[DeviceQueue(d)], content[Scalar(d)], pc', round')
    BY <1>0 DEF Scalars, DeviceQueue, Scalar
  <2>1. ScalarAt(d, queue[DeviceQueue(d)], content[Scalar(d)], pc, round)
    BY <1>0 DEF Scalars
  <2>2. pc' \in Nat /\ (pc' <= EndOfProgram \/ pc' > EndOfScript)
    <3>1. EndOfProgram \in Nat /\ EndOfProgram >= 1
      BY ProgramLength, ProgramSections, StartValues DEF EndOfProgram
    <3>2. EndOfScript \in Nat /\ Done \in Nat
      BY ScalarPlaces
    <3>3. pc' \in Nat
      BY <3>1, <3>2
    <3> QED BY <3>1, <3>2, <3>3
  <2> QED BY <2>1, <2>2, ScalarElsewhere
<1> QED BY <1>1, <1>2, <1>3, <1>4, <1>5 DEF Right

(* The next call, and which commands it concerns.                          *)
LEMMA NextCall ==
    ASSUME NEW F, Queued(F), NEW call, Calling(call)
    PROVE  /\ pc \in 1 .. Len(Script) /\ Script[pc] \in AllCalls /\ Script[pc].call = call
           /\ Place = Script[pc].at /\ Script[pc] = [call |-> call, at |-> Place]
           /\ pc' = pc + 1
<1>1. pc \in 1 .. Len(Script) /\ Script[pc].call = call /\ pc' = pc + 1
  BY ProgramLength, GridAssumption DEF Calling, At, Queued, Types
<1>2. Script[pc] \in AllCalls
  BY <1>1, ScriptPos
<1> QED BY <1>1, <1>2 DEF Place, AllCalls

(* The commands that are called by the next call.                          *)
LEMMA KindOfCall ==
    ASSUME Script[pc] \in AllCalls, NEW k \in MainKinds \cup ScalarKinds, NEW p
    PROVE  /\ CallOf(k, p) = Script[pc] <=>
                  p = Place /\ Script[pc].call = IF k = "back" THEN "transfer" ELSE k
           /\ k = "back" => CallOf(k, p) = CallOf("transfer", p)
<1>1. Script[pc] = [call |-> Script[pc].call, at |-> Script[pc].at]
  BY DEF AllCalls
<1> QED BY <1>1 DEF CallOf, Place

(* A call that concerns no command.                                        *)
LEMMA NothingToPut ==
    ASSUME Script[pc] \in AllCalls, queue' = queue, event' = event,
           \/ Script[pc].call \in {"flush", "end", "wait", "sum"}
           \/ Script[pc].call = "transfer" /\ method[Place] = "OclCopy"
    PROVE  PutsCommands /\ KeepsEvents
<1>1. ASSUME NEW k \in MainKinds \cup ScalarKinds, NEW p, CallOf(k, p) = Script[pc]
      PROVE  ~Uses(k, p) /\ k \notin ScalarKinds
  <2>1. p = Place /\ Script[pc].call = IF k = "back" THEN "transfer" ELSE k
    BY <1>1, KindOfCall
  <2>2. CASE Script[pc].call \in {"flush", "end", "wait", "sum"}
    <3>1. k \in {"flush", "end", "wait", "sum"}
      BY <2>1, <2>2
    <3> QED BY <1>1, <3>1 DEF MainKinds, ScalarKinds
  <2>3. CASE Script[pc].call = "transfer" /\ method[Place] = "OclCopy"
    <3>1. k \in {"transfer", "back"} /\ method[p] = "OclCopy"
      BY <2>1, <2>3
    <3> QED BY <3>1 DEF Uses, ScalarKinds
  <2> QED BY <2>2, <2>3
<1>2. PutsCommands
  BY <1>1 DEF PutsCommands, NothingNew
<1>3. KeepsEvents
  BY <1>1 DEF KeepsEvents, EventKinds, MainKinds
<1> QED BY <1>2, <1>3

(* A call that concerns one command.                                       *)
LEMMA OneToPut ==
    ASSUME NEW F, Queued(F), Script[pc] \in AllCalls,
           NEW k \in MainKinds \cup ScalarKinds, k \notin {"transfer", "back"} \/ method[Place] = "DirectGMA",
           k = Script[pc].call,
           Uses(k, Place) \/ (k \in ScalarKinds /\ Place \in OwnPlaces),
           NEW q \in Queues, q = StreamQueue(k, Place),
           NEW e \in Entries, NewEntry(q, e),
           queue' = [queue EXCEPT ![q] = Append(@, e)]
    PROVE  PutsCommands /\ queue' \in [Queues -> Seq(Entries)]
<1>1. queue \in [Queues -> Seq(Entries)]
  BY DEF Queued, Types
<1>2. queue' \in [Queues -> Seq(Entries)]
  <2>1. Append(queue[q], e) \in Seq(Entries)
    BY <1>1, QueueSteps
  <2> QED BY <1>1, <2>1
<1>3. ASSUME NEW r \in Queues, r # q
      PROVE  queue'[r] = queue[r] /\ NothingNew(r)
  <2> SUFFICES ASSUME NEW j \in MainKinds \cup ScalarKinds, NEW p \in Places,
                      Uses(j, p) \/ (j \in ScalarKinds /\ p \in OwnPlaces),
                      StreamQueue(j, p) = r, CallOf(j, p) = Script[pc]
               PROVE  FALSE
    BY <1>1, <1>3 DEF NothingNew
  <2>1. p = Place /\ Script[pc].call = IF j = "back" THEN "transfer" ELSE j
    BY KindOfCall
  <2>2. j # k
    BY <1>3, <2>1
  <2>3. j = "back" /\ k = "transfer" /\ method[Place] = "DirectGMA"
    BY <2>1, <2>2
  <2> QED BY <2>1, <2>3, LinkType DEF Uses, ScalarKinds
<1>4. queue'[q] = Append(queue[q], e)
  BY <1>1
<1> QED BY <1>2, <1>3, <1>4 DEF PutsCommands

(* The events of a link belong to commands of the link.                    *)
LEMMA EventsOf ==
    ASSUME Sound, NEW l \in Links, NEW S \in SUBSET EventKinds
    PROVE  /\ Events(l, S) \subseteq [kind : CommandKinds, at : Places, n : Nat]
           /\ \A k \in S : event[l][k] # 0 => Command(k, l, event[l][k]) \in Events(l, S)
<1>1. \A k \in EventKinds : event[l][k] \in Nat
  BY RoundAssumption DEF Sound
<1> QED BY <1>1 DEF Events, Command, CommandKinds, Places

(* A new command of a link waits for what it needs.                        *)
LEMMA LinkWaits ==
    ASSUME NEW F, Queued(F), EventsRight, Sound, NEW l \in Links, NEW k \in EventKinds,
           Uses(k, l), Turn(k, l) = pc, NEW S \in SUBSET EventKinds, NEW W, Events(l, S) \subseteq W,
           NeedsBefore(k, l) \subseteq S,
           \A j \in NeedsNow(k, l) : Command(j, l, round) \in W \/ (j \in S /\ Turn(j, l) < pc)
    PROVE  WaitsRight(Entry(k, l, W))
<1>1. /\ method \in [Links -> Methods] /\ round \in Nat /\ round >= 1 /\ pc \in Nat
  BY RoundAssumption, ProgramLength, GridAssumption DEF Queued, Types
<1>2. \A j \in EventKinds : Uses(j, l) => event[l][j] = Last(j, l) /\ Turn(j, l) \in Nat
  BY LinkTurns DEF EventsRight
<1>3. ASSUME NEW j \in NeedsNow(k, l)
      PROVE  Command(j, l, round) \in W
  <2>1. CASE j \in S /\ Turn(j, l) < pc
    <3>1. j \in EventKinds /\ Uses(j, l)
      BY <1>1, <1>3, Needs
    <3>2. event[l][j] = round
      BY <1>1, <1>2, <2>1, <3>1 DEF Last, Called
    <3> QED BY <1>1, <2>1, <3>2, EventsOf
  <2> QED BY <1>3, <2>1
<1>4. ASSUME NEW j \in NeedsBefore(k, l), round > 1
      PROVE  Command(j, l, round - 1) \in W
  <2>1. j \in EventKinds /\ Uses(j, l) /\ Turn(j, l) >= pc
    BY <1>1, <1>4, Needs
  <2>2. event[l][j] = round - 1
    BY <1>1, <1>2, <2>1 DEF Last, Called
  <2>3. round - 1 # 0
    BY <1>1, <1>4
  <2> QED BY <2>2, <2>3, EventsOf
<1> QED BY <1>3, <1>4 DEF WaitsRight, Entry, Command

(* What a call puts into a queue is what belongs there.                    *)
LEMMA EntryOfCall ==
    ASSUME NEW F, Queued(F), Script[pc] \in AllCalls,
           NEW k \in MainKinds \cup ScalarKinds, CallOf(k, Place) = Script[pc],
           Uses(k, Place) \/ (k \in ScalarKinds /\ Place \in OwnPlaces),
           NEW W \in SUBSET [kind : CommandKinds, at : Places, n : Nat],
           WaitsRight(Entry(k, Place, W))
    PROVE  /\ StreamQueue(k, Place) \in Queues /\ Entry(k, Place, W) \in Entries
           /\ NewEntry(StreamQueue(k, Place), Entry(k, Place, W))
<1> DEFINE e == Entry(k, Place, W)
<1>1. Place \in Places /\ k \in CommandKinds /\ round \in 1 .. MaxRounds
  BY DEF Queued, Types, Uses, Places, MainKinds, ScalarKinds, CommandKinds, EventKinds, Kernels
<1>2. e \in Entries /\ e.cmd.kind = k /\ e.cmd.at = Place /\ e.cmd.n = round
  BY <1>1 DEF Entry, Entries, Command
<1>3. StreamQueue(k, Place) \in Queues /\ QueueOf(Command(k, Place, round)) = StreamQueue(k, Place)
  <2>1. CASE Uses(k, Place)
    BY <2>1, <1>1, ScalarApart, StreamQueues DEF Queued, Types
  <2>2. CASE k \in ScalarKinds /\ Place \in OwnPlaces
    <3>1. /\ StreamQueue(k, Place) = DeviceQueue(Place.from)
          /\ QueueOf(Command(k, Place, round)) = DeviceQueue(Place.from)
      BY <2>2 DEF StreamQueue, QueueOf, Command, ScalarKinds
    <3>2. Place.from \in Devices
      BY <2>2 DEF OwnPlaces, Own
    <3> QED BY <3>1, <3>2, DeviceQueueIs
  <2> QED BY <2>1, <2>2
<1>4. e.cmd = Command(k, Place, round)
  BY DEF Entry
<1> HIDE DEF e
<1>5. NewEntry(StreamQueue(k, Place), e)
  BY <1>2, <1>3, <1>4 DEF NewEntry, e
<1> QED BY <1>2, <1>3, <1>5 DEF e

(* Enqueueing keeps the types.                                             *)
LEMMA SoundEnqueue ==
    ASSUME NEW F, Queued(F), Sound, NEW q \in Queues, NEW e \in Entries, NEW flushed \in BOOLEAN,
           Enqueue(q, e, flushed), UNCHANGED content,
           event' \in [Links -> [EventKinds -> 0 .. MaxRounds]]
    PROVE  Sound'
<1>1. /\ queue \in [Queues -> Seq(Entries)] /\ queue' = [queue EXCEPT ![q] = Append(@, e)]
      /\ submitted' = IF flushed THEN [submitted EXCEPT ![q] = Len(queue[q]) + 1] ELSE submitted
      /\ submitted \in [Queues -> Nat] /\ \A r \in Queues : submitted[r] <= Len(queue[r])
  BY DEF Queued, Types, Sound, Enqueue
<1>2. /\ Len(queue[q]) \in Nat /\ Len(queue'[q]) = Len(queue[q]) + 1
      /\ \A r \in Queues : r # q => queue'[r] = queue[r]
  BY <1>1, QueueSteps
<1>3. submitted' \in [Queues -> Nat]
  BY <1>1, <1>2
<1>4. \A r \in Queues : submitted'[r] <= Len(queue'[r])
  <2>1. submitted'[q] <= Len(queue'[q])
    <3>1. submitted[q] \in Nat /\ submitted[q] <= Len(queue[q])
      BY <1>1
    <3>2. submitted'[q] = Len(queue[q]) + 1 \/ submitted'[q] = submitted[q]
      BY <1>1
    <3> QED BY <1>2, <3>1, <3>2
  <2>2. \A r \in Queues : r # q => submitted'[r] = submitted[r]
    BY <1>1
  <2> QED BY <1>1, <1>2, <2>1, <2>2
<1> QED BY <1>3, <1>4 DEF Sound

(* The place a call is about.                                              *)
LEMMA PlaceOf ==
    ASSUME Script[pc] \in AllCalls
    PROVE  /\ Script[pc].call \in LinkCalls => Place \in Links
           /\ Script[pc].call \in {"write", "flush", "inner", "boundary", "reduce", "map", "unmap", "use"} =>
                  Place \in OwnPlaces
           /\ Script[pc].call = "inner" => ASYNC
  BY DEF AllCalls, LinkCalls, DeviceCalls, HostCalls, Place

(* Device::enqueue_kernel, Buffer::map.                                    *)
LEMMA RightEnqueueKernel ==
    ASSUME NEW CONSTANT F, Right(F), EnqueueKernel
    PROVE  Right(F)'
<1>1. PICK kind \in Kernels \cup {"map", "unmap"} :
        Calling(kind) /\ Enqueue(DeviceQueue(Place.from), Entry(kind, Place, {}), FALSE)
  BY DEF EnqueueKernel
<1>2. /\ Queued(F) /\ Sound /\ UNCHANGED <<round, method>> /\ UNCHANGED content /\ event' = event
  BY DEF Right, EnqueueKernel
<1>3. /\ pc \in 1 .. Len(Script) /\ Script[pc] \in AllCalls /\ Script[pc].call = kind
      /\ Script[pc] = [call |-> kind, at |-> Place] /\ pc' = pc + 1
  BY <1>1, <1>2, NextCall
<1>4. /\ Place \in OwnPlaces /\ kind \in MainKinds \cup ScalarKinds
      /\ Uses(kind, Place) \/ kind \in ScalarKinds
      /\ kind # "back" /\ kind \notin EventKinds /\ kind # "sum" /\ kind # "transfer"
  BY <1>3, PlaceOf DEF Kernels, MainKinds, ScalarKinds, EventKinds, Uses
<1> DEFINE e == Entry(kind, Place, {})
           q == StreamQueue(kind, Place)
<1>5. CallOf(kind, Place) = Script[pc]
  BY <1>3, <1>4 DEF CallOf
<1>6. WaitsRight(e)
  BY <1>4 DEF WaitsRight, Entry, Command
<1>7. q = DeviceQueue(Place.from)
  BY <1>4 DEF StreamQueue, QueueOf, Command, EventKinds
<1>8. q \in Queues /\ e \in Entries /\ NewEntry(q, e)
  BY <1>2, <1>3, <1>4, <1>5, <1>6, EntryOfCall
<1>9. Enqueue(q, e, FALSE)
  BY <1>1, <1>7
<1> HIDE DEF e, q
<1>10. queue' = [queue EXCEPT ![q] = Append(@, e)]
  BY <1>9 DEF Enqueue
<1>11. PutsCommands /\ queue' \in [Queues -> Seq(Entries)]
  <2>1. q = StreamQueue(kind, Place)
    BY DEF q
  <2>2. kind \notin {"transfer", "back"} /\ kind = Script[pc].call
    BY <1>3, <1>4
  <2> QED BY <1>2, <1>3, <1>4, <1>8, <1>10, <2>1, <2>2, OneToPut
<1>12. Sound'
  BY <1>2, <1>8, <1>9, SoundEnqueue DEF Sound
<1>13. KeepsEvents
  <2>1. \A k \in EventKinds, l \in Links : CallOf(k, l) # Script[pc]
    BY <1>3, <1>4 DEF CallOf, EventKinds
  <2> QED BY <1>2, <2>1 DEF KeepsEvents
<1>14. Script[pc].call # "sum"
  BY <1>3, <1>4
<1> QED BY <1>2, <1>3, <1>11, <1>12, <1>13, <1>14, RightAfterCall

(* The load and the dump of a link, and the transfer of DirectGMA.         *)
LEMMA RightLinkCall ==
    ASSUME NEW CONSTANT F, Right(F), NEW kind \in {"load", "dump", "transfer"}, Calling(kind),
           kind = "transfer" => method[Place] = "DirectGMA",
           NEW S \in SUBSET EventKinds, NeedsNow(kind, Place) \subseteq S, NeedsBefore(kind, Place) \subseteq S,
           NEW flushed \in BOOLEAN,
           Enqueue(StreamQueue(kind, Place), Entry(kind, Place, Events(Place, S)), flushed),
           event' = [event EXCEPT ![Place][kind] = round],
           UNCHANGED <<method, content, round>>
    PROVE  Right(F)'
<1>2. /\ Queued(F) /\ Sound /\ EventsRight /\ UNCHANGED <<round, method>> /\ UNCHANGED content
  BY DEF Right
<1>3. /\ pc \in 1 .. Len(Script) /\ Script[pc] \in AllCalls /\ Script[pc].call = kind
      /\ Script[pc] = [call |-> kind, at |-> Place] /\ pc' = pc + 1
  BY <1>2, NextCall
<1>4. /\ Place \in Links /\ Uses(kind, Place) /\ kind \in EventKinds /\ kind \in MainKinds
      /\ kind # "back" /\ Place \in Places
  BY <1>3, PlaceOf DEF LinkCalls, EventKinds, MainKinds, Uses, Places
<1>5. CallOf(kind, Place) = Script[pc]
  BY <1>3, <1>4 DEF CallOf
<1>6. Turn(kind, Place) = pc
  BY <1>3, <1>4, <1>5, TurnIsNow
<1> DEFINE e == Entry(kind, Place, Events(Place, S))
           q == StreamQueue(kind, Place)
<1>7. WaitsRight(e)
  <2>1. \A j \in NeedsNow(kind, Place) : j \in S /\ Turn(j, Place) < pc
    <3> SUFFICES ASSUME NEW j \in NeedsNow(kind, Place)
                 PROVE  j \in S /\ Turn(j, Place) < pc
      OBVIOUS
    <3>1. (j = "load" /\ kind \in {"transfer", "dump"}) \/ (j = "transfer" /\ kind = "dump")
      BY DEF NeedsNow
    <3>2. /\ Turn("load", Place) < Turn("transfer", Place) /\ Turn("transfer", Place) < Turn("dump", Place)
          /\ Turn("load", Place) \in Nat /\ Turn("transfer", Place) \in Nat /\ Turn("dump", Place) \in Nat
      BY <1>4, LinkTurns DEF EventKinds
    <3>3. Turn(j, Place) < Turn(kind, Place)
      BY <3>1, <3>2
    <3> QED BY <1>6, <3>3
  <2> QED BY <1>2, <1>4, <1>6, <2>1, LinkWaits
<1>8. q \in Queues /\ e \in Entries /\ NewEntry(q, e)
  <2>1. Events(Place, S) \in SUBSET [kind : CommandKinds, at : Places, n : Nat]
    BY <1>2, <1>4, EventsOf
  <2> QED BY <1>2, <1>3, <1>4, <1>5, <1>7, <2>1, EntryOfCall
<1>9. Enqueue(q, e, flushed) /\ q = StreamQueue(kind, Place)
  OBVIOUS
<1> HIDE DEF e, q
<1>10. queue' = [queue EXCEPT ![q] = Append(@, e)]
  BY <1>9 DEF Enqueue
<1>11. PutsCommands /\ queue' \in [Queues -> Seq(Entries)]
  <2>2. kind \notin {"transfer", "back"} \/ method[Place] = "DirectGMA"
    BY <1>4
  <2>3. kind = Script[pc].call /\ kind \in MainKinds \cup ScalarKinds
    BY <1>3, <1>4
  <2> QED BY <1>2, <1>3, <1>4, <1>8, <1>9, <1>10, <2>2, <2>3, OneToPut
<1>12. Sound'
  <2>1. round \in 0 .. MaxRounds
    BY <1>2 DEF Queued, Types
  <2>2. event' \in [Links -> [EventKinds -> 0 .. MaxRounds]]
    BY <1>2, <1>4, <2>1 DEF Sound
  <2> QED BY <1>2, <1>8, <1>9, <2>2, SoundEnqueue
<1>13. KeepsEvents
  <2> SUFFICES ASSUME NEW l \in Links, NEW k \in EventKinds
               PROVE  event'[l][k] = IF Uses(k, l) /\ CallOf(k, l) = Script[pc] THEN round ELSE event[l][k]
    BY DEF KeepsEvents
  <2>1. k \in MainKinds
    BY DEF EventKinds, MainKinds
  <2>2. CallOf(k, l) = Script[pc] <=> l = Place /\ kind = IF k = "back" THEN "transfer" ELSE k
    BY <1>3, <2>1, KindOfCall
  <2>3. k = "back" /\ l = Place /\ kind = "transfer" => ~Uses(k, l)
    BY <1>4, LinkType DEF Uses
  <2>4. event'[l][k] = IF l = Place /\ k = kind THEN round ELSE event[l][k]
    BY <1>2, <1>4 DEF Sound
  <2> QED BY <1>4, <2>2, <2>3, <2>4
<1>14. Script[pc].call # "sum"
  BY <1>3
<1> QED BY <1>2, <1>3, <1>11, <1>12, <1>13, <1>14, RightAfterCall

(* A link copies in one of three ways.                                     *)
LEMMA MethodNames ==
    ASSUME NEW F, Queued(F), NEW l \in Links
    PROVE  method[l] \in {"OclCopy", "AsyncOclCopy", "DirectGMA"}
  BY DEF Queued, Types, Methods, StandardMethod

(* Transfer::load.                                                         *)
LEMMA RightLoad ==
    ASSUME NEW CONSTANT F, Right(F), load
    PROVE  Right(F)'
<1>1. Queued(F) /\ Calling("load")
  BY DEF Right, load
<1>2. Place \in Links /\ method[Place] \in {"OclCopy", "AsyncOclCopy", "DirectGMA"}
  BY <1>1, NextCall, PlaceOf, MethodNames DEF LinkCalls
<1>3. /\ LoadWaits[method[Place]] \in SUBSET EventKinds
      /\ NeedsBefore("load", Place) \subseteq LoadWaits[method[Place]]
      /\ NeedsNow("load", Place) \subseteq LoadWaits[method[Place]]
  BY <1>2 DEF LoadWaits, EventKinds, NeedsBefore, NeedsNow
<1>4. StreamQueue("load", Place) = DeviceQueue(Place.from)
  BY DEF StreamQueue, QueueOf, Command
<1>5. /\ Enqueue(StreamQueue("load", Place),
                 Entry("load", Place, Events(Place, LoadWaits[method[Place]])),
                 method[Place] # "AsyncOclCopy")
      /\ event' = [event EXCEPT ![Place]["load"] = round]
      /\ UNCHANGED <<method, content, round>>
  BY <1>4 DEF load
<1> QED BY <1>1, <1>3, <1>5, RightLinkCall

(* Transfer::dump.                                                         *)
LEMMA RightDump ==
    ASSUME NEW CONSTANT F, Right(F), dump
    PROVE  Right(F)'
<1>1. Queued(F) /\ Calling("dump")
  BY DEF Right, dump
<1>2. Place \in Links /\ method[Place] \in {"OclCopy", "AsyncOclCopy", "DirectGMA"}
  BY <1>1, NextCall, PlaceOf, MethodNames DEF LinkCalls
<1>3. /\ DumpWaits[method[Place]] \in SUBSET EventKinds
      /\ NeedsBefore("dump", Place) \subseteq DumpWaits[method[Place]]
      /\ NeedsNow("dump", Place) \subseteq DumpWaits[method[Place]]
  BY <1>2 DEF DumpWaits, EventKinds, NeedsBefore, NeedsNow
<1>4. StreamQueue("dump", Place) = DeviceQueue(Place.to)
  BY DEF StreamQueue, QueueOf, Command
<1>5. /\ Enqueue(StreamQueue("dump", Place),
                 Entry("dump", Place, Events(Place, DumpWaits[method[Place]])),
                 method[Place] # "AsyncOclCopy")
      /\ event' = [event EXCEPT ![Place]["dump"] = round]
      /\ UNCHANGED <<method, content, round>>
  BY <1>4 DEF dump
<1> QED BY <1>1, <1>3, <1>5, RightLinkCall

(* DirectGMA::transfer.                                                    *)
LEMMA RightTransferDirectGMA ==
    ASSUME NEW CONSTANT F, Right(F), transfer_DirectGMA
    PROVE  Right(F)'
<1>1. Queued(F) /\ Calling("transfer") /\ method[Place] = "DirectGMA"
  BY DEF Right, transfer_DirectGMA
<1>3. /\ TransferWaits[method[Place]] \in SUBSET EventKinds
      /\ NeedsBefore("transfer", Place) \subseteq TransferWaits[method[Place]]
      /\ NeedsNow("transfer", Place) \subseteq TransferWaits[method[Place]]
  BY <1>1 DEF TransferWaits, EventKinds, NeedsBefore, NeedsNow
<1>4. StreamQueue("transfer", Place) = [of |-> "transfer", at |-> Place]
  BY DEF StreamQueue, QueueOf, Command
<1>5. /\ Enqueue(StreamQueue("transfer", Place),
                 Entry("transfer", Place, Events(Place, TransferWaits[method[Place]])), TRUE)
      /\ event' = [event EXCEPT ![Place]["transfer"] = round]
      /\ UNCHANGED <<method, content, round>>
  BY <1>4 DEF transfer_DirectGMA
<1> QED BY <1>1, <1>3, <1>5, RightLinkCall

(* The transfer of AsyncOclCopy puts a command into either queue.          *)
LEMMA RightTransferAsyncOclCopy ==
    ASSUME NEW CONSTANT F, Right(F), transfer_AsyncOclCopy
    PROVE  Right(F)'
<1>1. /\ Queued(F) /\ Sound /\ EventsRight /\ Calling("transfer") /\ method[Place] = "AsyncOclCopy"
      /\ UNCHANGED <<round, method>> /\ UNCHANGED content /\ submitted' = submitted
      /\ round \in 0 .. MaxRounds
  BY DEF Right, transfer_AsyncOclCopy, Queued, Types
<1>2. /\ pc \in 1 .. Len(Script) /\ Script[pc] \in AllCalls /\ Script[pc].call = "transfer"
      /\ Script[pc] = [call |-> "transfer", at |-> Place] /\ pc' = pc + 1
  BY <1>1, NextCall
<1> DEFINE V == Events(Place, TransferWaits[method[Place]])
           W == Events(Place, {"load", "back"}) \cup {Command("transfer", Place, round)}
           e == Entry("transfer", Place, V)
           f == Entry("back", Place, W)
           q == [of |-> "transfer", at |-> Place]
           r == [of |-> "back", at |-> Place]
<1>3. /\ Place \in Links /\ Place \in Places /\ Place \notin OwnPlaces
      /\ Uses("transfer", Place) /\ Uses("back", Place)
  BY <1>1, <1>2, PlaceOf, LinkType DEF LinkCalls, Uses, Places
<1>4. CallOf("transfer", Place) = Script[pc] /\ CallOf("back", Place) = Script[pc]
  BY <1>2 DEF CallOf
<1>5. Turn("transfer", Place) = pc /\ Turn("back", Place) = pc
  BY <1>2, <1>3, <1>4, TurnIsNow DEF MainKinds
<1>6. /\ TransferWaits[method[Place]] \in SUBSET EventKinds
      /\ NeedsBefore("transfer", Place) \subseteq TransferWaits[method[Place]]
      /\ "load" \in TransferWaits[method[Place]]
      /\ NeedsNow("transfer", Place) = {"load"}
      /\ NeedsNow("back", Place) = {"transfer"} /\ NeedsBefore("back", Place) = {}
      /\ {"load", "back"} \in SUBSET EventKinds
  BY <1>1 DEF TransferWaits, EventKinds, NeedsBefore, NeedsNow
<1>7. V \in SUBSET [kind : CommandKinds, at : Places, n : Nat]
  BY <1>1, <1>3, <1>6, EventsOf
<1>8. W \in SUBSET [kind : CommandKinds, at : Places, n : Nat]
  <2>1. Events(Place, {"load", "back"}) \in SUBSET [kind : CommandKinds, at : Places, n : Nat]
    BY <1>1, <1>3, <1>6, EventsOf
  <2>2. Command("transfer", Place, round) \in [kind : CommandKinds, at : Places, n : Nat]
    BY <1>1, <1>3, RoundAssumption DEF Command, CommandKinds, EventKinds
  <2> QED BY <2>1, <2>2
<1>9. WaitsRight(e)
  <2>1. Turn("load", Place) < pc
    BY <1>3, <1>5, LinkTurns
  <2>2. \A j \in NeedsNow("transfer", Place) :
           Command(j, Place, round) \in V \/ (j \in TransferWaits[method[Place]] /\ Turn(j, Place) < pc)
    BY <1>6, <2>1
  <2>3. "transfer" \in EventKinds
    BY DEF EventKinds
  <2> QED BY <1>1, <1>3, <1>5, <1>6, <2>2, <2>3, LinkWaits
<1>10. WaitsRight(f)
  <2>1. \A j \in NeedsNow("back", Place) : Command(j, Place, round) \in W
    BY <1>6
  <2>2. Events(Place, {"load", "back"}) \subseteq W
    OBVIOUS
  <2>3. "back" \in EventKinds
    BY DEF EventKinds
  <2> HIDE DEF W
  <2>4. NeedsBefore("back", Place) \subseteq {"load", "back"}
    BY <1>6
  <2> QED BY <1>1, <1>3, <1>5, <1>6, <2>1, <2>2, <2>3, <2>4, LinkWaits
<1>11. q = StreamQueue("transfer", Place) /\ r = StreamQueue("back", Place) /\ q # r
  BY DEF StreamQueue, QueueOf, Command
<1> HIDE DEF V, W
<1>12. q \in Queues /\ e \in Entries /\ NewEntry(q, e)
  BY <1>1, <1>2, <1>3, <1>4, <1>7, <1>9, <1>11, EntryOfCall DEF MainKinds
<1>13. r \in Queues /\ f \in Entries /\ NewEntry(r, f)
  BY <1>1, <1>2, <1>3, <1>4, <1>8, <1>10, <1>11, EntryOfCall DEF MainKinds
<1>14. /\ queue' = [queue EXCEPT ![q] = Append(@, e), ![r] = Append(@, f)]
       /\ event' = [event EXCEPT ![Place].transfer = round, ![Place].back = round]
  BY DEF transfer_AsyncOclCopy, V, W
<1>15. queue \in [Queues -> Seq(Entries)]
  BY <1>1 DEF Queued, Types
<1> HIDE DEF e, f, q, r
<1>16. /\ queue' \in [Queues -> Seq(Entries)]
       /\ queue'[q] = Append(queue[q], e) /\ queue'[r] = Append(queue[r], f)
       /\ \A s \in Queues : s # q /\ s # r => queue'[s] = queue[s]
  <2>1. Append(queue[q], e) \in Seq(Entries) /\ Append(queue[r], f) \in Seq(Entries)
    BY <1>12, <1>13, <1>15, QueueSteps
  <2> QED BY <1>11, <1>12, <1>13, <1>14, <1>15, <2>1
<1>17. ASSUME NEW s \in Queues, s # q, s # r
       PROVE  queue'[s] = queue[s] /\ NothingNew(s)
  <2> SUFFICES ASSUME NEW j \in MainKinds \cup ScalarKinds, NEW p \in Places,
                      Uses(j, p) \/ (j \in ScalarKinds /\ p \in OwnPlaces),
                      StreamQueue(j, p) = s, CallOf(j, p) = Script[pc]
               PROVE  FALSE
    BY <1>16, <1>17 DEF NothingNew
  <2>1. p = Place /\ "transfer" = IF j = "back" THEN "transfer" ELSE j
    BY <1>2, KindOfCall
  <2>2. j \in {"transfer", "back"}
    BY <2>1
  <2> QED BY <1>11, <1>17, <2>1, <2>2
<1>18. PutsCommands
  BY <1>12, <1>13, <1>16, <1>17 DEF PutsCommands
<1>19. event' \in [Links -> [EventKinds -> 0 .. MaxRounds]]
  BY <1>1, <1>3, <1>14 DEF Sound
<1>20. KeepsEvents
  <2> SUFFICES ASSUME NEW l \in Links, NEW k \in EventKinds
               PROVE  event'[l][k] = IF Uses(k, l) /\ CallOf(k, l) = Script[pc] THEN round ELSE event[l][k]
    BY DEF KeepsEvents
  <2>1. k \in MainKinds
    BY DEF EventKinds, MainKinds
  <2>2. CallOf(k, l) = Script[pc] <=> l = Place /\ k \in {"transfer", "back"}
    BY <1>2, <2>1, KindOfCall
  <2>4. event'[l][k] = IF l = Place /\ k \in {"transfer", "back"} THEN round ELSE event[l][k]
    BY <1>1, <1>3, <1>14 DEF Sound, EventKinds
  <2> QED BY <1>3, <2>2, <2>4
<1>21. Sound'
  <2>1. \A s \in Queues : submitted[s] \in Nat /\ submitted[s] <= Len(queue[s])
    BY <1>1 DEF Sound
  <2>2. \A s \in Queues : Len(queue'[s]) = Len(queue[s]) \/ Len(queue'[s]) = Len(queue[s]) + 1
    <3>1. Len(Append(queue[q], e)) = Len(queue[q]) + 1 /\ Len(Append(queue[r], f)) = Len(queue[r]) + 1
      BY <1>12, <1>13, <1>15, QueueSteps
    <3> QED BY <1>16, <3>1
  <2>3. \A s \in Queues : Len(queue[s]) \in Nat
    BY <1>15, QueueSteps
  <2>4. \A s \in Queues : submitted[s] <= Len(queue'[s])
    BY <2>1, <2>2, <2>3
  <2> QED BY <1>1, <1>19, <2>4 DEF Sound
<1>22. Script[pc].call # "sum"
  BY <1>2
<1> QED BY <1>1, <1>2, <1>16, <1>18, <1>20, <1>21, <1>22, RightAfterCall

(* Calls that only flush, or do nothing.                                   *)
LEMMA RightQuietCall ==
    ASSUME NEW CONSTANT F, Right(F),
           flush \/ transfer_OclCopy \/ wait_for_maps \/ BeginScalarProduct
    PROVE  Right(F)'
<1>1. /\ Queued(F) /\ Sound
      /\ UNCHANGED <<round, method>> /\ UNCHANGED content /\ queue' = queue /\ event' = event
  BY DEF Right, flush, transfer_OclCopy, wait_for_maps, BeginScalarProduct
<1>2. PICK call \in {"flush", "transfer", "wait", "end"} :
        Calling(call) /\ (call = "transfer" => method[Place] = "OclCopy")
  BY DEF flush, transfer_OclCopy, wait_for_maps, BeginScalarProduct
<1>3. /\ pc \in 1 .. Len(Script) /\ Script[pc] \in AllCalls /\ Script[pc].call = call
      /\ pc' = pc + 1
  BY <1>1, <1>2, NextCall
<1>4. PutsCommands /\ KeepsEvents
  BY <1>1, <1>2, <1>3, NothingToPut
<1>5. queue \in [Queues -> Seq(Entries)] /\ \A q \in Queues : Len(queue[q]) \in Nat
  BY <1>1, QueueSteps DEF Queued, Types
<1>6. submitted' \in [Queues -> Nat] /\ \A q \in Queues : submitted'[q] <= Len(queue[q])
  <2>1. submitted \in [Queues -> Nat] /\ \A q \in Queues : submitted[q] <= Len(queue[q])
    BY <1>1 DEF Sound
  <2>2. CASE flush
    <3>1. submitted' = [submitted EXCEPT ![DeviceQueue(Place.from)] = Len(queue[DeviceQueue(Place.from)])]
      BY <2>2 DEF flush
    <3>2. DeviceQueue(Place.from) \in Queues
      <4>1. Calling("flush")
        BY <2>2 DEF flush
      <4>2. Place \in OwnPlaces
        BY <1>1, <4>1, NextCall, PlaceOf
      <4>3. Place.from \in Devices
        BY <4>2 DEF OwnPlaces, Own
      <4> QED BY <4>3, DeviceQueueIs
    <3> QED BY <1>5, <2>1, <3>1, <3>2
  <2>3. CASE wait_for_maps
    BY <1>5, <2>1, <2>3 DEF wait_for_maps
  <2>4. CASE transfer_OclCopy \/ BeginScalarProduct
    BY <2>1, <2>4 DEF transfer_OclCopy, BeginScalarProduct
  <2> QED BY <2>2, <2>3, <2>4
<1>7. Sound'
  BY <1>1, <1>6 DEF Sound
<1>8. Script[pc].call # "sum"
  BY <1>3
<1>9. queue' \in [Queues -> Seq(Entries)]
  BY <1>1, <1>5
<1> QED BY <1>1, <1>3, <1>4, <1>7, <1>8, <1>9, RightAfterCall

(* The host turns to another round, or to the result of a device.          *)
LEMMA RightJump ==
    ASSUME NEW CONSTANT F, Right(F),
           NextRound \/ Finish \/ \E d \in Devices : synchronize(d) \/ Return(d)
    PROVE  Right(F)'
<1>0. /\ Queued(F) /\ Sound /\ EndOfProgram \in Nat /\ EndOfScript > EndOfProgram /\ EndOfScript \in Nat
      /\ Done > EndOfScript /\ Done \in Nat /\ MaxRounds \in Nat /\ round \in 1 .. MaxRounds
  <2>1. 0 \in Devices
    BY GridAssumption DEF Devices
  <2>2. /\ EndOfProgram \in Nat /\ EndOfScript \in Nat /\ Done \in Nat
        /\ EndOfScript > EndOfProgram /\ Done > EndOfScript
    BY <2>1, ScalarPlaces
  <2> QED BY <2>2, RoundAssumption DEF Right, Queued, Types
<1>1. \A d \in Devices : Wait(d) > EndOfScript /\ Wait(d) < Done /\ Wait(d) \in Nat
  BY ProgramLength
<1> DEFINE Jump ==
      /\ UNCHANGED <<queue, method>> /\ UNCHANGED <<event, content>>
      /\ pc >= EndOfProgram
      /\ pc' = EndOfProgram \/ pc' > EndOfScript \/ pc' = 1
      /\ \/ round' = round /\ pc' \in EndOfProgram .. Done
         \/ round < MaxRounds /\ round' = round + 1 /\ pc' = 1
<1>2. Jump
  <2>1. CASE NextRound
    BY <1>0, <2>1 DEF NextRound, EndOfRound
  <2>2. CASE Finish
    BY <1>0, <2>2 DEF Finish, EndOfRound
  <2>3. ASSUME NEW d \in Devices, synchronize(d)
        PROVE  Jump
    BY <1>0, <1>1, <2>3 DEF synchronize, EndOfRound
  <2>4. ASSUME NEW d \in Devices, Return(d)
        PROVE  Jump
    BY <1>0, <1>1, <2>4 DEF Return
  <2> QED BY <2>1, <2>2, <2>3, <2>4
<1>3. queue \in [Queues -> Seq(Entries)] /\ \A q \in Queues : Len(queue[q]) \in Nat
  BY <1>0, QueueSteps DEF Queued, Types
<1>4. Sound'
  <2>1. submitted \in [Queues -> Nat] /\ \A q \in Queues : submitted[q] <= Len(queue[q])
    BY <1>0 DEF Sound
  <2>2. submitted' \in [Queues -> Nat] /\ \A q \in Queues : submitted'[q] <= Len(queue[q])
    <3>1. CASE submitted' = submitted
      BY <2>1, <3>1
    <3>2. ASSUME NEW d \in Devices, synchronize(d)
          PROVE  submitted' \in [Queues -> Nat] /\ \A q \in Queues : submitted'[q] <= Len(queue[q])
      BY <1>3, <2>1, <3>2, DeviceQueueIs DEF synchronize
    <3> QED BY <3>1, <3>2 DEF NextRound, Finish, Return
  <2> QED BY <1>0, <1>2, <2>2 DEF Sound
<1> QED BY <1>2, <1>4, RightAfterJump

(* The host sums up when the devices have nothing left to execute.         *)
LEMMA SumTurnIsNow ==
    ASSUME NEW F, Queued(F), At("sum")
    PROVE  pc = SumTurn
<1>1. pc \in 1 .. Len(Script) /\ Script[pc].call = "sum"
  BY ProgramLength, GridAssumption DEF At, Queued, Types
<1>2. Script[pc] \in AllCalls /\ Pos(Script[pc]) = pc
  BY <1>1, ScriptPos
<1>3. Script[pc] = [call |-> "sum", at |-> Own(0)]
  BY <1>1, <1>2 DEF AllCalls, LinkCalls, DeviceCalls
<1> QED BY <1>2, <1>3 DEF SumTurn

(* When the maps are through, the queues of the devices are empty.         *)
LEMMA DevicesDrained ==
    ASSUME NEW F, Queued(F), Scalars, At("sum"), Mapped, NEW d \in Devices
    PROVE  queue[DeviceQueue(d)] = << >>
<1> DEFINE s == queue[DeviceQueue(d)]
<1>1. pc = SumTurn /\ Turn("map", Own(d)) < pc
  BY SumTurnIsNow, ScalarPlaces
<1>2. s = << >> \/ s[Len(s)].cmd = Command("map", Own(d), round)
  BY <1>1, ScalarPlaces DEF Scalars, ScalarAt, MapsLast
<1>3. s \in Seq(Entries)
  BY DeviceQueueIs DEF Queued, Types
<1>4. ASSUME s # << >>, s[Len(s)].cmd = Command("map", Own(d), round)
      PROVE  FALSE
  <2>1. Len(s) \in DOMAIN s
    BY <1>3, <1>4, QueueSteps
  <2>2. QueueOf(Command("map", Own(d), round)) = DeviceQueue(d)
    BY DEF QueueOf, Command, Own
  <2>3. Pending(Command("map", Own(d), round))
    BY <1>4, <2>1, <2>2 DEF Pending
  <2> QED BY <2>3 DEF Mapped
<1> QED BY <1>2, <1>4

(* Scalar::sum.                                                            *)
LEMMA RightSum ==
    ASSUME NEW CONSTANT F, Right(F), sum
    PROVE  Right(F)'
<1>1. /\ Queued(F) /\ EventsRight /\ InTurn(F) /\ Contents(F) /\ Scalars /\ Sound
      /\ UNCHANGED <<round, method>> /\ queue' = queue /\ event' = event
      /\ submitted' = submitted /\ Calling("sum") /\ Mapped /\ At("sum")
      /\ content' = [b \in Buffers |->
                     IF b.buffer # "scalar" THEN content[b]
                     ELSE IF \A d \in Devices : content[Scalar(d)] = round THEN Sum(round)
                     ELSE Undefined]
  BY DEF Right, sum, Calling
<1>2. /\ pc \in 1 .. Len(Script) /\ Script[pc] \in AllCalls /\ Script[pc].call = "sum"
      /\ pc' = pc + 1
  BY <1>1, NextCall
<1>3. PutsCommands /\ KeepsEvents
  BY <1>1, <1>2, NothingToPut
<1>4. pc = SumTurn
  BY <1>1, SumTurnIsNow
<1>5. queue' \in [Queues -> Seq(Entries)] /\ round \in 1 .. MaxRounds
  BY <1>1 DEF Queued, Types
<1>6. Queued(F)'
  BY <1>1, <1>2, <1>3, <1>5, HostCall DEF PutsCommands
<1>u. \A k, l : /\ Uses(k, l)' <=> Uses(k, l)
                /\ NeedsNow(k, l)' = NeedsNow(k, l) /\ NeedsBefore(k, l)' = NeedsBefore(k, l)
  BY <1>1 DEF Uses, NeedsNow, NeedsBefore
<1>7. EventsRight'
  <2> SUFFICES ASSUME NEW l \in Links, NEW k \in EventKinds
               PROVE  event[l][k] = IF Uses(k, l) THEN Last(k, l)' ELSE 0
    BY <1>1, <1>u DEF EventsRight
  <2>1. event[l][k] = IF Uses(k, l) THEN Last(k, l) ELSE 0
    BY <1>1 DEF EventsRight
  <2>2. CallOf(k, l) # Script[pc]
    BY <1>2 DEF CallOf, EventKinds
  <2>3. Uses(k, l) => Last(k, l)' = Last(k, l)
    BY <1>1, <1>2, <2>2, LastCalled DEF EventKinds, MainKinds, Places
  <2> QED BY <2>1, <2>3
<1>8. InTurn(F)'
  BY <1>1, <1>u DEF InTurn
<1>9. Contents(F)'
  <2>1. \A d \in Devices : Main(d) \in Buffers /\ Main(d).buffer # "scalar"
    BY DEF Main, Buffers, OwnPlaces
  <2>2. \A l \in Links : /\ Halo(l) \in Buffers /\ Halo(l).buffer # "scalar"
                         /\ SrcCache(l) \in Buffers /\ SrcCache(l).buffer # "scalar"
                         /\ DestCache(l) \in Buffers /\ DestCache(l).buffer # "scalar"
    BY DEF Halo, SrcCache, DestCache, Buffers
  <2>3. \A d \in Devices : content'[Main(d)] = content[Main(d)]
    BY <1>1, <2>1
  <2>4. \A l \in Links : /\ content'[Halo(l)] = content[Halo(l)]
                         /\ content'[SrcCache(l)] = content[SrcCache(l)]
                         /\ content'[DestCache(l)] = content[DestCache(l)]
    BY <1>1, <2>2
  <2>5. Contents(F)
    BY <1>1
  <2>6. method' = method
    BY <1>1
  <2> QED BY <2>3, <2>4, <2>5, <2>6 DEF Contents, Main, Halo, SrcCache, DestCache
<1>10. \A d \in Devices : queue[DeviceQueue(d)] = << >>
  BY <1>1, DevicesDrained
<1>11. \A d \in Devices : content[Scalar(d)] = round
  <2> SUFFICES ASSUME NEW d \in Devices
               PROVE  content[Scalar(d)] = round
    OBVIOUS
  <2>1. Reduced(d, << >>, content[Scalar(d)], pc, round)
    BY <1>1, <1>10 DEF Scalars, ScalarAt
  <2>2. Turn("reduce", Own(d)) < pc /\ pc <= SumTurn
    BY <1>4, ScalarPlaces
  <2>3. 1 .. Len(<< >>) = {}
    BY EmptySeq
  <2> QED BY <2>1, <2>2, <2>3 DEF Reduced
<1>12. \A d \in Devices : content'[Scalar(d)] = Sum(round)
  <2>1. \A d \in Devices : Scalar(d) \in Buffers /\ Scalar(d).buffer = "scalar"
    BY DEF Scalar, Buffers, OwnPlaces
  <2> QED BY <1>1, <1>11, <2>1
<1>13. Scalars'
  <2> SUFFICES ASSUME NEW CONSTANT d \in Devices
               PROVE  ScalarAt(d, << >>, Sum(round), pc + 1, round)
    BY <1>1, <1>2, <1>10, <1>12 DEF Scalars, DeviceQueue, Scalar
  <2>1. Len(<< >>) = 0 /\ 1 .. 0 = {}
    BY EmptySeq
  <2>2. ~(pc + 1 <= SumTurn)
    BY <1>4, ScalarPlaces
  <2> QED BY <2>1, <2>2 DEF ScalarAt, MapsLast, Reduced, Summed, Used, NoReduce
<1>14. Sound'
  <2>1. content' \in [Buffers -> Versions]
    <3>1. Sum(round) \in Versions /\ Undefined \in Versions
      BY <1>5, RoundAssumption DEF Versions, Undefined, Sum
    <3> QED BY <1>1, <3>1 DEF Sound
  <2> QED BY <1>1, <2>1 DEF Sound
<1> QED BY <1>6, <1>7, <1>8, <1>9, <1>13, <1>14 DEF Right
-----------------------------------------------------------------------------
IInv == \E F : Right(F)

(* Nothing has been executed, and nothing has to have been.                *)
LEMMA RightInit ==
    ASSUME Init
    PROVE  IInv
<1> DEFINE F == [k \in MainKinds |-> [p \in Places |-> 0]]
<1>1. /\ method \in [Links -> Methods] /\ queue = [q \in Queues |-> << >>]
      /\ submitted = [q \in Queues |-> 0] /\ event = [l \in Links |-> [k \in EventKinds |-> 0]]
      /\ content = [b \in Buffers |-> 0] /\ pc = 1 /\ round = 1
  BY DEF Init
<1>2. \A k \in MainKinds, p \in Places : F[k][p] = 0
  OBVIOUS
<1>3. Types(F)
  <2>1. 1 \in 1 .. Done /\ 1 \in 1 .. MaxRounds
    BY ProgramLength, GridAssumption, RoundAssumption
  <2>2. queue \in [Queues -> Seq(Entries)]
    BY <1>1, EmptySeq
  <2> QED BY <1>1, <2>1, <2>2 DEF Types
<1> HIDE DEF F
<1>4. \A q \in Queues : queue[q] = << >> /\ 1 .. Len(queue[q]) = {} /\ DOMAIN queue[q] = {}
  BY <1>1
<1>5. Fits /\ Ordered
  BY <1>4 DEF Fits, Within, Ordered
<1>6. \A k \in MainKinds, p \in Places : Uses(k, p) => Last(k, p) = 0 /\ StreamQueue(k, p) \in Queues
  <2> SUFFICES ASSUME NEW k \in MainKinds, NEW p \in Places, Uses(k, p)
               PROVE  Last(k, p) = 0 /\ StreamQueue(k, p) \in Queues
    OBVIOUS
  <2>1. Turn(k, p) >= 1 /\ Turn(k, p) \in Nat
    BY CallsOfStreams, ProgramLength
  <2>2. Last(k, p) = 0
    BY <1>1, <2>1 DEF Last, Called
  <2>3. StreamQueue(k, p) \in Queues
    BY <1>1, StreamQueues
  <2> QED BY <2>2, <2>3
<1>7. Counted(F)
  <2> SUFFICES ASSUME NEW k \in MainKinds, NEW p \in Places, Uses(k, p)
               PROVE  /\ F[k][p] <= Last(k, p)
                      /\ \A n \in 1 .. MaxRounds : Pend(k, p, n) <=> F[k][p] < n /\ n <= Last(k, p)
    BY DEF Counted
  <2>1. \A n : ~Pend(k, p, n)
    <3>1. \A n : QueueOf(Command(k, p, n)) \in Queues
      BY <1>1, StreamQueues
    <3> QED BY <1>4, <3>1 DEF Pend, Pending
  <2> QED BY <1>2, <1>6, <2>1, RoundAssumption
<1>8. Past(F)
  BY <1>4, <1>6 DEF Past
<1>9. EventsRight
  BY <1>1, <1>6 DEF EventsRight, EventKinds, MainKinds, Places
<1>10. InTurn(F)
  <2> SUFFICES ASSUME NEW l \in Links, NEW k \in EventKinds, Uses(k, l)
               PROVE  /\ \A j \in NeedsNow(k, l) : F[k][l] <= F[j][l]
                      /\ \A j \in NeedsBefore(k, l) : F[k][l] <= F[j][l] + 1
    BY DEF InTurn
  <2>1. k \in MainKinds /\ l \in Places
    BY DEF EventKinds, MainKinds, Places
  <2>2. /\ \A j \in NeedsNow(k, l) : j \in MainKinds
        /\ \A j \in NeedsBefore(k, l) : j \in MainKinds
    BY <1>1, Needs
  <2> QED BY <1>2, <2>1, <2>2
<1>11. Contents(F)
  <2>1. \A d \in Devices : Own(d) \in Places /\ Main(d) \in Buffers
    BY DEF Places, OwnPlaces, Main, Buffers
  <2>2. \A l \in Links : l \in Places /\ Halo(l) \in Buffers /\ SrcCache(l) \in Buffers /\ DestCache(l) \in Buffers
    BY DEF Places, Halo, SrcCache, DestCache, Buffers
  <2>3. \A k \in {"write", "load", "transfer", "dump"} : k \in MainKinds
    BY DEF MainKinds
  <2> QED BY <1>1, <1>2, <2>1, <2>2, <2>3 DEF Contents
<1>12. Scalars
  <2> SUFFICES ASSUME NEW d \in Devices
               PROVE  ScalarAt(d, << >>, content[Scalar(d)], 1, 1)
    BY <1>1, <1>4, DeviceQueueIs DEF Scalars
  <2>1. Len(<< >>) = 0 /\ 1 .. 0 = {}
    BY EmptySeq
  <2>2. ~(Turn("map", Own(d)) < 1) /\ ~(Turn("reduce", Own(d)) < 1) /\ ~(SumTurn < 1)
    BY ScalarPlaces
  <2> QED BY <2>1, <2>2 DEF ScalarAt, MapsLast, Reduced, Summed, Used
<1>13. Sound
  <2>1. 0 \in Versions /\ 0 \in 0 .. MaxRounds
    BY RoundAssumption DEF Versions, Undefined, Sum
  <2> QED BY <1>1, <1>4, <2>1 DEF Sound
<1>14. Right(F)
  BY <1>3, <1>5, <1>7, <1>8, <1>9, <1>10, <1>11, <1>12, <1>13 DEF Right, Queued
<1> QED BY <1>14 DEF IInv

(* Every call of the host keeps the inductive invariant,                   *)
LEMMA HostRight ==
    ASSUME NEW CONSTANT F, Right(F), HostNext
    PROVE  Right(F)'
<1>1. CASE EnqueueKernel
  BY <1>1, RightEnqueueKernel
<1>2. CASE load
  BY <1>2, RightLoad
<1>3. CASE dump
  BY <1>3, RightDump
<1>4. CASE transfer_DirectGMA
  BY <1>4, RightTransferDirectGMA
<1>5. CASE transfer_AsyncOclCopy
  BY <1>5, RightTransferAsyncOclCopy
<1>6. CASE flush \/ transfer_OclCopy \/ wait_for_maps \/ BeginScalarProduct
  BY <1>6, RightQuietCall
<1>7. CASE sum
  BY <1>7, RightSum
<1>8. CASE NextRound \/ Finish \/ \E d \in Devices : synchronize(d) \/ Return(d)
  BY <1>8, RightJump
<1> QED
  BY <1>1, <1>2, <1>3, <1>4, <1>5, <1>6, <1>7, <1>8 DEF HostNext

(* and so does none.                                                       *)
LEMMA RightStutter ==
    ASSUME NEW CONSTANT F, Right(F), UNCHANGED vars
    PROVE  Right(F)'
  BY DEF vars, Right, Queued, Types, Fits, EntryFits, Within, WaitsRight, NeedsNow, NeedsBefore, Uses,
         Called, Ordered, Cmd, Counted, Pend, Pending, Last, Past, EventsRight, InTurn, Contents, Scalars, Sound,
         Main, Halo, SrcCache, DestCache, Scalar, DeviceQueue

(* Every step keeps the inductive invariant.                               *)
LEMMA RightStep ==
    ASSUME IInv, [Next]_vars
    PROVE  IInv'
<1> SUFFICES ASSUME NEW CONSTANT F, Right(F)
             PROVE  IInv'
  BY DEF IInv
<1>0. IInv' <=> \E G : Right(G)'
  BY DEF IInv
<1>1. CASE HostNext
  BY <1>0, <1>1, HostRight
<1>2. CASE UNCHANGED vars
  BY <1>0, <1>2, RightStutter
<1>3. ASSUME NEW CONSTANT q \in Queues, Execute(q)
      PROVE  IInv'
  <2> SUFFICES ASSUME NEW CONSTANT c, c = NextCommand(q)
               PROVE  IInv'
    OBVIOUS
  <2> SUFFICES ASSUME NEW CONSTANT G, G = After(F, c)
               PROVE  IInv'
    OBVIOUS
  <2>1. Right(G)'
    BY <1>3, DeviceRight
  <2> QED BY <1>0, <2>1
<1> QED
  BY <1>1, <1>2, <1>3 DEF Next, Terminated

(* There is a count of the executed commands that explains the state.      *)
THEOREM InductiveInvariant == Spec => []IInv
<1>1. Init => IInv
  BY RightInit
<1>2. IInv /\ [Next]_vars => IInv'
  BY RightStep
<1> QED BY <1>1, <1>2, PTL DEF Spec

(* It implies that the state is of its type,                               *)
LEMMA RightTypes ==
    ASSUME NEW F, Right(F)
    PROVE  TypeOK
<1>1. Queued(F) /\ Sound /\ Types(F) /\ Fits
  BY DEF Right, Queued
<1>2. ASSUME NEW q \in Queues, NEW i \in DOMAIN queue[q]
      PROVE  /\ queue[q][i].cmd.kind \in CommandKinds
             /\ queue[q][i].cmd.n \in 1 .. MaxRounds
             /\ QueueOf(queue[q][i].cmd) = q
  <2>1. i \in 1 .. Len(queue[q]) /\ queue[q][i] \in Entries
    BY <1>1, QueueSteps DEF Types
  <2>2. EntryFits(q, queue[q][i])
    BY <1>1, <2>1 DEF Fits, Within
  <2> QED BY <2>1, <2>2 DEF Entries, EntryFits
<1> QED BY <1>1, <1>2 DEF TypeOK, Types, Sound

(* that kernels read the values of their round,                            *)
LEMMA RightReads ==
    ASSUME NEW CONSTANT F, Right(F)
    PROVE  KernelsReadTheirRound
<1>0. Queued(F) /\ InTurn(F) /\ Contents(F) /\ Scalars
  BY DEF Right
<1> SUFFICES ASSUME NEW q \in DeviceQueues, Ready(q), NEW c, c = NextCommand(q), c.kind \in Kernels,
                    NEW b \in Reads(c)
             PROVE  content[b] = IF b.buffer = "scalar" THEN Sum(c.n) ELSE c.n
  BY DEF KernelsReadTheirRound
<1>1. q \in Queues
  BY DeviceQueueIs DEF DeviceQueues
<1>2. /\ c.at \in OwnPlaces /\ c.at.from \in Devices /\ c.at = Own(c.at.from) /\ c.at.to = c.at.from
      /\ q = DeviceQueue(c.at.from)
  BY <1>0, <1>1, OwnQueue
<1>3. CASE b = Main(c.at.from)
  <2>1. c.kind \in {"inner", "boundary", "reduce", "use"}
    BY DEF Reads, Kernels
  <2>2. content[Main(c.at.from)] = c.n
    BY <1>0, <1>1, <2>1, MainIsOfTheRound
  <2>3. b.buffer = "main"
    BY <1>3 DEF Main
  <2> QED BY <1>3, <2>2, <2>3
<1>4. ASSUME c.kind = "boundary", NEW l \in Links, l.to = c.at.to, b = Halo(l)
      PROVE  content[b] = IF b.buffer = "scalar" THEN Sum(c.n) ELSE c.n
  <2>1. content[Halo(l)] = c.n
    BY <1>0, <1>1, <1>4, HaloIsOfTheRound
  <2>2. b.buffer = "halo"
    BY <1>4 DEF Halo
  <2> QED BY <1>4, <2>1, <2>2
<1>5. ASSUME c.kind = "use", b = Scalar(c.at.from)
      PROVE  content[b] = IF b.buffer = "scalar" THEN Sum(c.n) ELSE c.n
  <2> DEFINE s == queue[DeviceQueue(c.at.from)]
  <2>1. Used(s, content[Scalar(c.at.from)])
    BY <1>0, <1>2 DEF Scalars, ScalarAt
  <2>2. /\ c = s[1].cmd /\ 1 \in 1 .. Len(s)
    <3>1. c = Cmd(q, 1) /\ queue[q] # << >>
      BY <1>0, <1>1, HeadOf
    <3>2. queue[q] \in Seq(Entries)
      BY <1>0, <1>1 DEF Queued, Types
    <3>3. 1 \in 1 .. Len(queue[q])
      BY <3>1, <3>2, QueueSteps
    <3>4. s = queue[q]
      BY <1>2
    <3> QED BY <3>1, <3>3, <3>4 DEF Cmd
  <2>3. content[Scalar(c.at.from)] = Sum(c.n)
    BY <1>5, <2>1, <2>2 DEF Used
  <2>4. b.buffer = "scalar"
    BY <1>5 DEF Scalar
  <2> QED BY <1>5, <2>3, <2>4
<1> QED BY <1>3, <1>4, <1>5 DEF Reads, Kernels

(* Two commands that use a cache of a link and may be executed now: one of *)
(* them does not write, or they are in the same queue.                     *)
LEMMA LinkAccess ==
    ASSUME NEW CONSTANT F, Queued(F), InTurn(F), NEW q \in Queues, NEW r \in Queues, Ready(q), Ready(r), q # r,
           NEW c, c = NextCommand(q), NEW e, e = NextCommand(r), c.at = e.at,
           c.kind \in EventKinds, e.kind \in EventKinds
    PROVE  /\ ~(c.kind = "load" /\ e.kind \in {"load", "back", "transfer"})
           /\ ~(c.kind = "load" /\ e.kind = "dump" /\ method[c.at] = "OclCopy")
           /\ ~(c.kind = "back" /\ e.kind \in {"load", "back", "transfer"})
           /\ ~(c.kind = "transfer" /\ e.kind \in {"transfer", "dump"})
<1> DEFINE l == c.at
<1>1. /\ l \in Links /\ Uses(c.kind, l) /\ Uses(e.kind, l)
      /\ F[c.kind][l] = c.n - 1 /\ F[e.kind][l] = e.n - 1
      /\ \A j \in NeedsNow(c.kind, l) : F[j][l] >= c.n
      /\ \A j \in NeedsBefore(c.kind, l) : F[j][l] >= c.n - 1
      /\ \A j \in NeedsNow(e.kind, l) : F[j][l] >= e.n
      /\ \A j \in NeedsBefore(e.kind, l) : F[j][l] >= e.n - 1
  BY LinkHead
<1>2. /\ c.n \in Nat /\ e.n \in Nat /\ QueueOf(c) = q /\ QueueOf(e) = r
      /\ F["load"][l] \in Nat /\ F["dump"][l] \in Nat /\ F["transfer"][l] \in Nat /\ F["back"][l] \in Nat
      /\ method[l] \in {"OclCopy", "AsyncOclCopy", "DirectGMA"}
  BY <1>1, HeadOf, LinkCounts
<1>3. c.kind # e.kind
  <2>1. c.kind = e.kind => QueueOf(c) = QueueOf(e)
    BY DEF QueueOf, EventKinds
  <2> QED BY <1>2, <2>1
<1>4. /\ "transfer" \in {c.kind, e.kind} => method[l] # "OclCopy"
      /\ "back" \in {c.kind, e.kind} => method[l] = "AsyncOclCopy"
  BY <1>1, LinkType DEF Uses
<1>5. /\ method[l] = "OclCopy" => NeedsBefore("load", l) = {"dump"} /\ NeedsNow("dump", l) = {"load"}
      /\ method[l] = "AsyncOclCopy" => NeedsBefore("load", l) = {"transfer", "back"}
      /\ method[l] = "DirectGMA" => NeedsBefore("load", l) = {"transfer"}
      /\ method[l] # "OclCopy" => NeedsNow("dump", l) = {"transfer"}
      /\ NeedsNow("transfer", l) = {"load"} /\ NeedsBefore("transfer", l) = {"dump"}
      /\ NeedsNow("back", l) = {"transfer"}
  BY <1>2 DEF NeedsNow, NeedsBefore
<1>6. /\ method[l] # "OclCopy" =>
           /\ F["transfer"][l] <= F["load"][l] /\ F["load"][l] <= F["transfer"][l] + 1
           /\ F["dump"][l] <= F["transfer"][l] /\ F["transfer"][l] <= F["dump"][l] + 1
      /\ method[l] = "AsyncOclCopy" =>
           /\ F["back"][l] <= F["transfer"][l] /\ F["load"][l] <= F["back"][l] + 1
  BY <1>1, LinkCounts
<1> HIDE DEF l
<1>7. ASSUME c.kind = "load", e.kind = "back"
      PROVE  FALSE
  BY <1>1, <1>2, <1>4, <1>5, <1>6, <1>7
<1>8. ASSUME e.kind = "load", c.kind = "back"
      PROVE  FALSE
  BY <1>1, <1>2, <1>4, <1>5, <1>6, <1>8
<1>9. ASSUME c.kind = "load", e.kind = "transfer"
      PROVE  FALSE
  BY <1>1, <1>2, <1>4, <1>5, <1>6, <1>9
<1>10. ASSUME c.kind = "load", e.kind = "dump", method[l] = "OclCopy"
       PROVE  FALSE
  BY <1>1, <1>2, <1>4, <1>5, <1>6, <1>10
<1>11. ASSUME c.kind = "back", e.kind = "transfer"
       PROVE  FALSE
  BY <1>1, <1>2, <1>4, <1>5, <1>6, <1>11
<1>12. ASSUME c.kind = "transfer", e.kind = "dump"
       PROVE  FALSE
  BY <1>1, <1>2, <1>4, <1>5, <1>6, <1>12
<1> QED BY <1>3, <1>7, <1>8, <1>9, <1>10, <1>11, <1>12 DEF l

(* What a command accesses, and where.                                     *)
LEMMA Accesses ==
    ASSUME NEW c, c.kind \in CommandKinds, NEW b \in Reads(c) \cup Writes(c)
    PROVE  \/ b.buffer \in {"main", "scalar"} /\ b.at = Own(c.at.from) /\ c.kind \notin {"transfer", "back", "dump"}
           \/ b.buffer = "halo" /\ ((c.kind = "dump" /\ b.at = c.at) \/ (c.kind = "boundary" /\ b.at.to = c.at.to))
           \/ /\ b.buffer = "src_cache" /\ b.at = c.at
              /\ (c.kind \in {"load", "back", "transfer"} \/ (c.kind = "dump" /\ method[c.at] = "OclCopy"))
           \/ b.buffer = "dest_cache" /\ b.at = c.at /\ c.kind \in {"transfer", "dump"}
<1>1. c.kind \in {"write", "load", "back", "transfer", "dump", "reduce",
                  "inner", "boundary", "use", "map", "unmap"}
  BY DEF CommandKinds, EventKinds, Kernels
<1> QED BY <1>1 DEF Reads, Writes, Main, Scalar, Halo, SrcCache, DestCache, DumpedFrom

(* and that commands do not get into each other's way.                     *)
LEMMA RightAccess ==
    ASSUME NEW CONSTANT F, Right(F)
    PROVE  NoConcurrentAccess
<1>0. Queued(F) /\ InTurn(F) /\ Contents(F) /\ Scalars
  BY DEF Right
<1>1. ASSUME At("sum") /\ Mapped, NEW q \in Queues, NEW d \in Devices, Ready(q)
      PROVE  Scalar(d) \notin Reads(NextCommand(q)) \cup Writes(NextCommand(q))
  <2> SUFFICES ASSUME NEW c, c = NextCommand(q), Scalar(d) \in Reads(c) \cup Writes(c)
               PROVE  FALSE
    OBVIOUS
  <2>1. c.kind \in {"reduce", "use"}
    <3>1. c.kind \in CommandKinds
      BY <1>0, <1>1, HeadOf
    <3>2. c.kind \in {"write", "load", "back", "transfer", "dump", "reduce",
                      "inner", "boundary", "use", "map", "unmap"}
      BY <3>1 DEF CommandKinds, EventKinds, Kernels
    <3> QED BY <3>2 DEF Reads, Writes, Main, Scalar, Halo, SrcCache, DestCache, DumpedFrom
  <2>2. c.at.from \in Devices /\ q = DeviceQueue(c.at.from)
    BY <1>0, <1>1, <2>1, OwnQueue DEF Kernels
  <2>3. queue[q] = << >>
    BY <1>0, <1>1, <2>2, DevicesDrained
  <2> QED BY <1>1, <2>3 DEF Ready
<1>2. ASSUME NEW q \in Queues, NEW r \in Queues, q # r, Ready(q), Ready(r)
      PROVE  Writes(NextCommand(q)) \cap (Reads(NextCommand(r)) \cup Writes(NextCommand(r))) = {}
  <2> SUFFICES ASSUME NEW c, c = NextCommand(q), NEW e, e = NextCommand(r),
                      NEW b \in Writes(c), b \in Reads(e) \cup Writes(e)
               PROVE  FALSE
    OBVIOUS
  <2>1. /\ c.kind \in CommandKinds /\ QueueOf(c) = q /\ e.kind \in CommandKinds /\ QueueOf(e) = r
    BY <1>0, <1>2, HeadOf
  <2>2. CASE b.buffer \in {"main", "scalar"}
    <3>1. /\ c.kind \in {"write", "reduce"} /\ b.at = Own(c.at.from)
      <4>1. c.kind \in {"write", "load", "back", "transfer", "dump", "reduce",
                        "inner", "boundary", "use", "map", "unmap"}
        BY <2>1 DEF CommandKinds, EventKinds, Kernels
      <4> QED BY <2>2, <4>1 DEF Writes, Main, Scalar, Halo, SrcCache, DestCache
    <3>2. e.kind \notin {"transfer", "back", "dump"} /\ b.at = Own(e.at.from)
      BY <2>1, <2>2, Accesses
    <3>3. QueueOf(c) = DeviceQueue(c.at.from) /\ QueueOf(e) = DeviceQueue(e.at.from)
      BY <3>1, <3>2 DEF QueueOf
    <3>4. c.at.from = e.at.from
      BY <3>1, <3>2 DEF Own
    <3> QED BY <1>2, <2>1, <3>3, <3>4
  <2>3. CASE b.buffer = "halo"
    <3>1. c.kind = "dump" /\ b.at = c.at
      <4>1. c.kind \in {"write", "load", "back", "transfer", "dump", "reduce",
                        "inner", "boundary", "use", "map", "unmap"}
        BY <2>1 DEF CommandKinds, EventKinds, Kernels
      <4> QED BY <2>3, <4>1 DEF Writes, Main, Scalar, Halo, SrcCache, DestCache
    <3>2. (e.kind = "dump" /\ b.at = e.at) \/ (e.kind = "boundary" /\ b.at.to = e.at.to)
      BY <2>1, <2>3, Accesses
    <3>3. QueueOf(c) = DeviceQueue(c.at.to)
      BY <3>1 DEF QueueOf
    <3>4. CASE e.kind = "dump" /\ b.at = e.at
      BY <1>2, <2>1, <3>1, <3>3, <3>4 DEF QueueOf
    <3>5. CASE e.kind = "boundary" /\ b.at.to = e.at.to
      <4>1. e.at.to = e.at.from /\ r = DeviceQueue(e.at.from)
        BY <1>0, <1>2, <3>5, OwnQueue DEF Kernels
      <4> QED BY <1>2, <2>1, <3>1, <3>3, <3>5, <4>1
    <3> QED BY <3>2, <3>4, <3>5
  <2>4. CASE b.buffer \in {"src_cache", "dest_cache"}
    <3>1. \/ b.buffer = "src_cache" /\ c.kind \in {"load", "back"} /\ b.at = c.at
          \/ b.buffer = "dest_cache" /\ c.kind = "transfer" /\ b.at = c.at
      <4>1. c.kind \in {"write", "load", "back", "transfer", "dump", "reduce",
                        "inner", "boundary", "use", "map", "unmap"}
        BY <2>1 DEF CommandKinds, EventKinds, Kernels
      <4> QED BY <2>4, <4>1 DEF Writes, Main, Scalar, Halo, SrcCache, DestCache
    <3>2. /\ b.at = e.at
          /\ b.buffer = "src_cache" => \/ e.kind \in {"load", "back", "transfer"}
                                       \/ (e.kind = "dump" /\ method[e.at] = "OclCopy")
          /\ b.buffer = "dest_cache" => e.kind \in {"transfer", "dump"}
      BY <2>1, <2>4, Accesses
    <3>3. c.at = e.at /\ c.kind \in EventKinds /\ e.kind \in EventKinds
      BY <2>4, <3>1, <3>2 DEF EventKinds
    <3>4. /\ ~(c.kind = "load" /\ e.kind \in {"load", "back", "transfer"})
          /\ ~(c.kind = "load" /\ e.kind = "dump" /\ method[c.at] = "OclCopy")
          /\ ~(c.kind = "back" /\ e.kind \in {"load", "back", "transfer"})
          /\ ~(c.kind = "transfer" /\ e.kind \in {"transfer", "dump"})
      BY <1>0, <1>2, <3>3, LinkAccess
    <3>5. c.kind = "back" => method[c.at] = "AsyncOclCopy"
      <4>1. c.kind = "back" => c.at \in Links /\ Uses(c.kind, c.at)
        BY <1>0, <1>2, <3>3, LinkHead
      <4> QED BY <4>1, LinkType DEF Uses
    <3> QED BY <3>1, <3>2, <3>3, <3>4, <3>5
  <2> QED BY <2>1, <2>2, <2>3, <2>4, Accesses
<1> QED BY <1>1, <1>2 DEF NoConcurrentAccess

(* The state stays of its type: a command is in the queue of its kind and  *)
(* place, no more commands are flushed than there are, and every buffer    *)
(* holds the value of a round, a sum, or nothing.                          *)
THEOREM TypeCorrect == Spec => []TypeOK
<1>1. IInv => TypeOK
  BY RightTypes DEF IInv
<1> QED BY <1>1, InductiveInvariant, PTL

(* Whatever the order the devices get to their commands in: a kernel of a  *)
(* round reads main rows, halos and sums of that round.                    *)
THEOREM KernelsAlwaysReadTheirRound == Spec => []KernelsReadTheirRound
<1>1. IInv => KernelsReadTheirRound
  BY RightReads DEF IInv
<1> QED BY <1>1, InductiveInvariant, PTL

(* The event lists order every pair of commands of which one writes what   *)
(* the other one accesses.                                                 *)
THEOREM NeverConcurrentAccess == Spec => []NoConcurrentAccess
<1>1. IInv => NoConcurrentAccess
  BY RightAccess DEF IInv
<1> QED BY <1>1, InductiveInvariant, PTL

-----------------------------------------------------------------------------
(***************************************************************************)
(* The links keep their promise                                            *)
(***************************************************************************)

(* What is no longer in a queue of what was enqueued is what F counts: the *)
(* commands of a stream in the queue are numbered without gap.             *)
LEMMA CompletedIs ==
    ASSUME NEW F, Right(F), NEW l \in Links, NEW k \in EventKinds, Uses(k, l)
    PROVE  Completed(l, k) = F[k][l]
<1> DEFINE q == QueueOf(Command(k, l, 0))
           s == queue[q]
           I == {i \in DOMAIN s : s[i].cmd.kind = k /\ s[i].cmd.at = l}
           a == F[k][l]
           b == Last(k, l)
<1>1. Queued(F) /\ EventsRight /\ k \in MainKinds /\ l \in Places /\ k \notin ScalarKinds
  BY ScalarApart DEF Right
<1>2. /\ q \in Queues /\ \A n : QueueOf(Command(k, l, n)) = q
      /\ Turn(k, l) \in Nat
  BY <1>1, StreamQueues, CallsOfStreams DEF Queued, Types, StreamQueue
<1>3. s \in Seq(Entries)
  BY <1>1, <1>2 DEF Queued, Types
<1>4. /\ a \in Nat /\ a <= b
      /\ \A n \in 1 .. MaxRounds : Pend(k, l, n) <=> a < n /\ n <= b
  BY <1>1 DEF Queued, Types, Counted
<1>5. b \in Nat /\ b <= MaxRounds /\ MaxRounds \in Nat
  BY <1>1, RoundAssumption DEF Queued, Types, Last
<1>6. ASSUME NEW i \in I
      PROVE  /\ i \in 1 .. Len(s) /\ s[i].cmd = Command(k, l, s[i].cmd.n) /\ s[i].cmd = Cmd(q, i)
             /\ s[i].cmd.n \in a + 1 .. b
  <2>1. i \in 1 .. Len(s) /\ s[i] \in Entries
    BY <1>3, QueueSteps
  <2>2. s[i].cmd.n \in 1 .. MaxRounds /\ s[i].cmd = Command(k, l, s[i].cmd.n)
    BY <2>1 DEF Entries, Command
  <2>3. Pend(k, l, s[i].cmd.n)
    BY <1>2, <2>2 DEF Pend, Pending
  <2>4. a < s[i].cmd.n /\ s[i].cmd.n <= b
    BY <1>4, <2>2, <2>3
  <2> QED BY <1>4, <1>5, <2>1, <2>2, <2>4 DEF Cmd
<1>7. ASSUME NEW n \in a + 1 .. b
      PROVE  \E i \in I : s[i].cmd.n = n
  <2>1. n \in 1 .. MaxRounds /\ a < n /\ n <= b
    BY <1>4, <1>5
  <2>2. Pend(k, l, n)
    BY <1>4, <2>1
  <2>3. PICK i \in DOMAIN s : s[i].cmd = Command(k, l, n)
    BY <1>2, <2>2 DEF Pend, Pending
  <2> QED BY <2>3 DEF Command
<1>8. ASSUME NEW i \in I, NEW j \in I, i # j
      PROVE  s[i].cmd.n # s[j].cmd.n
  <2>1. ASSUME NEW x \in I, NEW y \in I, x < y
        PROVE  s[x].cmd.n < s[y].cmd.n
    <3>1. Earlier(s[x].cmd, s[y].cmd)
      BY <1>1, <1>2, <1>6, <2>1 DEF Queued, Ordered
    <3>2. Turn(s[x].cmd.kind, s[x].cmd.at) = Turn(k, l) /\ Turn(s[y].cmd.kind, s[y].cmd.at) = Turn(k, l)
      OBVIOUS
    <3>3. ~({s[x].cmd.kind, s[y].cmd.kind} \subseteq ScalarKinds)
      BY <1>1
    <3> QED BY <1>2, <3>1, <3>2, <3>3 DEF Earlier
  <2>2. i \in Int /\ j \in Int /\ s[i].cmd.n \in Int /\ s[j].cmd.n \in Int
    BY <1>4, <1>5, <1>6, <1>3, QueueSteps
  <2>3. i < j \/ j < i
    BY <1>8, <2>2
  <2> QED BY <2>1, <2>2, <2>3
<1> DEFINE g == [n \in a + 1 .. b |-> CHOOSE i \in I : s[i].cmd.n = n]
<1>9. ASSUME NEW n \in a + 1 .. b
      PROVE  g[n] \in I /\ s[g[n]].cmd.n = n
  BY <1>7
<1>10. g \in Bijection(a + 1 .. b, I)
  <2>1. g \in [a + 1 .. b -> I]
    BY <1>9
  <2>2. \A m, n \in a + 1 .. b : g[m] = g[n] => m = n
    BY <1>9
  <2>3. \A i \in I : \E n \in a + 1 .. b : g[n] = i
    <3> SUFFICES ASSUME NEW i \in I
                 PROVE  \E n \in a + 1 .. b : g[n] = i
      OBVIOUS
    <3>1. s[i].cmd.n \in a + 1 .. b
      BY <1>6
    <3>2. g[s[i].cmd.n] = i
      <4> DEFINE j == g[s[i].cmd.n]
      <4>1. j \in I /\ s[j].cmd.n = s[i].cmd.n
        BY <1>9, <3>1
      <4> HIDE DEF g, I, j
      <4>2. j = i
        BY <1>8, <4>1
      <4> QED BY <4>2 DEF j
    <3> QED BY <3>1, <3>2
  <2> HIDE DEF g, I
  <2> QED BY <2>1, <2>2, <2>3 DEF Bijection, Injection, Surjection, IsInjective
<1>11. Cardinality(I) = b - a
  <2> HIDE DEF g, I
  <2>1. a + 1 \in Int /\ b \in Int
    BY <1>4, <1>5
  <2>2. IsFiniteSet(a + 1 .. b) /\ Cardinality(a + 1 .. b) = IF a + 1 > b THEN 0 ELSE b - (a + 1) + 1
    BY <2>1, FS_Interval
  <2>3. Cardinality(I) = Cardinality(a + 1 .. b)
    BY <1>10, <2>2, FS_Bijection DEF ExistsBijection
  <2> QED BY <1>4, <1>5, <2>2, <2>3
<1>12. event[l][k] = b
  BY <1>1 DEF EventsRight
<1>13. Completed(l, k) = event[l][k] - Cardinality(I)
  BY DEF Completed
<1> HIDE DEF I
<1> QED BY <1>4, <1>5, <1>11, <1>12, <1>13

(* The content of a link, by the count: what has been transferred and not  *)
(* dumped, and what has been loaded and not transferred.                   *)
Arrived(F, l) == IF method[l] = "OclCopy" THEN F["dump"][l] ELSE F["transfer"][l]
OnTheWay(F, l) ==
    (IF Arrived(F, l) > F["dump"][l] THEN <<content[DestCache(l)]>> ELSE << >>)
    \o (IF F["load"][l] > Arrived(F, l) THEN <<content[SrcCache(l)]>> ELSE << >>)

(* What is in a link by the count,                                         *)
LEMMA InTransitIs ==
    ASSUME NEW F, Right(F), NEW l \in Links
    PROVE  InTransit(l) = OnTheWay(F, l)
<1>1. /\ Uses("load", l) /\ Uses("dump", l)
      /\ method[l] # "OclCopy" => Uses("transfer", l)
  BY DEF Uses
<1>2. /\ Completed(l, "load") = F["load"][l] /\ Completed(l, "dump") = F["dump"][l]
      /\ method[l] # "OclCopy" => Completed(l, "transfer") = F["transfer"][l]
  BY <1>1, CompletedIs DEF EventKinds
<1> QED BY <1>2 DEF InTransit, OnTheWay, Transferred, Arrived

(* in the next state too.                                                  *)
LEMMA InTransitThen ==
    ASSUME NEW CONSTANT F
    PROVE  Right(F)' => \A l \in Links : InTransit(l)' = OnTheWay(F, l)'
<1>1. Right(F) => \A l \in Links : InTransit(l) = OnTheWay(F, l)
  BY InTransitIs
<1>2. Right(F)' => (\A l \in Links : InTransit(l) = OnTheWay(F, l))'
  BY <1>1, PTL
<1> QED BY <1>2

(* A sequence of two values.                                               *)
LEMMA PairOf ==
    ASSUME NEW x, NEW y
    PROVE  <<x>> \o <<y>> = <<x, y>> /\ Append(<<x>>, y) = <<x, y>>
<1> DEFINE S == {x, y}
<1>1. <<x>> \in Seq(S) /\ <<y>> \in Seq(S) /\ <<x, y>> \in Seq(S) /\ y \in S
  OBVIOUS
<1>2. /\ Len(<<x>>) = 1 /\ Len(<<y>>) = 1 /\ Len(<<x, y>>) = 2
      /\ <<x>>[1] = x /\ <<y>>[1] = y /\ <<x, y>>[1] = x /\ <<x, y>>[2] = y
  OBVIOUS
<1>3. <<x>> \o <<y>> = <<x, y>>
  <2> DEFINE s == <<x>> \o <<y>>
  <2>1. /\ s \in Seq(S) /\ Len(s) = Len(<<x>>) + Len(<<y>>)
        /\ \A i \in 1 .. Len(<<x>>) + Len(<<y>>) :
             s[i] = IF i <= Len(<<x>>) THEN <<x>>[i] ELSE <<y>>[i - Len(<<x>>)]
    BY <1>1, ConcatProperties, Zenon
  <2> HIDE DEF s
  <2>2. Len(s) = 2 /\ s[1] = x /\ s[2] = y
    BY <1>2, <2>1
  <2>3. Len(s) = Len(<<x, y>>) /\ \A i \in 1 .. Len(s) : s[i] = <<x, y>>[i]
    BY <1>2, <2>2
  <2>4. s = <<x, y>>
    BY <1>1, <2>1, <2>3, SeqEqual, Zenon
  <2> QED BY <2>4 DEF s
<1>4. Append(<<x>>, y) = <<x, y>>
  <2> DEFINE s == Append(<<x>>, y)
  <2>1. /\ s \in Seq(S) /\ Len(s) = Len(<<x>>) + 1
        /\ \A i \in 1 .. Len(<<x>>) : s[i] = <<x>>[i]
        /\ s[Len(<<x>>) + 1] = y
    BY <1>1, AppendProperties
  <2> HIDE DEF s
  <2>2. Len(s) = 2 /\ s[1] = x /\ s[2] = y
    BY <1>2, <2>1
  <2>3. Len(s) = Len(<<x, y>>) /\ \A i \in 1 .. Len(s) : s[i] = <<x, y>>[i]
    BY <1>2, <2>2
  <2>4. s = <<x, y>>
    BY <1>1, <2>1, <2>3, SeqEqual, Zenon
  <2> QED BY <2>4 DEF s
<1> QED BY <1>3, <1>4

(* The sequences a link can hold.                                          *)
LEMMA ShortSequences ==
    ASSUME NEW x, NEW y
    PROVE  /\ << >> \o << >> = << >> /\ <<x>> \o << >> = <<x>> /\ << >> \o <<x>> = <<x>>
           /\ <<x>> \o <<y>> = <<x, y>>
           /\ Append(<< >>, x) = <<x>> /\ Append(<<x>>, y) = <<x, y>>
           /\ Head(<<x>>) = x /\ Tail(<<x>>) = << >> /\ Head(<<x, y>>) = x /\ Tail(<<x, y>>) = <<y>>
           /\ Len(<< >>) = 0 /\ Len(<<x>>) = 1 /\ <<x>> # << >> /\ <<x, y>> # << >>
<1>1. << >> \o << >> = << >> /\ <<x>> \o << >> = <<x>> /\ << >> \o <<x>> = <<x>>
  BY ConcatEmptySeq
<1>2. Append(<< >>, x) = <<x>> /\ Head(<<x>>) = x /\ Head(<<x, y>>) = x
  OBVIOUS
<1>3. Tail(<<x>>) = << >>
  OBVIOUS
<1>4. Tail(<<x, y>>) = <<y>>
  OBVIOUS
<1>5. Len(<< >>) = 0 /\ Len(<<x>>) = 1 /\ <<x>> # << >> /\ <<x, y>> # << >>
  OBVIOUS
<1> QED BY <1>1, <1>2, <1>3, <1>4, <1>5, PairOf

(* Which command writes a buffer.                                          *)
LEMMA WrittenBuffers ==
    ASSUME NEW c, c.kind \in CommandKinds
    PROVE  /\ \A d : Main(d) \in Writes(c) <=> c.kind = "write" /\ d = c.at.from
           /\ \A l : Halo(l) \in Writes(c) <=> c.kind = "dump" /\ l = c.at
           /\ \A l : SrcCache(l) \in Writes(c) <=> c.kind \in {"load", "back"} /\ l = c.at
           /\ \A l : DestCache(l) \in Writes(c) <=> c.kind = "transfer" /\ l = c.at
<1>1. c.kind \in {"write", "load", "back", "transfer", "dump", "reduce",
                  "inner", "boundary", "use", "map", "unmap"}
  BY DEF CommandKinds, EventKinds, Kernels
<1>2. \A d, e : Main(d) = Main(e) => d = e
  BY DEF Main, Own
<1> QED BY <1>1, <1>2 DEF Writes, Main, Scalar, Halo, SrcCache, DestCache

(* The variables of the links as functions of the state of the queues.     *)
Sources == [d \in Devices |-> content[Main(d)]]
Underway == [l \in Links |-> InTransit(l)]
Received == [l \in Links |-> content[Halo(l)]]

(* A load puts into the link what the main rows hold, a transfer and the   *)
(* migration back leave the link as it is, and a dump takes out the oldest. *)
LEMMA ExecuteImplements ==
    ASSUME NEW CONSTANT F, Right(F), NEW CONSTANT q \in Queues, Execute(q)
    PROVE  [Link!Next]_(Link!linkVars)
<1> SUFFICES ASSUME NEW CONSTANT c, c = NextCommand(q)
             PROVE  [Link!Next]_(Link!linkVars)
  OBVIOUS
<1> SUFFICES ASSUME NEW CONSTANT G, G = After(F, c)
             PROVE  [Link!Next]_(Link!linkVars)
  OBVIOUS
<1>1. Right(G)' /\ OneMore(F, G, c)
  BY DeviceRight
<1>2. /\ Queued(F) /\ InTurn(F) /\ Sound /\ Ready(q) /\ method' = method
      /\ content' = [b \in Buffers |-> IF b \in Writes(c) THEN Result(c) ELSE content[b]]
  BY DEF Right, Execute
<1>3. /\ c.kind \in CommandKinds /\ c.n \in Nat /\ c.n \in 1 .. MaxRounds
  BY <1>2, HeadOf
<1>4. /\ \A d \in Devices : content'[Main(d)] = IF c.kind = "write" /\ d = c.at.from THEN Result(c) ELSE content[Main(d)]
      /\ \A l \in Links :
          /\ content'[Halo(l)] = IF c.kind = "dump" /\ l = c.at THEN Result(c) ELSE content[Halo(l)]
          /\ content'[SrcCache(l)] = IF c.kind \in {"load", "back"} /\ l = c.at THEN Result(c) ELSE content[SrcCache(l)]
          /\ content'[DestCache(l)] = IF c.kind = "transfer" /\ l = c.at THEN Result(c) ELSE content[DestCache(l)]
  <2>1. \A d \in Devices : Main(d) \in Buffers
    BY DEF Main, Buffers, OwnPlaces
  <2>2. \A l \in Links : Halo(l) \in Buffers /\ SrcCache(l) \in Buffers /\ DestCache(l) \in Buffers
    BY DEF Halo, SrcCache, DestCache, Buffers
  <2>3. \A b \in Buffers : content'[b] = IF b \in Writes(c) THEN Result(c) ELSE content[b]
    BY <1>2
  <2>4. ASSUME NEW d \in Devices
        PROVE  content'[Main(d)] = IF c.kind = "write" /\ d = c.at.from THEN Result(c) ELSE content[Main(d)]
    <3>1. Main(d) \in Writes(c) <=> c.kind = "write" /\ d = c.at.from
      BY <1>3, WrittenBuffers
    <3> QED BY <2>1, <2>3, <3>1
  <2>5. ASSUME NEW l \in Links
        PROVE  /\ content'[Halo(l)] = IF c.kind = "dump" /\ l = c.at THEN Result(c) ELSE content[Halo(l)]
               /\ content'[SrcCache(l)] = IF c.kind \in {"load", "back"} /\ l = c.at THEN Result(c) ELSE content[SrcCache(l)]
               /\ content'[DestCache(l)] = IF c.kind = "transfer" /\ l = c.at THEN Result(c) ELSE content[DestCache(l)]
    <3>1. /\ Halo(l) \in Writes(c) <=> c.kind = "dump" /\ l = c.at
          /\ SrcCache(l) \in Writes(c) <=> c.kind \in {"load", "back"} /\ l = c.at
          /\ DestCache(l) \in Writes(c) <=> c.kind = "transfer" /\ l = c.at
      BY <1>3, WrittenBuffers
    <3> QED BY <2>2, <2>3, <3>1
  <2> QED BY <2>4, <2>5
<1>5. \A l \in Links : InTransit(l) = OnTheWay(F, l) /\ InTransit(l)' = OnTheWay(G, l)'
  BY <1>1, InTransitIs, InTransitThen
<1>6. \A l \in Links : l # c.at \/ c.kind \notin EventKinds => InTransit(l)' = InTransit(l)
  <2> SUFFICES ASSUME NEW l \in Links, l # c.at \/ c.kind \notin EventKinds
               PROVE  OnTheWay(G, l)' = OnTheWay(F, l)
    BY <1>5
  <2>1. Uses("load", l) /\ Uses("dump", l) /\ (method[l] # "OclCopy" => Uses("transfer", l))
    BY DEF Uses
  <2>2. /\ G["load"][l] = F["load"][l] /\ G["dump"][l] = F["dump"][l]
        /\ method[l] # "OclCopy" => G["transfer"][l] = F["transfer"][l]
    BY <1>1, <2>1, ScalarApart DEF OneMore, EventKinds
  <2>3. content'[SrcCache(l)] = content[SrcCache(l)] /\ content'[DestCache(l)] = content[DestCache(l)]
    BY <1>4 DEF EventKinds
  <2>4. Arrived(G, l)' = Arrived(F, l)
    BY <1>2, <2>2 DEF Arrived
  <2>5. /\ OnTheWay(F, l) = (IF Arrived(F, l) > F["dump"][l] THEN <<content[DestCache(l)]>> ELSE << >>)
                            \o (IF F["load"][l] > Arrived(F, l) THEN <<content[SrcCache(l)]>> ELSE << >>)
        /\ OnTheWay(G, l)' = (IF Arrived(G, l)' > G["dump"][l] THEN <<content'[DestCache(l)]>> ELSE << >>)
                             \o (IF G["load"][l] > Arrived(G, l)' THEN <<content'[SrcCache(l)]>> ELSE << >>)
    <3>1. DestCache(l)' = DestCache(l) /\ SrcCache(l)' = SrcCache(l)
      BY DEF DestCache, SrcCache
    <3> QED BY <3>1 DEF OnTheWay
  <2> QED BY <2>2, <2>3, <2>4, <2>5
<1>7. \A l \in Links : l.from \in Devices
  BY LinkType
<1>8. CASE c.kind \notin EventKinds
  <2>1. Underway' = Underway
    BY <1>6, <1>8 DEF Underway
  <2>2. Received' = Received
    BY <1>4, <1>8 DEF Received, EventKinds
  <2>3. CASE c.kind = "write"
    <3>1. c.at.from \in Devices
      BY <1>2, <2>3, OwnQueue DEF Kernels
    <3>2. Result(c) = c.n /\ c.n \in Versions
      BY <1>3, <2>3, RoundAssumption DEF Result, Versions, Undefined, Sum
    <3>3. Sources' = [Sources EXCEPT ![c.at.from] = c.n]
      BY <1>4, <2>3, <3>1, <3>2 DEF Sources
    <3>4. Link!Overwrite(c.at.from)
      BY <2>1, <2>2, <3>2, <3>3 DEF Link!Overwrite, Sources, Underway, Received
    <3> QED BY <3>1, <3>4 DEF Link!Next
  <2>4. CASE c.kind # "write"
    <3>1. Sources' = Sources
      BY <1>4, <2>4 DEF Sources
    <3> QED BY <2>1, <2>2, <3>1 DEF Link!linkVars, Sources, Underway, Received
  <2> QED BY <2>3, <2>4
<1>9. CASE c.kind \in EventKinds
  <2> DEFINE l == c.at
             n == c.n
  <2>1. /\ l \in Links /\ Uses(c.kind, l) /\ F[c.kind][l] = n - 1
        /\ \A j \in NeedsNow(c.kind, l) : F[j][l] >= n
        /\ \A j \in NeedsBefore(c.kind, l) : F[j][l] >= n - 1
    BY <1>2, <1>9, LinkHead
  <2>2. /\ F["load"][l] \in Nat /\ F["dump"][l] \in Nat
        /\ F["transfer"][l] \in Nat /\ F["back"][l] \in Nat
        /\ method[l] \in {"OclCopy", "AsyncOclCopy", "DirectGMA"}
        /\ method[l] = "OclCopy" =>
              /\ F["dump"][l] <= F["load"][l] /\ F["load"][l] <= F["dump"][l] + 1
        /\ method[l] # "OclCopy" =>
              /\ F["transfer"][l] <= F["load"][l] /\ F["load"][l] <= F["transfer"][l] + 1
              /\ F["dump"][l] <= F["transfer"][l] /\ F["transfer"][l] <= F["dump"][l] + 1
        /\ method[l] = "AsyncOclCopy" =>
              /\ F["back"][l] <= F["transfer"][l] /\ F["load"][l] <= F["back"][l] + 1
    BY <1>2, <2>1, LinkCounts
  <2>3. /\ G["load"][l] = IF c.kind = "load" THEN F["load"][l] + 1 ELSE F["load"][l]
        /\ G["dump"][l] = IF c.kind = "dump" THEN F["dump"][l] + 1 ELSE F["dump"][l]
        /\ method[l] # "OclCopy" =>
             G["transfer"][l] = IF c.kind = "transfer" THEN F["transfer"][l] + 1 ELSE F["transfer"][l]
    <3>1. Uses("load", l) /\ Uses("dump", l) /\ (method[l] # "OclCopy" => Uses("transfer", l))
      BY <2>1 DEF Uses
    <3> QED BY <1>1, <3>1, ScalarApart DEF OneMore
  <2>4. \A k \in Links : k # l => /\ InTransit(k)' = InTransit(k)
                                 /\ content'[Halo(k)] = content[Halo(k)]
    BY <1>4, <1>6
  <2>5. Sources' = Sources
    BY <1>4, <1>9 DEF Sources, EventKinds
  <2>6. InTransit(l) = OnTheWay(F, l) /\ InTransit(l)' = OnTheWay(G, l)'
    BY <1>5, <2>1
  <2>7. /\ content'[Halo(l)] = IF c.kind = "dump" THEN Result(c) ELSE content[Halo(l)]
        /\ content'[SrcCache(l)] = IF c.kind \in {"load", "back"} THEN Result(c) ELSE content[SrcCache(l)]
        /\ content'[DestCache(l)] = IF c.kind = "transfer" THEN Result(c) ELSE content[DestCache(l)]
    BY <1>4, <2>1
  <2>8. /\ n \in Nat
        /\ OnTheWay(F, l) = (IF Arrived(F, l) > F["dump"][l] THEN <<content[DestCache(l)]>> ELSE << >>)
                            \o (IF F["load"][l] > Arrived(F, l) THEN <<content[SrcCache(l)]>> ELSE << >>)
        /\ OnTheWay(G, l)' = (IF Arrived(G, l)' > G["dump"][l] THEN <<content'[DestCache(l)]>> ELSE << >>)
                             \o (IF G["load"][l] > Arrived(G, l)' THEN <<content'[SrcCache(l)]>> ELSE << >>)
        /\ Arrived(F, l) = IF method[l] = "OclCopy" THEN F["dump"][l] ELSE F["transfer"][l]
        /\ Arrived(G, l)' = IF method[l] = "OclCopy" THEN G["dump"][l] ELSE G["transfer"][l]
    <3>1. DestCache(l)' = DestCache(l) /\ SrcCache(l)' = SrcCache(l)
      BY DEF DestCache, SrcCache
    <3> QED BY <1>2, <1>3, <3>1 DEF OnTheWay, Arrived
  <2> HIDE DEF l, n
  <2>9. CASE c.kind = "load"
    <3>1. Arrived(F, l) = n - 1 /\ F["load"][l] = n - 1
      <4>1. \/ method[l] = "OclCopy" /\ F["dump"][l] >= n - 1
            \/ method[l] # "OclCopy" /\ F["transfer"][l] >= n - 1
        BY <2>1, <2>2, <2>9 DEF NeedsBefore
      <4>2. n \in Nat /\ F["load"][l] = n - 1
        BY <2>1, <2>8, <2>9
      <4>3. CASE method[l] = "OclCopy"
        <5>1. /\ Arrived(F, l) = F["dump"][l] /\ F["dump"][l] >= n - 1
              /\ F["dump"][l] <= F["load"][l] /\ F["dump"][l] \in Nat
          BY <2>2, <2>8, <4>1, <4>3
        <5> QED BY <4>2, <5>1
      <4>4. CASE method[l] # "OclCopy"
        <5>1. /\ Arrived(F, l) = F["transfer"][l] /\ F["transfer"][l] >= n - 1
              /\ F["transfer"][l] <= F["load"][l] /\ F["transfer"][l] \in Nat
          BY <2>2, <2>8, <4>1, <4>4
        <5> QED BY <4>2, <5>1
      <4> QED BY <4>3, <4>4
    <3>2. Arrived(G, l)' = n - 1 /\ G["load"][l] = n /\ G["dump"][l] = F["dump"][l]
      BY <2>3, <2>8, <2>9, <3>1
    <3>3. /\ OnTheWay(F, l) = (IF n - 1 > F["dump"][l] THEN <<content[DestCache(l)]>> ELSE << >>) \o << >>
          /\ OnTheWay(G, l)' = (IF n - 1 > F["dump"][l] THEN <<content[DestCache(l)]>> ELSE << >>)
                               \o <<Result(c)>>
      <4>1. ~(n - 1 > n - 1) /\ n > n - 1
        BY <2>8
      <4>2. content'[DestCache(l)] = content[DestCache(l)] /\ content'[SrcCache(l)] = Result(c)
        BY <2>7, <2>9
      <4>3. OnTheWay(F, l) = (IF n - 1 > F["dump"][l] THEN <<content[DestCache(l)]>> ELSE << >>) \o << >>
        BY <2>8, <3>1, <4>1, Zenon
      <4>4. OnTheWay(G, l)' = (IF n - 1 > F["dump"][l] THEN <<content[DestCache(l)]>> ELSE << >>)
                               \o <<Result(c)>>
        BY <2>8, <3>2, <4>1, <4>2, Zenon
      <4> QED BY <4>3, <4>4
    <3>4. Result(c) = content[Main(l.from)]
      BY <2>9 DEF Result, l
    <3>5. Len(OnTheWay(F, l)) < 2 /\ OnTheWay(G, l)' = Append(OnTheWay(F, l), content[Main(l.from)])
      <4>1. CASE n - 1 > F["dump"][l]
        BY <3>3, <3>4, <4>1, ShortSequences
      <4>2. CASE ~(n - 1 > F["dump"][l])
        BY <3>3, <3>4, <4>2, ShortSequences
      <4> QED BY <4>1, <4>2
    <3>6. Received' = Received
      BY <2>4, <2>7, <2>9 DEF Received
    <3>7. Len(Underway[l]) < 2 /\ Underway' = [Underway EXCEPT ![l] = Append(@, Sources[l.from])]
      <4>1. Sources[l.from] = content[Main(l.from)]
        BY <1>7, <2>1 DEF Sources
      <4> QED BY <2>1, <2>4, <2>6, <3>5, <4>1 DEF Underway
    <3>8. Link!Load(l)
      BY <2>1, <2>5, <3>6, <3>7 DEF Link!Load, Sources, Underway, Received
    <3> QED BY <2>1, <3>8 DEF Link!Next
  <2>10. ASSUME c.kind \in {"transfer", "back"}, OnTheWay(G, l)' = OnTheWay(F, l)
         PROVE  UNCHANGED Link!linkVars
    <3>1. Received' = Received
      BY <2>4, <2>7, <2>10 DEF Received
    <3>2. Underway' = Underway
      BY <2>4, <2>6, <2>10 DEF Underway
    <3> QED BY <2>5, <3>1, <3>2 DEF Link!linkVars, Sources, Underway, Received
  <2>11. CASE c.kind = "transfer"
    <3>1. method[l] # "OclCopy" /\ F["transfer"][l] = n - 1 /\ F["load"][l] = n /\ F["dump"][l] = n - 1
      <4>1. method[l] # "OclCopy"
        BY <2>1, <2>11, LinkType DEF Uses
      <4>2. F["load"][l] >= n /\ F["dump"][l] >= n - 1 /\ F["transfer"][l] = n - 1
        BY <2>1, <2>11 DEF NeedsNow, NeedsBefore
      <4> QED BY <2>2, <2>8, <4>1, <4>2
    <3>2. /\ OnTheWay(F, l) = << >> \o <<content[SrcCache(l)]>>
          /\ OnTheWay(G, l)' = <<Result(c)>> \o << >>
      <4>1. /\ Arrived(F, l) = n - 1 /\ ~(n - 1 > n - 1) /\ n > n - 1 /\ ~(n > n)
            /\ Arrived(G, l)' = n /\ G["load"][l] = n /\ G["dump"][l] = n - 1
        BY <2>3, <2>8, <2>11, <3>1
      <4>2. content'[DestCache(l)] = Result(c)
        BY <2>7, <2>11
      <4> QED BY <2>8, <3>1, <4>1, <4>2, Zenon
    <3>3. Result(c) = content[SrcCache(l)]
      BY <2>11 DEF Result, l
    <3>4. OnTheWay(G, l)' = OnTheWay(F, l)
      BY <3>2, <3>3, ShortSequences
    <3> QED BY <2>10, <2>11, <3>4
  <2>12. CASE c.kind = "back"
    <3>1. method[l] = "AsyncOclCopy" /\ F["back"][l] = n - 1 /\ F["transfer"][l] = n /\ F["load"][l] = n
      <4>1. method[l] = "AsyncOclCopy"
        BY <2>1, <2>12, LinkType DEF Uses
      <4>2. F["transfer"][l] >= n /\ F["back"][l] = n - 1
        BY <2>1, <2>12 DEF NeedsNow
      <4> QED BY <2>2, <2>8, <4>1, <4>2
    <3>2. OnTheWay(G, l)' = OnTheWay(F, l)
      BY <2>3, <2>7, <2>8, <2>12, <3>1
    <3> QED BY <2>10, <2>12, <3>2
  <2>13. CASE c.kind = "dump"
    <3> SUFFICES /\ OnTheWay(F, l) # << >> /\ Head(OnTheWay(F, l)) = Result(c)
                 /\ OnTheWay(G, l)' = Tail(OnTheWay(F, l))
      <4>1. ASSUME OnTheWay(F, l) # << >>, Head(OnTheWay(F, l)) = Result(c),
                   OnTheWay(G, l)' = Tail(OnTheWay(F, l))
            PROVE  Link!Dump(l)
        <5>1. Received' = [Received EXCEPT ![l] = Head(Underway[l])]
          BY <2>1, <2>4, <2>6, <2>7, <2>13, <4>1 DEF Received, Underway
        <5>2. Underway[l] # << >> /\ Underway' = [Underway EXCEPT ![l] = Tail(@)]
          BY <2>1, <2>4, <2>6, <4>1 DEF Underway
        <5> QED BY <2>1, <2>5, <5>1, <5>2 DEF Link!Dump, Sources, Underway, Received
      <4> QED BY <2>1, <4>1 DEF Link!Next
    <3>1. F["dump"][l] = n - 1
      BY <2>1, <2>13
    <3>2. CASE method[l] = "OclCopy"
      <4>1. F["load"][l] = n
        <5>1. F["load"][l] >= n
          BY <2>1, <2>13, <3>2 DEF NeedsNow
        <5> QED BY <2>2, <2>8, <3>1, <3>2, <5>1
      <4>2. /\ Arrived(F, l) = n - 1 /\ ~(n - 1 > n - 1) /\ n > n - 1 /\ ~(n > n)
            /\ Arrived(G, l)' = n /\ G["load"][l] = n /\ G["dump"][l] = n
        BY <2>3, <2>8, <2>13, <3>1, <3>2, <4>1
      <4>3. /\ OnTheWay(F, l) = << >> \o <<content[SrcCache(l)]>>
            /\ OnTheWay(G, l)' = << >> \o << >>
        BY <2>8, <3>1, <4>1, <4>2, Zenon
      <4>4. Result(c) = content[SrcCache(l)]
        BY <2>13, <3>2 DEF Result, DumpedFrom, l
      <4> QED BY <4>3, <4>4, ShortSequences
    <3>3. CASE method[l] # "OclCopy"
      <4>1. F["transfer"][l] = n
        <5>1. F["transfer"][l] >= n
          BY <2>1, <2>13, <3>3 DEF NeedsNow
        <5> QED BY <2>2, <2>8, <3>1, <3>3, <5>1
      <4>2. /\ Arrived(F, l) = n /\ n > n - 1 /\ ~(n > n)
            /\ Arrived(G, l)' = n /\ G["load"][l] = F["load"][l] /\ G["dump"][l] = n
        BY <2>3, <2>8, <2>13, <3>1, <3>3, <4>1
      <4>3. content'[SrcCache(l)] = content[SrcCache(l)] /\ Result(c) = content[DestCache(l)]
        <5>1. content'[SrcCache(l)] = content[SrcCache(l)]
          BY <2>7, <2>13
        <5>2. Result(c) = content[DestCache(l)]
          BY <2>13, <3>3 DEF Result, DumpedFrom, l
        <5> QED BY <5>1, <5>2
      <4>4. /\ OnTheWay(F, l) = <<Result(c)>>
                   \o (IF F["load"][l] > n THEN <<content[SrcCache(l)]>> ELSE << >>)
            /\ OnTheWay(G, l)' = << >> \o (IF F["load"][l] > n THEN <<content[SrcCache(l)]>> ELSE << >>)
        BY <2>8, <3>1, <4>2, <4>3, Zenon
      <4>5. CASE F["load"][l] > n
        <5>1. /\ OnTheWay(F, l) = <<Result(c), content[SrcCache(l)]>>
              /\ OnTheWay(G, l)' = <<content[SrcCache(l)]>>
          BY <4>4, <4>5, ShortSequences, Zenon
        <5>2. \A x, y : <<x, y>> # << >> /\ Head(<<x, y>>) = x /\ Tail(<<x, y>>) = <<y>>
          BY ShortSequences
        <5> QED BY <5>1, <5>2
      <4>6. CASE ~(F["load"][l] > n)
        BY <4>4, <4>6, ShortSequences
      <4> QED BY <4>5, <4>6
    <3> QED BY <3>2, <3>3
  <2> QED BY <1>9, <2>9, <2>11, <2>12, <2>13 DEF EventKinds
<1> QED BY <1>8, <1>9

(* The calls of the host move nothing.                                     *)
LEMMA HostImplements ==
    ASSUME NEW CONSTANT F, Right(F), Right(F)', method' = method,
           \A b \in Buffers : b.buffer # "scalar" => content'[b] = content[b]
    PROVE  UNCHANGED Link!linkVars
<1>1. \A d \in Devices : content'[Main(d)] = content[Main(d)]
  BY DEF Main, Buffers, OwnPlaces
<1>2. \A l \in Links : /\ content'[Halo(l)] = content[Halo(l)]
                       /\ content'[SrcCache(l)] = content[SrcCache(l)]
                       /\ content'[DestCache(l)] = content[DestCache(l)]
  BY DEF Halo, SrcCache, DestCache, Buffers
<1>3. \A l \in Links : InTransit(l)' = InTransit(l)
  <2> SUFFICES ASSUME NEW l \in Links
               PROVE  OnTheWay(F, l)' = OnTheWay(F, l)
    BY InTransitIs, InTransitThen
  <2>1. DestCache(l)' = DestCache(l) /\ SrcCache(l)' = SrcCache(l)
    BY DEF DestCache, SrcCache
  <2> QED BY <1>2, <2>1 DEF OnTheWay, Arrived
<1>4. Sources' = Sources /\ Underway' = Underway /\ Received' = Received
  BY <1>1, <1>2, <1>3 DEF Sources, Underway, Received
<1> QED BY <1>4 DEF Link!linkVars, Sources, Underway, Received

(* At the start nothing is in the links.                                   *)
LEMMA StartsEmpty ==
    Init => Link!Init
<1> SUFFICES ASSUME Init PROVE Link!Init
  OBVIOUS
<1>1. content = [b \in Buffers |-> 0] /\ 0 \in Versions
  BY RoundAssumption DEF Init, Versions, Undefined, Sum
<1>2. /\ \A d \in Devices : Main(d) \in Buffers
      /\ \A l \in Links : Halo(l) \in Buffers
  BY DEF Main, Halo, Buffers, OwnPlaces
<1>3. /\ Sources \in [Devices -> Versions]
      /\ Received \in [Links -> Versions]
  BY <1>1, <1>2 DEF Sources, Received
<1>4. Underway = [l \in Links |-> << >>]
  <2> SUFFICES ASSUME NEW l \in Links
               PROVE  InTransit(l) = << >>
    BY DEF Underway
  <2>1. ASSUME NEW k \in EventKinds, Uses(k, l)
        PROVE  Completed(l, k) = 0
    <3> DEFINE q == QueueOf(Command(k, l, 0))
    <3>1. q \in Queues
      BY <2>1, ScalarApart, StreamQueues DEF StreamQueue, Init
    <3>2. queue[q] = << >>
      BY <3>1 DEF Init
    <3>3. {i \in DOMAIN queue[q] : queue[q][i].cmd.kind = k /\ queue[q][i].cmd.at = l} = {}
      BY <3>2
    <3>4. Cardinality({}) = 0
      BY FS_EmptySet
    <3>5. event[l][k] = 0
      BY DEF Init
    <3>6. Completed(l, k) = event[l][k] - Cardinality({})
      BY <3>3, Zenon DEF Completed
    <3> QED BY <3>4, <3>5, <3>6
  <2>2. /\ Uses("load", l) /\ Uses("dump", l)
        /\ method[l] # "OclCopy" => Uses("transfer", l)
    BY DEF Uses
  <2>3. /\ Completed(l, "load") = 0 /\ Completed(l, "dump") = 0
        /\ method[l] # "OclCopy" => Completed(l, "transfer") = 0
    BY <2>1, <2>2 DEF EventKinds
  <2>4. Transferred(l) = 0
    BY <2>3 DEF Transferred
  <2>5. InTransit(l) = << >> \o << >>
    BY <2>3, <2>4 DEF InTransit
  <2> QED BY <2>5, ShortSequences, Zenon
<1> QED BY <1>3, <1>4 DEF Link!Init, Sources, Underway, Received

(* Every step is one of the links, or none.                                *)
LEMMA StepImplements ==
    IInv /\ [Next]_vars => [Link!Next]_(Link!linkVars)
<1> SUFFICES ASSUME NEW CONSTANT F, Right(F), [Next]_vars
             PROVE  [Link!Next]_(Link!linkVars)
  BY DEF IInv
<1>1. CASE HostNext
  <2>1. Right(F)'
    BY <1>1, HostRight
  <2>2. method' = method /\ (content' = content \/ sum)
    BY <1>1 DEF HostNext, EnqueueKernel, load, dump, flush, transfer_OclCopy, transfer_DirectGMA,
       transfer_AsyncOclCopy, wait_for_maps, sum, BeginScalarProduct, NextRound, Finish, synchronize, Return
  <2>3. \A b \in Buffers : b.buffer # "scalar" => content'[b] = content[b]
    BY <2>2 DEF sum
  <2> QED BY <2>1, <2>2, <2>3, HostImplements
<1>2. ASSUME NEW CONSTANT q \in Queues, Execute(q)
      PROVE  [Link!Next]_(Link!linkVars)
  BY <1>2, ExecuteImplements
<1>3. CASE UNCHANGED vars
  <2>1. Right(F)' /\ method' = method /\ content' = content
    BY <1>3, RightStutter DEF vars
  <2> QED BY <2>1, HostImplements
<1> QED BY <1>1, <1>2, <1>3 DEF Next, Terminated

(* The queues implement the links that Transfer promises: every step of the *)
(* host and of the devices is a load, a dump, an overwrite or none.        *)
THEOREM QueuesImplementLinks == Spec => LinksDeliverInOrder
  BY StartsEmpty, StepImplements, InductiveInvariant, PTL DEF Spec, LinksDeliverInOrder, Link!Spec
=============================================================================
