-------------------------- MODULE BinaryCache_proofs --------------------------
(***************************************************************************)
(* Proofs about BinaryCache, for any number of processes and source files  *)
(* and any bounds.                                                         *)
(*                                                                         *)
(* The argument: a lock held exclusively is held alone, and the lock of a  *)
(* process is known from where it is, so that at most one process makes a  *)
(* binary and nobody looks for it meanwhile.  While it is written the file *)
(* is not whole and of the writer's program.  Dates never lie in the       *)
(* future, so that a change of a source file can only turn an accepted     *)
(* binary into an outdated one.                                            *)
(***************************************************************************)
EXTENDS BinaryCache, TLAPS

Making == {"load", "compile", "dump", "dumping"}

(* Who holds the lock exclusively holds it alone. *)
ExclusiveAlone ==
    \A q, r \in Processes : q # r /\ holds[q] = "exclusive" => holds[r] = "none"

(* Nothing has been written in the future. *)
NotInTheFuture ==
    /\ \A f \in Files : date[f] <= now
    /\ binary # NoBinary => binary.date <= now

(* A binary that is looked at is there. *)
ReadExists == \A q \in Processes : pc[q] = "read" => binary # NoBinary

(* Every change of a file is counted. *)
ChangesCounted == \A f \in Files : version[f] <= edits

(* A process that writes the binary has emptied it. *)
WritersOwn ==
    \A q \in Processes : pc[q] = "dumping" =>
        binary # NoBinary /\ ~binary.whole /\ binary.of = program[q]

(* Half a binary is being written, or something went wrong. *)
HalfOnlyWhileWritten ==
    binary # NoBinary /\ ~binary.whole =>
        faults > 0 \/ \E q \in Processes : pc[q] = "dumping"

IInv ==
    /\ TypeOK /\ ExclusiveAlone /\ NotInTheFuture /\ ChangesCounted
    /\ ReadExists /\ WritersOwn /\ HalfOnlyWhileWritten
    /\ CompilesOnlyIfMissing /\ StaleOnlyAfterRace
-----------------------------------------------------------------------------
(* The locks a label allows, spelled out. *)
LEMMA LocksTable ==
    /\ Locks("want_shared") = {"none"} /\ Locks("want_exclusive") = {"none"}
    /\ Locks("idle") = {"none"} /\ Locks("done") = {"none"} /\ Locks("failed") = {"none"}
    /\ Locks("lookup") = {"shared", "exclusive"} /\ Locks("read") = {"shared", "exclusive"}
    /\ Locks("build") = {"none", "exclusive"}
    /\ \A label \in Making : Locks(label) = {"exclusive"}
BY DEF Locks, Ended, Making

LEMMA LockOfLabel ==
    ASSUME TypeOK, NEW q \in Processes
    PROVE /\ pc[q] \in Making => holds[q] = "exclusive"
          /\ pc[q] \in {"lookup", "read"} => holds[q] \in {"shared", "exclusive"}
          /\ pc[q] \in Ended \cup {"want_shared", "want_exclusive"} => holds[q] = "none"
          /\ pc[q] = "build" => holds[q] \in {"none", "exclusive"}
BY LocksTable DEF TypeOK, Ended

LEMMA InitIInv == Init => IInv
<1> SUFFICES ASSUME Init PROVE IInv
  OBVIOUS
<1> USE BinaryCacheAssumption
<1>1. TypeOK
  BY DEF Init, TypeOK, Locks, Ended, Running, Versions, Times
<1>2. ExclusiveAlone /\ NotInTheFuture /\ ChangesCounted
  BY DEF Init, ExclusiveAlone, NotInTheFuture, ChangesCounted
<1>4. ReadExists /\ WritersOwn /\ HalfOnlyWhileWritten
  BY DEF Init, ReadExists, WritersOwn, HalfOnlyWhileWritten
<1>3. CompilesOnlyIfMissing /\ StaleOnlyAfterRace
  BY DEF Init, CompilesOnlyIfMissing, StaleOnlyAfterRace, UpToDate
<1>. QED BY <1>1, <1>2, <1>3, <1>4 DEF IInv
-----------------------------------------------------------------------------
(* Type correctness: what a process has is typed because its own lock and  *)
(* label change together.                                                  *)
Typed ==
    /\ read \in [Processes -> SUBSET Files]
    /\ program \in [Processes -> [Files -> Versions]]
    /\ binary \in Binaries \cup {NoBinary}
    /\ version \in [Files -> Versions] /\ date \in [Files -> Times]
    /\ now \in Times
    /\ edits \in 0 .. MaxEdits /\ faults \in 0 .. MaxFaults /\ starts \in 0 .. MaxStarts
    /\ raced \subseteq Files

Placed ==
    /\ pc \in [Processes -> Ended \cup Running]
    /\ holds \in [Processes -> {"none", "shared", "exclusive"}]
    /\ \A q \in Processes : holds[q] \in Locks(pc[q])

LEMMA PlacedStep == Placed /\ [Next]_vars => Placed'
<1> SUFFICES ASSUME Placed, [Next]_vars PROVE Placed'
  OBVIOUS
<1> USE LocksTable DEF Placed, process, world, Ended, Running, Making, Goto, Hold, Leave
<1>1. ASSUME NEW q \in Processes, Start(q) PROVE Placed'
  BY <1>1 DEF Start
<1>2. ASSUME NEW q \in Processes, LockShared(q) PROVE Placed'
  BY <1>2 DEF LockShared
<1>3. ASSUME NEW q \in Processes, LockExclusive(q) PROVE Placed'
  BY <1>3 DEF LockExclusive
<1>4. ASSUME NEW q \in Processes, NoProgram(q), pc[q] \in {"lookup", "read"}
      PROVE Placed'
  <2>1. CASE holds[q] = "exclusive"
    BY <1>4, <2>1 DEF NoProgram
  <2>2. CASE holds[q] # "exclusive"
    BY <1>4, <2>2 DEF NoProgram
  <2>. QED BY <2>1, <2>2
<1>5. ASSUME NEW q \in Processes, loadBinary_lookup(q) PROVE Placed'
  <2>1. CASE UpToDate
    BY <1>5, <2>1 DEF loadBinary_lookup
  <2>2. CASE ~UpToDate
    BY <1>4, <1>5, <2>2 DEF loadBinary_lookup
  <2>. QED BY <2>1, <2>2
<1>6. ASSUME NEW q \in Processes, loadBinary_read(q) PROVE Placed'
  <2>1. CASE NoProgram(q)
    BY <1>4, <1>6, <2>1 DEF loadBinary_read
  <2>2. CASE holds[q] = "shared" /\ ~NoProgram(q)
    BY <1>6, <2>2 DEF loadBinary_read
  <2>3. CASE holds[q] # "shared" /\ ~NoProgram(q)
    BY <1>6, <2>3 DEF loadBinary_read
  <2>. QED BY <2>1, <2>2, <2>3
<1>7. ASSUME NEW q \in Processes, buildProgram(q) \/ Throw(q) PROVE Placed'
  BY <1>7 DEF buildProgram, Throw, Throwing
<1>8. ASSUME NEW q \in Processes, loadSources(q) \/ buildProgram_compile(q) PROVE Placed'
  BY <1>8 DEF loadSources, buildProgram_compile
<1>9. ASSUME NEW q \in Processes,
             dumpBinary_unsupported(q) \/ dumpBinary_open(q)
             \/ dumpBinary_close(q) \/ dumpBinary_fails(q)
      PROVE Placed'
  BY <1>9 DEF dumpBinary_unsupported, dumpBinary_open, dumpBinary_close, dumpBinary_fails
<1>10. ASSUME NEW q \in Processes, Kill(q) PROVE Placed'
  BY <1>10 DEF Kill
<1>11. CASE (\E f \in Files : Edit(f)) \/ Tick \/ Finished \/ UNCHANGED vars
  BY <1>11 DEF Edit, Tick, Finished, vars
<1>. QED
  BY <1>1, <1>2, <1>3, <1>5, <1>6, <1>7, <1>8, <1>9, <1>10, <1>11 DEF Next, Get

LEMMA TypedStep ==
    Typed /\ ReadExists /\ WritersOwn /\ ChangesCounted /\ [Next]_vars => Typed'
<1> SUFFICES ASSUME Typed, ReadExists, WritersOwn, ChangesCounted, [Next]_vars PROVE Typed'
  OBVIOUS
<1> USE BinaryCacheAssumption DEF Typed, process, world, Versions, Times
<1>1. ASSUME NEW q \in Processes,
             Start(q) \/ LockShared(q) \/ LockExclusive(q) \/ buildProgram(q)
             \/ Throw(q) \/ dumpBinary_unsupported(q) \/ Kill(q)
      PROVE Typed'
  BY <1>1 DEF Start, LockShared, LockExclusive, buildProgram, Throw,
              dumpBinary_unsupported, Kill
<1>2. ASSUME NEW q \in Processes, loadBinary_lookup(q) PROVE Typed'
  BY <1>2 DEF loadBinary_lookup, NoProgram
<1>3. ASSUME NEW q \in Processes, loadBinary_read(q) PROVE Typed'
  <2>1. binary \in Binaries
    BY <1>3 DEF loadBinary_read, ReadExists
  <2>2. program' \in [Processes -> [Files -> Versions]]
    BY <1>3, <2>1 DEF loadBinary_read, Binaries
  <2>3. read' \in [Processes -> SUBSET Files]
    BY <1>3 DEF loadBinary_read, NoProgram
  <2>. QED BY <1>3, <2>2, <2>3 DEF loadBinary_read
<1>4. ASSUME NEW q \in Processes, loadSources(q) \/ buildProgram_compile(q) PROVE Typed'
  BY <1>4 DEF loadSources, buildProgram_compile, Files
<1>5. ASSUME NEW q \in Processes, dumpBinary_open(q) PROVE Typed'
  BY <1>5 DEF dumpBinary_open, Binaries
<1>6. ASSUME NEW q \in Processes, dumpBinary_close(q) \/ dumpBinary_fails(q) PROVE Typed'
  <2>1. binary \in Binaries
    BY <1>6 DEF dumpBinary_close, dumpBinary_fails, WritersOwn
  <2>2. binary' \in Binaries
    BY <1>6, <2>1 DEF dumpBinary_close, dumpBinary_fails, Binaries
  <2>3. raced' \subseteq Files
    BY <1>6 DEF dumpBinary_close, dumpBinary_fails, Files
  <2>. QED BY <1>6, <2>2, <2>3 DEF dumpBinary_close, dumpBinary_fails
<1>7. ASSUME NEW f \in Files, Edit(f) PROVE Typed'
  <2>1. version[f] + 1 \in 0 .. MaxEdits
    BY <1>7 DEF Edit, ChangesCounted
  <2>2. version' \in [Files -> Versions] /\ date' \in [Files -> Times]
    BY <1>7, <2>1 DEF Edit
  <2>. QED BY <1>7, <2>2 DEF Edit
<1>8. CASE Tick
  BY <1>8 DEF Tick
<1>9. CASE Finished \/ UNCHANGED vars
  BY <1>9 DEF Finished, vars
<1>. QED
  BY <1>1, <1>2, <1>3, <1>4, <1>5, <1>6, <1>7, <1>8, <1>9 DEF Next, Get

LEMMA TypeParts == TypeOK <=> Placed /\ Typed
BY DEF TypeOK, Placed, Typed
-----------------------------------------------------------------------------
(* The lock: who takes it exclusively finds it free, and who takes it      *)
(* shared finds nobody that holds it exclusively.                          *)
LEMMA ExclusiveStep == Placed /\ ExclusiveAlone /\ [Next]_vars => ExclusiveAlone'
<1> SUFFICES ASSUME Placed, ExclusiveAlone, [Next]_vars PROVE ExclusiveAlone'
  OBVIOUS
<1> USE DEF Placed, ExclusiveAlone, Hold, Leave, process, world
<1>1. ASSUME NEW q \in Processes, LockShared(q) PROVE ExclusiveAlone'
  BY <1>1 DEF LockShared, SharedFree
<1>2. ASSUME NEW q \in Processes, LockExclusive(q) PROVE ExclusiveAlone'
  BY <1>2 DEF LockExclusive, ExclusiveFree
<1>3. ASSUME NEW q \in Processes, holds' = [holds EXCEPT ![q] = "none"]
      PROVE ExclusiveAlone'
  BY <1>3
<1>4. CASE UNCHANGED holds
  BY <1>4
<1>5. ASSUME NEW q \in Processes, Start(q) \/ Get(q) \/ Kill(q)
      PROVE \/ LockShared(q) \/ LockExclusive(q) \/ UNCHANGED holds
            \/ holds' = [holds EXCEPT ![q] = "none"]
  BY <1>5 DEF Start, Get, Kill, loadBinary_lookup, loadBinary_read, NoProgram, buildProgram,
      Throw, loadSources, buildProgram_compile, dumpBinary_unsupported,
      dumpBinary_open, dumpBinary_close, dumpBinary_fails
<1>6. ASSUME (\E f \in Files : Edit(f)) \/ Tick \/ Finished \/ UNCHANGED vars
      PROVE UNCHANGED holds
  BY <1>6 DEF Edit, Tick, Finished, vars
<1>. QED BY <1>1, <1>2, <1>3, <1>4, <1>5, <1>6 DEF Next

(* No file is newer than the clock. *)
LEMMA DatesStep ==
    Typed /\ NotInTheFuture /\ ChangesCounted /\ ReadExists /\ WritersOwn /\ [Next]_vars
      => NotInTheFuture' /\ ChangesCounted'
<1> SUFFICES ASSUME Typed, NotInTheFuture, ChangesCounted, ReadExists, WritersOwn, [Next]_vars
             PROVE NotInTheFuture' /\ ChangesCounted'
  OBVIOUS
<1> USE BinaryCacheAssumption
    DEF Typed, NotInTheFuture, ChangesCounted, Versions, Times, process, world
<1>1. ASSUME NEW q \in Processes, dumpBinary_open(q)
      PROVE NotInTheFuture' /\ ChangesCounted'
  BY <1>1 DEF dumpBinary_open
<1>2. ASSUME NEW q \in Processes, dumpBinary_close(q) \/ dumpBinary_fails(q)
      PROVE NotInTheFuture' /\ ChangesCounted'
  <2>1. binary \in Binaries
    BY <1>2 DEF dumpBinary_close, dumpBinary_fails, WritersOwn
  <2>2. binary'.date = now
    BY <1>2, <2>1 DEF dumpBinary_close, dumpBinary_fails, Binaries
  <2>. QED BY <1>2, <2>2 DEF dumpBinary_close, dumpBinary_fails
<1>3. ASSUME NEW f \in Files, Edit(f) PROVE NotInTheFuture' /\ ChangesCounted'
  BY <1>3 DEF Edit
<1>4. CASE Tick
  <2>1. \A f \in Files : date[f] <= now + 1
    OBVIOUS
  <2>2. binary # NoBinary => binary.date <= now + 1
    BY DEF Binaries
  <2>. QED BY <1>4, <2>1, <2>2 DEF Tick
<1>5. CASE UNCHANGED <<binary, version, date, now, edits>>
  BY <1>5
<1>6. ASSUME NEW q \in Processes, Start(q) \/ Get(q) \/ Kill(q)
      PROVE \/ dumpBinary_open(q) \/ dumpBinary_close(q) \/ dumpBinary_fails(q)
            \/ UNCHANGED <<binary, version, date, now, edits>>
  BY <1>6 DEF Start, Get, Kill, LockShared, LockExclusive, loadBinary_lookup,
      loadBinary_read, buildProgram, Throw, loadSources, buildProgram_compile,
      dumpBinary_unsupported
<1>7. ASSUME Finished \/ UNCHANGED vars
      PROVE UNCHANGED <<binary, version, date, now, edits>>
  BY <1>7 DEF Finished, vars
<1>. QED BY <1>1, <1>2, <1>3, <1>4, <1>5, <1>6, <1>7 DEF Next
-----------------------------------------------------------------------------
(***************************************************************************)
(* The file                                                                *)
(***************************************************************************)
(* Who makes a binary is alone with the file. *)
LEMMA MakersAlone ==
    ASSUME Placed, ExclusiveAlone, NEW q \in Processes, NEW r \in Processes, q # r,
           pc[q] \in Making
    PROVE  pc[r] \notin Making \cup {"lookup", "read"}
<1>1. holds[q] = "exclusive"
  BY LocksTable DEF Placed
<1>2. holds[r] = "none"
  BY <1>1 DEF ExclusiveAlone
<1>. QED BY <1>2, LocksTable DEF Placed

(* The end of a write, whole or not. *)
LEMMA Written ==
    ASSUME Typed, WritersOwn, NEW q \in Processes,
           dumpBinary_close(q) \/ dumpBinary_fails(q)
    PROVE  /\ pc[q] = "dumping" /\ binary \in Binaries /\ binary' \in Binaries
           /\ binary'.of = binary.of /\ binary'.date = now
           /\ dumpBinary_close(q) => binary'.whole
           /\ dumpBinary_fails(q) => ~binary'.whole
<1>1. binary \in Binaries /\ ~binary.whole
  BY DEF dumpBinary_close, dumpBinary_fails, WritersOwn, Typed
<1>. QED BY <1>1 DEF dumpBinary_close, dumpBinary_fails, Binaries, Typed

(* A file that is opened exists, emptied. *)
LEMMA Opened ==
    ASSUME Typed, NEW q \in Processes, dumpBinary_open(q)
    PROVE  /\ pc[q] = "dump" /\ binary' \in Binaries /\ binary'.of = program[q]
           /\ ~binary'.whole
BY DEF dumpBinary_open, Binaries, Typed

(* What the steps of a process leave alone. *)
LEMMA OthersStay ==
    ASSUME Placed, Typed, NEW q \in Processes, Start(q) \/ Get(q) \/ Kill(q),
           NEW r \in Processes, r # q
    PROVE  pc'[r] = pc[r] /\ program'[r] = program[r]
BY DEF Placed, Typed, Start, Get, Kill, LockShared, LockExclusive, loadBinary_lookup,
       loadBinary_read, NoProgram, buildProgram, Throw, loadSources,
       buildProgram_compile, dumpBinary_unsupported, dumpBinary_open,
       dumpBinary_close, dumpBinary_fails, Goto, Hold, Leave

Writes(q) == dumpBinary_open(q) \/ dumpBinary_close(q) \/ dumpBinary_fails(q)

LEMMA OnlyWritesWrite ==
    ASSUME NEW q \in Processes, Start(q) \/ Get(q) \/ Kill(q)
    PROVE  /\ Writes(q) \/ UNCHANGED binary
           /\ dumpBinary_close(q) \/ UNCHANGED raced
           /\ UNCHANGED <<version, date>>
BY DEF Writes, Start, Get, Kill, LockShared, LockExclusive, loadBinary_lookup,
       loadBinary_read, buildProgram, Throw, loadSources, buildProgram_compile,
       dumpBinary_unsupported, dumpBinary_open, dumpBinary_close, dumpBinary_fails, world

LEMMA ProcessLabels ==
    ASSUME Placed, NEW q \in Processes, Start(q) \/ Get(q) \/ Kill(q)
    PROVE  /\ pc'[q] = "dumping" => dumpBinary_open(q)
           /\ pc[q] = "dumping" => dumpBinary_close(q) \/ dumpBinary_fails(q) \/ Kill(q)
           /\ pc'[q] = "read" => UpToDate
           /\ pc'[q] \in {"load", "compile", "dump"} =>
                 \/ pc[q] \in {"load", "compile"}
                 \/ pc[q] = "lookup" /\ ~UpToDate
                 \/ pc[q] = "read" /\ ~binary.whole
BY DEF Placed, Start, Get, Kill, LockShared, LockExclusive, loadBinary_lookup,
       loadBinary_read, NoProgram, buildProgram, Throw, Throwing, loadSources,
       buildProgram_compile, dumpBinary_unsupported, dumpBinary_open,
       dumpBinary_close, dumpBinary_fails, Goto, Hold, Leave, Ended, Running

(* The steps of the world around that no process takes. *)
LEMMA WorldStays ==
    ASSUME (\E f \in Files : Edit(f)) \/ Tick \/ Finished \/ UNCHANGED vars
    PROVE  UNCHANGED <<pc, program, binary, faults>>
BY DEF Edit, Tick, Finished, vars, process

LEMMA FileStep ==
    ASSUME Placed, Typed, ExclusiveAlone, ReadExists, WritersOwn, HalfOnlyWhileWritten,
           [Next]_vars
    PROVE  ReadExists' /\ WritersOwn' /\ HalfOnlyWhileWritten'
<1> USE BinaryCacheAssumption
<1>1. ASSUME NEW q \in Processes, Start(q) \/ Get(q) \/ Kill(q)
      PROVE  ReadExists' /\ WritersOwn' /\ HalfOnlyWhileWritten'
  <2>1. binary # NoBinary => binary' # NoBinary
    BY <1>1, OnlyWritesWrite, Opened, Written DEF Writes
  <2>2. ReadExists'
    BY <1>1, <2>1, OthersStay, ProcessLabels DEF ReadExists, UpToDate
  <2>3. ASSUME NEW r \in Processes, pc'[r] = "dumping"
        PROVE  binary' # NoBinary /\ ~binary'.whole /\ binary'.of = program'[r]
    <3>1. CASE r = q
      <4>1. dumpBinary_open(q)
        BY <1>1, <2>3, <3>1, ProcessLabels
      <4>2. program'[q] = program[q]
        BY <4>1 DEF dumpBinary_open
      <4>. QED BY <3>1, <4>1, <4>2, Opened
    <3>2. CASE r # q
      <4>1. pc[r] = "dumping" /\ program'[r] = program[r]
        BY <1>1, <2>3, <3>2, OthersStay
      <4>2. pc[q] \notin Making
        BY <3>2, <4>1, MakersAlone DEF Making
      <4>3. UNCHANGED binary
        BY <1>1, <4>2, OnlyWritesWrite, Opened, Written DEF Writes, Making
      <4>. QED BY <4>1, <4>3 DEF WritersOwn
    <3>. QED BY <3>1, <3>2
  <2>4. HalfOnlyWhileWritten'
    <3>1. CASE dumpBinary_open(q)
      <4>1. pc'[q] = "dumping"
        BY <3>1 DEF dumpBinary_open, Goto, Placed
      <4>. QED BY <4>1 DEF HalfOnlyWhileWritten
    <3>2. CASE dumpBinary_close(q)
      BY <3>2, Written DEF HalfOnlyWhileWritten
    <3>3. CASE dumpBinary_fails(q) \/ Kill(q)
      <4>1. faults' > 0
        BY <3>3 DEF dumpBinary_fails, Kill, Typed
      <4>. QED BY <4>1 DEF HalfOnlyWhileWritten
    <3>4. CASE ~Writes(q) /\ ~Kill(q)
      <4>1. UNCHANGED <<binary, faults>>
        BY <1>1, <3>4 DEF Writes, Start, Get, LockShared, LockExclusive, loadBinary_lookup,
           loadBinary_read, buildProgram, Throw, loadSources, buildProgram_compile,
           dumpBinary_unsupported, world
      <4>2. \A r \in Processes : pc[r] = "dumping" => pc'[r] = "dumping"
        BY <1>1, <3>4, OthersStay, ProcessLabels DEF Writes
      <4>. QED BY <4>1, <4>2 DEF HalfOnlyWhileWritten
    <3>. QED BY <3>1, <3>2, <3>3, <3>4 DEF Writes
  <2>. QED BY <2>2, <2>3, <2>4 DEF WritersOwn
<1>2. CASE UNCHANGED <<pc, program, binary, faults>>
  BY <1>2 DEF ReadExists, WritersOwn, HalfOnlyWhileWritten
<1>. QED BY <1>1, <1>2, WorldStays DEF Next
-----------------------------------------------------------------------------
(***************************************************************************)
(* Up to date                                                              *)
(***************************************************************************)
(* A change of a source file makes no binary up to date, and the one it    *)
(* leaves up to date has been written in the same second.                  *)
LEMMA EditOutdates ==
    ASSUME Typed, NotInTheFuture, NEW f \in Files, Edit(f), UpToDate'
    PROVE  UpToDate /\ (f \in Listed => binary.date = now)
<1> USE BinaryCacheAssumption DEF Typed, UpToDate, Edit, NotInTheFuture
<1>1. binary # NoBinary /\ binary.date \in Times /\ now \in Times
  BY DEF Binaries
<1>2. \A g \in Listed : date'[g] <= binary.date
  OBVIOUS
<1>3. \A g \in Listed : date[g] <= binary.date
  <2> SUFFICES ASSUME NEW g \in Listed PROVE date[g] <= binary.date
    OBVIOUS
  <2>1. g \in Files
    BY DEF Files
  <2>2. CASE g = f
    BY <1>1, <1>2, <2>1, <2>2 DEF Times
  <2>3. CASE g # f
    BY <1>2, <2>1, <2>3
  <2>. QED BY <2>2, <2>3
<1>4. f \in Listed => binary.date = now
  <2> SUFFICES ASSUME f \in Listed PROVE binary.date = now
    OBVIOUS
  <2>1. date'[f] = now /\ binary.date <= now
    BY <1>1
  <2>2. now <= binary.date
    BY <1>2, <2>1
  <2>3. now \in Int /\ binary.date \in Int
    BY <1>1 DEF Times
  <2> HIDE DEF Typed, UpToDate, Edit, NotInTheFuture
  <2>. QED BY <2>1, <2>2, <2>3
<1>. QED BY <1>1, <1>3, <1>4

LEMMA CompilesStep ==
    ASSUME Placed, Typed, ExclusiveAlone, NotInTheFuture, CompilesOnlyIfMissing, [Next]_vars
    PROVE  CompilesOnlyIfMissing'
<1> SUFFICES ASSUME NEW r \in Processes, pc'[r] \in {"load", "compile", "dump"},
                    UpToDate', binary'.whole
             PROVE  FALSE
  BY DEF CompilesOnlyIfMissing
<1>1. ASSUME NEW q \in Processes, Start(q) \/ Get(q) \/ Kill(q) PROVE FALSE
  <2>1. ~Writes(q)
    <3>1. CASE r = q
      BY <3>1 DEF Writes, dumpBinary_open, dumpBinary_close, dumpBinary_fails,
                  Goto, Leave, Placed
    <3>2. CASE r # q
      <4>1. pc[r] \in Making
        BY <1>1, <3>2, OthersStay DEF Making
      <4>2. pc[q] \notin Making
        BY <3>2, <4>1, MakersAlone
      <4>. QED BY <4>2 DEF Writes, Making, dumpBinary_open, dumpBinary_close,
                           dumpBinary_fails
    <3>. QED BY <3>1, <3>2
  <2>2. UpToDate /\ binary.whole
    BY <1>1, <2>1, OnlyWritesWrite DEF UpToDate
  <2>3. pc[r] \notin {"load", "compile", "dump"}
    BY <2>2 DEF CompilesOnlyIfMissing
  <2>4. r = q
    BY <1>1, <2>3, OthersStay
  <2>. QED BY <1>1, <2>2, <2>3, <2>4, ProcessLabels
<1>2. ASSUME NEW f \in Files, Edit(f) PROVE FALSE
  <2>1. UpToDate /\ binary.whole
    BY <1>2, EditOutdates DEF Edit
  <2>. QED BY <1>2, <2>1 DEF Edit, process, CompilesOnlyIfMissing
<1>3. ASSUME Tick \/ Finished \/ UNCHANGED vars PROVE FALSE
  BY <1>3 DEF Tick, Finished, vars, process, UpToDate, CompilesOnlyIfMissing
<1>. QED BY <1>1, <1>2, <1>3 DEF Next

LEMMA StaleStep ==
    ASSUME Placed, Typed, NotInTheFuture, WritersOwn, StaleOnlyAfterRace, [Next]_vars
    PROVE  StaleOnlyAfterRace'
<1> SUFFICES ASSUME NEW g \in Listed, UpToDate', binary'.whole
             PROVE  binary'.of[g] = version'[g] \/ g \in raced'
  BY DEF StaleOnlyAfterRace
<1>0. g \in Files
  BY DEF Files
<1>1. ASSUME NEW q \in Processes, Start(q) \/ Get(q) \/ Kill(q)
      PROVE  binary'.of[g] = version'[g] \/ g \in raced'
  <2>1. CASE dumpBinary_open(q) \/ dumpBinary_fails(q)
    BY <2>1, Opened, Written
  <2>2. CASE dumpBinary_close(q)
    <3>1. binary'.of = program[q]
      BY <2>2, Written DEF WritersOwn
    <3>. QED BY <2>2, <3>1 DEF dumpBinary_close, world
  <2>3. CASE ~Writes(q)
    BY <1>1, <2>3, OnlyWritesWrite DEF Writes, UpToDate, StaleOnlyAfterRace
  <2>. QED BY <2>1, <2>2, <2>3 DEF Writes
<1>2. ASSUME NEW f \in Files, Edit(f)
      PROVE  binary'.of[g] = version'[g] \/ g \in raced'
  <2>1. UpToDate /\ UNCHANGED binary
    BY <1>2, EditOutdates DEF Edit
  <2>2. CASE g = f
    BY <1>2, <2>1, <2>2, EditOutdates DEF Edit, UpToDate
  <2>3. CASE g # f
    BY <1>0, <1>2, <2>1, <2>3 DEF Edit, Typed, StaleOnlyAfterRace
  <2>. QED BY <2>2, <2>3
<1>3. ASSUME Tick \/ Finished \/ UNCHANGED vars
      PROVE  binary'.of[g] = version'[g] \/ g \in raced'
  BY <1>3 DEF Tick, Finished, vars, UpToDate, StaleOnlyAfterRace
<1>. QED BY <1>1, <1>2, <1>3 DEF Next

(* What is read is not being written. *)
LEMMA WholeFiles == IInv => ReadsWholeBinaries
<1> SUFFICES ASSUME IInv PROVE ReadsWholeBinaries
  OBVIOUS
<1> USE TypeParts DEF IInv
<1>1. ASSUME NEW q \in Processes, pc[q] = "read", faults = 0 PROVE binary.whole
  <2>1. \A r \in Processes : pc[r] # "dumping"
    BY <1>1, MakersAlone DEF Making
  <2>. QED BY <1>1, <2>1 DEF HalfOnlyWhileWritten, ReadExists
<1>2. ASSUME NEW q \in Processes, NEW r \in Processes,
             pc[q] = "dumping", pc[r] \in {"read", "dumping"}
      PROVE  q = r
  BY <1>2, MakersAlone DEF Making
<1>. QED BY <1>1, <1>2 DEF ReadsWholeBinaries
-----------------------------------------------------------------------------
(***************************************************************************)
(* The theorems                                                            *)
(***************************************************************************)
(* The inductive invariant. *)
THEOREM Invariance == Spec => []IInv
<1>1. IInv /\ [Next]_vars => IInv'
  <2> SUFFICES ASSUME IInv, [Next]_vars PROVE IInv'
    OBVIOUS
  <2> USE DEF IInv
  <2>1. Placed /\ Typed
    BY TypeParts
  <2>2. Placed' /\ Typed'
    BY <2>1, PlacedStep, TypedStep
  <2>3. TypeOK'
    BY <2>2 DEF TypeOK, Placed, Typed
  <2>4. ExclusiveAlone' /\ NotInTheFuture' /\ ChangesCounted'
    BY <2>1, ExclusiveStep, DatesStep
  <2>5. ReadExists' /\ WritersOwn' /\ HalfOnlyWhileWritten'
    BY <2>1, FileStep
  <2>6. CompilesOnlyIfMissing' /\ StaleOnlyAfterRace'
    BY <2>1, CompilesStep, StaleStep
  <2>. QED BY <2>3, <2>4, <2>5, <2>6
<1>. QED BY InitIInv, <1>1, PTL DEF Spec

(* The variables of BinaryCache keep their types, and a process holds the  *)
(* lock its place in TmpClKernel::operator cl_kernel calls for.            *)
THEOREM TypeCorrect == Spec => []TypeOK
<1>1. IInv => TypeOK
  BY DEF IInv
<1>. QED BY <1>1, Invariance, PTL

(* No two processes write the binary at once, none reads while it is       *)
(* written, and without a fault none meets half a binary (loadBinary,      *)
(* dumpBinary and their file lock).                                        *)
THEOREM WholeBinariesRead == Spec => []ReadsWholeBinaries
<1>. QED BY WholeFiles, Invariance, PTL

(* The second look under the exclusive lock is enough: however many        *)
(* processes wait, none compiles what another has just compiled.           *)
THEOREM CompiledOnce == Spec => []CompilesOnlyIfMissing
<1>1. IInv => CompilesOnlyIfMissing
  BY DEF IInv
<1>. QED BY <1>1, Invariance, PTL

(* The comparison of times in loadBinary notices every change of a listed  *)
(* file but those that race with the making of the binary.                 *)
THEOREM StaleIsRaced == Spec => []StaleOnlyAfterRace
<1>1. IInv => StaleOnlyAfterRace
  BY DEF IInv
<1>. QED BY <1>1, Invariance, PTL
=============================================================================
