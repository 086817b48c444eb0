----------------------------- MODULE BinaryCache -----------------------------
(***************************************************************************)
(* The binaries of a kernel, kept between the runs of the program: what    *)
(* TmpClKernel::operator cl_kernel does for one kernel, one device and one *)
(* set of build options, that is for one file of the cache, in several     *)
(* processes that are started, killed and started again while somebody     *)
(* works on the sources.                                                   *)
(*                                                                         *)
(* A file lock of the name of the binary is taken shared to look for the   *)
(* binary and exclusively to make one.  The operating system frees the     *)
(* locks of a process that ends.  Times are those of the file system, in   *)
(* seconds: several things happen in the same one.                         *)
(*                                                                         *)
(* Definitions named Wrong_... are not part of the model: each is a        *)
(* plausible mistake in the definition that follows.                       *)
(***************************************************************************)
EXTENDS Integers, FiniteSets

CONSTANTS
    Processes,
    Listed,      \* the source files the kernel is put together from
    Headers,     \* what these include without being listed themselves
    NoBinary,    \* there is no such file
    MaxEdits,    \* bound: changes of a source file
    MaxTime,     \* bound: passing seconds
    MaxFaults,   \* bound: processes killed, files not written in full
    MaxStarts    \* bound: processes started

Files == Listed \cup Headers
Versions == 0 .. MaxEdits
Times == 0 .. MaxTime
Binaries == [of : [Files -> Versions], date : Times, whole : BOOLEAN]

ASSUME BinaryCacheAssumption ==
    /\ Listed # {} /\ Headers # {} /\ Listed \cap Headers = {}
    /\ {MaxEdits, MaxTime, MaxFaults, MaxStarts} \subseteq Nat
    /\ NoBinary \notin Binaries

VARIABLES
    pc, holds,     \* of every process: where it is, its file lock
    read,          \* files a process has read to build the program from
    program,       \* versions of the files its program comes from
    binary,        \* the file of the cache
    version, date, \* of every source file: its contents, its last write time
    now,
    edits, faults, starts, \* how often it has happened
    raced          \* files whose last change the cache cannot notice (history)

vars == <<pc, holds, read, program, binary, version, date, now,
          edits, faults, starts, raced>>
process == <<pc, holds, read, program>>
world == <<version, date, now, edits, faults, starts>>

Ended == {"idle", "done", "failed"}
Running == {"want_shared", "lookup", "read", "build", "want_exclusive",
            "load", "compile", "dump", "dumping"}
-----------------------------------------------------------------------------
(***************************************************************************)
(* The locks                                                               *)
(***************************************************************************)
SharedFree(q) == \A other \in Processes \ {q} : holds[other] # "exclusive"
ExclusiveFree(q) == \A other \in Processes \ {q} : holds[other] = "none"

Goto(q, label) == pc' = [pc EXCEPT ![q] = label]
Hold(q, lock) == holds' = [holds EXCEPT ![q] = lock]

(* Leaving the scope of the locks, by return or by an exception. *)
Leave(q, label) == Goto(q, label) /\ Hold(q, "none")
-----------------------------------------------------------------------------
Init ==
    /\ pc = [q \in Processes |-> "idle"]
    /\ holds = [q \in Processes |-> "none"]
    /\ read = [q \in Processes |-> {}]
    /\ program = [q \in Processes |-> [f \in Files |-> 0]]
    /\ binary = NoBinary
    /\ version = [f \in Files |-> 0] /\ date = [f \in Files |-> 0]
    /\ now = 0 /\ edits = 0 /\ faults = 0 /\ starts = 0
    /\ raced = {}

(* The program is started and comes to the kernel. *)
Start(q) ==
    /\ pc[q] \in Ended /\ starts < MaxStarts
    /\ starts' = starts + 1
    /\ Goto(q, "want_shared")
    /\ UNCHANGED <<holds, read, program, binary, version, date, now, edits, faults, raced>>

(* Mistake: the binary is looked for without the lock. *)
Wrong_LockShared(q) ==
    /\ pc[q] = "want_shared"
    /\ Goto(q, "lookup")
    /\ UNCHANGED <<holds, read, program, binary, world, raced>>

LockShared(q) ==
    /\ pc[q] = "want_shared" /\ SharedFree(q)
    /\ Hold(q, "shared") /\ Goto(q, "lookup")
    /\ UNCHANGED <<read, program, binary, world, raced>>

(* Mistake: who has waited for the lock does not look again. *)
Wrong_LockExclusive(q) ==
    /\ pc[q] = "want_exclusive" /\ ExclusiveFree(q)
    /\ Hold(q, "exclusive") /\ Goto(q, "load")
    /\ read' = [read EXCEPT ![q] = {}]
    /\ UNCHANGED <<program, binary, world, raced>>

LockExclusive(q) ==
    /\ pc[q] = "want_exclusive" /\ ExclusiveFree(q)
    /\ Hold(q, "exclusive") /\ Goto(q, "lookup")
    /\ UNCHANGED <<read, program, binary, world, raced>>

(* Mistake: after the second look the wait for the lock begins anew. *)
Wrong_NoProgram(q) == Leave(q, "want_exclusive") /\ UNCHANGED read

(* loadBinary comes back without a program: under the shared lock the      *)
(* exclusive one is waited for, under the exclusive one a binary is made.  *)
NoProgram(q) ==
    IF holds[q] = "exclusive"
    THEN Goto(q, "load") /\ read' = [read EXCEPT ![q] = {}] /\ UNCHANGED holds
    ELSE Leave(q, "want_exclusive") /\ UNCHANGED read

(* Mistake: the times of the source files are not compared. *)
Wrong_UpToDate == binary # NoBinary

(* No listed file has been written after the binary. *)
UpToDate == binary # NoBinary /\ \A f \in Listed : date[f] <= binary.date

loadBinary_lookup(q) ==
    /\ pc[q] = "lookup"
    /\ \/ UpToDate /\ Goto(q, "read") /\ UNCHANGED <<holds, read>>
       \/ ~UpToDate /\ NoProgram(q)
    /\ UNCHANGED <<program, binary, world, raced>>

(* The file is read.  Of half a binary clCreateProgramWithBinary either    *)
(* says by its return value that it is invalid, which is thrown, or by the *)
(* status of the device.  The shared lock ends with the call.              *)
loadBinary_read(q) ==
    /\ pc[q] = "read"
    /\ \/ /\ binary.whole
          /\ program' = [program EXCEPT ![q] = binary.of]
          /\ Goto(q, "build")
          /\ IF holds[q] = "shared" THEN Hold(q, "none") ELSE UNCHANGED holds
          /\ UNCHANGED read
       \/ ~binary.whole /\ Leave(q, "failed") /\ UNCHANGED <<read, program>>
       \/ ~binary.whole /\ NoProgram(q) /\ UNCHANGED program
    /\ UNCHANGED <<binary, world, raced>>

(* buildProgram of a binary; after the second look under the lock. *)
buildProgram(q) ==
    /\ pc[q] = "build"
    /\ Leave(q, "done")
    /\ UNCHANGED <<read, program, binary, world, raced>>

loadSources(q) ==
    /\ pc[q] = "load"
    /\ \E f \in Listed \ read[q] :
          /\ read' = [read EXCEPT ![q] = @ \cup {f}]
          /\ program' = [program EXCEPT ![q][f] = version[f]]
          /\ IF Listed \subseteq read'[q] THEN Goto(q, "compile") ELSE UNCHANGED pc
    /\ UNCHANGED <<holds, binary, world, raced>>

(* buildProgram of the sources: the compiler reads what they include. *)
buildProgram_compile(q) ==
    /\ pc[q] = "compile"
    /\ read' = [read EXCEPT ![q] = @ \cup Headers]
    /\ program' = [program EXCEPT ![q] = [f \in Files |->
                                            IF f \in Headers THEN version[f] ELSE @[f]]]
    /\ Goto(q, "dump")
    /\ UNCHANGED <<holds, binary, world, raced>>

Throwing == {"lookup", "read", "build", "load", "compile", "dump"}

(* Mistake: the lock outlives the exception. *)
Wrong_Throw(q) ==
    /\ pc[q] \in Throwing
    /\ Goto(q, "failed")
    /\ UNCHANGED <<holds, read, program, binary, world, raced>>

(* A file cannot be read, the program is not compiled, OpenCL reports an   *)
(* error: the exception ends the program.                                  *)
Throw(q) ==
    /\ pc[q] \in Throwing
    /\ Leave(q, "failed")
    /\ UNCHANGED <<read, program, binary, world, raced>>

(* dumpBinary, of a program the OpenCL implementation does not export. *)
dumpBinary_unsupported(q) ==
    /\ pc[q] = "dump"
    /\ Leave(q, "done")
    /\ UNCHANGED <<read, program, binary, world, raced>>

(* The file is opened, which empties it, written and closed. *)
dumpBinary_open(q) ==
    /\ pc[q] = "dump"
    /\ binary' = [of |-> program[q], date |-> now, whole |-> FALSE]
    /\ Goto(q, "dumping")
    /\ UNCHANGED <<holds, read, program, world, raced>>

dumpBinary_close(q) ==
    /\ pc[q] = "dumping"
    /\ binary' = [binary EXCEPT !.date = now, !.whole = TRUE]
    /\ raced' = {f \in Listed : program[q][f] # version[f]}
    /\ Leave(q, "done")
    /\ UNCHANGED <<read, program, world>>

(* The disk is full, which nobody notices. *)
dumpBinary_fails(q) ==
    /\ pc[q] = "dumping" /\ faults < MaxFaults
    /\ faults' = faults + 1
    /\ binary' = [binary EXCEPT !.date = now]
    /\ Leave(q, "done")
    /\ UNCHANGED <<read, program, version, date, now, edits, starts, raced>>
-----------------------------------------------------------------------------
(***************************************************************************)
(* The world around: a process is killed, a file is changed, time passes.  *)
(***************************************************************************)
Kill(q) ==
    /\ pc[q] \in Running /\ faults < MaxFaults
    /\ faults' = faults + 1
    /\ Leave(q, "idle")
    /\ UNCHANGED <<read, program, binary, version, date, now, edits, starts, raced>>

(* A process is between its reading of f and the end of its writing. *)
InTheMaking(f) ==
    \E q \in Processes : pc[q] \in {"load", "compile", "dump", "dumping"} /\ f \in read[q]

Edit(f) ==
    /\ edits < MaxEdits
    /\ edits' = edits + 1
    /\ version' = [version EXCEPT ![f] = @ + 1]
    /\ date' = [date EXCEPT ![f] = now]
    /\ raced' = IF InTheMaking(f) \/ (binary # NoBinary /\ binary.date = now)
                THEN raced \cup {f} ELSE raced \ {f}
    /\ UNCHANGED <<process, binary, now, faults, starts>>

Tick ==
    /\ now < MaxTime
    /\ now' = now + 1
    /\ UNCHANGED <<process, binary, version, date, edits, faults, starts, raced>>

Finished ==
    /\ starts = MaxStarts /\ \A q \in Processes : pc[q] \in Ended
    /\ UNCHANGED vars

Get(q) ==
    \/ LockShared(q) \/ LockExclusive(q)
    \/ loadBinary_lookup(q) \/ loadBinary_read(q) \/ buildProgram(q)
    \/ loadSources(q) \/ buildProgram_compile(q) \/ Throw(q)
    \/ dumpBinary_unsupported(q) \/ dumpBinary_open(q) \/ dumpBinary_close(q)
    \/ dumpBinary_fails(q)

Next ==
    \/ \E q \in Processes : Start(q) \/ Get(q) \/ Kill(q)
    \/ \E f \in Files : Edit(f)
    \/ Tick \/ Finished

Spec == Init /\ [][Next]_vars /\ \A q \in Processes : WF_vars(Get(q))
-----------------------------------------------------------------------------
(***************************************************************************)
(* Properties                                                              *)
(***************************************************************************)
(* The lock of a process, by where it is. *)
Locks(label) ==
    CASE label \in Ended \cup {"want_shared", "want_exclusive"} -> {"none"}
      [] label \in {"lookup", "read"} -> {"shared", "exclusive"}
      [] label = "build" -> {"none", "exclusive"}
      [] OTHER -> {"exclusive"}

TypeOK ==
    /\ pc \in [Processes -> Ended \cup Running]
    /\ holds \in [Processes -> {"none", "shared", "exclusive"}]
    /\ \A q \in Processes : holds[q] \in Locks(pc[q])
    /\ read \in [Processes -> SUBSET Files]
    /\ program \in [Processes -> [Files -> Versions]]
    /\ binary \in Binaries \cup {NoBinary}
    /\ version \in [Files -> Versions] /\ date \in [Files -> Times]
    /\ now \in Times
    /\ edits \in 0 .. MaxEdits /\ faults \in 0 .. MaxFaults /\ starts \in 0 .. MaxStarts
    /\ raced \subseteq Files

(* The lock keeps the file from being read, or written a second time,      *)
(* while it is written: half a binary is met only after a process was      *)
(* killed while it wrote, or could not write.                              *)
ReadsWholeBinaries ==
    /\ \A q \in Processes : pc[q] = "read" /\ faults = 0 => binary.whole
    /\ \A q, other \in Processes :
          pc[q] = "dumping" /\ pc[other] \in {"read", "dumping"} => q = other

(* The second look after the wait for the lock does its work: nobody       *)
(* compiles a kernel whose binary the cache holds already.                 *)
CompilesOnlyIfMissing ==
    \A q \in Processes : pc[q] \in {"load", "compile", "dump"} => ~(UpToDate /\ binary.whole)

(* A binary that is accepted belongs to the listed files as they are, with *)
(* two exceptions: a file changed while the binary was made from it, or    *)
(* changed later in the second the binary was written.                     *)
StaleOnlyAfterRace ==
    UpToDate /\ binary.whole => \A f \in Listed : binary.of[f] = version[f] \/ f \in raced

(* The processes do not wait for each other for ever: each has its kernel, *)
(* has failed or was killed in the end.                                    *)
EveryRequestEnds == \A q \in Processes : pc[q] = "want_shared" ~> pc[q] \in Ended
==============================================================================
