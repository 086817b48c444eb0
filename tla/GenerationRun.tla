---------------------------- MODULE GenerationRun ----------------------------
(***************************************************************************)
(* The executables that generate configurations (hmc, rhmc, su3heatbath):  *)
(* the loop over trajectories, the online measurements, the checkpoints of *)
(* the gauge field and of the random number generator, and what a later    *)
(* start of the program finds on disk after the process was interrupted.   *)
(*                                                                         *)
(* A configuration is abstracted to the history that produced it: the      *)
(* sequence of the positions of the random stream its trajectories were    *)
(* computed with.  The generator is abstracted to its position.  A file is *)
(* absent, torn (opened and not completely written) or whole.              *)
(***************************************************************************)
EXTENDS Integers, Sequences

CONSTANTS
    ALGORITHM,             \* "su3heatbath" or "hmc" (rhmc runs the same loop)
    ThermalizationSteps,   \* the values of nThermalizationSteps the operator uses
    GenerationSteps,       \* hmcsteps, rhmcsteps or heatbathsteps
    WriteFrequency,        \* onlineMeasureEvery
    SaveFrequency,         \* createCheckpointEvery
    SavePointFrequency,    \* overwriteTemporaryCheckpointEvery
    MEASURE_PBP,           \* the chiral condensate is measured online (hmc, rhmc)
    RESTART,               \* the files a restart uses: "numbered" or "save"
    OPERATOR_CHECKS_SIZE,  \* the operator does not start from a short prng file
    MEMORY_REPEATS,        \* memory that is allocated anew may hold what was in it
    MaxTrajectory,         \* bound: the last trajectory of the model
    MaxFaults              \* bound: crashes and failed writes

ASSUME GenerationAssumption ==
    /\ ALGORITHM \in {"su3heatbath", "hmc"}
    /\ ThermalizationSteps \subseteq Nat
    /\ GenerationSteps \in Nat
    /\ WriteFrequency \in Nat \ {0}
    /\ SaveFrequency \in Nat
    /\ SavePointFrequency \in Nat
    /\ MEASURE_PBP \in BOOLEAN
    /\ RESTART \in {"numbered", "save"}
    /\ OPERATOR_CHECKS_SIZE \in BOOLEAN
    /\ MEMORY_REPEATS \in BOOLEAN
    /\ MaxTrajectory \in Nat
    /\ MaxFaults \in Nat

VARIABLES
    disk,            \* every file a checkpoint consists of
    pc,              \* where the process is; "down": there is no process
    phase,           \* the step of the store it is in
    pending,         \* the stores left in this iteration
    iteration,
    thermalizeTo,    \* nextToLastThermalizationTraj
    generateTo,      \* nextToLastGenerationTraj
    chain,           \* the history of the configuration in memory
    stream,          \* the position of the generator in memory
    observables,     \* the lines of the observables file
    faults

processVars == <<iteration, thermalizeTo, generateTo>>
vars == <<disk, pc, phase, pending, iteration, thermalizeTo, generateTo,
          chain, stream, observables, faults>>

------------------------------------------------------------------------------
(* Files *)

Kinds == {"conf", "prng"}
SAVE == -1                                \* the number of conf.save and prng.save
Numbers == {SAVE} \cup 0 .. MaxTrajectory \* conf.00001, ...
Slots == {"file", "backup", "backup_tmp"}
Files == Kinds \X Numbers \X Slots

Garbage == -1  \* a generator loaded from a torn file

Content(state, number, history, position) ==
    [state |-> state, number |-> number, chain |-> history, stream |-> position]
Absent == Content("absent", 0, <<>>, 0)
Torn   == Content("torn", 0, <<>>, 0)

Exists(kind, number, slot) == disk[<<kind, number, slot>>] # Absent
IsWhole(kind, number, slot) == disk[<<kind, number, slot>>].state = "whole"

\* mutant: the number of the trajectory that was just computed.
Wrong_Snapshot(kind) ==
    IF kind = "conf" THEN Content("whole", iteration, chain, 0)
                     ELSE Content("whole", 0, <<>>, stream)

\* What saving the present state writes: the gauge field file holds the
\* number iteration + 1, the generator's file holds no number.
Snapshot(kind) ==
    IF kind = "conf" THEN Content("whole", iteration + 1, chain, 0)
                     ELSE Content("whole", 0, <<>>, stream)

------------------------------------------------------------------------------
(* Random numbers *)

\* A trajectory, or an online measurement with random sources, takes the
\* next part of the stream.
Draw(position) == IF position = Garbage THEN Garbage ELSE position + 1

UsesRandomSources == ALGORITHM = "hmc" /\ MEASURE_PBP

\* mutant: counts from the trajectory's own number.
Wrong_Due(frequency) == iteration % frequency = 0
Due(frequency) == (iteration + 1) % frequency = 0

------------------------------------------------------------------------------
(* Starting the program *)

GenerationInit ==
    /\ disk = [f \in Files |-> Absent]
    /\ pc = "down" /\ phase = "begin" /\ pending = <<>>
    /\ iteration = 0 /\ thermalizeTo = 0 /\ generateTo = 0
    /\ chain = <<>> /\ stream = 0
    /\ observables = {}
    /\ faults = 0

\* setIterationParameters: the loop bounds count from the trajectory number
\* the gauge field was read with.
SetIterationParameters(number, thermalizationSteps) ==
    /\ iteration' = number
    /\ thermalizeTo' = number + thermalizationSteps
    /\ generateTo' = number + thermalizationSteps + GenerationSteps
    /\ number + thermalizationSteps + GenerationSteps <= MaxTrajectory

Boot(number, history, position) ==
    /\ pc = "down"
    /\ \E n \in ThermalizationSteps : SetIterationParameters(number, n)
    /\ chain' = history /\ stream' = position
    /\ pc' = "thermalize" /\ phase' = "begin" /\ pending' = <<>>
    /\ UNCHANGED <<disk, observables, faults>>

\* A cold or hot start: trajectoryNumberAtInit is 0, the generator is seeded.
\* Runs that continue from the save files start this way only once.
StartFresh ==
    /\ RESTART = "save" => \A f \in Files : disk[f] = Absent
    /\ Boot(0, <<>>, 0)

\* mutant: initialPRNG is not used, the generator is seeded again.
Wrong_ReadPrng(content) == 0

\* The generator is read from whatever bytes there are: a file that ends
\* inside the state of the last device passes the checks of the reader.
ReadPrng(content) ==
    IF content.state = "torn" THEN Garbage ELSE content.stream

ReadablePrng(number, slot) ==
    \/ IsWhole("prng", number, slot)
    \/ ~OPERATOR_CHECKS_SIZE /\ Exists("prng", number, slot)

\* The gauge field is read with its number; a torn file fails its checksum.
StartFromNumbered ==
    /\ RESTART = "numbered"
    /\ \E n \in 1 .. MaxTrajectory :
        /\ IsWhole("conf", n, "file") /\ ReadablePrng(n, "file")
        /\ LET c == disk[<<"conf", n, "file">>] IN
             Boot(c.number, c.chain, ReadPrng(disk[<<"prng", n, "file">>]))

\* The newest whole copy: the file, else its backup, else the older backup.
Newest(kind, slot) ==
    /\ IsWhole(kind, SAVE, slot)
    /\ slot # "file" => ~IsWhole(kind, SAVE, "file")
    /\ slot = "backup_tmp" => ~IsWhole(kind, SAVE, "backup")

StartFromSave ==
    /\ RESTART = "save"
    /\ \E s, t \in Slots :
        /\ Newest("conf", s) /\ Newest("prng", t)
        /\ LET c == disk[<<"conf", SAVE, s>>] IN
             Boot(c.number, c.chain, disk[<<"prng", SAVE, t>>].stream)

------------------------------------------------------------------------------
(* The loop over trajectories *)

NextConfiguration ==
    /\ chain' = Append(chain, stream)
    /\ stream' = Draw(stream)

Measure(history) ==
    observables' = observables \cup {[iteration |-> iteration, chain |-> history]}

\* thermalize(): a heatbath update and a measurement, nothing is saved.
Thermalize ==
    /\ pc = "thermalize" /\ iteration < thermalizeTo
    /\ ALGORITHM = "su3heatbath"
    /\ NextConfiguration
    /\ Measure(chain')
    /\ iteration' = iteration + 1
    /\ UNCHANGED <<disk, pc, phase, pending, thermalizeTo, generateTo, faults>>

\* hmc and rhmc throw when they are asked to thermalize; main ends.
ThermalizationNotImplemented ==
    /\ pc = "thermalize" /\ iteration < thermalizeTo
    /\ ALGORITHM = "hmc"
    /\ pc' = "down"
    /\ UNCHANGED <<disk, phase, pending, processVars, chain, stream,
                   observables, faults>>

ThermalizationDone ==
    /\ pc = "thermalize" /\ iteration >= thermalizeTo
    /\ pc' = "generate"
    /\ UNCHANGED <<disk, phase, pending, processVars, chain, stream,
                   observables, faults>>

\* mutant: one trajectory too many.
Wrong_Generate ==
    /\ pc = "generate" /\ iteration <= generateTo /\ iteration < MaxTrajectory
    /\ NextConfiguration
    /\ pc' = "measure"
    /\ UNCHANGED <<disk, phase, pending, processVars, observables, faults>>

\* generateAccordingToSpecificAlgorithm: one trajectory.
Generate ==
    /\ pc = "generate" /\ iteration < generateTo
    /\ NextConfiguration
    /\ pc' = "measure"
    /\ UNCHANGED <<disk, phase, pending, processVars, observables, faults>>

\* mutant: the numbered file gets the number of the trajectory just computed.
Wrong_Saves(kind) ==
    (IF SavePointFrequency # 0 /\ Due(SavePointFrequency)
        THEN << <<kind, SAVE>> >> ELSE <<>>)
    \o (IF SaveFrequency # 0 /\ Due(SaveFrequency)
        THEN << <<kind, iteration>> >> ELSE <<>>)

\* saveGaugefield() and savePrng(): which stores they make, in which order.
Saves(kind) ==
    (IF SavePointFrequency # 0 /\ Due(SavePointFrequency)
        THEN << <<kind, SAVE>> >> ELSE <<>>)
    \o (IF SaveFrequency # 0 /\ Due(SaveFrequency)
        THEN << <<kind, iteration + 1>> >> ELSE <<>>)

\* mutant: the generator is saved before the gauge field.
Wrong_CheckpointStores == Saves("prng") \o Saves("conf")

CheckpointStores == Saves("conf") \o Saves("prng")

\* performOnlineMeasurements, then the stores of this iteration are due.
PerformOnlineMeasurements ==
    /\ pc = "measure"
    /\ IF Due(WriteFrequency)
       THEN /\ Measure(chain)
            /\ stream' = IF UsesRandomSources THEN Draw(stream) ELSE stream
       ELSE UNCHANGED <<observables, stream>>
    /\ pending' = CheckpointStores
    /\ pc' = "save" /\ phase' = "begin"
    /\ UNCHANGED <<disk, processVars, chain, faults>>

\* The end of the loop's body.
NextIteration ==
    /\ pc = "save" /\ pending = <<>>
    /\ iteration' = iteration + 1
    /\ pc' = "generate"
    /\ UNCHANGED <<disk, phase, pending, thermalizeTo, generateTo, chain, stream,
                   observables, faults>>

\* The loop ends and with it the program.
Finish ==
    /\ pc = "generate" /\ iteration >= generateTo
    /\ pc' = "down"
    /\ UNCHANGED <<disk, phase, pending, processVars, chain, stream,
                   observables, faults>>
------------------------------------------------------------------------------
(* Writing one file: LimeFileWriter and PRNG::store do the same steps *)

Kind == Head(pending)[1]
Number == Head(pending)[2]
At(slot) == <<Kind, Number, slot>>

InStore(step) == pc = "save" /\ pending # <<>> /\ phase = step

StoreStep(step) ==
    /\ phase' = step
    /\ UNCHANGED <<pc, pending, processVars, chain, stream, observables, faults>>

\* An existing backup steps aside for the file that becomes the backup.
SetAsideBackup ==
    /\ InStore("begin") /\ Exists(Kind, Number, "file")
    /\ disk' = IF Exists(Kind, Number, "backup")
               THEN [disk EXCEPT ![At("backup_tmp")] = disk[At("backup")],
                                 ![At("backup")] = Absent]
               ELSE disk
    /\ StoreStep("rename")

\* mutant: the file is opened without a look at what is there.
Wrong_NothingToBackUp ==
    /\ InStore("begin")
    /\ UNCHANGED disk
    /\ StoreStep("open")

NothingToBackUp ==
    /\ InStore("begin") /\ ~Exists(Kind, Number, "file")
    /\ UNCHANGED disk
    /\ StoreStep("open")

RenameToBackup ==
    /\ InStore("rename")
    /\ disk' = [disk EXCEPT ![At("backup")] = disk[At("file")],
                            ![At("file")] = Absent]
    /\ StoreStep("remove")

RemoveOldBackup ==
    /\ InStore("remove")
    /\ disk' = [disk EXCEPT ![At("backup_tmp")] = Absent]
    /\ StoreStep("open")

OpenFile ==
    /\ InStore("open")
    /\ disk' = [disk EXCEPT ![At("file")] = Torn]
    /\ StoreStep("write")

WriteFile ==
    /\ InStore("write")
    /\ disk' = [disk EXCEPT ![At("file")] = Snapshot(Kind)]
    /\ StoreStep("verify")

\* The device is full, the file system fails: the stream of the generator's
\* file is not asked whether it is still good.
WriteFails ==
    /\ InStore("write") /\ faults < MaxFaults
    /\ phase' = "verify"
    /\ faults' = faults + 1
    /\ UNCHANGED <<disk, pc, pending, processVars, chain, stream, observables>>

\* mutant: the file is not read again.
Wrong_VerifyWritingWasSuccessful ==
    /\ InStore("verify")
    /\ pending' = Tail(pending) /\ phase' = "begin"
    /\ UNCHANGED <<disk, pc, processVars, chain, stream, observables, faults>>

\* The state that is compared with what a short file delivers of it was in
\* memory of the same size a moment ago.
MayReadAsWritten ==
    \/ IsWhole(Kind, Number, "file")
    \/ MEMORY_REPEATS /\ Kind = "prng"

\* Both writers read the file again.
VerifyWritingWasSuccessful ==
    /\ InStore("verify") /\ MayReadAsWritten
    /\ pending' = Tail(pending) /\ phase' = "begin"
    /\ UNCHANGED <<disk, pc, processVars, chain, stream, observables, faults>>

\* ... and throw when it does not hold what was written; main ends.
WritingNotSuccessful ==
    /\ InStore("verify") /\ ~IsWhole(Kind, Number, "file")
    /\ pc' = "down" /\ phase' = "begin" /\ pending' = <<>>
    /\ UNCHANGED <<disk, processVars, chain, stream, observables, faults>>

\* The process is killed, at any point; memory is gone, the disk stays.
Crash ==
    /\ pc # "down" /\ faults < MaxFaults
    /\ pc' = "down" /\ phase' = "begin" /\ pending' = <<>>
    /\ faults' = faults + 1
    /\ UNCHANGED <<disk, processVars, chain, stream, observables>>

------------------------------------------------------------------------------
Start == StartFresh \/ StartFromNumbered \/ StartFromSave
Loop == \/ Thermalize \/ ThermalizationNotImplemented \/ ThermalizationDone
        \/ Generate \/ PerformOnlineMeasurements \/ NextIteration \/ Finish
Store == \/ SetAsideBackup \/ NothingToBackUp \/ RenameToBackup
         \/ RemoveOldBackup \/ OpenFile \/ WriteFile \/ WriteFails
         \/ VerifyWritingWasSuccessful \/ WritingNotSuccessful

Next == Start \/ Loop \/ Store \/ Crash

Spec == GenerationInit /\ [][Next]_vars

------------------------------------------------------------------------------
(* Properties *)

Positions == Nat \cup {Garbage}
Contents == [state : {"absent", "torn", "whole"}, number : 0 .. MaxTrajectory,
             chain : Seq(Positions), stream : Positions]

\* Types, and the loop never runs past its bounds: thermalize() and generate()
\* of generationExecutable.cpp count iteration up to the two limits.
TypeOK ==
    /\ disk \in [Files -> Contents]
    /\ pc \in {"down", "thermalize", "generate", "measure", "save"}
    /\ phase \in {"begin", "rename", "remove", "open", "write", "verify"}
    /\ pending \in Seq(Kinds \X Numbers)
    /\ iteration \in 0 .. generateTo
    /\ thermalizeTo \in 0 .. generateTo
    /\ generateTo \in 0 .. MaxTrajectory
    /\ chain \in Seq(Positions)
    /\ stream \in Positions
    /\ observables \subseteq [iteration : Nat, chain : Seq(Positions)]
    /\ faults \in 0 .. MaxFaults

\* The uninterrupted chain: where the generator stands after n trajectories
\* and the history of the configuration at that point.
StreamAfter(n) == n + IF UsesRandomSources THEN n \div WriteFrequency ELSE 0
UninterruptedChain(n) == [i \in 1 .. n |-> StreamAfter(i - 1)]
Uninterrupted(history) == history = UninterruptedChain(Len(history))

\* A chain continued from its numbered checkpoints is the chain one long run
\* would have produced: the configuration in memory, every configuration on
\* disk and every line of the observables file.  generate() saves the
\* generator after the online measurements that use it.
ChainUninterrupted ==
    /\ pc # "down" => Uninterrupted(chain)
    /\ \A f \in Files : Uninterrupted(disk[f].chain)
    /\ \A o \in observables : Uninterrupted(o.chain)

\* "iteration+1 to be able to continue later at the right tr."
\* (generationExecutable.cpp:47): the loop's counter is the length of the
\* chain, also after a restart, and a numbered file is the one of its name.
ContinuesAtRightTrajectory ==
    /\ pc # "down" =>
         Len(chain) = iteration + (IF pc \in {"measure", "save"} THEN 1 ELSE 0)
    /\ \A n \in Numbers, s \in Slots :
         LET c == disk[<<"conf", n, s>>] IN
           c.state = "whole" => /\ c.number = Len(c.chain)
                                /\ n # SAVE => c.number = n

\* The observables file has no gap: whatever configuration a restart may take
\* up, the trajectories that led to it were measured before they were saved.
\* performOnlineMeasurements() precedes saveGaugefield() in generate().
SavedConfigurationsWereMeasured ==
    \A f \in Files : disk[f].state = "whole" =>
        \A n \in 1 .. Len(disk[f].chain) :
            n % WriteFrequency = 0 =>
                [iteration |-> n - 1, chain |-> SubSeq(disk[f].chain, 1, n)]
                    \in observables

\* No trajectory is started before the checkpoints of the last one are whole
\* on disk: PRNG::verifyWritingWasSuccessful and IldgIoWriter_gaugefield.
CheckpointedBeforeNextTrajectory ==
    [][NextIteration =>
        /\ (SavePointFrequency # 0 /\ Due(SavePointFrequency)) =>
             /\ disk[<<"conf", SAVE, "file">>].chain = chain
             /\ disk[<<"prng", SAVE, "file">>].stream = stream
             /\ \A k \in Kinds : IsWhole(k, SAVE, "file")
        /\ (SaveFrequency # 0 /\ Due(SaveFrequency)) =>
             /\ disk[<<"conf", iteration + 1, "file">>].chain = chain
             /\ disk[<<"prng", iteration + 1, "file">>].stream = stream
             /\ \A k \in Kinds : IsWhole(k, iteration + 1, "file")]_vars

\* The renaming in LimeFileWriter and PRNG::store: a step loses the last whole
\* copy of a file only where a torn file had been moved over the backup.
HasCopy(kind, number) == \E s \in Slots : IsWhole(kind, number, s)
LastCopyIsKept ==
    [][\A k \in Kinds, n \in Numbers :
        (HasCopy(k, n) /\ ~HasCopy(k, n)') => disk[<<k, n, "backup">>] = Torn]_vars

\* A restart from conf.save and prng.save may meet a generator behind the
\* gauge field, by what lies between two saves for each interruption, and then
\* uses random numbers again; it never meets a generator ahead of it.  The
\* order of saveGaugefield() and savePrng() in generate() decides which.
LongestThermalization == CHOOSE n \in ThermalizationSteps :
                            \A k \in ThermalizationSteps : k <= n
GeneratorNeverAhead ==
    pc # "down" =>
        /\ stream <= Len(chain)
        /\ stream >= Len(chain) - faults * (SavePointFrequency + LongestThermalization)

\* The reader rejects a file that "does not seem to contain a valid prng state"
\* (prng.cpp:116): no run computes with a generator loaded from a torn file.
GeneratorIsValid == stream # Garbage

------------------------------------------------------------------------------
(* The promise the files implement: MarkovChain *)

Position == Len(chain)

Checkpoints ==
    {n \in 1 .. MaxTrajectory :
        /\ disk[<<"conf", n, "file">>] =
             Content("whole", n, UninterruptedChain(n), 0)
        /\ disk[<<"prng", n, "file">>] =
             Content("whole", 0, <<>>, StreamAfter(n))}

Promise == INSTANCE MarkovChain WITH position <- Position, checkpoints <- Checkpoints

\* With numbered files the executables implement the interruptible chain: a
\* restart is at a position whose checkpoint is intact, and a store spoils at
\* most the checkpoint of the present trajectory.
ImplementsMarkovChain == Promise!MCSpec
==============================================================================
