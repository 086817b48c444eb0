------------------------- MODULE GenerationRun_proofs -------------------------
(***************************************************************************)
(* The chain that is continued from numbered checkpoints, for every number *)
(* of steps, every interval and any number of crashes and failed writes.   *)
(*                                                                         *)
(* The invariants the runs check are not inductive: what a store writes is *)
(* right because the loop's counter, the length of the history and the     *)
(* position of the generator agree, at each point of the loop in its own   *)
(* way (LoopAgrees), and a restart finds them agreeing because every       *)
(* numbered pair on disk does (FilesAgree).                                *)
(***************************************************************************)
EXTENDS GenerationRun, TLAPS

\* The operator continues from numbered files of full size.
Numbered == RESTART = "numbered" /\ OPERATOR_CHECKS_SIZE = TRUE

LoopTypes ==
    /\ pc \in {"down", "thermalize", "generate", "measure", "save"}
    /\ phase \in {"begin", "rename", "remove", "open", "write", "verify"}
    /\ iteration \in 0 .. generateTo
    /\ thermalizeTo \in 0 .. generateTo
    /\ generateTo \in 0 .. MaxTrajectory
    /\ pc \in {"measure", "save"} => iteration < generateTo
    /\ faults \in 0 .. MaxFaults

\* The stores that are left are stores of this iteration.
PendingAgrees ==
    /\ pending \in Seq(Kinds \X Numbers)
    /\ pc = "save" => pending \in Seq(Kinds \X {SAVE, iteration + 1})

\* The trajectories the configuration in memory has behind it.
Done == iteration + (IF pc \in {"measure", "save"} THEN 1 ELSE 0)

LoopAgrees ==
    /\ \E n \in 0 .. MaxTrajectory : chain = UninterruptedChain(n)
    /\ pc # "down" => chain = UninterruptedChain(Done)
    /\ stream \in Positions
    /\ pc \in {"thermalize", "generate", "save"} => stream = StreamAfter(Done)
    /\ pc = "measure" => stream = StreamAfter(iteration) + 1

\* What a file of this kind and number may hold.
FileAgrees(kind, number, content) ==
    /\ content.state # "whole" => content \in {Absent, Torn}
    /\ IF kind = "conf"
       THEN content.chain = UninterruptedChain(content.number) /\ content.stream = 0
       ELSE content.chain = <<>> /\ content.number = 0 /\ content.stream \in Nat
    /\ content.state = "whole" /\ number # SAVE =>
         IF kind = "conf" THEN content.number = number
                          ELSE content.stream = StreamAfter(number)

FilesAgree ==
    /\ disk \in [Files -> Contents]
    /\ \A k \in Kinds, n \in Numbers, s \in Slots :
          FileAgrees(k, n, disk[<<k, n, s>>])

ObservablesAgree ==
    \A o \in observables :
        /\ o.iteration \in 0 .. MaxTrajectory
        /\ o = [iteration |-> o.iteration,
                chain |-> UninterruptedChain(o.iteration + 1)]

IInv ==
    /\ LoopTypes
    /\ PendingAgrees
    /\ LoopAgrees
    /\ FilesAgree
    /\ ObservablesAgree

------------------------------------------------------------------------------
(* The uninterrupted chain *)

\* Dividing by the write frequency counts the measurements that were due.
LEMMA DivStep ==
    ASSUME NEW n \in Nat, NEW f \in Nat \ {0}
    PROVE  (n + 1) \div f = (n \div f) + IF (n + 1) % f = 0 THEN 1 ELSE 0
<1> DEFINE q == n \div f
<1> DEFINE r == n % f
<1>1. q \in Nat /\ r \in 0 .. f - 1 /\ n = f * q + r
  BY SMT
<1> HIDE DEF q, r
<1>2. CASE r = f - 1
  <2>1. n + 1 = f * (q + 1)
    BY <1>1, <1>2, SMT
  <2>2. (n + 1) \div f = q + 1 /\ (n + 1) % f = 0
    BY <1>1, <2>1, SMT
  <2>. QED  BY <2>2 DEF q
<1>3. CASE r # f - 1
  <2>1. n + 1 = f * q + (r + 1) /\ r + 1 \in 1 .. f - 1
    BY <1>1, <1>3, SMT
  <2>2. (n + 1) \div f = q /\ (n + 1) % f # 0
    BY <1>1, <2>1, SMT
  <2>. QED  BY <2>2 DEF q
<1>. QED  BY <1>2, <1>3

\* The position of the generator is a position.
LEMMA StreamIsNat ==
    ASSUME NEW n \in Nat
    PROVE  StreamAfter(n) \in Nat
<1>1. n \div WriteFrequency \in Nat
  BY GenerationAssumption, SMT DEF GenerationAssumption
<1>. QED  BY <1>1, SMT DEF StreamAfter

\* A trajectory draws once, and its measurement once more where it is due.
LEMMA StreamStep ==
    ASSUME NEW n \in Nat
    PROVE  StreamAfter(n + 1) =
             StreamAfter(n) + 1
             + IF UsesRandomSources /\ (n + 1) % WriteFrequency = 0 THEN 1 ELSE 0
<1>1. (n + 1) \div WriteFrequency =
        (n \div WriteFrequency)
        + IF (n + 1) % WriteFrequency = 0 THEN 1 ELSE 0
  BY DivStep, GenerationAssumption DEF GenerationAssumption
<1> DEFINE q == n \div WriteFrequency
<1>2. q \in Nat
  BY GenerationAssumption, SMT DEF GenerationAssumption
<1>3. (n + 1) \div WriteFrequency =
        q + IF (n + 1) % WriteFrequency = 0 THEN 1 ELSE 0
  BY <1>1
<1> HIDE DEF q
<1>4. StreamAfter(n) = n + IF UsesRandomSources THEN q ELSE 0
  BY DEF StreamAfter, q
<1>5. StreamAfter(n + 1) = n + 1 + IF UsesRandomSources
        THEN q + IF (n + 1) % WriteFrequency = 0 THEN 1 ELSE 0 ELSE 0
  BY <1>3 DEF StreamAfter
<1>. QED  BY <1>2, <1>4, <1>5, SMT

\* The chain after n trajectories has n entries.
LEMMA ChainIsSequence ==
    ASSUME NEW n \in Nat
    PROVE  UninterruptedChain(n) \in Seq(Nat) /\ Len(UninterruptedChain(n)) = n
<1>1. \A i \in 1 .. n : StreamAfter(i - 1) \in Nat
  BY StreamIsNat
<1>. QED  BY <1>1, SMT DEF UninterruptedChain

\* One more trajectory, computed where the generator stands.
LEMMA ChainStep ==
    ASSUME NEW n \in Nat
    PROVE  Append(UninterruptedChain(n), StreamAfter(n)) = UninterruptedChain(n + 1)
<1>1. UninterruptedChain(n) \in Seq(Nat) /\ Len(UninterruptedChain(n)) = n
  BY ChainIsSequence
<1>2. StreamAfter(n) \in Nat
  BY StreamIsNat
<1>3. /\ Append(UninterruptedChain(n), StreamAfter(n)) \in Seq(Nat)
      /\ Len(Append(UninterruptedChain(n), StreamAfter(n))) = n + 1
  BY <1>1, <1>2
<1>4. UninterruptedChain(n + 1) \in Seq(Nat) /\ Len(UninterruptedChain(n + 1)) = n + 1
  BY ChainIsSequence
<1>5. ASSUME NEW i \in 1 .. n + 1
      PROVE  Append(UninterruptedChain(n), StreamAfter(n))[i] = UninterruptedChain(n + 1)[i]
  <2>1. UninterruptedChain(n + 1)[i] = StreamAfter(i - 1)
    BY DEF UninterruptedChain
  <2>2. CASE i = n + 1
    <3>1. Append(UninterruptedChain(n), StreamAfter(n))[n + 1] = StreamAfter(n)
      BY <1>1, <1>2
    <3>2. i - 1 = n
      BY <2>2
    <3>. QED  BY <2>1, <2>2, <3>1, <3>2
  <2>3. CASE i \in 1 .. n
    <3>1. Append(UninterruptedChain(n), StreamAfter(n))[i] = UninterruptedChain(n)[i]
      BY <1>1, <1>2, <2>3
    <3>2. UninterruptedChain(n)[i] = StreamAfter(i - 1)
      BY <2>3 DEF UninterruptedChain
    <3>. QED  BY <2>1, <3>1, <3>2
  <2>4. i = n + 1 \/ i \in 1 .. n
    OBVIOUS
  <2>. QED  BY <2>2, <2>3, <2>4
<1>. QED  BY <1>3, <1>4, <1>5, SMT

\* Before the first trajectory there is no history.
LEMMA ChainEmpty == UninterruptedChain(0) = <<>> /\ StreamAfter(0) = 0
<1>1. 0 \div WriteFrequency = 0
  BY GenerationAssumption, SMT DEF GenerationAssumption
<1>2. StreamAfter(0) = 0
  BY <1>1 DEF StreamAfter
<1>3. UninterruptedChain(0) \in Seq(Nat) /\ Len(UninterruptedChain(0)) = 0
  BY ChainIsSequence
<1>. QED  BY <1>2, <1>3, SMT

------------------------------------------------------------------------------
(* The invariant *)

\* Before the first start.
LEMMA InitEstablishes == GenerationInit => IInv
<1> SUFFICES ASSUME GenerationInit PROVE IInv
  OBVIOUS
<1> USE GenerationAssumption DEF GenerationAssumption, GenerationInit
<1>1. LoopTypes
  BY DEF LoopTypes
<1>2. PendingAgrees
  BY DEF PendingAgrees
<1>3. LoopAgrees
  BY ChainEmpty DEF LoopAgrees, Positions
<1>4. FilesAgree
  <2>1. Absent \in Contents
    BY DEF Absent, Content, Contents, Positions
  <2>2. \A k \in Kinds, n \in Numbers, s \in Slots : disk[<<k, n, s>>] = Absent
    BY DEF Files
  <2>3. \A k \in Kinds, n \in Numbers : FileAgrees(k, n, Absent)
    BY ChainEmpty DEF FileAgrees, Absent, Content
  <2>. QED  BY <2>1, <2>2, <2>3 DEF FilesAgree
<1>5. ObservablesAgree
  BY DEF ObservablesAgree
<1>. QED  BY <1>1, <1>2, <1>3, <1>4, <1>5 DEF IInv

\* The steps of the program that leave the disk alone leave the files agreeing.
LEMMA FilesUnchanged == FilesAgree /\ UNCHANGED disk => FilesAgree'
BY DEF FilesAgree

\* A start from agreeing files, or from none, agrees.
LEMMA BootAgrees ==
    ASSUME IInv, NEW n \in 0 .. MaxTrajectory,
           Boot(n, UninterruptedChain(n), StreamAfter(n))
    PROVE  IInv'
<1> USE GenerationAssumption DEF GenerationAssumption
<1> PICK t \in ThermalizationSteps : SetIterationParameters(n, t)
  BY DEF Boot
<1>1. iteration' = n /\ pc' = "thermalize" /\ Done' = n
  BY DEF Boot, SetIterationParameters, Done
<1>2. LoopTypes'
  BY <1>1 DEF IInv, LoopTypes, Boot, SetIterationParameters
<1>3. PendingAgrees'
  BY <1>1 DEF PendingAgrees, Boot
<1>4. LoopAgrees'
  BY <1>1, StreamIsNat DEF LoopAgrees, Boot, Positions
<1>5. FilesAgree'
  BY FilesUnchanged DEF IInv, Boot
<1>6. ObservablesAgree'
  BY DEF IInv, ObservablesAgree, Boot
<1>. QED  BY <1>2, <1>3, <1>4, <1>5, <1>6 DEF IInv

\* A start of the program finds agreeing files and leaves them.
LEMMA StartAgrees ==
    ASSUME IInv, Numbered, Start
    PROVE  IInv'
<1> USE GenerationAssumption DEF GenerationAssumption
<1>1. CASE StartFresh
  BY <1>1, BootAgrees, ChainEmpty DEF StartFresh
<1>2. CASE StartFromNumbered
  <2> PICK n \in 1 .. MaxTrajectory :
        /\ IsWhole("conf", n, "file") /\ ReadablePrng(n, "file")
        /\ Boot(disk[<<"conf", n, "file">>].number, disk[<<"conf", n, "file">>].chain,
                ReadPrng(disk[<<"prng", n, "file">>]))
    BY <1>2 DEF StartFromNumbered
  <2>0. n \in Numbers /\ n # SAVE /\ "file" \in Slots /\ {"conf", "prng"} = Kinds
    BY DEF Numbers, SAVE, Slots, Kinds
  <2>1. /\ disk[<<"conf", n, "file">>].number = n
        /\ disk[<<"conf", n, "file">>].chain = UninterruptedChain(n)
    <3>1. FileAgrees("conf", n, disk[<<"conf", n, "file">>])
      BY <2>0 DEF IInv, FilesAgree
    <3>2. disk[<<"conf", n, "file">>].state = "whole"
      BY DEF IsWhole
    <3>. QED  BY <2>0, <3>1, <3>2 DEF FileAgrees
  <2>2. ReadPrng(disk[<<"prng", n, "file">>]) = StreamAfter(n)
    <3>1. FileAgrees("prng", n, disk[<<"prng", n, "file">>])
      BY <2>0 DEF IInv, FilesAgree
    <3>2. disk[<<"prng", n, "file">>].state = "whole"
      BY DEF Numbered, ReadablePrng, IsWhole
    <3>. QED  BY <2>0, <3>1, <3>2 DEF FileAgrees, ReadPrng
  <2>. QED  BY <2>1, <2>2, BootAgrees
<1>3. CASE StartFromSave
  BY <1>3 DEF StartFromSave, Numbered
<1>. QED  BY <1>1, <1>2, <1>3 DEF Start

\* One trajectory takes the chain one step further.
LEMMA NextConfigurationAgrees ==
    ASSUME NEW n \in Nat, chain = UninterruptedChain(n), stream = StreamAfter(n),
           NextConfiguration
    PROVE  chain' = UninterruptedChain(n + 1) /\ stream' = StreamAfter(n) + 1
<1>1. stream \in Nat
  BY StreamIsNat
<1>2. stream' = stream + 1
  BY <1>1, SMT DEF NextConfiguration, Draw, Garbage
<1>. QED  BY <1>2, ChainStep DEF NextConfiguration

\* A measured trajectory is a line of the uninterrupted chain.
LEMMA MeasureAgrees ==
    ASSUME ObservablesAgree, iteration \in 0 .. MaxTrajectory,
           NEW history, history = UninterruptedChain(iteration + 1),
           Measure(history)
    PROVE  ObservablesAgree'
BY DEF ObservablesAgree, Measure

\* The stores of an iteration carry its number or the save files' name.
LEMMA CheckpointStoresAgree ==
    ASSUME iteration \in Nat
    PROVE  CheckpointStores \in Seq(Kinds \X {SAVE, iteration + 1})
<1>1. ASSUME NEW k \in Kinds
      PROVE  Saves(k) \in Seq(Kinds \X {SAVE, iteration + 1})
  <2> DEFINE S == Kinds \X {SAVE, iteration + 1}
  <2>1. <<k, SAVE>> \in S /\ <<k, iteration + 1>> \in S
    OBVIOUS
  <2> HIDE DEF S
  <2>2. /\ << <<k, SAVE>> >> \in Seq(S) /\ << <<k, iteration + 1>> >> \in Seq(S)
        /\ <<>> \in Seq(S)
    BY <2>1, SMT
  <2>3. /\ (IF SavePointFrequency # 0 /\ Due(SavePointFrequency)
             THEN << <<k, SAVE>> >> ELSE <<>>) \in Seq(S)
        /\ (IF SaveFrequency # 0 /\ Due(SaveFrequency)
             THEN << <<k, iteration + 1>> >> ELSE <<>>) \in Seq(S)
    BY <2>2
  <2>4. Saves(k) \in Seq(S)
    BY <2>3, SMT DEF Saves
  <2>. QED  BY <2>4 DEF S
<1>2. "conf" \in Kinds /\ "prng" \in Kinds
  BY DEF Kinds
<1>. QED  BY <1>1, <1>2 DEF CheckpointStores

\* The numbers of an iteration are numbers of files.
LEMMA StoreNumbers ==
    ASSUME IInv, pc \in {"measure", "save"}
    PROVE  {SAVE, iteration + 1} \subseteq Numbers /\ iteration + 1 \in 0 .. MaxTrajectory
BY GenerationAssumption DEF GenerationAssumption, IInv, LoopTypes, Numbers

\* The loop over trajectories (generationExecutable.cpp) keeps its counter, the
\* history and the generator in step.
LEMMA LoopStepAgrees ==
    ASSUME IInv, Numbered, Loop
    PROVE  IInv'
<1> USE GenerationAssumption DEF GenerationAssumption
<1>0. iteration \in Nat /\ thermalizeTo \in Nat /\ generateTo \in Nat
  BY DEF IInv, LoopTypes
<1>1. CASE Thermalize
  <2>1. Done = iteration /\ Done' = iteration + 1 /\ iteration' = iteration + 1
    BY <1>0, <1>1 DEF Thermalize, Done
  <2>2. chain = UninterruptedChain(iteration) /\ stream = StreamAfter(iteration)
    BY <1>1, <2>1 DEF Thermalize, IInv, LoopAgrees
  <2>3. chain' = UninterruptedChain(iteration + 1) /\ stream' = StreamAfter(iteration) + 1
    BY <1>0, <1>1, <2>2, NextConfigurationAgrees DEF Thermalize
  <2>4. stream' = StreamAfter(iteration + 1)
    BY <1>0, <1>1, <2>3, StreamStep, StreamIsNat DEF Thermalize, UsesRandomSources
  <2>5. iteration + 1 \in 0 .. MaxTrajectory /\ iteration + 1 \in 0 .. generateTo
    BY <1>1 DEF Thermalize, IInv, LoopTypes
  <2>6. LoopTypes'
    BY <1>1, <2>1, <2>5 DEF Thermalize, IInv, LoopTypes
  <2>7. PendingAgrees'
    BY <1>1 DEF Thermalize, IInv, PendingAgrees
  <2>8. LoopAgrees'
    <3>1. stream' \in Nat
      BY <1>0, <2>4, StreamIsNat
    <3>. QED  BY <1>1, <2>1, <2>3, <2>4, <2>5, <3>1 DEF Thermalize, LoopAgrees, Positions
  <2>9. FilesAgree'
    BY <1>1, FilesUnchanged DEF Thermalize, IInv
  <2>10. ObservablesAgree'
    <3>1. iteration \in 0 .. MaxTrajectory
      BY DEF IInv, LoopTypes
    <3>. QED  BY <1>1, <2>3, <3>1, MeasureAgrees DEF Thermalize, IInv
  <2>. QED  BY <2>6, <2>7, <2>8, <2>9, <2>10 DEF IInv
<1>2. CASE ThermalizationNotImplemented
  <2>1. LoopTypes' /\ PendingAgrees' /\ ObservablesAgree'
    BY <1>2 DEF ThermalizationNotImplemented, processVars, IInv, LoopTypes, PendingAgrees,
                ObservablesAgree
  <2>2. LoopAgrees'
    BY <1>2 DEF ThermalizationNotImplemented, processVars, IInv, LoopAgrees
  <2>. QED
    BY <1>2, <2>1, <2>2, FilesUnchanged DEF ThermalizationNotImplemented, IInv
<1>3. CASE ThermalizationDone
  <2>1. LoopTypes' /\ PendingAgrees' /\ ObservablesAgree'
    BY <1>3 DEF ThermalizationDone, processVars, IInv, LoopTypes, PendingAgrees,
                ObservablesAgree
  <2>2. LoopAgrees'
    BY <1>3 DEF ThermalizationDone, processVars, IInv, LoopAgrees, Done
  <2>. QED
    BY <1>3, <2>1, <2>2, FilesUnchanged DEF ThermalizationDone, IInv
<1>4. CASE Generate
  <2>1. Done = iteration /\ Done' = iteration + 1 /\ iteration' = iteration
    BY <1>0, <1>4 DEF Generate, processVars, Done
  <2>2. chain = UninterruptedChain(iteration) /\ stream = StreamAfter(iteration)
    BY <1>4, <2>1 DEF Generate, IInv, LoopAgrees
  <2>3. chain' = UninterruptedChain(iteration + 1) /\ stream' = StreamAfter(iteration) + 1
    BY <1>0, <1>4, <2>2, NextConfigurationAgrees DEF Generate
  <2>4. LoopTypes'
    BY <1>4 DEF Generate, processVars, IInv, LoopTypes
  <2>5. PendingAgrees'
    BY <1>4 DEF Generate, IInv, PendingAgrees
  <2>6. LoopAgrees'
    <3>1. iteration + 1 \in 0 .. MaxTrajectory
      BY <1>4 DEF Generate, IInv, LoopTypes
    <3>2. StreamAfter(iteration) \in Nat
      BY <1>0, StreamIsNat
    <3>. QED  BY <1>4, <2>1, <2>3, <3>1, <3>2 DEF Generate, LoopAgrees, Positions
  <2>. QED
    BY <1>4, <2>4, <2>5, <2>6, FilesUnchanged DEF Generate, IInv, ObservablesAgree
<1>5. CASE PerformOnlineMeasurements
  <2>1. Done = iteration + 1 /\ Done' = iteration + 1 /\ iteration' = iteration
    BY <1>5 DEF PerformOnlineMeasurements, processVars, Done
  <2>2. chain = UninterruptedChain(iteration + 1) /\ stream = StreamAfter(iteration) + 1
    BY <1>5, <2>1 DEF PerformOnlineMeasurements, IInv, LoopAgrees
  <2>3. stream' = StreamAfter(iteration + 1)
    <3>1. stream \in Nat /\ Draw(stream) = stream + 1
      BY <1>0, <2>2, StreamIsNat DEF Draw, Garbage
    <3>2. stream' = IF Due(WriteFrequency) /\ UsesRandomSources
                    THEN stream + 1 ELSE stream
      BY <1>5, <3>1 DEF PerformOnlineMeasurements
    <3>3. CASE Due(WriteFrequency) /\ UsesRandomSources
      <4>1. StreamAfter(iteration + 1) = StreamAfter(iteration) + 1 + 1
        BY <1>0, <3>3, StreamStep DEF Due
      <4>. QED  BY <2>2, <3>2, <3>3, <4>1
    <3>4. CASE ~(Due(WriteFrequency) /\ UsesRandomSources)
      <4>1. StreamAfter(iteration + 1) = StreamAfter(iteration) + 1 + 0
        BY <1>0, <3>4, StreamStep DEF Due
      <4>. QED  BY <1>0, <2>2, <3>2, <3>4, <4>1, StreamIsNat
    <3>. QED  BY <3>3, <3>4
  <2>4. LoopTypes'
    BY <1>5 DEF PerformOnlineMeasurements, processVars, IInv, LoopTypes
  <2>5. PendingAgrees'
    <3>1. CheckpointStores \in Seq(Kinds \X {SAVE, iteration + 1})
      BY <1>0, CheckpointStoresAgree
    <3>2. {SAVE, iteration + 1} \subseteq Numbers
      BY <1>5, StoreNumbers DEF PerformOnlineMeasurements
    <3>3. CheckpointStores \in Seq(Kinds \X Numbers)
      BY <3>1, <3>2
    <3>. QED  BY <1>5, <2>1, <3>1, <3>3 DEF PerformOnlineMeasurements, PendingAgrees
  <2>6. LoopAgrees'
    <3>1. iteration + 1 \in 0 .. MaxTrajectory
      BY <1>5, StoreNumbers DEF PerformOnlineMeasurements
    <3>2. stream' \in Nat
      BY <2>3, <3>1, StreamIsNat
    <3>. QED
      BY <1>5, <2>1, <2>2, <2>3, <3>1, <3>2
      DEF PerformOnlineMeasurements, LoopAgrees, Positions
  <2>7. FilesAgree'
    BY <1>5, FilesUnchanged DEF PerformOnlineMeasurements, IInv
  <2>8. ObservablesAgree'
    <3>1. iteration \in 0 .. MaxTrajectory
      BY DEF IInv, LoopTypes
    <3>2. CASE Due(WriteFrequency)
      BY <1>5, <2>2, <3>1, <3>2, MeasureAgrees DEF PerformOnlineMeasurements, IInv
    <3>3. CASE ~Due(WriteFrequency)
      BY <1>5, <3>3 DEF PerformOnlineMeasurements, IInv, ObservablesAgree
    <3>. QED  BY <3>2, <3>3
  <2>. QED  BY <2>4, <2>5, <2>6, <2>7, <2>8 DEF IInv
<1>6. CASE NextIteration
  <2>1. Done' = Done
    BY <1>6 DEF NextIteration, Done
  <2>2. LoopTypes'
    BY <1>6 DEF NextIteration, IInv, LoopTypes
  <2>3. LoopAgrees'
    BY <1>6, <2>1 DEF NextIteration, IInv, LoopAgrees
  <2>4. PendingAgrees' /\ ObservablesAgree'
    BY <1>6 DEF NextIteration, IInv, PendingAgrees, ObservablesAgree
  <2>. QED  BY <1>6, <2>2, <2>3, <2>4, FilesUnchanged DEF NextIteration, IInv
<1>7. CASE Finish
  <2>1. LoopTypes' /\ PendingAgrees' /\ ObservablesAgree'
    BY <1>7 DEF Finish, processVars, IInv, LoopTypes, PendingAgrees, ObservablesAgree
  <2>2. LoopAgrees'
    BY <1>7 DEF Finish, processVars, IInv, LoopAgrees
  <2>. QED  BY <1>7, <2>1, <2>2, FilesUnchanged DEF Finish, IInv
<1>. QED  BY <1>1, <1>2, <1>3, <1>4, <1>5, <1>6, <1>7 DEF Loop

\* A store that leaves the loop alone and the files agreeing agrees.
LEMMA StoreStepAgrees ==
    ASSUME IInv, NEW step \in {"begin", "rename", "remove", "open", "write", "verify"},
           StoreStep(step), FilesAgree'
    PROVE  IInv'
<1>1. LoopTypes'
  BY DEF IInv, LoopTypes, StoreStep, processVars
<1>2. PendingAgrees'
  BY DEF IInv, PendingAgrees, StoreStep, processVars
<1>3. LoopAgrees'
  BY DEF IInv, LoopAgrees, StoreStep, processVars, Done
<1>4. ObservablesAgree'
  BY DEF IInv, ObservablesAgree, StoreStep
<1>. QED  BY <1>1, <1>2, <1>3, <1>4 DEF IInv

\* A file that is replaced by one that agrees.
LEMMA ReplaceAgrees ==
    ASSUME FilesAgree, NEW k \in Kinds, NEW n \in Numbers, NEW s \in Slots,
           NEW c \in Contents, FileAgrees(k, n, c),
           disk' = [disk EXCEPT ![<<k, n, s>>] = c]
    PROVE  FilesAgree'
<1>1. <<k, n, s>> \in Files
  BY DEF Files
<1>2. disk' \in [Files -> Contents]
  BY <1>1 DEF FilesAgree
<1>3. ASSUME NEW k2 \in Kinds, NEW n2 \in Numbers, NEW s2 \in Slots
      PROVE  FileAgrees(k2, n2, disk'[<<k2, n2, s2>>])
  <2>1. <<k2, n2, s2>> \in Files
    BY DEF Files
  <2>2. CASE <<k2, n2, s2>> = <<k, n, s>>
    <3>1. k2 = k /\ n2 = n /\ disk'[<<k2, n2, s2>>] = c
      BY <1>1, <2>2 DEF FilesAgree
    <3>. QED  BY <3>1
  <2>3. CASE <<k2, n2, s2>> # <<k, n, s>>
    <3>1. disk'[<<k2, n2, s2>>] = disk[<<k2, n2, s2>>]
      BY <1>1, <2>1, <2>3 DEF FilesAgree
    <3>. QED  BY <3>1 DEF FilesAgree
  <2>. QED  BY <2>2, <2>3
<1>4. \A k2 \in Kinds, n2 \in Numbers, s2 \in Slots :
        FileAgrees(k2, n2, disk'[<<k2, n2, s2>>])
  BY <1>3
<1>. QED  BY <1>2, <1>4 DEF FilesAgree, FileAgrees

\* An absent or a torn file agrees with every kind and number.
LEMMA NothingAgrees ==
    ASSUME NEW k \in Kinds, NEW n \in Numbers
    PROVE  /\ Absent \in Contents /\ FileAgrees(k, n, Absent)
           /\ Torn \in Contents /\ FileAgrees(k, n, Torn)
BY ChainEmpty, GenerationAssumption
DEF GenerationAssumption, FileAgrees, Absent, Torn, Content, Contents, Positions

\* A file and its copies may hold the same.
LEMMA CopyAgrees ==
    ASSUME FilesAgree, NEW k \in Kinds, NEW n \in Numbers, NEW s \in Slots
    PROVE  disk[<<k, n, s>>] \in Contents /\ FileAgrees(k, n, disk[<<k, n, s>>])
BY DEF FilesAgree, Files

\* What a store writes is what its name promises.
LEMMA SnapshotAgrees ==
    ASSUME IInv, pc = "save", NEW k \in Kinds, NEW n \in {SAVE, iteration + 1}
    PROVE  Snapshot(k) \in Contents /\ FileAgrees(k, n, Snapshot(k))
<1>1. iteration + 1 \in 0 .. MaxTrajectory
  BY StoreNumbers
<1>2. /\ chain = UninterruptedChain(iteration + 1)
      /\ stream = StreamAfter(iteration + 1)
  BY DEF IInv, LoopAgrees, Done
<1>3. stream \in Nat
  BY <1>1, <1>2, StreamIsNat
<1>4. chain \in Seq(Positions)
  <2>1. chain \in Seq(Nat)
    BY <1>1, <1>2, ChainIsSequence
  <2>. QED  BY <2>1 DEF Positions
<1>5. CASE k = "conf"
  BY <1>1, <1>2, <1>4, <1>5 DEF Snapshot, Content, Contents, FileAgrees, Positions
<1>6. CASE k # "conf"
  BY <1>2, <1>3, <1>6, GenerationAssumption
  DEF GenerationAssumption, Snapshot, Content, Contents, FileAgrees, Positions
<1>. QED  BY <1>5, <1>6

\* A file that is renamed to another copy of the same kind and number.
LEMMA MoveAgrees ==
    ASSUME FilesAgree, NEW k \in Kinds, NEW n \in Numbers,
           NEW from \in Slots, NEW to \in Slots, from # to,
           disk' = [disk EXCEPT ![<<k, n, to>>] = disk[<<k, n, from>>],
                                ![<<k, n, from>>] = Absent]
    PROVE  FilesAgree'
<1>1. \A k2 \in Kinds, n2 \in Numbers, s2 \in Slots : <<k2, n2, s2>> \in Files
  BY DEF Files
<1>2. /\ disk[<<k, n, from>>] \in Contents
      /\ FileAgrees(k, n, disk[<<k, n, from>>])
  BY CopyAgrees
<1>3. Absent \in Contents /\ FileAgrees(k, n, Absent)
  BY NothingAgrees
<1>4. disk' \in [Files -> Contents]
  BY <1>1, <1>2, <1>3 DEF FilesAgree
<1>5. ASSUME NEW k2 \in Kinds, NEW n2 \in Numbers, NEW s2 \in Slots
      PROVE  FileAgrees(k2, n2, disk'[<<k2, n2, s2>>])
  <2>1. CASE <<k2, n2, s2>> = <<k, n, from>>
    <3>1. k2 = k /\ n2 = n /\ disk'[<<k2, n2, s2>>] = Absent
      BY <1>1, <2>1 DEF FilesAgree
    <3>. QED  BY <1>3, <3>1
  <2>2. CASE <<k2, n2, s2>> = <<k, n, to>>
    <3>1. k2 = k /\ n2 = n /\ disk'[<<k2, n2, s2>>] = disk[<<k, n, from>>]
      BY <1>1, <2>2 DEF FilesAgree
    <3>. QED  BY <1>2, <3>1
  <2>3. CASE <<k2, n2, s2>> # <<k, n, from>> /\ <<k2, n2, s2>> # <<k, n, to>>
    <3>1. disk'[<<k2, n2, s2>>] = disk[<<k2, n2, s2>>]
      BY <1>1, <2>3 DEF FilesAgree
    <3>. QED  BY <3>1 DEF FilesAgree
  <2>. QED  BY <2>1, <2>2, <2>3
<1>6. \A k2 \in Kinds, n2 \in Numbers, s2 \in Slots :
        FileAgrees(k2, n2, disk'[<<k2, n2, s2>>])
  BY <1>5
<1>. QED  BY <1>4, <1>6 DEF FilesAgree, FileAgrees

\* The store at the head of the queue is one of this iteration.
LEMMA HeadAgrees ==
    ASSUME IInv, pc = "save", pending # <<>>
    PROVE  /\ Kind \in Kinds /\ Number \in {SAVE, iteration + 1} /\ Number \in Numbers
           /\ Tail(pending) \in Seq(Kinds \X {SAVE, iteration + 1})
           /\ Tail(pending) \in Seq(Kinds \X Numbers)
<1>1. pending \in Seq(Kinds \X {SAVE, iteration + 1})
  BY DEF IInv, PendingAgrees
<1>2. Head(pending) \in Kinds \X {SAVE, iteration + 1}
  BY <1>1
<1>3. Tail(pending) \in Seq(Kinds \X {SAVE, iteration + 1})
  BY <1>1
<1>4. {SAVE, iteration + 1} \subseteq Numbers
  BY StoreNumbers
<1>. QED  BY <1>2, <1>3, <1>4 DEF Kind, Number

\* Writing a checkpoint leaves agreeing files, whatever step it has reached.
LEMMA StoreAgrees ==
    ASSUME IInv, Store
    PROVE  IInv'
<1> USE GenerationAssumption DEF GenerationAssumption
<1>a. /\ {"file", "backup", "backup_tmp"} = Slots
      /\ \A step : InStore(step) => pc = "save" /\ pending # <<>>
  BY DEF Slots, InStore
<1>1. CASE SetAsideBackup
  <2>1. FilesAgree'
    <3>1. CASE Exists(Kind, Number, "backup")
      BY <1>a, <1>1, <3>1, HeadAgrees, MoveAgrees DEF SetAsideBackup, At, IInv
    <3>2. CASE ~Exists(Kind, Number, "backup")
      BY <1>1, <3>2, FilesUnchanged DEF SetAsideBackup, IInv
    <3>. QED  BY <3>1, <3>2
  <2>. QED  BY <1>1, <2>1, StoreStepAgrees DEF SetAsideBackup
<1>2. CASE NothingToBackUp
  BY <1>2, FilesUnchanged, StoreStepAgrees DEF NothingToBackUp, IInv
<1>3. CASE RenameToBackup
  <2>1. FilesAgree'
    BY <1>a, <1>3, HeadAgrees, MoveAgrees DEF RenameToBackup, At, IInv
  <2>. QED  BY <1>3, <2>1, StoreStepAgrees DEF RenameToBackup
<1>4. CASE RemoveOldBackup
  <2>1. FilesAgree'
    BY <1>a, <1>4, HeadAgrees, ReplaceAgrees, NothingAgrees
    DEF RemoveOldBackup, At, IInv
  <2>. QED  BY <1>4, <2>1, StoreStepAgrees DEF RemoveOldBackup
<1>5. CASE OpenFile
  <2>1. FilesAgree'
    BY <1>a, <1>5, HeadAgrees, ReplaceAgrees, NothingAgrees DEF OpenFile, At, IInv
  <2>. QED  BY <1>5, <2>1, StoreStepAgrees DEF OpenFile
<1>6. CASE WriteFile
  <2>1. FilesAgree'
    BY <1>a, <1>6, HeadAgrees, ReplaceAgrees, SnapshotAgrees DEF WriteFile, At, IInv
  <2>. QED  BY <1>6, <2>1, StoreStepAgrees DEF WriteFile
<1>7. CASE WriteFails
  <2>1. LoopTypes'
    BY <1>7 DEF WriteFails, processVars, IInv, LoopTypes
  <2>2. PendingAgrees' /\ ObservablesAgree'
    BY <1>7 DEF WriteFails, processVars, IInv, PendingAgrees, ObservablesAgree
  <2>3. LoopAgrees'
    BY <1>7 DEF WriteFails, processVars, IInv, LoopAgrees, Done
  <2>. QED  BY <1>7, <2>1, <2>2, <2>3, FilesUnchanged DEF WriteFails, IInv
<1>8. CASE VerifyWritingWasSuccessful
  <2>1. LoopTypes' /\ ObservablesAgree'
    BY <1>8 DEF VerifyWritingWasSuccessful, processVars, IInv, LoopTypes, ObservablesAgree
  <2>2. PendingAgrees'
    BY <1>a, <1>8, HeadAgrees DEF VerifyWritingWasSuccessful, processVars, PendingAgrees
  <2>3. LoopAgrees'
    BY <1>8 DEF VerifyWritingWasSuccessful, processVars, IInv, LoopAgrees, Done
  <2>. QED
    BY <1>8, <2>1, <2>2, <2>3, FilesUnchanged DEF VerifyWritingWasSuccessful, IInv
<1>9. CASE WritingNotSuccessful
  <2>1. LoopTypes' /\ PendingAgrees' /\ ObservablesAgree'
    BY <1>9
    DEF WritingNotSuccessful, processVars, IInv, LoopTypes, PendingAgrees, ObservablesAgree
  <2>2. LoopAgrees'
    BY <1>9 DEF WritingNotSuccessful, processVars, IInv, LoopAgrees
  <2>. QED  BY <1>9, <2>1, <2>2, FilesUnchanged DEF WritingNotSuccessful, IInv
<1>. QED
  BY <1>1, <1>2, <1>3, <1>4, <1>5, <1>6, <1>7, <1>8, <1>9 DEF Store

\* A crash leaves the disk as it is.
LEMMA CrashAgrees ==
    ASSUME IInv, Crash
    PROVE  IInv'
<1> USE GenerationAssumption DEF GenerationAssumption
<1>1. LoopTypes' /\ PendingAgrees' /\ ObservablesAgree'
  BY DEF Crash, processVars, IInv, LoopTypes, PendingAgrees, ObservablesAgree
<1>2. LoopAgrees'
  BY DEF Crash, processVars, IInv, LoopAgrees
<1>. QED  BY <1>1, <1>2, FilesUnchanged DEF Crash, IInv

\* Nothing changes where nothing happens.
LEMMA StutterAgrees ==
    ASSUME IInv, UNCHANGED vars
    PROVE  IInv'
<1>1. LoopTypes' /\ PendingAgrees' /\ ObservablesAgree'
  BY DEF vars, IInv, LoopTypes, PendingAgrees, ObservablesAgree
<1>2. LoopAgrees'
  BY DEF vars, IInv, LoopAgrees, Done
<1>. QED  BY <1>1, <1>2, FilesUnchanged DEF vars, IInv

\* The inductive invariant holds in every behaviour.
THEOREM InductiveInvariant ==
    ASSUME Numbered
    PROVE  Spec => []IInv
<1>1. GenerationInit => IInv
  BY InitEstablishes
<1>2. IInv /\ [Next]_vars => IInv'
  BY StartAgrees, LoopStepAgrees, StoreAgrees, CrashAgrees, StutterAgrees DEF Next
<1>. QED  BY <1>1, <1>2, PTL DEF Spec

------------------------------------------------------------------------------
(* What the runs check, for every value of the constants *)

\* Every variable keeps its type and the loop its bounds
\* (generationExecutable.cpp, thermalize and generate).
THEOREM TypeCorrect ==
    ASSUME Numbered
    PROVE  Spec => []TypeOK
<1>1. IInv => TypeOK
  <2> SUFFICES ASSUME IInv PROVE TypeOK
    OBVIOUS
  <2>1. chain \in Seq(Positions)
    <3> PICK n \in 0 .. MaxTrajectory : chain = UninterruptedChain(n)
      BY DEF IInv, LoopAgrees
    <3>1. chain \in Seq(Nat)
      BY ChainIsSequence, GenerationAssumption DEF GenerationAssumption
    <3>. QED  BY <3>1 DEF Positions
  <2>2. observables \subseteq [iteration : Nat, chain : Seq(Positions)]
    <3> SUFFICES ASSUME NEW o \in observables
                 PROVE  o \in [iteration : Nat, chain : Seq(Positions)]
      OBVIOUS
    <3>1. /\ o.iteration \in Nat
          /\ o = [iteration |-> o.iteration,
                  chain |-> UninterruptedChain(o.iteration + 1)]
      BY GenerationAssumption DEF GenerationAssumption, IInv, ObservablesAgree
    <3>2. UninterruptedChain(o.iteration + 1) \in Seq(Nat)
      BY <3>1, ChainIsSequence
    <3>3. UninterruptedChain(o.iteration + 1) \in Seq(Positions)
      BY <3>2 DEF Positions
    <3>. QED  BY <3>1, <3>3
  <2>. QED
    BY <2>1, <2>2
    DEF TypeOK, IInv, LoopTypes, PendingAgrees, LoopAgrees, FilesAgree
<1>. QED  BY <1>1, InductiveInvariant, PTL

\* A chain of that form is the uninterrupted one.
LEMMA UninterruptedForm ==
    ASSUME NEW n \in Nat
    PROVE  Uninterrupted(UninterruptedChain(n)) /\ Len(UninterruptedChain(n)) = n
BY ChainIsSequence DEF Uninterrupted

\* However often the program is interrupted and continued from numbered
\* checkpoints, what it computes, saves and measures is the chain of one run.
THEOREM ChainIsNeverInterrupted ==
    ASSUME Numbered
    PROVE  Spec => []ChainUninterrupted
<1>1. IInv => ChainUninterrupted
  <2> USE GenerationAssumption DEF GenerationAssumption
  <2> SUFFICES ASSUME IInv PROVE ChainUninterrupted
    OBVIOUS
  <2>1. Uninterrupted(chain)
    BY UninterruptedForm DEF IInv, LoopAgrees
  <2>2. ASSUME NEW f \in Files PROVE Uninterrupted(disk[f].chain)
    <3> PICK k \in Kinds, n \in Numbers, s \in Slots : f = <<k, n, s>>
      BY DEF Files
    <3>1. FileAgrees(k, n, disk[f]) /\ disk[f].number \in Nat
      BY DEF IInv, FilesAgree, Contents
    <3>2. CASE k = "conf"
      BY <3>1, <3>2, UninterruptedForm DEF FileAgrees
    <3>3. CASE k # "conf"
      BY <3>1, <3>3, ChainEmpty, UninterruptedForm DEF FileAgrees
    <3>. QED  BY <3>2, <3>3
  <2>3. ASSUME NEW o \in observables PROVE Uninterrupted(o.chain)
    <3>1. o.iteration + 1 \in Nat /\ o.chain = UninterruptedChain(o.iteration + 1)
      BY DEF IInv, ObservablesAgree
    <3>. QED  BY <3>1, UninterruptedForm
  <2>. QED  BY <2>1, <2>2, <2>3 DEF ChainUninterrupted
<1>. QED  BY <1>1, InductiveInvariant, PTL

\* The loop's counter and the number in a file are the length of the chain
\* (the "right tr." of generationExecutable.cpp:47).
THEOREM TrajectoryIsAlwaysRight ==
    ASSUME Numbered
    PROVE  Spec => []ContinuesAtRightTrajectory
<1>1. IInv => ContinuesAtRightTrajectory
  <2> USE GenerationAssumption DEF GenerationAssumption
  <2> SUFFICES ASSUME IInv PROVE ContinuesAtRightTrajectory
    OBVIOUS
  <2>1. pc # "down" => Len(chain) = Done
    <3>1. Done \in Nat
      BY DEF IInv, LoopTypes, Done
    <3>. QED  BY <3>1, ChainIsSequence DEF IInv, LoopAgrees
  <2>2. ASSUME NEW n \in Numbers, NEW s \in Slots,
               disk[<<"conf", n, s>>].state = "whole"
        PROVE  /\ disk[<<"conf", n, s>>].number = Len(disk[<<"conf", n, s>>].chain)
               /\ n # SAVE => disk[<<"conf", n, s>>].number = n
    <3> DEFINE c == disk[<<"conf", n, s>>]
    <3>1. FileAgrees("conf", n, c) /\ c.number \in Nat
      <4>1. "conf" \in Kinds /\ <<"conf", n, s>> \in Files
        BY DEF Kinds, Files
      <4>. QED  BY <4>1 DEF IInv, FilesAgree, Contents
    <3>. QED  BY <2>2, <3>1, UninterruptedForm DEF FileAgrees
  <2>. QED  BY <2>1, <2>2 DEF ContinuesAtRightTrajectory, Done
<1>. QED  BY <1>1, InductiveInvariant, PTL

------------------------------------------------------------------------------
(* The executables implement the interruptible chain *)

\* A store works on the files of its own name only.
LEMMA StoreTouchesItsName ==
    ASSUME IInv, Store, NEW n \in Numbers, n \notin {SAVE, iteration + 1},
           NEW k \in Kinds
    PROVE  disk'[<<k, n, "file">>] = disk[<<k, n, "file">>]
<1>0. <<k, n, "file">> \in Files /\ disk \in [Files -> Contents]
  BY DEF Files, Slots, IInv, FilesAgree
<1>1. CASE UNCHANGED disk
  BY <1>1
<1>2. CASE ~UNCHANGED disk
  <2>1. pc = "save" /\ pending # <<>>
    BY <1>2 DEF Store, InStore, SetAsideBackup, NothingToBackUp, RenameToBackup,
                RemoveOldBackup, OpenFile, WriteFile, WriteFails,
                VerifyWritingWasSuccessful, WritingNotSuccessful
  <2>2. n # Number
    BY <2>1, HeadAgrees
  <2>3. \A s \in Slots : At(s) # <<k, n, "file">>
    BY <2>2 DEF At
  <2>4. "file" \in Slots /\ "backup" \in Slots /\ "backup_tmp" \in Slots
    BY DEF Slots
  <2>. QED
    BY <1>0, <1>2, <2>3, <2>4
    DEF Store, SetAsideBackup, NothingToBackUp, RenameToBackup, RemoveOldBackup,
        OpenFile, WriteFile, WriteFails, VerifyWritingWasSuccessful,
        WritingNotSuccessful
<1>. QED  BY <1>1, <1>2

\* A numbered pair a restart may take is a checkpoint of the chain.
LEMMA WholePairIsCheckpoint ==
    ASSUME IInv, Numbered, NEW n \in 1 .. MaxTrajectory,
           IsWhole("conf", n, "file"), ReadablePrng(n, "file")
    PROVE  /\ n \in Checkpoints
           /\ disk[<<"conf", n, "file">>].chain = UninterruptedChain(n)
<1> USE GenerationAssumption DEF GenerationAssumption
<1>1. /\ n \in Numbers /\ n # SAVE /\ "conf" \in Kinds /\ "prng" \in Kinds
      /\ "file" \in Slots
  BY DEF Numbers, SAVE, Kinds, Slots
<1>2. /\ FileAgrees("conf", n, disk[<<"conf", n, "file">>])
      /\ FileAgrees("prng", n, disk[<<"prng", n, "file">>])
      /\ disk[<<"conf", n, "file">>] \in Contents
      /\ disk[<<"prng", n, "file">>] \in Contents
  BY <1>1, CopyAgrees DEF IInv
<1>3. disk[<<"conf", n, "file">>].state = "whole"
  BY DEF IsWhole
<1>4. disk[<<"prng", n, "file">>].state = "whole"
  BY DEF Numbered, ReadablePrng, IsWhole
<1>5. disk[<<"conf", n, "file">>] = Content("whole", n, UninterruptedChain(n), 0)
  BY <1>1, <1>2, <1>3 DEF FileAgrees, Content, Contents
<1>6. disk[<<"prng", n, "file">>] = Content("whole", 0, <<>>, StreamAfter(n))
  BY <1>1, <1>2, <1>4 DEF FileAgrees, Content, Contents
<1>7. disk[<<"conf", n, "file">>].chain = UninterruptedChain(n)
  BY <1>5 DEF Content
<1>. QED  BY <1>5, <1>6, <1>7 DEF Checkpoints

\* Every step of the executables is a step of the chain, or none.
LEMMA StepImplements ==
    ASSUME IInv, Numbered, [Next]_vars
    PROVE  [Promise!MCNext]_<<Position, Checkpoints>>
<1> USE GenerationAssumption DEF GenerationAssumption
<1> USE DEF Promise!MCNext
<1>0. UNCHANGED disk => UNCHANGED Checkpoints
  BY DEF Checkpoints
<1>1. CASE StartFresh
  <2>1. Position' = 0
    BY <1>1 DEF StartFresh, Boot, Position
  <2>. QED  BY <1>0, <1>1, <2>1 DEF StartFresh, Boot, Promise!Resume
<1>2. CASE StartFromNumbered
  <2> PICK n \in 1 .. MaxTrajectory :
        /\ IsWhole("conf", n, "file") /\ ReadablePrng(n, "file")
        /\ Boot(disk[<<"conf", n, "file">>].number, disk[<<"conf", n, "file">>].chain,
                ReadPrng(disk[<<"prng", n, "file">>]))
    BY <1>2 DEF StartFromNumbered
  <2>1. chain' = UninterruptedChain(n) /\ n \in Checkpoints
    BY WholePairIsCheckpoint DEF Boot
  <2>2. Position' = n
    BY <2>1, ChainIsSequence DEF Position
  <2>. QED  BY <1>0, <2>1, <2>2 DEF Boot, Promise!Resume
<1>3. CASE StartFromSave
  BY <1>3 DEF StartFromSave, Numbered
<1>4. CASE Thermalize \/ Generate
  <2>1. PICK n \in 0 .. MaxTrajectory : chain = UninterruptedChain(n)
    BY DEF IInv, LoopAgrees
  <2>2. chain \in Seq(Nat) /\ Len(chain) = n
    BY <2>1, ChainIsSequence
  <2>3. chain' = Append(chain, stream)
    BY <1>4 DEF Thermalize, Generate, NextConfiguration
  <2>4. stream \in Int
    BY DEF IInv, LoopAgrees, Positions, Garbage
  <2>5. Position' = Position + 1
    <3>1. chain \in Seq(Int)
      BY <2>2
    <3>. QED  BY <2>3, <2>4, <3>1 DEF Position
  <2>. QED  BY <1>0, <1>4, <2>5 DEF Thermalize, Generate, Promise!Advance
<1>5. CASE \/ ThermalizationNotImplemented \/ ThermalizationDone
           \/ PerformOnlineMeasurements \/ NextIteration \/ Finish \/ Crash
           \/ UNCHANGED vars
  <2>1. UNCHANGED disk /\ UNCHANGED chain
    BY <1>5
    DEF ThermalizationNotImplemented, ThermalizationDone, PerformOnlineMeasurements,
        NextIteration, Finish, Crash, vars
  <2>. QED  BY <1>0, <2>1 DEF Position
<1>6. CASE Store
  <2>1. pc = "save" /\ UNCHANGED chain
    BY <1>6 DEF Store, InStore, StoreStep, SetAsideBackup, NothingToBackUp,
                RenameToBackup, RemoveOldBackup, OpenFile, WriteFile, WriteFails,
                VerifyWritingWasSuccessful, WritingNotSuccessful
  <2>2. Position = iteration + 1 /\ Position' = Position
    <3>1. iteration + 1 \in Nat /\ chain = UninterruptedChain(iteration + 1)
      BY <2>1 DEF IInv, LoopTypes, LoopAgrees, Done
    <3>. QED  BY <2>1, <3>1, ChainIsSequence DEF Position
  <2>3. ASSUME NEW n \in 1 .. MaxTrajectory, n # Position
        PROVE  n \in Checkpoints' <=> n \in Checkpoints
    <3>1. n \in Numbers /\ n \notin {SAVE, iteration + 1}
      BY <2>2, <2>3 DEF Numbers, SAVE
    <3>2. /\ disk'[<<"conf", n, "file">>] = disk[<<"conf", n, "file">>]
          /\ disk'[<<"prng", n, "file">>] = disk[<<"prng", n, "file">>]
      BY <1>6, <3>1, StoreTouchesItsName DEF Kinds
    <3>. QED  BY <3>2 DEF Checkpoints
  <2>4. Checkpoints \subseteq 1 .. MaxTrajectory /\ Checkpoints' \subseteq 1 .. MaxTrajectory
    BY DEF Checkpoints
  <2>5. CASE Position \in Checkpoints'
    <3>1. Checkpoints' = Checkpoints \cup {Position}
      BY <2>3, <2>4, <2>5
    <3>. QED  BY <2>2, <3>1 DEF Promise!Commit
  <2>6. CASE Position \notin Checkpoints'
    <3>1. Checkpoints' = Checkpoints \ {Position}
      BY <2>3, <2>4, <2>6
    <3>. QED  BY <2>2, <3>1 DEF Promise!Rewrite
  <2>. QED  BY <2>5, <2>6
<1>. QED
  BY <1>1, <1>2, <1>3, <1>4, <1>5, <1>6 DEF Next, Start, Loop

\* A restart finds its position among the checkpoints, and a store spoils no
\* checkpoint but the one of the present trajectory.
THEOREM RunImplementsMarkovChain ==
    ASSUME Numbered
    PROVE  Spec => ImplementsMarkovChain
<1>1. GenerationInit => Promise!MCInit
  <2> SUFFICES ASSUME GenerationInit PROVE Promise!MCInit
    OBVIOUS
  <2>1. Position = 0
    BY DEF GenerationInit, Position
  <2>2. Checkpoints = {}
    <3> SUFFICES ASSUME NEW n \in Checkpoints PROVE FALSE
      OBVIOUS
    <3>1. <<"conf", n, "file">> \in Files
      BY DEF Checkpoints, Files, Kinds, Numbers, Slots
    <3>2. disk[<<"conf", n, "file">>] = Absent
      BY <3>1 DEF GenerationInit
    <3>. QED  BY <3>2 DEF Checkpoints, Absent, Content
  <2>. QED  BY <2>1, <2>2 DEF Promise!MCInit
<1>2. IInv /\ [Next]_vars => [Promise!MCNext]_(Promise!mcVars)
  BY StepImplements DEF Promise!mcVars
<1>. QED
  BY <1>1, <1>2, InductiveInvariant, PTL DEF Spec, ImplementsMarkovChain, Promise!MCSpec

------------------------------------------------------------------------------
(* The steps of a store *)

\* What the file at hand and its copies hold at each step of a store.
StoreInv ==
    pc = "save" /\ pending # <<>> =>
        /\ phase = "rename" => disk[At("backup")] = Absent /\ disk[At("file")] # Absent
        /\ phase = "remove" => disk[At("file")] = Absent /\ disk[At("backup")] # Absent
        /\ phase = "open" => disk[At("file")] = Absent
        /\ phase = "write" => disk[At("file")] = Torn
        /\ phase = "verify" => disk[At("file")] \in {Torn, Snapshot(Kind)}

\* What the steps of a store rely on, whatever files a restart uses.
StoreTypes ==
    /\ disk \in [Files -> Contents]
    /\ \A f \in Files : disk[f].state # "whole" => disk[f] \in {Absent, Torn}
    /\ pending \in Seq(Kinds \X Numbers)

\* The invariant of the numbered runs says so.
LEMMA StoreTypesHold == IInv => StoreTypes
<1> SUFFICES ASSUME IInv PROVE StoreTypes
  OBVIOUS
<1>1. ASSUME NEW f \in Files, disk[f].state # "whole"
      PROVE  disk[f] \in {Absent, Torn}
  <2> PICK k \in Kinds, n \in Numbers, s \in Slots : f = <<k, n, s>>
    BY DEF Files
  <2>. QED  BY <1>1 DEF IInv, FilesAgree, FileAgrees
<1>. QED  BY <1>1 DEF StoreTypes, IInv, FilesAgree, PendingAgrees

\* The file at hand is on the disk of the model.
LEMMA HeadIsFile ==
    ASSUME StoreTypes, pending # <<>>
    PROVE  /\ disk \in [Files -> Contents]
           /\ At("file") \in Files /\ At("backup") \in Files /\ At("backup_tmp") \in Files
           /\ At("file") # At("backup") /\ At("file") # At("backup_tmp")
           /\ At("backup") # At("backup_tmp")
<1>1. Head(pending) \in Kinds \X Numbers
  BY DEF StoreTypes
<1>. QED  BY <1>1 DEF Kind, Number, At, Files, Slots, StoreTypes

\* Steps within a store stay at the file at hand.
LEMMA StoreStepKeepsHead ==
    ASSUME NEW step, StoreStep(step)
    PROVE  /\ Kind' = Kind /\ Snapshot(Kind)' = Snapshot(Kind)
           /\ At("file")' = At("file") /\ At("backup")' = At("backup")
           /\ pc' = pc /\ pending' = pending /\ phase' = step
BY DEF StoreStep, processVars, Kind, Number, At, Snapshot

\* Each step leaves the file at hand as the next step of the store expects it.
LEMMA StoreInvStep ==
    ASSUME StoreTypes, StoreInv, [Next]_vars
    PROVE  StoreInv'
<1>a. \A step : InStore(step) => pc = "save" /\ pending # <<>> /\ phase = step
  BY DEF InStore
<1>b. Absent # Torn
  BY DEF Absent, Torn, Content
<1>1. CASE SetAsideBackup
  <2>1. disk'[At("backup")] = Absent /\ disk'[At("file")] # Absent
    <3>0. disk[At("file")] # Absent
      BY <1>1 DEF SetAsideBackup, Exists, At
    <3>1. CASE Exists(Kind, Number, "backup")
      BY <1>a, <1>1, <3>0, <3>1, HeadIsFile DEF SetAsideBackup
    <3>2. CASE ~Exists(Kind, Number, "backup")
      BY <1>1, <3>0, <3>2 DEF SetAsideBackup, Exists, At
    <3>. QED  BY <3>1, <3>2
  <2>2. /\ At("file")' = At("file") /\ At("backup")' = At("backup") /\ phase' = "rename"
    BY <1>1, StoreStepKeepsHead DEF SetAsideBackup
  <2>. QED  BY <2>1, <2>2 DEF StoreInv
<1>2. CASE NothingToBackUp
  <2>1. disk'[At("file")] = Absent
    BY <1>2 DEF NothingToBackUp, Exists, At
  <2>. QED  BY <1>2, <2>1, StoreStepKeepsHead DEF NothingToBackUp, StoreInv
<1>3. CASE RenameToBackup
  <2>1. disk'[At("file")] = Absent /\ disk'[At("backup")] # Absent
    BY <1>a, <1>3, HeadIsFile DEF RenameToBackup, StoreInv
  <2>2. /\ At("file")' = At("file") /\ At("backup")' = At("backup") /\ phase' = "remove"
    BY <1>3, StoreStepKeepsHead DEF RenameToBackup
  <2>. QED  BY <2>1, <2>2 DEF StoreInv
<1>4. CASE RemoveOldBackup
  <2>1. disk'[At("file")] = Absent
    BY <1>a, <1>4, HeadIsFile DEF RemoveOldBackup, StoreInv
  <2>. QED  BY <1>4, <2>1, StoreStepKeepsHead DEF RemoveOldBackup, StoreInv
<1>5. CASE OpenFile
  <2>1. disk'[At("file")] = Torn
    BY <1>a, <1>5, HeadIsFile DEF OpenFile
  <2>. QED  BY <1>5, <2>1, StoreStepKeepsHead DEF OpenFile, StoreInv
<1>6. CASE WriteFile
  <2>1. disk'[At("file")] = Snapshot(Kind)
    BY <1>a, <1>6, HeadIsFile DEF WriteFile
  <2>. QED  BY <1>6, <2>1, StoreStepKeepsHead DEF WriteFile, StoreInv
<1>7. CASE WriteFails
  BY <1>7 DEF WriteFails, processVars, InStore, StoreInv, Kind, Number, At, Snapshot
<1>8. CASE VerifyWritingWasSuccessful \/ PerformOnlineMeasurements
  BY <1>8 DEF VerifyWritingWasSuccessful, PerformOnlineMeasurements, StoreInv
<1>9. CASE WritingNotSuccessful \/ Crash \/ Start \/ Thermalize
           \/ ThermalizationNotImplemented \/ ThermalizationDone \/ Generate
           \/ NextIteration \/ Finish
  <2>1. pc' # "save"
    BY <1>9
    DEF WritingNotSuccessful, Crash, Start, StartFresh, StartFromNumbered, StartFromSave,
        Boot, Thermalize, ThermalizationNotImplemented, ThermalizationDone, Generate,
        NextIteration, Finish
  <2>. QED  BY <2>1 DEF StoreInv
<1>10. CASE UNCHANGED vars
  BY <1>10 DEF vars, StoreInv, Kind, Number, At, Snapshot
<1>. QED
  BY <1>1, <1>2, <1>3, <1>4, <1>5, <1>6, <1>7, <1>8, <1>9, <1>10 DEF Next, Loop, Store

\* The stores of PRNG::store and LimeFileWriter keep to their order.
LEMMA StoreInvariant ==
    ASSUME Numbered
    PROVE  Spec => []StoreInv
<1>1. GenerationInit => StoreInv
  BY DEF GenerationInit, StoreInv
<1>2. IInv /\ StoreInv /\ [Next]_vars => StoreInv'
  BY StoreTypesHold, StoreInvStep
<1>. QED  BY <1>1, <1>2, InductiveInvariant, PTL DEF Spec

\* A copy that is neither whole nor missing is torn.
LEMMA NotWhole ==
    ASSUME StoreTypes, NEW k \in Kinds, NEW n \in Numbers, NEW s \in Slots,
           ~IsWhole(k, n, s)
    PROVE  disk[<<k, n, s>>] \in {Absent, Torn}
BY DEF StoreTypes, Files, IsWhole

\* No step loses the last whole copy of a checkpoint, except where a torn file
\* had been moved over the backup (PRNG::store, LimeFileWriter).
LEMMA StepKeepsLastCopy ==
    ASSUME StoreTypes, StoreInv, [Next]_vars, NEW k \in Kinds, NEW n \in Numbers,
           HasCopy(k, n), ~HasCopy(k, n)'
    PROVE  disk[<<k, n, "backup">>] = Torn
<1>0. /\ disk \in [Files -> Contents]
      /\ Slots = {"file", "backup", "backup_tmp"}
      /\ \A s \in Slots : <<k, n, s>> \in Files
      /\ ~IsWhole(k, n, "file")' /\ ~IsWhole(k, n, "backup")'
      /\ ~IsWhole(k, n, "backup_tmp")'
  BY DEF Slots, Files, StoreTypes, HasCopy
<1>1. PICK s \in Slots : IsWhole(k, n, s)
  BY DEF HasCopy
<1>2. disk # disk'
  BY <1>0, <1>1 DEF IsWhole
<1>3. SetAsideBackup \/ RenameToBackup \/ RemoveOldBackup \/ OpenFile \/ WriteFile
  BY <1>2
  DEF Next, Start, StartFresh, StartFromNumbered, StartFromSave, Boot, Loop, Thermalize,
      ThermalizationNotImplemented, ThermalizationDone, Generate,
      PerformOnlineMeasurements, NextIteration, Finish, Store, NothingToBackUp, WriteFails,
      VerifyWritingWasSuccessful, WritingNotSuccessful, Crash, vars
<1>4. pc = "save" /\ pending # <<>>
  BY <1>3 DEF InStore, SetAsideBackup, RenameToBackup, RemoveOldBackup, OpenFile, WriteFile
<1>5. CASE <<k, n>> # <<Kind, Number>>
  <2>1. \A t \in Slots : At("file") # <<k, n, t>> /\ At("backup") # <<k, n, t>>
                         /\ At("backup_tmp") # <<k, n, t>>
    BY <1>5 DEF At
  <2>2. disk'[<<k, n, s>>] = disk[<<k, n, s>>]
    BY <1>0, <1>3, <2>1
    DEF SetAsideBackup, RenameToBackup, RemoveOldBackup, OpenFile, WriteFile
  <2>3. IsWhole(k, n, s)'
    BY <1>1, <2>2 DEF IsWhole
  <2>. QED  BY <2>3 DEF HasCopy
<1>6. CASE <<k, n>> = <<Kind, Number>>
  <2>0. /\ At("file") = <<k, n, "file">> /\ At("backup") = <<k, n, "backup">>
        /\ At("backup_tmp") = <<k, n, "backup_tmp">>
        /\ k = Kind /\ n = Number
    BY <1>6 DEF At
  <2>1. CASE SetAsideBackup
    <3>1. Exists(k, n, "backup")
      BY <1>2, <2>0, <2>1 DEF SetAsideBackup
    <3>2. disk'[<<k, n, "backup_tmp">>] = disk[<<k, n, "backup">>]
      BY <1>0, <2>0, <2>1, <3>1 DEF SetAsideBackup
    <3>3. ~IsWhole(k, n, "backup")
      BY <1>0, <3>2 DEF IsWhole
    <3>. QED  BY <1>0, <3>1, <3>3, NotWhole DEF Exists
  <2>2. CASE RenameToBackup
    <3>1. /\ disk'[<<k, n, "backup">>] = disk[<<k, n, "file">>]
          /\ disk'[<<k, n, "backup_tmp">>] = disk[<<k, n, "backup_tmp">>]
      BY <1>0, <2>0, <2>2 DEF RenameToBackup
    <3>2. ~IsWhole(k, n, "file") /\ ~IsWhole(k, n, "backup_tmp")
      BY <1>0, <3>1 DEF IsWhole
    <3>3. disk[<<k, n, "backup">>] = Absent
      BY <1>4, <2>0, <2>2 DEF RenameToBackup, InStore, StoreInv
    <3>4. ~IsWhole(k, n, "backup")
      BY <3>3 DEF IsWhole, Absent, Content
    <3>. QED  BY <1>0, <1>1, <3>2, <3>4
  <2>3. CASE RemoveOldBackup
    <3>1. disk'[<<k, n, "backup">>] = disk[<<k, n, "backup">>]
      BY <1>0, <2>0, <2>3 DEF RemoveOldBackup
    <3>2. ~IsWhole(k, n, "backup")
      BY <1>0, <3>1 DEF IsWhole
    <3>3. disk[<<k, n, "backup">>] # Absent
      BY <1>4, <2>0, <2>3 DEF RemoveOldBackup, InStore, StoreInv
    <3>. QED  BY <1>0, <3>2, <3>3, NotWhole
  <2>4. CASE OpenFile
    <3>1. /\ disk'[<<k, n, "backup">>] = disk[<<k, n, "backup">>]
          /\ disk'[<<k, n, "backup_tmp">>] = disk[<<k, n, "backup_tmp">>]
      BY <1>0, <2>0, <2>4 DEF OpenFile
    <3>2. ~IsWhole(k, n, "backup") /\ ~IsWhole(k, n, "backup_tmp")
      BY <1>0, <3>1 DEF IsWhole
    <3>3. disk[<<k, n, "file">>] = Absent
      BY <1>4, <2>0, <2>4 DEF OpenFile, InStore, StoreInv
    <3>4. ~IsWhole(k, n, "file")
      BY <3>3 DEF IsWhole, Absent, Content
    <3>. QED  BY <1>0, <1>1, <3>2, <3>4
  <2>5. CASE WriteFile
    <3>1. disk'[<<k, n, "file">>] = Snapshot(k)
      BY <1>0, <2>0, <2>5 DEF WriteFile
    <3>2. IsWhole(k, n, "file")'
      BY <3>1 DEF IsWhole, Snapshot, Content
    <3>. QED  BY <1>0, <3>2
  <2>. QED  BY <1>3, <2>1, <2>2, <2>3, <2>4, <2>5
<1>. QED  BY <1>5, <1>6

\* However a store is interrupted, it has not lost the last whole copy of a file,
\* unless an earlier store had left a torn one in its place.
THEOREM LastCopyIsAlwaysKept ==
    ASSUME Numbered
    PROVE  Spec => LastCopyIsKept
<1>1. IInv /\ StoreInv /\ [Next]_vars =>
        [\A k \in Kinds, n \in Numbers :
            (HasCopy(k, n) /\ ~HasCopy(k, n)') => disk[<<k, n, "backup">>] = Torn]_vars
  BY StoreTypesHold, StepKeepsLastCopy
<1>. QED
  BY <1>1, InductiveInvariant, StoreInvariant, PTL DEF Spec, LastCopyIsKept

------------------------------------------------------------------------------
(* What is saved was measured *)

\* The lines an observables file has for the first n trajectories.
MeasuredIn(n, lines) ==
    \A m \in 1 .. n :
        m % WriteFrequency = 0 =>
            [iteration |-> m - 1, chain |-> UninterruptedChain(m)] \in lines

\* The trajectories the running process has passed the measurement of.
Measured == IF pc = "measure" THEN iteration ELSE Done

MeasurementsAgree ==
    /\ pc # "down" => MeasuredIn(Measured, observables)
    /\ \A n \in Numbers, s \in Slots :
          IsWhole("conf", n, s) => MeasuredIn(disk[<<"conf", n, s>>].number, observables)

\* A line once written stays.
LEMMA ObservablesGrow == [Next]_vars => observables \subseteq observables'
BY DEF Next, Start, StartFresh, StartFromNumbered, StartFromSave, Boot, Loop, Thermalize,
       ThermalizationNotImplemented, ThermalizationDone, Generate, Measure,
       PerformOnlineMeasurements, NextIteration, Finish, Store, StoreStep,
       SetAsideBackup, NothingToBackUp, RenameToBackup, RemoveOldBackup, OpenFile,
       WriteFile, WriteFails, VerifyWritingWasSuccessful, WritingNotSuccessful, Crash, vars

\* A whole gauge field file is one that was there, or one of this iteration.
LEMMA WholeFileStep ==
    ASSUME IInv, [Next]_vars, NEW n \in Numbers, NEW s \in Slots,
           IsWhole("conf", n, s)'
    PROVE  \/ \E t \in Slots : /\ IsWhole("conf", n, t)
                              /\ disk'[<<"conf", n, s>>] = disk[<<"conf", n, t>>]
           \/ pc = "save" /\ disk'[<<"conf", n, s>>].number = iteration + 1
<1>0. /\ <<"conf", n, s>> \in Files /\ disk \in [Files -> Contents]
      /\ Slots = {"file", "backup", "backup_tmp"}
      /\ disk'[<<"conf", n, s>>].state = "whole"
  BY DEF Files, Kinds, Slots, IInv, FilesAgree, IsWhole
<1>1. CASE disk'[<<"conf", n, s>>] = disk[<<"conf", n, s>>]
  BY <1>0, <1>1 DEF IsWhole
<1>2. CASE disk'[<<"conf", n, s>>] # disk[<<"conf", n, s>>]
  <2>1. SetAsideBackup \/ RenameToBackup \/ RemoveOldBackup \/ OpenFile \/ WriteFile
    BY <1>2
    DEF Next, Start, StartFresh, StartFromNumbered, StartFromSave, Boot, Loop, Thermalize,
        ThermalizationNotImplemented, ThermalizationDone, Generate,
        PerformOnlineMeasurements, NextIteration, Finish, Store, NothingToBackUp,
        WriteFails, VerifyWritingWasSuccessful, WritingNotSuccessful, Crash, vars
  <2>2. <<"conf", n>> = <<Kind, Number>>
    BY <1>0, <1>2, <2>1
    DEF SetAsideBackup, RenameToBackup, RemoveOldBackup, OpenFile, WriteFile, At
  <2>3. /\ At("file") = <<"conf", n, "file">> /\ At("backup") = <<"conf", n, "backup">>
        /\ At("backup_tmp") = <<"conf", n, "backup_tmp">>
    BY <2>2 DEF At
  <2>4. Absent.state # "whole" /\ Torn.state # "whole"
    BY DEF Absent, Torn, Content
  <2>5. CASE WriteFile
    <3>1. disk'[<<"conf", n, s>>] = Snapshot("conf") /\ pc = "save"
      BY <1>0, <1>2, <2>2, <2>3, <2>5 DEF WriteFile, InStore
    <3>. QED  BY <3>1 DEF Snapshot, Content
  <2>6. CASE SetAsideBackup
    <3>1. disk'[<<"conf", n, s>>] = disk[<<"conf", n, "backup">>]
      BY <1>0, <1>2, <2>3, <2>4, <2>6 DEF SetAsideBackup
    <3>. QED  BY <1>0, <3>1 DEF IsWhole
  <2>7. CASE RenameToBackup
    <3>1. disk'[<<"conf", n, s>>] = disk[<<"conf", n, "file">>]
      BY <1>0, <1>2, <2>3, <2>4, <2>7 DEF RenameToBackup
    <3>. QED  BY <1>0, <3>1 DEF IsWhole
  <2>8. CASE RemoveOldBackup \/ OpenFile
    BY <1>0, <1>2, <2>3, <2>4, <2>8 DEF RemoveOldBackup, OpenFile
  <2>. QED  BY <2>1, <2>5, <2>6, <2>7, <2>8
<1>. QED  BY <1>1, <1>2

\* What was measured stays measured, and one line more makes it one more.
LEMMA MeasuredMore ==
    ASSUME NEW n \in Nat, NEW lines, NEW more, lines \subseteq more, MeasuredIn(n, lines)
    PROVE  /\ MeasuredIn(n, more)
           /\ ((n + 1) % WriteFrequency = 0 =>
                [iteration |-> n, chain |-> UninterruptedChain(n + 1)] \in more)
              => MeasuredIn(n + 1, more)
<1>1. MeasuredIn(n, more)
  BY DEF MeasuredIn
<1>2. ASSUME (n + 1) % WriteFrequency = 0 =>
               [iteration |-> n, chain |-> UninterruptedChain(n + 1)] \in more,
             NEW m \in 1 .. n + 1, m % WriteFrequency = 0
      PROVE  [iteration |-> m - 1, chain |-> UninterruptedChain(m)] \in more
  <2>1. CASE m = n + 1
    <3>1. m - 1 = n
      BY <2>1
    <3>. QED  BY <1>2, <2>1, <3>1
  <2>2. CASE m \in 1 .. n
    BY <1>1, <1>2, <2>2 DEF MeasuredIn
  <2>3. m = n + 1 \/ m \in 1 .. n
    OBVIOUS
  <2>. QED  BY <2>1, <2>2, <2>3
<1>. QED  BY <1>1, <1>2 DEF MeasuredIn

\* The process has measured what it has behind it.
LEMMA MeasuredByProcess ==
    ASSUME IInv, Numbered, MeasurementsAgree, [Next]_vars, pc' # "down"
    PROVE  MeasuredIn(Measured', observables')
<1> USE GenerationAssumption DEF GenerationAssumption
<1>1. observables \subseteq observables'
  BY ObservablesGrow
<1>2. iteration \in Nat
  BY DEF IInv, LoopTypes
<1>3. CASE StartFresh
  <2>1. Measured' = 0
    BY <1>3 DEF StartFresh, Boot, SetIterationParameters, Measured, Done
  <2>. QED  BY <2>1 DEF MeasuredIn
<1>4. CASE StartFromNumbered
  <2> PICK n \in 1 .. MaxTrajectory :
        /\ IsWhole("conf", n, "file")
        /\ Boot(disk[<<"conf", n, "file">>].number, disk[<<"conf", n, "file">>].chain,
                ReadPrng(disk[<<"prng", n, "file">>]))
    BY <1>4 DEF StartFromNumbered
  <2>1. n \in Numbers /\ "file" \in Slots
    BY DEF Numbers, Slots
  <2>2. MeasuredIn(disk[<<"conf", n, "file">>].number, observables)
    BY <2>1 DEF MeasurementsAgree
  <2>3. Measured' = disk[<<"conf", n, "file">>].number /\ observables' = observables
    <3>1. disk[<<"conf", n, "file">>].number \in Nat
      BY <2>1, CopyAgrees DEF IInv, Contents, Kinds
    <3>. QED
      BY <3>1 DEF Boot, SetIterationParameters, Measured, Done
  <2>. QED  BY <2>2, <2>3
<1>5. CASE StartFromSave
  BY <1>5 DEF StartFromSave, Numbered
<1>6. CASE Thermalize
  <2>1. Measured = iteration /\ Measured' = iteration + 1 /\ Done = iteration
    BY <1>2, <1>6 DEF Thermalize, Measured, Done
  <2>2. chain = UninterruptedChain(iteration) /\ stream = StreamAfter(iteration)
    BY <1>6, <2>1 DEF Thermalize, IInv, LoopAgrees
  <2>3. chain' = UninterruptedChain(iteration + 1)
    BY <1>2, <1>6, <2>2, NextConfigurationAgrees DEF Thermalize
  <2>4. [iteration |-> iteration, chain |-> UninterruptedChain(iteration + 1)]
          \in observables'
    BY <1>6, <2>3 DEF Thermalize, Measure
  <2>5. MeasuredIn(iteration, observables)
    BY <1>6, <2>1 DEF MeasurementsAgree, Thermalize
  <2>. QED  BY <1>1, <1>2, <2>1, <2>4, <2>5, MeasuredMore
<1>7. CASE PerformOnlineMeasurements
  <2>1. Measured = iteration /\ Measured' = iteration + 1 /\ Done = iteration + 1
    BY <1>2, <1>7 DEF PerformOnlineMeasurements, processVars, Measured, Done
  <2>2. chain = UninterruptedChain(iteration + 1)
    BY <1>7, <2>1 DEF PerformOnlineMeasurements, IInv, LoopAgrees
  <2>3. (iteration + 1) % WriteFrequency = 0 =>
          [iteration |-> iteration, chain |-> UninterruptedChain(iteration + 1)]
            \in observables'
    BY <1>7, <2>2 DEF PerformOnlineMeasurements, Due, Measure
  <2>4. MeasuredIn(iteration, observables)
    BY <1>7, <2>1 DEF MeasurementsAgree, PerformOnlineMeasurements
  <2>. QED  BY <1>1, <1>2, <2>1, <2>3, <2>4, MeasuredMore
<1>8. CASE \/ ThermalizationNotImplemented \/ ThermalizationDone \/ Generate
           \/ NextIteration \/ Finish \/ Store \/ Crash \/ UNCHANGED vars
  <2>1. Measured' = Measured /\ pc # "down"
    BY <1>2, <1>8
    DEF ThermalizationNotImplemented, ThermalizationDone, Generate, NextIteration, Finish,
        Store, InStore, StoreStep, SetAsideBackup, NothingToBackUp, RenameToBackup,
        RemoveOldBackup, OpenFile, WriteFile, WriteFails, VerifyWritingWasSuccessful,
        WritingNotSuccessful, Crash, vars, processVars, Measured, Done
  <2>2. Measured \in Nat
    BY <1>2 DEF Measured, Done
  <2>3. MeasuredIn(Measured, observables)
    BY <2>1 DEF MeasurementsAgree
  <2>. QED  BY <1>1, <2>1, <2>2, <2>3, MeasuredMore
<1>. QED
  BY <1>3, <1>4, <1>5, <1>6, <1>7, <1>8 DEF Next, Start, Loop

\* The measurements come before the stores in generate().
LEMMA MeasurementsStep ==
    ASSUME IInv, Numbered, MeasurementsAgree, [Next]_vars
    PROVE  MeasurementsAgree'
<1>1. observables \subseteq observables'
  BY ObservablesGrow
<1>2. pc' # "down" => MeasuredIn(Measured', observables')
  BY MeasuredByProcess
<1>3. ASSUME NEW n \in Numbers, NEW s \in Slots, IsWhole("conf", n, s)'
      PROVE  MeasuredIn(disk'[<<"conf", n, s>>].number, observables')
  <2>1. CASE \E t \in Slots : /\ IsWhole("conf", n, t)
                              /\ disk'[<<"conf", n, s>>] = disk[<<"conf", n, t>>]
    <3> PICK t \in Slots : /\ IsWhole("conf", n, t)
                           /\ disk'[<<"conf", n, s>>] = disk[<<"conf", n, t>>]
      BY <2>1
    <3>1. MeasuredIn(disk[<<"conf", n, t>>].number, observables)
      BY DEF MeasurementsAgree
    <3>2. disk[<<"conf", n, t>>].number \in Nat
      BY CopyAgrees, GenerationAssumption DEF GenerationAssumption, IInv, Contents, Kinds
    <3>. QED  BY <1>1, <3>1, <3>2, MeasuredMore
  <2>2. CASE pc = "save" /\ disk'[<<"conf", n, s>>].number = iteration + 1
    <3>1. Measured = iteration + 1 /\ iteration + 1 \in Nat
      BY <2>2 DEF Measured, Done, IInv, LoopTypes
    <3>2. MeasuredIn(iteration + 1, observables)
      BY <2>2, <3>1 DEF MeasurementsAgree
    <3>. QED  BY <1>1, <2>2, <3>1, <3>2, MeasuredMore
  <2>. QED  BY <1>3, <2>1, <2>2, WholeFileStep
<1>. QED  BY <1>2, <1>3 DEF MeasurementsAgree

\* Whatever configuration a restart may take up, the observables file has every
\* line that belongs to the trajectories that led to it.
THEOREM SavedWasAlwaysMeasured ==
    ASSUME Numbered
    PROVE  Spec => []SavedConfigurationsWereMeasured
<1> USE GenerationAssumption DEF GenerationAssumption
<1>1. GenerationInit => MeasurementsAgree
  BY DEF GenerationInit, MeasurementsAgree, IsWhole, Absent, Content, Files, Kinds
<1>2. IInv /\ MeasurementsAgree /\ [Next]_vars => MeasurementsAgree'
  BY MeasurementsStep
<1>3. IInv /\ MeasurementsAgree => SavedConfigurationsWereMeasured
  <2> SUFFICES ASSUME IInv, MeasurementsAgree, NEW f \in Files,
                      disk[f].state = "whole",
                      NEW m \in 1 .. Len(disk[f].chain), m % WriteFrequency = 0
               PROVE  [iteration |-> m - 1, chain |-> SubSeq(disk[f].chain, 1, m)]
                        \in observables
    BY DEF SavedConfigurationsWereMeasured
  <2> PICK k \in Kinds, n \in Numbers, s \in Slots : f = <<k, n, s>>
    BY DEF Files
  <2>1. FileAgrees(k, n, disk[f]) /\ disk[f].number \in Nat
    BY CopyAgrees DEF IInv, Contents
  <2>2. k = "conf"
    <3>1. k # "conf" => Len(disk[f].chain) = 0
      BY <2>1 DEF FileAgrees
    <3>. QED  BY <3>1
  <2> DEFINE N == disk[f].number
  <2>3. N \in Nat /\ disk[f].chain = UninterruptedChain(N) /\ m \in 1 .. N
    BY <2>1, <2>2, ChainIsSequence DEF FileAgrees
  <2>4. MeasuredIn(N, observables)
    BY <2>2 DEF MeasurementsAgree, IsWhole
  <2> HIDE DEF N
  <2>5. SubSeq(UninterruptedChain(N), 1, m) = UninterruptedChain(m)
    <3>1. \A i \in 1 .. m : UninterruptedChain(N)[i] = UninterruptedChain(m)[i]
      BY <2>3 DEF UninterruptedChain
    <3>2. /\ UninterruptedChain(N) \in Seq(Nat) /\ Len(UninterruptedChain(N)) = N
          /\ UninterruptedChain(m) \in Seq(Nat) /\ Len(UninterruptedChain(m)) = m
      BY <2>3, ChainIsSequence
    <3>. QED  BY <2>3, <3>1, <3>2, SMT
  <2>. QED  BY <2>3, <2>4, <2>5 DEF MeasuredIn
<1>. QED  BY <1>1, <1>2, <1>3, InductiveInvariant, PTL DEF Spec

------------------------------------------------------------------------------
(* A checkpoint is whole before the next trajectory *)

\* What the store x of this iteration is to leave on disk is there.
Stored(x) == disk[<<x[1], x[2], "file">>] = Snapshot(x[1])

In(x, stores) == \E i \in 1 .. Len(stores) : stores[i] = x
Once(stores) == \A i, j \in 1 .. Len(stores) : stores[i] = stores[j] => i = j

\* Each store of this iteration is still to be done, once, or has been done.
StoresAgree ==
    pc = "save" =>
        /\ Once(pending)
        /\ \A x \in Kinds \X {SAVE, iteration + 1} :
              In(x, CheckpointStores) => In(x, pending) \/ Stored(x)

SavePointDue == SavePointFrequency # 0 /\ Due(SavePointFrequency)
SaveDue == SaveFrequency # 0 /\ Due(SaveFrequency)

\* Concatenations of short sequences.
LEMMA ShortSequences ==
    ASSUME NEW a, NEW b
    PROVE  /\ <<>> \o <<>> = <<>>
           /\ <<a>> \o <<>> = <<a>>
           /\ <<>> \o <<b>> = <<b>>
           /\ <<a>> \o <<b>> = <<a, b>>
<1>1. <<>> \o <<>> = <<>>
  OBVIOUS
<1>2. <<a>> \o <<>> = <<a>>
  OBVIOUS
<1>3. <<>> \o <<b>> = <<b>>
  OBVIOUS
<1>4. <<a>> \o <<b>> = <<a, b>>
  <2>. DEFINE S == {a, b}
              r == <<a>> \o <<b>>
  <2>1. <<a>> \in Seq(S) /\ <<b>> \in Seq(S) /\ <<a, b>> \in Seq(S)
    OBVIOUS
  <2>2. r \in Seq(S) /\ Len(r) = 2 /\ r[1] = a /\ r[2] = b
    BY <2>1
  <2>. HIDE DEF r, S
  <2>3. r = <<a, b>>
    BY <2>1, <2>2
  <2>. QED  BY <2>3 DEF r
<1>. QED  BY <1>1, <1>2, <1>3, <1>4

\* The stores of an iteration, written out.
LEMMA StoresWrittenOut ==
    CheckpointStores =
        IF SavePointDue
        THEN IF SaveDue
             THEN << <<"conf", SAVE>>, <<"conf", iteration + 1>>,
                     <<"prng", SAVE>>, <<"prng", iteration + 1>> >>
             ELSE << <<"conf", SAVE>>, <<"prng", SAVE>> >>
        ELSE IF SaveDue
             THEN << <<"conf", iteration + 1>>, <<"prng", iteration + 1>> >>
             ELSE <<>>
<1>. SUFFICES ASSUME NEW next, next = iteration + 1
              PROVE  CheckpointStores =
        IF SavePointDue
        THEN IF SaveDue
             THEN << <<"conf", SAVE>>, <<"conf", next>>,
                     <<"prng", SAVE>>, <<"prng", next>> >>
             ELSE << <<"conf", SAVE>>, <<"prng", SAVE>> >>
        ELSE IF SaveDue
             THEN << <<"conf", next>>, <<"prng", next>> >>
             ELSE <<>>
  OBVIOUS
<1>1. \A k : Saves(k) = (IF SavePointDue THEN << <<k, SAVE>> >> ELSE <<>>)
                        \o (IF SaveDue THEN << <<k, next>> >> ELSE <<>>)
  BY Zenon DEF Saves, SavePointDue, SaveDue
<1>2. CASE SavePointDue /\ SaveDue
  <2>1. \A k : Saves(k) = << <<k, SAVE>>, <<k, next>> >>
    BY <1>1, <1>2, ShortSequences, Zenon
  <2>2. CheckpointStores = << <<"conf", SAVE>>, <<"conf", next>>,
                              <<"prng", SAVE>>, <<"prng", next>> >>
    <3>1. /\ Saves("conf") = << <<"conf", SAVE>>, <<"conf", next>> >>
          /\ Saves("prng") = << <<"prng", SAVE>>, <<"prng", next>> >>
      BY <2>1
    <3>. SUFFICES ASSUME NEW a, NEW b, NEW c, NEW d,
                         Saves("conf") = <<a, b>>, Saves("prng") = <<c, d>>
                  PROVE  CheckpointStores = <<a, b, c, d>>
      BY <3>1, Zenon
    <3>2. <<a, b>> \o <<c, d>> = <<a, b, c, d>>
      <4>. DEFINE S == {a, b, c, d}
                  r == <<a, b>> \o <<c, d>>
      <4>1. <<a, b>> \in Seq(S) /\ <<c, d>> \in Seq(S) /\ <<a, b, c, d>> \in Seq(S)
        OBVIOUS
      <4>2. r \in Seq(S) /\ Len(r) = 4 /\ r[1] = a /\ r[2] = b /\ r[3] = c /\ r[4] = d
        BY <4>1
      <4>. HIDE DEF r, S
      <4>3. r = <<a, b, c, d>>
        BY <4>1, <4>2
      <4>. QED  BY <4>3 DEF r
    <3>. QED  BY <3>2, Zenon DEF CheckpointStores
  <2>. QED  BY <1>2, <2>2, Zenon
<1>3. CASE SavePointDue /\ ~SaveDue
  <2>1. \A k : Saves(k) = << <<k, SAVE>> >>
    BY <1>1, <1>3, ShortSequences, Zenon
  <2>. QED  BY <1>3, <2>1, ShortSequences, Zenon DEF CheckpointStores
<1>4. CASE ~SavePointDue /\ SaveDue
  <2>1. \A k : Saves(k) = << <<k, next>> >>
    BY <1>1, <1>4, ShortSequences, Zenon
  <2>. QED  BY <1>4, <2>1, ShortSequences, Zenon DEF CheckpointStores
<1>5. CASE ~SavePointDue /\ ~SaveDue
  <2>1. \A k : Saves(k) = <<>>
    BY <1>1, <1>5, ShortSequences, Zenon
  <2>. QED  BY <1>5, <2>1, ShortSequences, Zenon DEF CheckpointStores
<1>. QED  BY <1>2, <1>3, <1>4, <1>5

\* They are different files, and every file that is due is among them.
LEMMA StoresOnce ==
    ASSUME iteration \in Nat
    PROVE  /\ Once(CheckpointStores)
           /\ SavePointDue => /\ In(<<"conf", SAVE>>, CheckpointStores)
                              /\ In(<<"prng", SAVE>>, CheckpointStores)
           /\ SaveDue => /\ In(<<"conf", iteration + 1>>, CheckpointStores)
                         /\ In(<<"prng", iteration + 1>>, CheckpointStores)
<1>0. iteration + 1 # SAVE
  BY DEF SAVE
<1>1. CASE SavePointDue /\ SaveDue
  <2>1. ASSUME NEW a, NEW b, NEW c, NEW d, a # b, a # c, a # d, b # c, b # d, c # d
        PROVE  /\ Once(<<a, b, c, d>>)
               /\ In(a, <<a, b, c, d>>) /\ In(b, <<a, b, c, d>>)
               /\ In(c, <<a, b, c, d>>) /\ In(d, <<a, b, c, d>>)
    BY <2>1, SMT DEF Once, In
  <2>2. CheckpointStores = << <<"conf", SAVE>>, <<"conf", iteration + 1>>,
                              <<"prng", SAVE>>, <<"prng", iteration + 1>> >>
    BY <1>1, StoresWrittenOut, Zenon
  <2>. QED  BY <1>0, <2>1, <2>2
<1>2. CASE SavePointDue /\ ~SaveDue
  BY <1>0, <1>2, StoresWrittenOut, SMT DEF Once, In
<1>3. CASE ~SavePointDue /\ SaveDue
  BY <1>0, <1>3, StoresWrittenOut, SMT DEF Once, In
<1>4. CASE ~SavePointDue /\ ~SaveDue
  BY <1>0, <1>4, StoresWrittenOut, SMT DEF Once, In
<1>. QED  BY <1>1, <1>2, <1>3, <1>4

\* A step of a store changes no file but the one at hand.
LEMMA OtherFilesStay ==
    ASSUME IInv, StoreInv, NEW step, InStore(step),
           \/ SetAsideBackup \/ NothingToBackUp \/ RenameToBackup \/ RemoveOldBackup
           \/ OpenFile \/ WriteFile,
           NEW x \in Kinds \X {SAVE, iteration + 1}, x # Head(pending)
    PROVE  disk'[<<x[1], x[2], "file">>] = disk[<<x[1], x[2], "file">>]
<1>1. pc = "save" /\ pending # <<>>
  BY DEF InStore
<1>2. <<x[1], x[2], "file">> \in Files /\ disk \in [Files -> Contents]
  BY <1>1, StoreNumbers DEF Files, Slots, IInv, FilesAgree
<1>3. <<x[1], x[2]>> # <<Kind, Number>>
  <2>1. x = <<x[1], x[2]>>
    OBVIOUS
  <2>2. Head(pending) \in Kinds \X Numbers
    BY <1>1 DEF IInv, PendingAgrees
  <2>3. Head(pending) = <<Kind, Number>>
    BY <2>2 DEF Kind, Number
  <2>. QED  BY <2>1, <2>3
<1>4. \A s \in Slots : At(s) # <<x[1], x[2], "file">>
  BY <1>3 DEF At
<1>5. "file" \in Slots /\ "backup" \in Slots /\ "backup_tmp" \in Slots
  BY DEF Slots
<1>. QED
  BY <1>2, <1>4, <1>5
  DEF SetAsideBackup, NothingToBackUp, RenameToBackup, RemoveOldBackup, OpenFile, WriteFile

\* The store at the head of the queue has been verified.
LEMMA HeadIsStored ==
    ASSUME ~MEMORY_REPEATS, IInv, StoreInv, VerifyWritingWasSuccessful
    PROVE  Stored(Head(pending))
<1>1. pc = "save" /\ pending # <<>> /\ phase = "verify" /\ IsWhole(Kind, Number, "file")
  BY DEF VerifyWritingWasSuccessful, MayReadAsWritten, InStore
<1>2. disk[At("file")] \in {Torn, Snapshot(Kind)}
  BY <1>1 DEF StoreInv
<1>3. disk[At("file")] # Torn
  BY <1>1 DEF IsWhole, At, Torn, Content
<1>. QED  BY <1>2, <1>3 DEF Stored, At, Kind, Number

\* Every step keeps account of the stores of the iteration.
LEMMA StoresStep ==
    ASSUME ~MEMORY_REPEATS, IInv, StoreInv, StoresAgree, [Next]_vars
    PROVE  StoresAgree'
<1>0. iteration \in Nat /\ pending \in Seq(Kinds \X Numbers)
  BY DEF IInv, LoopTypes, PendingAgrees
<1>1. CASE PerformOnlineMeasurements
  <2>1. /\ iteration' = iteration /\ pending' = CheckpointStores
        /\ CheckpointStores' = CheckpointStores
    BY <1>1 DEF PerformOnlineMeasurements, processVars, CheckpointStores, Saves, Due
  <2>. QED  BY <1>0, <2>1, StoresOnce DEF StoresAgree, Once, In
<1>2. CASE VerifyWritingWasSuccessful
  <2>1. /\ pc = "save" /\ pending # <<>> /\ pending' = Tail(pending)
        /\ iteration' = iteration /\ CheckpointStores' = CheckpointStores
        /\ \A x : Stored(x)' <=> Stored(x)
    BY <1>2 DEF VerifyWritingWasSuccessful, InStore, processVars, CheckpointStores, Saves,
                Due, Stored, Snapshot
  <2>2. /\ Len(Tail(pending)) = Len(pending) - 1 /\ Len(pending) \in Nat \ {0}
        /\ \A i \in 1 .. Len(pending) - 1 : Tail(pending)[i] = pending[i + 1]
        /\ pending[1] = Head(pending)
    BY <1>0, <2>1
  <2>3. Once(pending)'
    BY <2>1, <2>2 DEF StoresAgree, Once
  <2>4. ASSUME NEW x \in Kinds \X {SAVE, iteration + 1}, In(x, CheckpointStores)
        PROVE  In(x, Tail(pending)) \/ Stored(x)
    <3>1. CASE Stored(x)
      BY <3>1
    <3>2. CASE In(x, pending)
      <4> PICK i \in 1 .. Len(pending) : pending[i] = x
        BY <3>2 DEF In
      <4>1. CASE i = 1
        BY <1>2, <2>2, <4>1, HeadIsStored
      <4>2. CASE i # 1
        <5>1. i - 1 \in 1 .. Len(pending) - 1 /\ (i - 1) + 1 = i
          BY <2>2, <4>2
        <5>. QED  BY <2>2, <5>1 DEF In
      <4>. QED  BY <4>1, <4>2
    <3>. QED  BY <2>1, <2>4, <3>1, <3>2 DEF StoresAgree
  <2>. QED  BY <2>1, <2>3, <2>4 DEF StoresAgree, In
<1>3. CASE \/ SetAsideBackup \/ NothingToBackUp \/ RenameToBackup \/ RemoveOldBackup
           \/ OpenFile \/ WriteFile
  <2>1. PICK step : InStore(step)
    BY <1>3 DEF SetAsideBackup, NothingToBackUp, RenameToBackup, RemoveOldBackup,
                OpenFile, WriteFile
  <2>2. /\ pc = "save" /\ pending # <<>> /\ pending' = pending
        /\ iteration' = iteration /\ CheckpointStores' = CheckpointStores
        /\ \A k : Snapshot(k)' = Snapshot(k)
    BY <1>3, <2>1 DEF SetAsideBackup, NothingToBackUp, RenameToBackup, RemoveOldBackup,
                OpenFile, WriteFile, InStore, StoreStep, processVars, CheckpointStores,
                Saves, Due, Snapshot
  <2>3. ASSUME NEW x \in Kinds \X {SAVE, iteration + 1}, In(x, CheckpointStores),
               ~In(x, pending)
        PROVE  Stored(x)'
    <3>1. Stored(x)
      BY <2>2, <2>3 DEF StoresAgree
    <3>2. x # Head(pending)
      <4>1. Head(pending) = pending[1] /\ 1 \in 1 .. Len(pending)
        BY <1>0, <2>2
      <4>. QED  BY <2>3, <4>1 DEF In
    <3>3. disk'[<<x[1], x[2], "file">>] = disk[<<x[1], x[2], "file">>]
      BY <1>3, <2>1, <3>2, OtherFilesStay
    <3>. QED  BY <2>2, <3>1, <3>3 DEF Stored
  <2>. QED  BY <2>2, <2>3 DEF StoresAgree, Once, In
<1>4. CASE WriteFails \/ UNCHANGED vars
  <2>1. UNCHANGED <<disk, pc, pending, iteration, chain, stream>>
    BY <1>4 DEF WriteFails, vars, processVars
  <2>2. CheckpointStores' = CheckpointStores /\ \A x : Stored(x)' <=> Stored(x)
    BY <2>1 DEF CheckpointStores, Saves, Due, Stored, Snapshot
  <2>. QED  BY <2>1, <2>2 DEF StoresAgree, Once, In
<1>5. CASE WritingNotSuccessful \/ Crash \/ Start \/ Thermalize
           \/ ThermalizationNotImplemented \/ ThermalizationDone \/ Generate
           \/ NextIteration \/ Finish
  <2>1. pc' # "save"
    BY <1>5
    DEF WritingNotSuccessful, Crash, Start, StartFresh, StartFromNumbered, StartFromSave,
        Boot, Thermalize, ThermalizationNotImplemented, ThermalizationDone, Generate,
        NextIteration, Finish
  <2>. QED  BY <2>1 DEF StoresAgree
<1>. QED
  BY <1>1, <1>2, <1>3, <1>4, <1>5 DEF Next, Loop, Store

\* generate() goes on only when both files of every checkpoint that was due
\* hold the state it goes on from, if no short file is read as it was written.
THEOREM AlwaysCheckpointedBeforeNextTrajectory ==
    ASSUME Numbered, ~MEMORY_REPEATS
    PROVE  Spec => CheckpointedBeforeNextTrajectory
<1>1. GenerationInit => StoresAgree
  BY DEF GenerationInit, StoresAgree
<1>2. IInv /\ StoreInv /\ StoresAgree /\ [Next]_vars => StoresAgree'
  BY StoresStep
<1>3. IInv /\ StoresAgree /\ [Next]_vars =>
        [NextIteration =>
            /\ (SavePointFrequency # 0 /\ Due(SavePointFrequency)) =>
                 /\ disk[<<"conf", SAVE, "file">>].chain = chain
                 /\ disk[<<"prng", SAVE, "file">>].stream = stream
                 /\ \A k \in Kinds : IsWhole(k, SAVE, "file")
            /\ (SaveFrequency # 0 /\ Due(SaveFrequency)) =>
                 /\ disk[<<"conf", iteration + 1, "file">>].chain = chain
                 /\ disk[<<"prng", iteration + 1, "file">>].stream = stream
                 /\ \A k \in Kinds : IsWhole(k, iteration + 1, "file")]_vars
  <2> SUFFICES ASSUME IInv, StoresAgree, NextIteration
               PROVE  /\ SavePointDue =>
                            /\ disk[<<"conf", SAVE, "file">>].chain = chain
                            /\ disk[<<"prng", SAVE, "file">>].stream = stream
                            /\ \A k \in Kinds : IsWhole(k, SAVE, "file")
                      /\ SaveDue =>
                            /\ disk[<<"conf", iteration + 1, "file">>].chain = chain
                            /\ disk[<<"prng", iteration + 1, "file">>].stream = stream
                            /\ \A k \in Kinds : IsWhole(k, iteration + 1, "file")
    BY DEF SavePointDue, SaveDue
  <2>1. iteration \in Nat
    BY DEF IInv, LoopTypes
  <2>2. \A x \in Kinds \X {SAVE, iteration + 1} : In(x, CheckpointStores) => Stored(x)
    BY DEF NextIteration, StoresAgree, In
  <2>3. ASSUME NEW n \in {SAVE, iteration + 1},
               In(<<"conf", n>>, CheckpointStores), In(<<"prng", n>>, CheckpointStores)
        PROVE  /\ disk[<<"conf", n, "file">>].chain = chain
               /\ disk[<<"prng", n, "file">>].stream = stream
               /\ \A k \in Kinds : IsWhole(k, n, "file")
    <3>1. Stored(<<"conf", n>>) /\ Stored(<<"prng", n>>)
      BY <2>2, <2>3 DEF Kinds
    <3>2. /\ disk[<<"conf", n, "file">>] = Snapshot("conf")
          /\ disk[<<"prng", n, "file">>] = Snapshot("prng")
      BY <3>1 DEF Stored
    <3>. QED  BY <3>2 DEF Snapshot, Content, Kinds, IsWhole
  <2>. QED  BY <2>1, <2>3, StoresOnce
<1>. QED
  BY <1>1, <1>2, <1>3, InductiveInvariant, StoreInvariant, PTL
  DEF Spec, CheckpointedBeforeNextTrajectory

------------------------------------------------------------------------------
(***************************************************************************)
(* The chain that is continued from conf.save and prng.save, for every     *)
(* number of steps, every interval and any number of crashes and failed    *)
(* writes: the generator a restart meets is never ahead of the gauge field *)
(* and stays behind it by at most what lies between two save points for    *)
(* each interruption.                                                      *)
(*                                                                         *)
(* A restart takes the newest whole copy of each file, and the two may be  *)
(* of different save points.  What relates them is the trajectory the      *)
(* chain had reached when the newest copy of the generator was written     *)
(* (Then): the newest gauge field is of the same trajectory or, once its   *)
(* store of this save point is done, of the present one.                   *)
(***************************************************************************)

\* Without random sources a trajectory draws once and a measurement never; the
\* values of nThermalizationSteps the operator uses are bounded.  A generator
\* that could not be written is noticed.
Resumed ==
    /\ RESTART = "save" /\ ~MEMORY_REPEATS
    /\ ~UsesRandomSources
    /\ \E n \in ThermalizationSteps : \A k \in ThermalizationSteps : k <= n

\* The most trajectories between two save points.
Interval == SavePointFrequency + LongestThermalization

\* The content of the newest whole copy, if there is one.
Saved(kind) == {disk[<<kind, SAVE, s>>] : s \in {t \in Slots : Newest(kind, t)}}

------------------------------------------------------------------------------
(* The inductive invariant *)

SaveTypes ==
    /\ LoopTypes
    /\ chain \in Seq(Positions)
    /\ stream \in Nat

\* The stores of an iteration: the gauge field's before the generator's.
ConfSave == <<"conf", SAVE>>
ConfNumbered == <<"conf", iteration + 1>>
PrngSave == <<"prng", SAVE>>
PrngNumbered == <<"prng", iteration + 1>>

ConfLeft == {<<ConfSave, PrngSave>>,
             <<ConfSave, ConfNumbered, PrngSave, PrngNumbered>>}
Halfway == {<<ConfNumbered, PrngSave, PrngNumbered>>}
PrngNext == {<<PrngSave>>, <<PrngSave, PrngNumbered>>}
NoneLeft == {<<>>, <<PrngNumbered>>}
NoneDue == {<<ConfNumbered, PrngNumbered>>}

PendingInOrder ==
    pc = "save" =>
        pending \in IF SavePointDue THEN ConfLeft \cup Halfway \cup PrngNext \cup NoneLeft
                                   ELSE NoneDue \cup NoneLeft

\* The store of this save point has put the file in place.
InPlace(kind) == phase = "verify" /\ IsWhole(kind, SAVE, "file")
ConfSaved == pc = "save" /\ SavePointDue /\ (pending \in ConfLeft => InPlace("conf"))
PrngSaved == /\ pc = "save" /\ SavePointDue
             /\ pending \in NoneLeft \/ pending \in PrngNext
             /\ pending \in PrngNext => InPlace("prng")

\* What the newest copies hold.
SavedForm ==
    /\ \A c \in Saved("conf") : SavePointFrequency # 0 /\ c.number = Len(c.chain)
    /\ \A p \in Saved("prng") : SavePointFrequency # 0 /\ p.stream \in Nat

\* The generator is not ahead, and not far behind.
Allowance == faults * Interval
Behind(few, many, allowance) == few <= many /\ many <= few + allowance

\* The length the chain of this process had, or would have had, when its
\* generator stood at this position.
Then(position) == Len(chain) - (stream - position)

\* No save point lies between then and the present iteration.
Recent(n) ==
    /\ iteration - (iteration % SavePointFrequency) <= n + LongestThermalization
    /\ pc = "thermalize" => thermalizeTo <= n + LongestThermalization

Keeps ==
    /\ Len(chain) = Done
    /\ Behind(stream, Len(chain), Allowance)

\* A store that has failed has been counted.
FailureCounted ==
    pc = "save" /\ pending # <<>> /\ phase = "verify" /\ ~IsWhole(Kind, Number, "file")
        => Len(chain) + Interval <= stream + Allowance

PrngRecent ==
    \A p \in Saved("prng") :
        /\ p.stream <= stream
        /\ IF PrngSaved THEN p.stream = stream ELSE Recent(Then(p.stream))

ConfFollows ==
    \A c \in Saved("conf") :
        IF ConfSaved THEN c.number = Len(chain)
        ELSE \A p \in Saved("prng") : c.number = Then(p.stream)

Running ==
    pc # "down" => Keeps /\ FailureCounted /\ PrngRecent /\ ConfFollows

\* What the next start will find.
Stopped(allowance) ==
    \A c \in Saved("conf"), p \in Saved("prng") : Behind(p.stream, c.number, allowance)

SaveInv ==
    /\ StoreTypes
    /\ StoreInv
    /\ SaveTypes
    /\ PendingInOrder
    /\ SavedForm
    /\ Running
    /\ pc = "down" => Stopped(Allowance)

------------------------------------------------------------------------------
(* The newest copies *)

\* There is one newest copy at most, and it is whole.
LEMMA SavedOnce ==
    ASSUME NEW k \in Kinds, NEW x \in Saved(k)
    PROVE  /\ x.state = "whole"
           /\ \A y \in Saved(k) : y = x
<1> PICK s \in Slots : Newest(k, s) /\ x = disk[<<k, SAVE, s>>]
  BY DEF Saved
<1>1. x.state = "whole"
  BY DEF Newest, IsWhole
<1>2. ASSUME NEW t \in Slots, Newest(k, t)
      PROVE  t = s
  BY <1>2 DEF Newest, Slots
<1>. QED  BY <1>1, <1>2 DEF Saved

\* It is one of the three files.
LEMMA SavedIsFile ==
    ASSUME StoreTypes, NEW k \in Kinds, NEW x \in Saved(k)
    PROVE  x \in Contents
BY DEF Saved, StoreTypes, Files, Numbers

\* A store of another file leaves the save files alone.
LEMMA OtherStore ==
    ASSUME StoreTypes, NEW k \in Kinds, InStore(phase), <<Kind, Number>> # <<k, SAVE>>,
           \/ SetAsideBackup \/ RenameToBackup \/ RemoveOldBackup \/ OpenFile \/ WriteFile
    PROVE  Saved(k)' = Saved(k)
<1>1. \A s \in Slots : <<k, SAVE, s>> \in Files /\ <<k, SAVE, s>> # At("file")
          /\ <<k, SAVE, s>> # At("backup") /\ <<k, SAVE, s>> # At("backup_tmp")
  BY DEF At, Files, Numbers
<1>2. disk \in [Files -> Contents]
  BY DEF StoreTypes
<1>3. \A s \in Slots : disk'[<<k, SAVE, s>>] = disk[<<k, SAVE, s>>]
  BY <1>1, <1>2
  DEF SetAsideBackup, RenameToBackup, RemoveOldBackup, OpenFile, WriteFile
<1>4. \A s \in Slots : IsWhole(k, SAVE, s)' <=> IsWhole(k, SAVE, s)
  BY <1>3 DEF IsWhole
<1>5. \A s \in Slots : Newest(k, s)' <=> Newest(k, s)
  <2>1. "file" \in Slots /\ "backup" \in Slots
    BY DEF Slots
  <2>. QED  BY <1>4, <2>1 DEF Newest
<1>. QED  BY <1>3, <1>5 DEF Saved

\* The renaming in LimeFileWriter and PRNG::store may lose the newest copy, it
\* never brings an older one back.
LEMMA NewestStays ==
    ASSUME StoreTypes, StoreInv, NEW k \in Kinds, <<Kind, Number>> = <<k, SAVE>>,
           \/ SetAsideBackup \/ RenameToBackup \/ RemoveOldBackup \/ OpenFile
    PROVE  Saved(k)' \subseteq Saved(k)
<1>0. pc = "save" /\ pending # <<>>
  BY DEF SetAsideBackup, RenameToBackup, RemoveOldBackup, OpenFile, InStore
<1>1. /\ At("file") = <<k, SAVE, "file">> /\ At("backup") = <<k, SAVE, "backup">>
      /\ At("backup_tmp") = <<k, SAVE, "backup_tmp">>
      /\ k = Kind /\ SAVE = Number
  BY DEF At
<1>2. /\ disk \in [Files -> Contents]
      /\ Slots = {"file", "backup", "backup_tmp"}
      /\ \A s \in Slots : <<k, SAVE, s>> \in Files
  BY DEF StoreTypes, Slots, Files, Numbers
<1> DEFINE f == disk[<<k, SAVE, "file">>]
           b == disk[<<k, SAVE, "backup">>]
           t == disk[<<k, SAVE, "backup_tmp">>]
           ff == disk'[<<k, SAVE, "file">>]
           bb == disk'[<<k, SAVE, "backup">>]
           tt == disk'[<<k, SAVE, "backup_tmp">>]
           Whole(x) == x.state = "whole"
<1>3. Absent.state # "whole" /\ Torn.state # "whole"
  BY DEF Absent, Torn, Content
<1>4. Saved(k) = {x \in {f, b, t} :
          \/ x = f /\ Whole(f)
          \/ x = b /\ Whole(b) /\ ~Whole(f)
          \/ x = t /\ Whole(t) /\ ~Whole(f) /\ ~Whole(b)}
  BY <1>2 DEF Saved, Newest, IsWhole
<1>5. Saved(k)' = {x \in {ff, bb, tt} :
          \/ x = ff /\ Whole(ff)
          \/ x = bb /\ Whole(bb) /\ ~Whole(ff)
          \/ x = tt /\ Whole(tt) /\ ~Whole(ff) /\ ~Whole(bb)}
  BY <1>2 DEF Saved, Newest, IsWhole
<1>6. CASE SetAsideBackup
  <2>1. CASE Exists(k, SAVE, "backup")
    <3>1. ff = f /\ bb = Absent /\ tt = b
      BY <1>1, <1>2, <1>6, <2>1 DEF SetAsideBackup
    <3>. HIDE DEF f, b, t, ff, bb, tt
    <3>. QED  BY <1>3, <1>4, <1>5, <3>1
  <2>2. CASE ~Exists(k, SAVE, "backup")
    <3>1. ff = f /\ bb = b /\ tt = t
      BY <1>1, <1>6, <2>2 DEF SetAsideBackup
    <3>. HIDE DEF f, b, t, ff, bb, tt
    <3>. QED  BY <1>3, <1>4, <1>5, <3>1
  <2>. QED  BY <2>1, <2>2
<1>7. CASE RenameToBackup
  <2>1. ff = Absent /\ bb = f /\ tt = t
    BY <1>1, <1>2, <1>7 DEF RenameToBackup
  <2>2. b = Absent
    BY <1>0, <1>1, <1>7 DEF RenameToBackup, InStore, StoreInv
  <2>. HIDE DEF f, b, t, ff, bb, tt
  <2>. QED  BY <1>3, <1>4, <1>5, <2>1, <2>2
<1>8. CASE RemoveOldBackup
  <2>1. ff = f /\ bb = b /\ tt = Absent
    BY <1>1, <1>2, <1>8 DEF RemoveOldBackup
  <2>. HIDE DEF f, b, t, ff, bb, tt
  <2>. QED  BY <1>3, <1>4, <1>5, <2>1
<1>9. CASE OpenFile
  <2>1. ff = Torn /\ bb = b /\ tt = t
    BY <1>1, <1>2, <1>9 DEF OpenFile
  <2>2. f = Absent
    BY <1>0, <1>1, <1>9 DEF OpenFile, InStore, StoreInv
  <2>. HIDE DEF f, b, t, ff, bb, tt
  <2>. QED  BY <1>3, <1>4, <1>5, <2>1, <2>2
<1>. QED  BY <1>6, <1>7, <1>8, <1>9

\* What has been written is the newest copy.
LEMMA NewestWritten ==
    ASSUME StoreTypes, NEW k \in Kinds, <<Kind, Number>> = <<k, SAVE>>, WriteFile
    PROVE  Saved(k)' = {Snapshot(k)} /\ IsWhole(k, SAVE, "file")'
<1>1. pending # <<>> /\ At("file") = <<k, SAVE, "file">> /\ k = Kind
  BY DEF WriteFile, InStore, At
<1>2. disk'[<<k, SAVE, "file">>] = Snapshot(k)
  BY <1>1, HeadIsFile DEF WriteFile
<1>3. IsWhole(k, SAVE, "file")'
  BY <1>2 DEF IsWhole, Snapshot, Content
<1>4. \A s \in Slots : Newest(k, s)' <=> s = "file"
  BY <1>3 DEF Newest, Slots
<1>. QED  BY <1>2, <1>3, <1>4 DEF Saved, Slots

\* Every other step leaves the disk alone.
LEMMA DiskStays ==
    ASSUME NEW k \in Kinds, UNCHANGED disk
    PROVE  Saved(k)' = Saved(k) /\ \A s : IsWhole(k, SAVE, s)' = IsWhole(k, SAVE, s)
BY DEF Saved, Newest, IsWhole

------------------------------------------------------------------------------
(* Types *)

LEMMA LongestIsLongest ==
    ASSUME Resumed
    PROVE  /\ LongestThermalization \in ThermalizationSteps
           /\ LongestThermalization \in Nat
           /\ \A n \in ThermalizationSteps : n <= LongestThermalization
           /\ Interval \in Nat
<1>1. /\ LongestThermalization \in ThermalizationSteps
      /\ \A n \in ThermalizationSteps : n <= LongestThermalization
  BY Zenon DEF Resumed, LongestThermalization
<1>2. LongestThermalization \in Nat
  BY <1>1, GenerationAssumption DEF GenerationAssumption
<1>. QED  BY <1>1, <1>2, GenerationAssumption DEF GenerationAssumption, Interval

\* A start from the save files is one from the newest copies.
LEMMA StartIsFromSaved ==
    ASSUME Resumed, StoreTypes, Start
    PROVE  \/ /\ \A f \in Files : disk[f] = Absent
              /\ Boot(0, <<>>, 0)
           \/ \E c \in Saved("conf"), p \in Saved("prng") :
                 Boot(c.number, c.chain, p.stream)
<1>1. CASE StartFresh
  BY <1>1 DEF StartFresh, Resumed
<1>2. CASE StartFromNumbered
  BY <1>2 DEF StartFromNumbered, Resumed
<1>3. CASE StartFromSave
  <2> PICK s \in Slots, t \in Slots :
        /\ Newest("conf", s) /\ Newest("prng", t)
        /\ Boot(disk[<<"conf", SAVE, s>>].number, disk[<<"conf", SAVE, s>>].chain,
                disk[<<"prng", SAVE, t>>].stream)
    BY <1>3 DEF StartFromSave
  <2>. QED  BY DEF Saved
<1>. QED  BY <1>1, <1>2, <1>3 DEF Start

\* A start counts from the trajectory it was given.
LEMMA BootTypes ==
    ASSUME LoopTypes, NEW n \in Nat, NEW history \in Seq(Positions),
           NEW position \in Nat, Boot(n, history, position)
    PROVE  SaveTypes'
<1> USE GenerationAssumption DEF GenerationAssumption
<1> PICK t \in ThermalizationSteps : SetIterationParameters(n, t)
  BY DEF Boot
<1>1. LoopTypes'
  BY DEF LoopTypes, Boot, SetIterationParameters
<1>. QED  BY <1>1 DEF SaveTypes, Boot

LEMMA StartTypes ==
    ASSUME Resumed, SaveInv, Start
    PROVE  SaveTypes'
<1>1. CASE Boot(0, <<>>, 0)
  <2>1. <<>> \in Seq(Positions)
    OBVIOUS
  <2>. QED  BY <1>1, <2>1, BootTypes DEF SaveInv, SaveTypes
<1>2. CASE \E c \in Saved("conf"), p \in Saved("prng") :
              Boot(c.number, c.chain, p.stream)
  <2> PICK c \in Saved("conf"), p \in Saved("prng") :
              Boot(c.number, c.chain, p.stream)
    BY <1>2
  <2>1. c \in Contents
    BY SavedIsFile DEF SaveInv, Kinds
  <2>2. c.number \in Nat /\ c.chain \in Seq(Positions) /\ p.stream \in Nat
    BY <2>1, GenerationAssumption DEF Contents, SaveInv, SavedForm, GenerationAssumption
  <2>. QED  BY <2>2, BootTypes DEF SaveInv, SaveTypes
<1>. QED  BY <1>1, <1>2, StartIsFromSaved DEF SaveInv

\* The loop and the stores.
LEMMA OtherTypes ==
    ASSUME SaveTypes, Loop \/ Store \/ Crash \/ UNCHANGED vars
    PROVE  SaveTypes'
<1> USE GenerationAssumption DEF GenerationAssumption
<1>1. chain' \in Seq(Positions) /\ stream' \in Nat
  <2>1. NextConfiguration => chain' \in Seq(Positions) /\ stream' \in Nat
    BY DEF NextConfiguration, SaveTypes, Positions, Draw, Garbage
  <2>2. Draw(stream) \in Nat
    BY DEF SaveTypes, Draw, Garbage
  <2>3. CASE UNCHANGED <<chain, stream>>
    BY <2>3 DEF SaveTypes
  <2>4. CASE PerformOnlineMeasurements
    BY <2>2, <2>4 DEF PerformOnlineMeasurements, SaveTypes
  <2>. QED
    BY <2>1, <2>3, <2>4
    DEF Loop, Thermalize, ThermalizationNotImplemented, ThermalizationDone, Generate,
        NextIteration, Finish, Store, StoreStep, SetAsideBackup, NothingToBackUp,
        RenameToBackup, RemoveOldBackup, OpenFile, WriteFile, WriteFails,
        VerifyWritingWasSuccessful, WritingNotSuccessful, Crash, vars
<1>2. LoopTypes'
  <2>1. LoopTypes
    BY DEF SaveTypes
  <2>2. CASE Thermalize \/ NextIteration
    BY <2>1, <2>2 DEF LoopTypes, Thermalize, NextIteration
  <2>3. CASE ThermalizationNotImplemented \/ ThermalizationDone \/ Generate \/ Finish
             \/ PerformOnlineMeasurements
    BY <2>1, <2>3
    DEF LoopTypes, processVars, ThermalizationNotImplemented, ThermalizationDone, Generate,
        Finish, PerformOnlineMeasurements
  <2>4. CASE Store
    BY <2>1, <2>4
    DEF LoopTypes, processVars, Store, StoreStep, SetAsideBackup, NothingToBackUp,
        RenameToBackup, RemoveOldBackup, OpenFile, WriteFile, WriteFails,
        VerifyWritingWasSuccessful, WritingNotSuccessful
  <2>5. CASE Crash \/ UNCHANGED vars
    BY <2>1, <2>5 DEF LoopTypes, processVars, Crash, vars
  <2>. QED  BY <2>2, <2>3, <2>4, <2>5 DEF Loop
<1>. QED  BY <1>1, <1>2 DEF SaveTypes

\* Files stay absent, torn or whole.
LEMMA StoreTypesStep ==
    ASSUME Resumed, SaveInv, [Next]_vars
    PROVE  StoreTypes'
<1> USE GenerationAssumption DEF GenerationAssumption
<1>0. /\ StoreTypes /\ SaveTypes
      /\ disk \in [Files -> Contents] /\ pending \in Seq(Kinds \X Numbers)
      /\ \A f \in Files : disk[f].state # "whole" => disk[f] \in {Absent, Torn}
  BY DEF SaveInv, StoreTypes
<1>1. disk' \in [Files -> Contents]
      /\ \A f \in Files : disk'[f].state # "whole" => disk'[f] \in {Absent, Torn}
  <2>1. CASE UNCHANGED disk
    BY <1>0, <2>1
  <2>2. CASE SetAsideBackup \/ RenameToBackup \/ RemoveOldBackup \/ OpenFile \/ WriteFile
    <3>1. pc = "save" /\ pending # <<>>
      BY <2>2 DEF SetAsideBackup, RenameToBackup, RemoveOldBackup, OpenFile, WriteFile, InStore
    <3>2. /\ At("file") \in Files /\ At("backup") \in Files /\ At("backup_tmp") \in Files
      BY <1>0, <3>1, HeadIsFile
    <3>3. Absent \in Contents /\ Torn \in Contents
      BY DEF Absent, Torn, Content, Contents, Positions
    <3>4. Snapshot(Kind) \in Contents /\ Snapshot(Kind).state = "whole"
      <4>1. iteration + 1 \in 0 .. MaxTrajectory
        BY <1>0, <3>1 DEF SaveTypes, LoopTypes
      <4>2. stream \in Positions /\ chain \in Seq(Positions)
        BY <1>0 DEF SaveTypes, Positions
      <4>3. <<>> \in Seq(Positions) /\ 0 \in Positions
        BY DEF Positions
      <4>. QED  BY <4>1, <4>2, <4>3 DEF Snapshot, Content, Contents
    <3>5. \A f \in Files : disk'[f] \in {Absent, Torn, Snapshot(Kind), disk[f],
                                         disk[At("file")], disk[At("backup")]}
      BY <1>0, <2>2, <3>2
      DEF SetAsideBackup, RenameToBackup, RemoveOldBackup, OpenFile, WriteFile
    <3>6. disk' = [f \in Files |-> disk'[f]]
      BY <1>0, <2>2
      DEF SetAsideBackup, RenameToBackup, RemoveOldBackup, OpenFile, WriteFile
    <3>7. \A f \in Files : disk'[f] \in Contents
      BY <1>0, <3>2, <3>3, <3>4, <3>5
    <3>. HIDE DEF Resumed, GenerationAssumption
    <3>8. disk' \in [Files -> Contents]
      BY <3>6, <3>7
    <3>9. \A f \in Files : disk'[f].state # "whole" => disk'[f] \in {Absent, Torn}
      BY <1>0, <3>2, <3>4, <3>5
    <3>. QED  BY <3>8, <3>9
  <2>3. UNCHANGED disk
        \/ (SetAsideBackup \/ RenameToBackup \/ RemoveOldBackup \/ OpenFile \/ WriteFile)
    BY DEF Next, Start, StartFresh, StartFromNumbered, StartFromSave, Boot, Loop, Thermalize,
      ThermalizationNotImplemented, ThermalizationDone, Generate,
      PerformOnlineMeasurements, NextIteration, Finish, Store, NothingToBackUp, WriteFails,
      VerifyWritingWasSuccessful, WritingNotSuccessful, Crash, vars
  <2>. QED  BY <2>1, <2>2, <2>3
<1>2. pending' \in Seq(Kinds \X Numbers)
  <2>1. CASE PerformOnlineMeasurements
    <3>1. iteration \in Nat /\ {SAVE, iteration + 1} \subseteq Numbers
      BY <1>0, <2>1 DEF PerformOnlineMeasurements, SaveTypes, LoopTypes, Numbers
    <3>2. CheckpointStores \in Seq(Kinds \X {SAVE, iteration + 1})
      BY <3>1, CheckpointStoresAgree
    <3>3. Kinds \X {SAVE, iteration + 1} \subseteq Kinds \X Numbers
      BY <3>1
    <3>4. CheckpointStores \in Seq(Kinds \X Numbers)
      BY <3>2, <3>3
    <3>. QED  BY <2>1, <3>4 DEF PerformOnlineMeasurements
  <2>2. CASE VerifyWritingWasSuccessful
    BY <1>0, <2>2 DEF VerifyWritingWasSuccessful, InStore
  <2>3. \/ pending' = pending \/ pending' = <<>> \/ PerformOnlineMeasurements
        \/ VerifyWritingWasSuccessful
    BY DEF Next, Start, StartFresh, StartFromNumbered, StartFromSave, Boot, Loop, Thermalize,
      ThermalizationNotImplemented, ThermalizationDone, Generate,
      NextIteration, Finish, Store, StoreStep, SetAsideBackup, RenameToBackup, RemoveOldBackup,
      OpenFile, WriteFile, NothingToBackUp, WriteFails, WritingNotSuccessful, Crash, vars
  <2>4. <<>> \in Seq(Kinds \X Numbers)
    OBVIOUS
  <2>. QED  BY <1>0, <2>1, <2>2, <2>3, <2>4
<1>. QED  BY <1>1, <1>2 DEF StoreTypes

------------------------------------------------------------------------------
(* The stores that are left *)

\* Which store is next, and which are left after it.
LEMMA Heads ==
    /\ pending \in ConfLeft =>
         Head(pending) = ConfSave /\ Tail(pending) \in Halfway \cup PrngNext
    /\ pending \in Halfway =>
         Head(pending) = ConfNumbered /\ Tail(pending) \in PrngNext
    /\ pending \in PrngNext => Head(pending) = PrngSave /\ Tail(pending) \in NoneLeft
    /\ pending \in NoneDue => Head(pending) = ConfNumbered /\ Tail(pending) \in NoneLeft
    /\ pending \in NoneLeft /\ pending # <<>> =>
         Head(pending) = PrngNumbered /\ Tail(pending) \in NoneLeft
<1>1. /\ \A a : Head(<<a>>) = a /\ Tail(<<a>>) = <<>>
      /\ \A a, b : Head(<<a, b>>) = a /\ Tail(<<a, b>>) = <<b>>
  OBVIOUS
<1>a. \A a, b, c : Head(<<a, b, c>>) = a /\ Tail(<<a, b, c>>) = <<b, c>>
  OBVIOUS
<1>b. \A a, b, c, d : Head(<<a, b, c, d>>) = a /\ Tail(<<a, b, c, d>>) = <<b, c, d>>
  OBVIOUS
<1>2. ASSUME pending \in ConfLeft
      PROVE  Head(pending) = ConfSave /\ Tail(pending) \in Halfway \cup PrngNext
  <2>1. CASE pending = <<ConfSave, PrngSave>>
    BY <1>1, <2>1, Zenon DEF PrngNext
  <2>2. CASE pending = <<ConfSave, ConfNumbered, PrngSave, PrngNumbered>>
    BY <1>b, <2>2, Zenon DEF Halfway
  <2>. QED  BY <1>2, <2>1, <2>2, Zenon DEF ConfLeft
<1>3. ASSUME pending \in Halfway
      PROVE  Head(pending) = ConfNumbered /\ Tail(pending) \in PrngNext
  <2>1. pending = <<ConfNumbered, PrngSave, PrngNumbered>>
    BY <1>3, Zenon DEF Halfway
  <2>. QED  BY <1>a, <2>1, Zenon DEF PrngNext
<1>4. ASSUME pending \in PrngNext
      PROVE  Head(pending) = PrngSave /\ Tail(pending) \in NoneLeft
  <2>1. CASE pending = <<PrngSave>>
    BY <1>1, <2>1, Zenon DEF NoneLeft
  <2>2. CASE pending = <<PrngSave, PrngNumbered>>
    BY <1>1, <2>2, Zenon DEF NoneLeft
  <2>. QED  BY <1>4, <2>1, <2>2, Zenon DEF PrngNext
<1>5. ASSUME pending \in NoneDue
      PROVE  Head(pending) = ConfNumbered /\ Tail(pending) \in NoneLeft
  <2>1. pending = <<ConfNumbered, PrngNumbered>>
    BY <1>5, Zenon DEF NoneDue
  <2>. QED  BY <1>1, <2>1, Zenon DEF NoneLeft
<1>6. ASSUME pending \in NoneLeft, pending # <<>>
      PROVE  Head(pending) = PrngNumbered /\ Tail(pending) \in NoneLeft
  <2>1. pending = <<PrngNumbered>>
    BY <1>6, Zenon DEF NoneLeft
  <2>. QED  BY <1>1, <2>1, Zenon DEF NoneLeft
<1>. QED  BY <1>2, <1>3, <1>4, <1>5, <1>6

\* The four stores are of four files.
LEMMA StoresDiffer ==
    ASSUME iteration \in Nat
    PROVE  /\ ConfSave # ConfNumbered /\ ConfSave # PrngSave /\ ConfSave # PrngNumbered
           /\ ConfNumbered # PrngSave /\ ConfNumbered # PrngNumbered
           /\ PrngSave # PrngNumbered
<1>1. iteration + 1 # SAVE
  BY DEF SAVE
<1>. QED  BY <1>1 DEF ConfSave, ConfNumbered, PrngSave, PrngNumbered

\* The parts of an iteration do not overlap.
LEMMA PartsDiffer ==
    ASSUME iteration \in Nat
    PROVE  /\ pending \in ConfLeft => pending \notin Halfway \cup PrngNext \cup NoneLeft
           /\ pending \in Halfway => pending \notin PrngNext \cup NoneLeft
           /\ pending \in PrngNext => pending \notin NoneLeft
           /\ pending \in ConfLeft \cup Halfway \cup PrngNext \cup NoneDue => pending # <<>>
<1>1. pending \in ConfLeft \cup Halfway \cup PrngNext \cup NoneDue => pending # <<>>
  BY DEF ConfLeft, Halfway, PrngNext, NoneDue
<1>2. /\ ConfSave # ConfNumbered /\ ConfSave # PrngSave /\ ConfSave # PrngNumbered
      /\ ConfNumbered # PrngSave /\ ConfNumbered # PrngNumbered
      /\ PrngSave # PrngNumbered
  BY StoresDiffer
<1>. QED  BY <1>1, <1>2, Heads, Zenon

\* CheckpointStores is the whole of them.
LEMMA StoresAreParts ==
    CheckpointStores \in IF SavePointDue THEN ConfLeft ELSE NoneDue \cup NoneLeft
BY StoresWrittenOut, Zenon
DEF ConfLeft, NoneDue, NoneLeft, ConfSave, ConfNumbered, PrngSave, PrngNumbered

\* The steps of a store leave the queue as it is, verifying takes its head.
LEMMA PendingStep ==
    ASSUME PendingInOrder, [Next]_vars
    PROVE  PendingInOrder'
<1>1. CASE PerformOnlineMeasurements
  <2>1. /\ pending' = CheckpointStores
        /\ ConfLeft' = ConfLeft /\ NoneDue' = NoneDue /\ NoneLeft' = NoneLeft
        /\ SavePointDue' = SavePointDue
    BY <1>1
    DEF PerformOnlineMeasurements, processVars, ConfLeft, NoneDue, NoneLeft, ConfSave,
        ConfNumbered, PrngSave, PrngNumbered, SavePointDue, Due
  <2>. QED  BY <2>1, StoresAreParts DEF PendingInOrder
<1>2. CASE VerifyWritingWasSuccessful
  <2>1. /\ pending # <<>> /\ pending' = Tail(pending) /\ pc = "save"
        /\ ConfLeft' = ConfLeft /\ Halfway' = Halfway /\ PrngNext' = PrngNext
        /\ NoneDue' = NoneDue /\ NoneLeft' = NoneLeft /\ SavePointDue' = SavePointDue
    BY <1>2
    DEF VerifyWritingWasSuccessful, InStore, processVars, ConfLeft, Halfway, PrngNext,
        NoneDue, NoneLeft, ConfSave, ConfNumbered, PrngSave, PrngNumbered, SavePointDue,
        Due
  <2>. QED  BY <2>1, Heads DEF PendingInOrder
<1>3. CASE UNCHANGED <<pc, pending, iteration>>
  BY <1>3
  DEF PendingInOrder, ConfLeft, Halfway, PrngNext, NoneDue, NoneLeft, ConfSave,
      ConfNumbered, PrngSave, PrngNumbered, SavePointDue, Due
<1>4. CASE pc' # "save"
  BY <1>4 DEF PendingInOrder
<1>. QED
  BY <1>1, <1>2, <1>3, <1>4
  DEF Next, Start, StartFresh, StartFromNumbered, StartFromSave, Boot, Loop, Thermalize,
      ThermalizationNotImplemented, ThermalizationDone, Generate, processVars,
      NextIteration, Finish, Store, StoreStep, SetAsideBackup, RenameToBackup,
      RemoveOldBackup, OpenFile, WriteFile, NothingToBackUp, WriteFails,
      WritingNotSuccessful, Crash, vars

\* The generator's store is done after the gauge field's.
LEMMA ConfBeforePrng ==
    ASSUME SaveTypes, PrngSaved
    PROVE  ConfSaved
<1>1. iteration \in Nat
  BY DEF SaveTypes, LoopTypes
<1>. QED  BY <1>1, PartsDiffer DEF PrngSaved, ConfSaved

------------------------------------------------------------------------------
(* The newest copies after a step *)

\* Every step but the writing of a save file keeps the newest copies or loses
\* them.
LEMMA SavedStep ==
    ASSUME StoreTypes, StoreInv, [Next]_vars, NEW k \in Kinds,
           ~(WriteFile /\ <<Kind, Number>> = <<k, SAVE>>)
    PROVE  Saved(k)' \subseteq Saved(k)
<1>1. CASE UNCHANGED disk
  BY <1>1, DiskStays
<1>2. CASE SetAsideBackup \/ RenameToBackup \/ RemoveOldBackup \/ OpenFile \/ WriteFile
  <2>1. CASE <<Kind, Number>> = <<k, SAVE>>
    BY <1>2, <2>1, NewestStays
  <2>2. CASE <<Kind, Number>> # <<k, SAVE>>
    <3>1. InStore(phase)
      BY <1>2
      DEF SetAsideBackup, RenameToBackup, RemoveOldBackup, OpenFile, WriteFile, InStore
    <3>. QED  BY <1>2, <2>2, <3>1, OtherStore
  <2>. QED  BY <2>1, <2>2
<1>3. UNCHANGED disk
      \/ (SetAsideBackup \/ RenameToBackup \/ RemoveOldBackup \/ OpenFile \/ WriteFile)
  BY DEF Next, Start, StartFresh, StartFromNumbered, StartFromSave, Boot, Loop, Thermalize,
      ThermalizationNotImplemented, ThermalizationDone, Generate,
      PerformOnlineMeasurements, NextIteration, Finish, Store, NothingToBackUp, WriteFails,
      VerifyWritingWasSuccessful, WritingNotSuccessful, Crash, vars
<1>. QED  BY <1>1, <1>2, <1>3

\* The file at hand by its place in the queue.
LEMMA HeadIsSave ==
    ASSUME StoreTypes, SaveTypes, PendingInOrder, pc = "save", pending # <<>>
    PROVE  /\ Head(pending) = <<Kind, Number>>
           /\ <<Kind, Number>> = <<"conf", SAVE>> <=> SavePointDue /\ pending \in ConfLeft
           /\ <<Kind, Number>> = <<"prng", SAVE>> <=> SavePointDue /\ pending \in PrngNext
<1>1. Head(pending) \in Kinds \X Numbers
  BY DEF StoreTypes
<1>2. Head(pending) = <<Kind, Number>>
  BY <1>1 DEF Kind, Number
<1>3. iteration \in Nat
  BY DEF SaveTypes, LoopTypes
<1>4. /\ Head(pending) = ConfSave <=> SavePointDue /\ pending \in ConfLeft
      /\ Head(pending) = PrngSave <=> SavePointDue /\ pending \in PrngNext
  BY <1>3, Heads, StoresDiffer, Zenon DEF PendingInOrder
<1>. QED  BY <1>2, <1>4 DEF ConfSave, PrngSave

\* What the newest copies hold, they hold when they are written.
LEMMA SavedFormStep ==
    ASSUME SaveInv, [Next]_vars
    PROVE  SavedForm'
<1>0. /\ StoreTypes /\ StoreInv /\ SaveTypes /\ PendingInOrder /\ SavedForm
      /\ "conf" \in Kinds /\ "prng" \in Kinds
  BY DEF SaveInv, Kinds
<1>1. (\A c \in Saved("conf") : SavePointFrequency # 0 /\ c.number = Len(c.chain))'
  <2>1. CASE WriteFile /\ <<Kind, Number>> = <<"conf", SAVE>>
    <3>0. pc = "save" /\ pending # <<>>
      BY <2>1 DEF WriteFile, InStore
    <3>1. Saved("conf")' = {Snapshot("conf")}
      BY <1>0, <2>1, NewestWritten
    <3>2. SavePointFrequency # 0
      BY <1>0, <2>1, <3>0, HeadIsSave DEF SavePointDue
    <3>3. Snapshot("conf").number = iteration + 1 /\ Snapshot("conf").chain = chain
      BY DEF Snapshot, Content
    <3>4. Len(chain) = iteration + 1
      BY <3>0 DEF SaveInv, Running, Keeps, Done
    <3>. QED  BY <3>1, <3>2, <3>3, <3>4
  <2>2. CASE ~(WriteFile /\ <<Kind, Number>> = <<"conf", SAVE>>)
    <3>1. Saved("conf")' \subseteq Saved("conf")
      BY <1>0, <2>2, SavedStep
    <3>. QED  BY <1>0, <3>1 DEF SavedForm
  <2>. QED  BY <2>1, <2>2
<1>2. (\A p \in Saved("prng") : SavePointFrequency # 0 /\ p.stream \in Nat)'
  <2>1. CASE WriteFile /\ <<Kind, Number>> = <<"prng", SAVE>>
    <3>0. pc = "save" /\ pending # <<>>
      BY <2>1 DEF WriteFile, InStore
    <3>1. Saved("prng")' = {Snapshot("prng")}
      BY <1>0, <2>1, NewestWritten
    <3>2. SavePointFrequency # 0
      BY <1>0, <2>1, <3>0, HeadIsSave DEF SavePointDue
    <3>3. Snapshot("prng").stream = stream /\ stream \in Nat
      BY <1>0 DEF Snapshot, Content, SaveTypes
    <3>. QED  BY <3>1, <3>2, <3>3
  <2>2. CASE ~(WriteFile /\ <<Kind, Number>> = <<"prng", SAVE>>)
    <3>1. Saved("prng")' \subseteq Saved("prng")
      BY <1>0, <2>2, SavedStep
    <3>. QED  BY <1>0, <3>1 DEF SavedForm
  <2>. QED  BY <2>1, <2>2
<1>. QED  BY <1>1, <1>2 DEF SavedForm

------------------------------------------------------------------------------
(* The generator and the chain *)

\* One more interruption allows for one more interval.
LEMMA OneMore ==
    ASSUME NEW n \in Nat, NEW w \in Nat
    PROVE  n * w \in Nat /\ (n + 1) * w = n * w + w
BY SMT

\* What the steps compare is numbers.
LEMMA Numeric ==
    ASSUME Resumed, SaveInv
    PROVE  /\ Len(chain) \in Nat /\ stream \in Nat /\ iteration \in Nat
           /\ thermalizeTo \in Nat /\ faults \in Nat /\ Interval \in Nat
           /\ LongestThermalization \in Nat /\ SavePointFrequency \in Nat
           /\ Allowance \in Nat
<1>1. faults \in Nat /\ Interval \in Nat /\ LongestThermalization \in Nat
  BY LongestIsLongest, GenerationAssumption
  DEF SaveInv, SaveTypes, LoopTypes, GenerationAssumption
<1>2. /\ Len(chain) \in Nat /\ stream \in Nat /\ iteration \in Nat
      /\ thermalizeTo \in Nat /\ SavePointFrequency \in Nat
  BY GenerationAssumption DEF SaveInv, SaveTypes, LoopTypes, GenerationAssumption
<1>3. Allowance \in Nat
  BY <1>1, OneMore DEF Allowance
<1>. QED  BY <1>1, <1>2, <1>3

\* An interruption allows for one more interval.
LEMMA AllowanceStep ==
    ASSUME Resumed, SaveInv
    PROVE  /\ UNCHANGED faults => Allowance' = Allowance
           /\ faults' = faults + 1 => Allowance' = Allowance + Interval
BY Numeric, OneMore DEF Allowance, Interval

\* Counting the iterations since the last save point.
LEMMA Remainder ==
    ASSUME NEW n \in Nat, NEW f \in Nat \ {0}
    PROVE  /\ n % f \in 0 .. f - 1 /\ n % f \in Nat
           /\ (n + 1) % f = 0 => n % f = f - 1
           /\ (n + 1) % f # 0 => (n + 1) % f = (n % f) + 1
<1> DEFINE q == n \div f
<1> DEFINE r == n % f
<1>1. q \in Nat /\ r \in 0 .. f - 1 /\ n = f * q + r
  BY SMT
<1> HIDE DEF q, r
<1>2. CASE r = f - 1
  <2>1. n + 1 = f * (q + 1)
    BY <1>1, <1>2, SMT
  <2>2. (n + 1) % f = 0
    BY <1>1, <2>1, SMT
  <2>. QED  BY <1>1, <1>2, <2>2 DEF r
<1>3. CASE r # f - 1
  <2>1. n + 1 = f * q + (r + 1) /\ r + 1 \in 1 .. f - 1
    BY <1>1, <1>3, SMT
  <2>2. (n + 1) % f = r + 1
    BY <1>1, <2>1, SMT
  <2>. QED  BY <1>1, <1>3, <2>1, <2>2 DEF r
<1>4. r \in Nat
  BY <1>1
<1>. QED  BY <1>1, <1>2, <1>3, <1>4 DEF r

\* The distance of the generator then is the distance now.
LEMMA SameDistance ==
    ASSUME NEW l \in Nat, NEW s \in Nat, NEW p \in Nat, NEW a \in Nat, s <= l, l <= s + a
    PROVE  Behind(p, l - (s - p), a)
BY SMT DEF Behind

\* A generator saved one interval ago is one interval further behind.
LEMMA OneIntervalAgo ==
    ASSUME NEW l \in Nat, NEW s \in Nat, NEW p \in Nat, NEW w \in Nat, NEW a \in Nat,
           l <= l - (s - p) + w, l + w <= s + a
    PROVE  l <= p + a
BY SMT

\* A process that ends between two iterations leaves the files as it kept them.
LEMMA StopsBetween ==
    ASSUME Resumed, SaveInv, pc \in {"thermalize", "generate", "measure"}
    PROVE  Stopped(Allowance)
<1>1. ~ConfSaved /\ pc # "down"
  BY DEF ConfSaved
<1>2. Keeps /\ PrngRecent /\ ConfFollows
  BY <1>1 DEF SaveInv, Running
<1> SUFFICES ASSUME NEW c \in Saved("conf"), NEW p \in Saved("prng")
             PROVE  Behind(p.stream, c.number, Allowance)
  BY DEF Stopped
<1>3. c.number = Then(p.stream) /\ p.stream \in Nat
  BY <1>1, <1>2 DEF ConfFollows, SaveInv, SavedForm
<1>. QED  BY <1>2, <1>3, Numeric DEF Keeps, Then, Behind

\* A process that ends within the checkpoints of an iteration leaves them one
\* interval apart at most, which is one more interruption.
LEMMA StopsInStore ==
    ASSUME Resumed, SaveInv, pc = "save", NEW allowance \in Nat, Allowance <= allowance,
           Len(chain) + Interval <= stream + allowance
    PROVE  Stopped(allowance)
<1>1. Keeps /\ PrngRecent /\ ConfFollows
  BY DEF SaveInv, Running
<1> SUFFICES ASSUME NEW c \in Saved("conf"), NEW p \in Saved("prng")
             PROVE  Behind(p.stream, c.number, allowance)
  BY DEF Stopped
<1>2. SavePointFrequency # 0 /\ p.stream \in Nat /\ p.stream <= stream
  BY <1>1 DEF SaveInv, SavedForm, PrngRecent
<1>3. stream <= Len(chain) /\ Len(chain) <= stream + Allowance
  BY <1>1 DEF Keeps, Behind
<1>4. CASE ~ConfSaved
  <2>1. c.number = Then(p.stream)
    BY <1>1, <1>4 DEF ConfFollows
  <2>2. Len(chain) <= stream + allowance
    BY <1>3, Numeric
  <2>3. Behind(p.stream, Then(p.stream), allowance)
    BY <1>2, <1>3, <2>2, SameDistance, Numeric DEF Then
  <2>. QED  BY <2>1, <2>3
<1>5. CASE ConfSaved /\ PrngSaved
  <2>1. c.number = Len(chain) /\ p.stream = stream
    BY <1>1, <1>5 DEF ConfFollows, PrngRecent
  <2>. QED  BY <1>2, <1>3, <2>1, Numeric DEF Behind
<1>6. CASE ConfSaved /\ ~PrngSaved
  <2>1. c.number = Len(chain) /\ Recent(Then(p.stream))
    BY <1>1, <1>6 DEF ConfFollows, PrngRecent
  <2>2. Len(chain) = iteration + 1
    BY <1>1 DEF Keeps, Done
  <2>3. iteration % SavePointFrequency = SavePointFrequency - 1
    <3>1. (iteration + 1) % SavePointFrequency = 0
      BY <1>6 DEF ConfSaved, SavePointDue, Due
    <3>. QED  BY <1>2, <3>1, Remainder, Numeric
  <2>4. Then(p.stream) \in Int
    BY <1>2, Numeric DEF Then
  <2>5. Len(chain) <= Then(p.stream) + Interval
    <3>1. iteration - (iteration % SavePointFrequency)
            <= Then(p.stream) + LongestThermalization
      BY <2>1 DEF Recent
    <3>2. iteration - (SavePointFrequency - 1) <= Then(p.stream) + LongestThermalization
      BY <2>3, <3>1
    <3>3. /\ SavePointFrequency \in Nat /\ LongestThermalization \in Nat
          /\ iteration \in Nat
      BY Numeric
    <3>4. iteration + 1 <= Then(p.stream) + (SavePointFrequency + LongestThermalization)
      BY <2>4, <3>2, <3>3
    <3>. QED  BY <2>2, <3>4 DEF Interval
  <2>6. Len(chain) <= p.stream + allowance
    <3>1. Len(chain) <= Len(chain) - (stream - p.stream) + Interval
      BY <2>5 DEF Then
    <3>. QED  BY <1>2, <3>1, OneIntervalAgo, Numeric
  <2>7. p.stream <= Len(chain)
    BY <1>2, <1>3, Numeric
  <2>. QED  BY <2>1, <2>6, <2>7 DEF Behind
<1>. QED  BY <1>4, <1>5, <1>6

\* Whatever ends the process.
LEMMA StoppedStep ==
    ASSUME Resumed, SaveInv, [Next]_vars, pc' = "down"
    PROVE  Stopped(Allowance)'
<1>a. StoreTypes /\ StoreInv
  BY DEF SaveInv
<1>0. "conf" \in Kinds /\ "prng" \in Kinds
  BY DEF Kinds
<1>1. ~WriteFile
  BY DEF WriteFile, InStore, StoreStep
<1>2. Saved("conf")' \subseteq Saved("conf") /\ Saved("prng")' \subseteq Saved("prng")
  BY <1>a, <1>0, <1>1, SavedStep
<1>3. ASSUME NEW allowance, Stopped(allowance), Allowance' = allowance
      PROVE  Stopped(Allowance)'
  BY <1>2, <1>3 DEF Stopped, Behind
<1>4. CASE ThermalizationNotImplemented \/ Finish
  <2>1. Stopped(Allowance)
    BY <1>4, StopsBetween DEF ThermalizationNotImplemented, Finish
  <2>. QED  BY <1>3, <1>4, <2>1, AllowanceStep DEF ThermalizationNotImplemented, Finish
<1>5. CASE WritingNotSuccessful
  <2>1. /\ pc = "save" /\ pending # <<>> /\ phase = "verify"
        /\ ~IsWhole(Kind, Number, "file") /\ faults' = faults
    BY <1>5 DEF WritingNotSuccessful, InStore
  <2>2. Len(chain) + Interval <= stream + Allowance
    BY <2>1 DEF SaveInv, Running, FailureCounted
  <2>3. Stopped(Allowance)
    BY <2>1, <2>2, StopsInStore, Numeric
  <2>. QED  BY <1>3, <2>1, <2>3, AllowanceStep
<1>6. CASE Crash
  <2>1. pc # "down" /\ faults' = faults + 1
    BY <1>6 DEF Crash
  <2>2. Keeps
    BY <2>1 DEF SaveInv, Running
  <2>3. CASE pc = "save"
    <3>1. /\ Allowance + Interval \in Nat /\ Allowance <= Allowance + Interval
          /\ Len(chain) + Interval <= stream + (Allowance + Interval)
      BY <2>2, Numeric DEF Keeps, Behind
    <3>2. Stopped(Allowance + Interval)
      BY <2>3, <3>1, StopsInStore
    <3>. QED  BY <1>3, <2>1, <3>2, AllowanceStep
  <2>4. CASE pc # "save"
    <3>1. pc \in {"thermalize", "generate", "measure"}
      BY <2>1, <2>4 DEF SaveInv, SaveTypes, LoopTypes
    <3>2. Stopped(Allowance)
      BY <3>1, StopsBetween
    <3>3. Stopped(Allowance + Interval)
      <4> SUFFICES ASSUME NEW c \in Saved("conf"), NEW p \in Saved("prng")
                   PROVE  Behind(p.stream, c.number, Allowance + Interval)
        BY DEF Stopped
      <4>1. c.number \in Nat /\ p.stream \in Nat
        <5>1. c \in Contents
          BY <1>a, <1>0, SavedIsFile
        <5>. QED
          BY <5>1, GenerationAssumption
          DEF Contents, SaveInv, SavedForm, GenerationAssumption
      <4>. QED  BY <3>2, <4>1, Numeric DEF Stopped, Behind
    <3>. QED  BY <1>3, <2>1, <3>3, AllowanceStep
  <2>. QED  BY <2>3, <2>4
<1>7. CASE pc = "down" /\ UNCHANGED faults
  <2>1. Stopped(Allowance)
    BY <1>7 DEF SaveInv
  <2>. QED  BY <1>3, <1>7, <2>1, AllowanceStep
<1>. QED
  BY <1>4, <1>5, <1>6, <1>7
  DEF Next, Start, StartFresh, StartFromNumbered, StartFromSave, Boot, Loop, Thermalize,
      ThermalizationDone, Generate, PerformOnlineMeasurements,
      NextIteration, Store, StoreStep, SetAsideBackup, RenameToBackup,
      RemoveOldBackup, OpenFile, WriteFile, NothingToBackUp, WriteFails,
      VerifyWritingWasSuccessful, InStore, vars

------------------------------------------------------------------------------
(* The running process *)

\* A start finds what the last process left: the two files are within the
\* allowance, and it has the generator's position from the newest copy.
LEMMA StartRuns ==
    ASSUME Resumed, SaveInv, Start
    PROVE  Running'
<1>0. /\ pc = "down" /\ pc' = "thermalize" /\ UNCHANGED <<disk, faults>>
      /\ "conf" \in Kinds /\ "prng" \in Kinds
  BY DEF Start, StartFresh, StartFromNumbered, StartFromSave, Boot, Kinds
<1>1. ConfSaved' = FALSE /\ PrngSaved' = FALSE /\ FailureCounted' /\ Allowance' = Allowance
  BY <1>0, AllowanceStep DEF ConfSaved, PrngSaved, FailureCounted
<1>2. Saved("conf")' = Saved("conf") /\ Saved("prng")' = Saved("prng")
  BY <1>0, DiskStays
<1>3. CASE (\A f \in Files : disk[f] = Absent) /\ Boot(0, <<>>, 0)
  <2>1. \A k \in Kinds : Saved(k) = {}
    <3>1. \A k \in Kinds, s \in Slots : disk[<<k, SAVE, s>>] = Absent
      BY <1>3 DEF Files, Numbers
    <3>2. Absent.state # "whole"
      BY DEF Absent, Content
    <3>3. \A k \in Kinds, s \in Slots : ~Newest(k, s)
      BY <3>1, <3>2 DEF Newest, IsWhole
    <3>. QED  BY <3>3 DEF Saved
  <2>2. Len(chain)' = 0 /\ iteration' = 0 /\ stream' = 0
    BY <1>3 DEF Boot, SetIterationParameters
  <2>3. Keeps'
    BY <1>0, <1>1, <2>2, Numeric DEF Keeps, Done, Behind
  <2>. QED  BY <1>0, <1>1, <1>2, <2>1, <2>3 DEF Running, PrngRecent, ConfFollows
<1>4. CASE \E c \in Saved("conf"), p \in Saved("prng") :
              Boot(c.number, c.chain, p.stream)
  <2> PICK c \in Saved("conf"), p \in Saved("prng") :
              Boot(c.number, c.chain, p.stream)
    BY <1>4
  <2>1. PICK t \in ThermalizationSteps : SetIterationParameters(c.number, t)
    BY DEF Boot
  <2>2. /\ chain' = c.chain /\ stream' = p.stream /\ iteration' = c.number
        /\ thermalizeTo' = c.number + t
    BY <2>1 DEF Boot, SetIterationParameters
  <2>3. /\ c.number = Len(c.chain) /\ SavePointFrequency \in Nat \ {0}
        /\ p.stream \in Nat
    BY Numeric DEF SaveInv, SavedForm
  <2>4. c.number \in Nat
    <3>1. c \in Contents
      BY <1>0, SavedIsFile DEF SaveInv
    <3>. QED  BY <3>1, GenerationAssumption DEF Contents, GenerationAssumption
  <2>5. t \in Nat /\ LongestThermalization \in Nat /\ t <= LongestThermalization
    BY LongestIsLongest, GenerationAssumption DEF GenerationAssumption
  <2>6. Behind(p.stream, c.number, Allowance)
    BY <1>0 DEF SaveInv, Stopped
  <2>7. /\ \A y \in Saved("conf") : y = c
        /\ \A y \in Saved("prng") : y = p
    BY <1>0, SavedOnce
  <2>8. Keeps'
    BY <1>0, <1>1, <2>2, <2>3, <2>4, <2>6 DEF Keeps, Done
  <2>9. Then(p.stream)' = c.number
    BY <2>2, <2>3, <2>4 DEF Then
  <2>10. /\ c.number - (c.number % SavePointFrequency) <= c.number + LongestThermalization
         /\ c.number + t <= c.number + LongestThermalization
    <3>1. c.number % SavePointFrequency \in Nat
      BY <2>3, <2>4, Remainder, Zenon
    <3>. QED  BY <2>4, <2>5, <3>1
  <2>11. Recent(Then(p.stream))'
    BY <2>2, <2>9, <2>10 DEF Recent
  <2>12. PrngRecent'
    BY <1>1, <1>2, <2>2, <2>3, <2>7, <2>11 DEF PrngRecent
  <2>13. ConfFollows'
    BY <1>1, <1>2, <2>7, <2>9 DEF ConfFollows
  <2>. QED  BY <1>1, <2>8, <2>12, <2>13 DEF Running
<1>. QED  BY <1>3, <1>4, StartIsFromSaved DEF SaveInv

\* A step of a process that draws for every trajectory it adds leaves Then.
LEMMA ThenStays ==
    ASSUME Resumed, SaveInv, NEW p \in Saved("prng"),
           \/ UNCHANGED <<chain, stream>>
           \/ NextConfiguration
    PROVE  Then(p.stream)' = Then(p.stream) /\ Then(p.stream) \in Int
<1>1. /\ p.stream \in Nat /\ Len(chain) \in Nat /\ stream \in Nat
      /\ chain \in Seq(Positions)
  BY Numeric DEF SaveInv, SavedForm, SaveTypes
<1>2. CASE UNCHANGED <<chain, stream>>
  BY <1>1, <1>2 DEF Then
<1>3. CASE NextConfiguration
  <2>1. Len(chain') = Len(chain) + 1 /\ stream' = stream + 1
    BY <1>1, <1>3 DEF NextConfiguration, Draw, Garbage, Positions
  <2>. QED  BY <1>1, <2>1 DEF Then
<1>. QED  BY <1>2, <1>3

\* The steps of the loop between two checkpoints.
LEMMA LoopRuns ==
    ASSUME Resumed, SaveInv, pc # "down", pc' # "down",
           Thermalize \/ ThermalizationDone \/ Generate \/ PerformOnlineMeasurements
    PROVE  Running'
<1>0. /\ pc # "save" /\ UNCHANGED <<disk, faults>>
      /\ "conf" \in Kinds /\ "prng" \in Kinds
  BY DEF Thermalize, ThermalizationDone, Generate, PerformOnlineMeasurements, Kinds
<1>1. Keeps /\ PrngRecent /\ ConfFollows
  BY DEF SaveInv, Running
<1>2. Saved("conf")' = Saved("conf") /\ Saved("prng")' = Saved("prng")
  BY <1>0, DiskStays
<1>3. Allowance' = Allowance
  BY <1>0, AllowanceStep
<1>4. ConfSaved = FALSE /\ PrngSaved = FALSE
  BY <1>0 DEF ConfSaved, PrngSaved
<1>5. ConfSaved' = FALSE /\ PrngSaved' = FALSE /\ FailureCounted'
  <2>1. CASE PerformOnlineMeasurements
    <3>1. /\ pending' = CheckpointStores /\ phase' = "begin" /\ UNCHANGED iteration
      BY <2>1 DEF PerformOnlineMeasurements, processVars
    <3>2. /\ SavePointDue' = SavePointDue /\ ConfLeft' = ConfLeft
          /\ PrngNext' = PrngNext /\ NoneLeft' = NoneLeft
      BY <3>1 DEF SavePointDue, Due, ConfLeft, PrngNext, NoneLeft, ConfSave, ConfNumbered,
                  PrngSave, PrngNumbered
    <3>3. SavePointDue => pending' \in ConfLeft
      BY <3>1, StoresAreParts
    <3>4. pending' \in ConfLeft => pending' \notin PrngNext \cup NoneLeft
      <4>1. (iteration \in Nat)'
        BY <3>1, Numeric
      <4>2. (pending \in ConfLeft => pending \notin Halfway \cup PrngNext \cup NoneLeft)'
        BY <4>1, PartsDiffer, PTL
      <4>. QED  BY <3>2, <4>2
    <3>. QED
      BY <3>1, <3>2, <3>3, <3>4 DEF ConfSaved, PrngSaved, InPlace, FailureCounted
  <2>2. CASE pc' # "save"
    BY <2>2 DEF ConfSaved, PrngSaved, FailureCounted
  <2>. QED  BY <2>1, <2>2 DEF Thermalize, ThermalizationDone, Generate
<1>6. UNCHANGED <<chain, stream>> \/ NextConfiguration
  BY DEF Resumed, Thermalize, ThermalizationDone, Generate, PerformOnlineMeasurements
<1>7. Keeps'
  <2>1. CASE Thermalize \/ Generate
    <3>1. Len(chain') = Len(chain) + 1 /\ stream' = stream + 1
      <4>1. stream \in Nat /\ chain \in Seq(Positions)
        BY DEF SaveInv, SaveTypes
      <4>. QED  BY <2>1, <4>1 DEF Thermalize, Generate, NextConfiguration, Draw, Garbage,
                                  Positions
    <3>2. Done = iteration /\ Done' = iteration + 1
      BY <2>1, Numeric DEF Thermalize, Generate, processVars, Done
    <3>3. /\ Len(chain) \in Nat /\ stream \in Nat /\ Allowance \in Nat
          /\ stream <= Len(chain) /\ Len(chain) <= stream + Allowance
          /\ Len(chain) = iteration
      BY <1>1, <3>2, Numeric DEF Keeps, Behind
    <3>. QED  BY <1>3, <3>1, <3>2, <3>3 DEF Keeps, Behind
  <2>2. CASE ThermalizationDone \/ PerformOnlineMeasurements
    <3>1. UNCHANGED <<chain, stream>> /\ Done' = Done
      BY <2>2 DEF Resumed, ThermalizationDone, PerformOnlineMeasurements, processVars, Done
    <3>. QED  BY <1>1, <1>3, <3>1 DEF Keeps, Behind
  <2>. QED  BY <2>1, <2>2
<1>8. PrngRecent'
  <2> SUFFICES ASSUME NEW p \in Saved("prng")
               PROVE  p.stream <= stream' /\ Recent(Then(p.stream))'
    BY <1>2, <1>5 DEF PrngRecent
  <2>1. /\ p.stream \in Nat /\ SavePointFrequency \in Nat \ {0}
        /\ p.stream <= stream /\ Recent(Then(p.stream))
    BY <1>1, <1>4, Numeric DEF PrngRecent, SaveInv, SavedForm
  <2>2. Then(p.stream)' = Then(p.stream) /\ Then(p.stream) \in Int
    BY <1>6, ThenStays
  <2>3. p.stream <= stream'
    <3>1. stream \in Nat
      BY Numeric
    <3>2. stream' = stream \/ stream' = stream + 1
      BY <1>6, <3>1 DEF NextConfiguration, Draw, Garbage
    <3>. QED  BY <2>1, <3>1, <3>2
  <2>4. Recent(Then(p.stream))'
    <3>1. CASE Thermalize
      <4>1. /\ iteration' = iteration + 1 /\ thermalizeTo' = thermalizeTo
            /\ iteration + 1 <= thermalizeTo /\ iteration + 1 \in Nat /\ thermalizeTo \in Nat
        BY <3>1, Numeric DEF Thermalize
      <4>2. thermalizeTo <= Then(p.stream) + LongestThermalization
        BY <2>1, <3>1 DEF Recent, Thermalize
      <4>3. (iteration + 1) % SavePointFrequency \in Nat
        BY <2>1, <4>1, Remainder, Zenon
      <4>4. LongestThermalization \in Nat
        BY Numeric
      <4>5. (iteration + 1) - ((iteration + 1) % SavePointFrequency)
              <= Then(p.stream) + LongestThermalization
        BY <2>2, <4>1, <4>2, <4>3, <4>4
      <4>. QED  BY <2>2, <4>1, <4>2, <4>5 DEF Recent
    <3>2. CASE ThermalizationDone \/ Generate \/ PerformOnlineMeasurements
      <4>1. iteration' = iteration /\ pc' # "thermalize"
        BY <3>2 DEF ThermalizationDone, Generate, PerformOnlineMeasurements, processVars
      <4>. QED  BY <2>1, <2>2, <4>1 DEF Recent
    <3>. QED  BY <3>1, <3>2
  <2>. QED  BY <2>3, <2>4
<1>9. ConfFollows'
  <2>1. \A p \in Saved("prng") : Then(p.stream)' = Then(p.stream)
    BY <1>6, ThenStays
  <2>. QED  BY <1>1, <1>2, <1>4, <1>5, <2>1 DEF ConfFollows
<1>. QED  BY <1>5, <1>7, <1>8, <1>9 DEF Running

\* The end of the loop's body.
LEMMA NextIterationRuns ==
    ASSUME Resumed, SaveInv, NextIteration
    PROVE  Running'
<1>0. /\ pc = "save" /\ pending = <<>> /\ pc' = "generate" /\ iteration' = iteration + 1
      /\ UNCHANGED <<disk, faults, chain, stream>>
      /\ "conf" \in Kinds /\ "prng" \in Kinds
  BY DEF NextIteration, Kinds
<1>1. Keeps /\ PrngRecent /\ ConfFollows
  BY <1>0 DEF SaveInv, Running
<1>2. Saved("conf")' = Saved("conf") /\ Saved("prng")' = Saved("prng")
  BY <1>0, DiskStays
<1>3. Allowance' = Allowance
  BY <1>0, AllowanceStep
<1>4. /\ ConfSaved <=> SavePointDue
      /\ PrngSaved <=> SavePointDue
  BY <1>0, PartsDiffer, Numeric DEF ConfSaved, PrngSaved, NoneLeft
<1>5. ConfSaved' = FALSE /\ PrngSaved' = FALSE /\ FailureCounted'
  BY <1>0 DEF ConfSaved, PrngSaved, FailureCounted
<1>6. Keeps' /\ Len(chain) = iteration + 1
  BY <1>0, <1>1, <1>3, Numeric DEF Keeps, Behind, Done
<1>7. ASSUME NEW p \in Saved("prng")
      PROVE  /\ Then(p.stream)' = Then(p.stream) /\ p.stream <= stream
             /\ Recent(Then(p.stream))'
             /\ SavePointDue => Then(p.stream) = Len(chain)
  <2>1. Then(p.stream)' = Then(p.stream) /\ Then(p.stream) \in Int
    BY <1>0, ThenStays
  <2>2. SavePointFrequency \in Nat \ {0} /\ p.stream <= stream /\ p.stream \in Nat
    BY <1>1, Numeric DEF SaveInv, SavedForm, PrngRecent
  <2>3. SavePointDue => Then(p.stream) = Len(chain)
    BY <1>1, <1>4, <2>2, Numeric DEF PrngRecent, Then
  <2>4. iteration \in Nat /\ LongestThermalization \in Nat
    BY Numeric
  <2>5. (iteration + 1) - ((iteration + 1) % SavePointFrequency)
          <= Then(p.stream) + LongestThermalization
    <3>1. CASE SavePointDue
      <4>1. Then(p.stream) = iteration + 1
        BY <1>6, <2>3, <3>1
      <4>2. (iteration + 1) % SavePointFrequency = 0
        BY <3>1 DEF SavePointDue, Due
      <4>. QED  BY <2>4, <4>1, <4>2
    <3>2. CASE ~SavePointDue
      <4>1. (iteration + 1) % SavePointFrequency # 0
        BY <2>2, <3>2 DEF SavePointDue, Due
      <4>2. /\ (iteration + 1) % SavePointFrequency = (iteration % SavePointFrequency) + 1
            /\ iteration % SavePointFrequency \in Nat
        BY <2>2, <2>4, <4>1, Remainder, Zenon
      <4>3. iteration - (iteration % SavePointFrequency)
              <= Then(p.stream) + LongestThermalization
        BY <1>1, <1>4, <3>2 DEF PrngRecent, Recent
      <4>. QED  BY <2>1, <2>4, <4>2, <4>3
    <3>. QED  BY <3>1, <3>2
  <2>. QED  BY <1>0, <2>1, <2>2, <2>3, <2>5 DEF Recent
<1>8. PrngRecent'
  BY <1>0, <1>2, <1>5, <1>7 DEF PrngRecent
<1>9. ConfFollows'
  BY <1>0, <1>1, <1>2, <1>4, <1>5, <1>7 DEF ConfFollows
<1>. QED  BY <1>5, <1>6, <1>8, <1>9 DEF Running

\* While nothing is put in place, the newest copies keep their relation to the
\* process.
LEMMA NothingPut ==
    ASSUME SaveInv, pc # "down", UNCHANGED <<pc, iteration, thermalizeTo, chain, stream>>,
           \A k \in Kinds : Saved(k)' \subseteq Saved(k),
           ConfSaved' = ConfSaved, PrngSaved' = PrngSaved
    PROVE  PrngRecent' /\ ConfFollows'
<1>1. PrngRecent /\ ConfFollows /\ "conf" \in Kinds /\ "prng" \in Kinds
  BY DEF SaveInv, Running, Kinds
<1>2. \A x : Then(x)' = Then(x) /\ (Recent(Then(x))' <=> Recent(Then(x)))
  BY DEF Then, Recent
<1>3. PrngRecent'
  BY <1>1, <1>2 DEF PrngRecent
<1>4. ConfFollows'
  BY <1>1, <1>2 DEF ConfFollows
<1>. QED  BY <1>3, <1>4

\* The process itself does not change within a store.
LEMMA KeepsInStore ==
    ASSUME Resumed, SaveInv, pc # "down", UNCHANGED <<pc, iteration, chain, stream>>,
           UNCHANGED faults \/ faults' = faults + 1
    PROVE  Keeps'
<1>1. Keeps
  BY DEF SaveInv, Running
<1>2. Done' = Done
  BY DEF Done
<1>3. /\ Len(chain) \in Nat /\ stream \in Nat /\ Allowance \in Nat /\ Interval \in Nat
      /\ stream <= Len(chain) /\ Len(chain) <= stream + Allowance
  BY <1>1, Numeric DEF Keeps, Behind
<1>4. Allowance' = Allowance \/ Allowance' = Allowance + Interval
  BY AllowanceStep
<1>5. Len(chain) <= stream + Allowance'
  BY <1>3, <1>4
<1>. QED  BY <1>1, <1>2, <1>3, <1>5 DEF Keeps, Behind

\* The parts of an iteration are the same within a store.
LEMMA PartsStay ==
    ASSUME UNCHANGED iteration
    PROVE  /\ SavePointDue' = SavePointDue /\ ConfLeft' = ConfLeft /\ Halfway' = Halfway
           /\ PrngNext' = PrngNext /\ NoneLeft' = NoneLeft
BY DEF SavePointDue, Due, ConfLeft, Halfway, PrngNext, NoneLeft, ConfSave, ConfNumbered,
       PrngSave, PrngNumbered

\* The steps of a store up to the writing, and a writing that fails.
LEMMA PreparesRuns ==
    ASSUME Resumed, SaveInv,
           \/ SetAsideBackup \/ NothingToBackUp \/ RenameToBackup \/ RemoveOldBackup
           \/ OpenFile \/ WriteFails
    PROVE  Running'
<1>a. StoreTypes /\ StoreInv /\ SaveTypes /\ PendingInOrder /\ SavedForm
  BY DEF SaveInv
<1>0. /\ pc = "save" /\ pending # <<>> /\ phase # "verify"
      /\ UNCHANGED <<pc, pending, iteration, thermalizeTo, chain, stream>>
      /\ UNCHANGED faults \/ faults' = faults + 1
  BY DEF SetAsideBackup, NothingToBackUp, RenameToBackup, RemoveOldBackup, OpenFile,
         WriteFails, InStore, StoreStep, processVars
<1>1. \A k \in Kinds : Saved(k)' \subseteq Saved(k)
  <2>1. SetAsideBackup \/ NothingToBackUp \/ RenameToBackup \/ RemoveOldBackup \/ OpenFile
        => ~WriteFile
    BY DEF SetAsideBackup, NothingToBackUp, RenameToBackup, RemoveOldBackup, OpenFile,
           WriteFile, InStore
  <2>2. CASE UNCHANGED disk
    BY <2>2, DiskStays
  <2>3. CASE ~WriteFile
    BY <1>a, <2>3, SavedStep DEF Next, Store
  <2>. QED  BY <2>1, <2>2, <2>3 DEF WriteFails
<1>2. phase' # "verify" \/ disk'[At("file")] = Torn
  <2>1. WriteFails => disk'[At("file")] = Torn
    BY <1>a DEF WriteFails, InStore, StoreInv
  <2>. QED
    BY <2>1
    DEF SetAsideBackup, NothingToBackUp, RenameToBackup, RemoveOldBackup, OpenFile, StoreStep
<1>3. /\ pending \in ConfLeft /\ SavePointDue => ~InPlace("conf")'
      /\ pending \in PrngNext /\ SavePointDue => ~InPlace("prng")'
  <2>1. /\ SavePointDue /\ pending \in ConfLeft => At("file") = <<"conf", SAVE, "file">>
        /\ SavePointDue /\ pending \in PrngNext => At("file") = <<"prng", SAVE, "file">>
    BY <1>a, <1>0, HeadIsSave DEF At
  <2>. QED  BY <1>2, <2>1 DEF InPlace, IsWhole, Torn, Content
<1>4. ConfSaved' = ConfSaved /\ PrngSaved' = PrngSaved
  <2>1. /\ ConfSaved <=> SavePointDue /\ pending \notin ConfLeft
        /\ PrngSaved <=> SavePointDue /\ pending \in NoneLeft /\ pending \notin PrngNext
    BY <1>0 DEF ConfSaved, PrngSaved, InPlace
  <2>2. /\ ConfSaved' <=> SavePointDue /\ pending \notin ConfLeft
        /\ PrngSaved' <=> SavePointDue /\ pending \in NoneLeft /\ pending \notin PrngNext
    BY <1>0, <1>3, PartsStay DEF ConfSaved, PrngSaved
  <2>. QED  BY <2>1, <2>2 DEF ConfSaved, PrngSaved
<1>5. PrngRecent' /\ ConfFollows'
  BY <1>0, <1>1, <1>4, NothingPut
<1>6. Keeps'
  BY <1>0, KeepsInStore
<1>7. FailureCounted'
  <2>1. CASE WriteFails
    <3>1. faults' = faults + 1
      BY <2>1 DEF WriteFails
    <3>2. Allowance' = Allowance + Interval
      BY <3>1, AllowanceStep
    <3>3. /\ Len(chain) \in Nat /\ stream \in Nat /\ Allowance \in Nat /\ Interval \in Nat
          /\ Len(chain) <= stream + Allowance
      BY <1>0, Numeric DEF SaveInv, Running, Keeps, Behind
    <3>4. Len(chain) + Interval <= stream + Allowance'
      BY <3>2, <3>3
    <3>5. Interval' = Interval
      BY DEF Interval
    <3>. QED  BY <1>0, <3>4, <3>5 DEF FailureCounted
  <2>2. CASE phase' # "verify"
    BY <2>2 DEF FailureCounted
  <2>. QED
    BY <2>1, <2>2
    DEF SetAsideBackup, NothingToBackUp, RenameToBackup, RemoveOldBackup, OpenFile, StoreStep
<1>. QED  BY <1>5, <1>6, <1>7 DEF Running

\* Once the file is put in place its newest copy is of the present trajectory.
LEMMA WriteRuns ==
    ASSUME Resumed, SaveInv, WriteFile
    PROVE  Running'
<1>a. StoreTypes /\ StoreInv /\ SaveTypes /\ PendingInOrder /\ SavedForm
  BY DEF SaveInv
<1>0. /\ pc = "save" /\ pending # <<>> /\ phase = "write" /\ phase' = "verify"
      /\ UNCHANGED <<pc, pending, iteration, thermalizeTo, chain, stream, faults>>
      /\ "conf" \in Kinds /\ "prng" \in Kinds /\ iteration \in Nat
  BY <1>a DEF WriteFile, InStore, StoreStep, processVars, Kinds, SaveTypes, LoopTypes
<1>1. Keeps'
  BY <1>0, KeepsInStore
<1>2. FailureCounted'
  <2>1. Kind' = Kind /\ Number' = Number
    BY <1>0 DEF Kind, Number
  <2>2. disk'[At("file")] = Snapshot(Kind)
    BY <1>a, <1>0, HeadIsFile DEF WriteFile
  <2>3. IsWhole(Kind, Number, "file")'
    BY <2>1, <2>2 DEF IsWhole, At, Snapshot, Content
  <2>. QED  BY <1>0, <2>3 DEF FailureCounted
<1>3. PrngRecent /\ ConfFollows /\ Keeps
  BY <1>0 DEF SaveInv, Running
<1>4. /\ ConfSaved <=> SavePointDue /\ pending \notin ConfLeft
      /\ PrngSaved <=> SavePointDue /\ pending \in NoneLeft /\ pending \notin PrngNext
  BY <1>0 DEF ConfSaved, PrngSaved, InPlace
<1>5. Len(chain) = iteration + 1
  BY <1>0, <1>3 DEF Keeps, Done
<1>6. CASE SavePointDue /\ pending \in ConfLeft
  <2>1. <<Kind, Number>> = <<"conf", SAVE>>
    BY <1>a, <1>0, <1>6, HeadIsSave
  <2>2. Saved("conf")' = {Snapshot("conf")} /\ IsWhole("conf", SAVE, "file")'
    BY <1>a, <1>0, <2>1, NewestWritten
  <2>3. Saved("prng")' \subseteq Saved("prng")
    BY <1>a, <1>0, <2>1, SavedStep DEF Next, Store
  <2>4. pending \notin PrngNext \cup NoneLeft
    BY <1>0, <1>6, PartsDiffer
  <2>5. ConfSaved' /\ ~PrngSaved' /\ ~PrngSaved
    BY <1>0, <1>6, <2>2, <2>4, PartsStay DEF ConfSaved, PrngSaved, InPlace
  <2>6. ConfFollows'
    <3>1. Snapshot("conf").number = iteration + 1
      BY DEF Snapshot, Content
    <3>. QED  BY <1>0, <1>5, <2>2, <2>5, <3>1 DEF ConfFollows
  <2>7. PrngRecent'
    <3>1. \A x : Recent(Then(x))' <=> Recent(Then(x))
      BY <1>0 DEF Then, Recent
    <3>. QED  BY <1>0, <1>3, <2>3, <2>5, <3>1 DEF PrngRecent
  <2>. QED  BY <1>1, <1>2, <2>6, <2>7 DEF Running
<1>7. CASE SavePointDue /\ pending \in PrngNext
  <2>1. <<Kind, Number>> = <<"prng", SAVE>>
    BY <1>a, <1>0, <1>7, HeadIsSave
  <2>2. Saved("prng")' = {Snapshot("prng")} /\ IsWhole("prng", SAVE, "file")'
    BY <1>a, <1>0, <2>1, NewestWritten
  <2>3. Saved("conf")' \subseteq Saved("conf")
    BY <1>a, <1>0, <2>1, SavedStep DEF Next, Store
  <2>4. pending \notin ConfLeft
    BY <1>0, <1>7, PartsDiffer
  <2>5. ConfSaved' /\ PrngSaved' /\ ConfSaved
    BY <1>0, <1>7, <2>2, <2>4, PartsStay DEF ConfSaved, PrngSaved, InPlace
  <2>6. ConfFollows'
    BY <1>0, <1>3, <2>3, <2>5 DEF ConfFollows
  <2>7. PrngRecent'
    <3>1. Snapshot("prng").stream = stream /\ stream <= stream
      BY Numeric DEF Snapshot, Content
    <3>. QED  BY <1>0, <2>2, <2>5, <3>1 DEF PrngRecent
  <2>. QED  BY <1>1, <1>2, <2>6, <2>7 DEF Running
<1>8. CASE ~(SavePointDue /\ pending \in ConfLeft \cup PrngNext)
  <2>1. \A k \in Kinds : <<Kind, Number>> # <<k, SAVE>>
    BY <1>a, <1>0, <1>8, HeadIsSave DEF Kinds
  <2>2. \A k \in Kinds : Saved(k)' \subseteq Saved(k)
    BY <1>a, <2>1, SavedStep DEF Next, Store
  <2>3. ConfSaved' = ConfSaved /\ PrngSaved' = PrngSaved
    <3>1. /\ ConfSaved' <=> SavePointDue /\ pending \notin ConfLeft
          /\ PrngSaved' <=> SavePointDue /\ pending \in NoneLeft /\ pending \notin PrngNext
      BY <1>0, <1>8, PartsStay DEF ConfSaved, PrngSaved
    <3>. QED  BY <1>4, <3>1 DEF ConfSaved, PrngSaved
  <2>4. PrngRecent' /\ ConfFollows'
    BY <1>0, <2>2, <2>3, NothingPut
  <2>. QED  BY <1>1, <1>2, <2>4 DEF Running
<1>. QED  BY <1>6, <1>7, <1>8

\* A store that has been verified is done.
LEMMA VerifyRuns ==
    ASSUME Resumed, SaveInv, VerifyWritingWasSuccessful
    PROVE  Running'
<1>a. StoreTypes /\ StoreInv /\ SaveTypes /\ PendingInOrder /\ SavedForm
  BY DEF SaveInv
<1>0. /\ pc = "save" /\ pending # <<>> /\ phase = "verify" /\ phase' = "begin"
      /\ IsWhole(Kind, Number, "file") /\ pending' = Tail(pending)
      /\ UNCHANGED <<disk, pc, iteration, thermalizeTo, chain, stream, faults>>
      /\ iteration \in Nat
  BY <1>a
  DEF VerifyWritingWasSuccessful, MayReadAsWritten, InStore, processVars, SaveTypes, LoopTypes, Resumed
<1>1. Keeps' /\ FailureCounted'
  BY <1>0, KeepsInStore DEF FailureCounted
<1>2. \A k \in Kinds : Saved(k)' \subseteq Saved(k)
  BY <1>0, DiskStays
<1>3. /\ SavePointDue /\ pending \in ConfLeft => InPlace("conf")
      /\ SavePointDue /\ pending \in PrngNext => InPlace("prng")
  BY <1>a, <1>0, HeadIsSave DEF InPlace
<1>4. /\ ConfSaved <=> SavePointDue
      /\ PrngSaved <=> SavePointDue /\ pending \in NoneLeft \cup PrngNext
  BY <1>0, <1>3 DEF ConfSaved, PrngSaved
<1>5. SavePointDue => /\ Tail(pending) \notin ConfLeft
                      /\ Tail(pending) \in NoneLeft <=> pending \in NoneLeft \cup PrngNext
  <2>1. /\ SavePointDue =>
             pending \in ConfLeft \cup Halfway \cup PrngNext \cup NoneLeft
        /\ pending \in ConfLeft => Tail(pending) \in Halfway \cup PrngNext
        /\ pending \in Halfway => Tail(pending) \in PrngNext
        /\ pending \in PrngNext \cup NoneLeft => Tail(pending) \in NoneLeft
    BY <1>a, <1>0, Heads DEF PendingInOrder
  <2>2. /\ Tail(pending) \in Halfway \cup PrngNext \cup NoneLeft =>
             Tail(pending) \notin ConfLeft
        /\ Tail(pending) \in Halfway \cup PrngNext => Tail(pending) \notin NoneLeft
    <3>1. (iteration \in Nat)'
      BY <1>0
    <3>2. (/\ pending \in ConfLeft => pending \notin Halfway \cup PrngNext \cup NoneLeft
           /\ pending \in Halfway => pending \notin PrngNext \cup NoneLeft
           /\ pending \in PrngNext => pending \notin NoneLeft)'
      BY <3>1, PartsDiffer, PTL
    <3>. QED  BY <1>0, <3>2, PartsStay
  <2>3. pending \in ConfLeft \cup Halfway => pending \notin NoneLeft \cup PrngNext
    BY <1>0, PartsDiffer
  <2>. QED  BY <2>1, <2>2, <2>3
<1>6. ConfSaved' = ConfSaved /\ PrngSaved' = PrngSaved
  <2>1. /\ ConfSaved' <=> SavePointDue
        /\ PrngSaved' <=> SavePointDue /\ pending \in NoneLeft \cup PrngNext
    <3>1. SavePointDue /\ Tail(pending) \in NoneLeft => Tail(pending) \notin PrngNext
      <4>1. (iteration \in Nat)'
        BY <1>0
      <4>2. (pending \in PrngNext => pending \notin NoneLeft)'
        BY <4>1, PartsDiffer, PTL
      <4>. QED  BY <1>0, <4>2, PartsStay
    <3>. QED  BY <1>0, <1>5, <3>1, PartsStay DEF ConfSaved, PrngSaved, InPlace
  <2>. QED  BY <1>4, <2>1 DEF ConfSaved, PrngSaved
<1>7. PrngRecent' /\ ConfFollows'
  BY <1>0, <1>2, <1>6, NothingPut
<1>. QED  BY <1>1, <1>7 DEF Running

\* Nothing changes where nothing happens.
LEMMA StutterRuns ==
    ASSUME Resumed, SaveInv, pc # "down", UNCHANGED vars
    PROVE  Running'
<1>0. UNCHANGED <<disk, pc, phase, pending, iteration, thermalizeTo, chain, stream, faults>>
  BY DEF vars
<1>1. Keeps'
  BY <1>0, KeepsInStore
<1>2. FailureCounted'
  BY <1>0, AllowanceStep DEF SaveInv, Running, FailureCounted, IsWhole, Kind, Number, Interval
<1>3. \A k \in Kinds : Saved(k)' \subseteq Saved(k)
  BY <1>0, DiskStays
<1>4. ConfSaved' = ConfSaved /\ PrngSaved' = PrngSaved
  BY <1>0, PartsStay DEF ConfSaved, PrngSaved, InPlace, IsWhole
<1>5. PrngRecent' /\ ConfFollows'
  BY <1>0, <1>3, <1>4, NothingPut
<1>. QED  BY <1>1, <1>2, <1>5 DEF Running

------------------------------------------------------------------------------
(* What the runs check, for every value of the constants *)

\* Before the first start there is nothing to agree.
LEMMA SaveInit ==
    ASSUME Resumed, GenerationInit
    PROVE  SaveInv
<1> USE GenerationAssumption DEF GenerationAssumption, GenerationInit
<1>1. StoreTypes
  BY InitEstablishes, StoreTypesHold
<1>2. StoreInv
  BY DEF StoreInv
<1>3. SaveTypes
  BY DEF SaveTypes, LoopTypes
<1>4. PendingInOrder /\ Running
  BY DEF PendingInOrder, Running
<1>5. Saved("conf") = {} /\ Saved("prng") = {}
  <2>1. \A k \in Kinds, s \in Slots : disk[<<k, SAVE, s>>] = Absent
    BY DEF Files, Numbers
  <2>2. Absent.state # "whole"
    BY DEF Absent, Content
  <2>3. \A k \in Kinds, s \in Slots : ~Newest(k, s)
    BY <2>1, <2>2 DEF Newest, IsWhole
  <2>. QED  BY <2>3 DEF Saved, Kinds
<1>6. SavedForm /\ Stopped(Allowance)
  BY <1>5 DEF SavedForm, Stopped
<1>. QED  BY <1>1, <1>2, <1>3, <1>4, <1>6 DEF SaveInv

\* Every step of a run that continues from the save files.
LEMMA SaveStep ==
    ASSUME Resumed, SaveInv, [Next]_vars
    PROVE  SaveInv'
<1>a. StoreTypes /\ StoreInv /\ SaveTypes /\ PendingInOrder
  BY DEF SaveInv
<1>1. StoreTypes' /\ StoreInv' /\ PendingInOrder' /\ SavedForm'
  BY <1>a, StoreTypesStep, StoreInvStep, PendingStep, SavedFormStep
<1>2. SaveTypes'
  BY <1>a, StartTypes, OtherTypes DEF Next
<1>3. Running'
  <2>1. CASE pc' = "down"
    BY <2>1 DEF Running
  <2>2. CASE pc' # "down" /\ Start
    BY <2>2, StartRuns
  <2>3. CASE pc' # "down" /\ Loop
    <3>1. ~ThermalizationNotImplemented /\ ~Finish /\ pc # "down"
      BY <2>3
      DEF Loop, Thermalize, ThermalizationNotImplemented, ThermalizationDone, Generate,
          PerformOnlineMeasurements, NextIteration, Finish
    <3>. QED  BY <2>3, <3>1, LoopRuns, NextIterationRuns DEF Loop
  <2>4. CASE pc' # "down" /\ Store
    <3>1. ~WritingNotSuccessful
      BY <2>4 DEF WritingNotSuccessful
    <3>. QED  BY <2>4, <3>1, PreparesRuns, WriteRuns, VerifyRuns DEF Store
  <2>5. CASE pc' # "down" /\ UNCHANGED vars
    <3>1. pc # "down"
      BY <2>5 DEF vars
    <3>. QED  BY <2>5, <3>1, StutterRuns
  <2>6. ~(pc' # "down" /\ Crash)
    BY DEF Crash
  <2>. QED  BY <2>1, <2>2, <2>3, <2>4, <2>5, <2>6 DEF Next
<1>4. (pc = "down" => Stopped(Allowance))'
  BY StoppedStep
<1>. QED  BY <1>1, <1>2, <1>3, <1>4 DEF SaveInv

\* The inductive invariant holds in every behaviour.
THEOREM SaveInvariant ==
    ASSUME Resumed
    PROVE  Spec => []SaveInv
<1>1. GenerationInit => SaveInv
  BY SaveInit
<1>2. SaveInv /\ [Next]_vars => SaveInv'
  BY SaveStep
<1>. QED  BY <1>1, <1>2, PTL DEF Spec

\* A restart from conf.save and prng.save never meets a generator ahead of the
\* gauge field, and one behind it by at most what lies between two saves for
\* each interruption: generate() saves the gauge field first.
THEOREM GeneratorIsNeverAhead ==
    ASSUME Resumed
    PROVE  Spec => []GeneratorNeverAhead
<1>1. SaveInv => GeneratorNeverAhead
  <2> SUFFICES ASSUME SaveInv, pc # "down"
               PROVE  /\ stream <= Len(chain)
                      /\ stream >= Len(chain)
                           - faults * (SavePointFrequency + LongestThermalization)
    BY DEF GeneratorNeverAhead
  <2>1. stream <= Len(chain) /\ Len(chain) <= stream + Allowance
    BY DEF SaveInv, Running, Keeps, Behind
  <2>2. Len(chain) \in Nat /\ stream \in Nat /\ Allowance \in Nat
    BY Numeric
  <2>3. stream >= Len(chain) - Allowance
    BY <2>1, <2>2
  <2>. QED  BY <2>1, <2>3 DEF Allowance, Interval
<1>. QED  BY <1>1, SaveInvariant, PTL

\* The renaming keeps the last whole copy of the save files as well, except
\* where a torn file had been moved over the backup (PRNG::store,
\* LimeFileWriter).
THEOREM LastSaveIsAlwaysKept ==
    ASSUME Resumed
    PROVE  Spec => LastCopyIsKept
<1>1. SaveInv /\ [Next]_vars =>
        [\A k \in Kinds, n \in Numbers :
            (HasCopy(k, n) /\ ~HasCopy(k, n)') => disk[<<k, n, "backup">>] = Torn]_vars
  BY StepKeepsLastCopy DEF SaveInv
<1>. QED  BY <1>1, SaveInvariant, PTL DEF Spec, LastCopyIsKept
=============================================================================
