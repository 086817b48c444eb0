----------------------------- MODULE HaloQueues -----------------------------
(***************************************************************************)
(* The halo exchange as the devices execute it.  The host enqueues kernels *)
(* and copies into in-order command queues and does not wait for them; the *)
(* links synchronise the queues through events.  A link uses the queue of  *)
(* its source device to load, that of its destination device to dump, and, *)
(* except for OclCopy, a queue of its own for the transfer in between.     *)
(*                                                                         *)
(* The host repeats rounds: a kernel gives the main rows of a field a new  *)
(* value, the halo is exchanged, and a kernel reads the halo; the scalar   *)
(* product of two fields may follow, which the host sums up over the       *)
(* devices and a kernel goes on to use.  A buffer holds the number of the  *)
(* round whose value it contains.  The platform may execute any command    *)
(* that is enqueued, but only those that were flushed are sure to be       *)
(* executed.                                                               *)
(*                                                                         *)
(* Operators named Wrong_... are not part of the model: each is a          *)
(* plausible mistake in the definition that follows it, there to show that *)
(* the properties notice.                                                  *)
(***************************************************************************)
EXTENDS HaloGeometry, Sequences, FiniteSets

CONSTANTS
    ASYNC,       \* built with ASYNC_HALO_UPDATES
    DIRECTGMA,   \* built with the headers DirectGMA needs
    BothDirections, \* FALSE to look at the up links only
    MaxRounds    \* bound: rounds the host enqueues before it ends

ASSUME BuildAssumption == ASYNC \in BOOLEAN /\ DIRECTGMA \in BOOLEAN

ASSUME RoundAssumption == MaxRounds \in Nat \ {0} /\ BothDirections \in BOOLEAN

VARIABLES
    method,      \* how each link copies; never changes
    queue,       \* commands enqueued and not yet executed, per queue
    submitted,   \* how many of them are flushed
    event,       \* load_event, transfer_event, ... of each link, as the
                 \* round whose command the event belongs to (0: no event)
    content,     \* contents of the buffers
    pc, round    \* the host: its next call, and the round it belongs to

vars == <<method, queue, submitted, event, content, pc, round>>

Dirs == IF BothDirections THEN <<"UP", "DOWN">> ELSE <<"UP">>

Neighbour(d, dir) ==
    IF dir = "UP" THEN upper_grid_neighbour(d) ELSE lower_grid_neighbour(d)

(* System::get_transfer: one link per pair of neighbours and direction.    *)
Links == {l \in [from : Devices, to : Devices, id : {Dirs[k] : k \in DOMAIN Dirs}] :
              l.to = Neighbour(l.from, l.id)}

EventKinds == {"load", "transfer", "back", "dump"}
Kernels == {"write", "inner", "boundary", "reduce", "use"}
CommandKinds == EventKinds \cup Kernels \cup {"map", "unmap"}

(* A place is a link, or a device by itself.                               *)
Own(d) == [from |-> d, to |-> d, id |-> "OWN"]
OwnPlaces == {Own(d) : d \in Devices}

Queues == [of : {"device"}, at : OwnPlaces]
          \cup [of : {"transfer", "back"}, at : Links]
DeviceQueue(d) == [of |-> "device", at |-> Own(d)]
DeviceQueues == {DeviceQueue(d) : d \in Devices}

Main(d) == [buffer |-> "main", at |-> Own(d)]
Scalar(d) == [buffer |-> "scalar", at |-> Own(d)]
Halo(l) == [buffer |-> "halo", at |-> l]
SrcCache(l) == [buffer |-> "src_cache", at |-> l]
DestCache(l) == [buffer |-> "dest_cache", at |-> l]
Buffers == [buffer : {"main", "scalar"}, at : OwnPlaces]
           \cup [buffer : {"halo", "src_cache", "dest_cache"}, at : Links]

(* create_transfer: the standard method depends on the build, and a        *)
(* benchmark decides for every link by itself whether DirectGMA is faster. *)
StandardMethod == IF ASYNC THEN "AsyncOclCopy" ELSE "OclCopy"
Methods == {StandardMethod} \cup (IF DIRECTGMA THEN {"DirectGMA"} ELSE {})

(* OclCopy has a single transfer buffer.                                   *)
DumpedFrom(l) == IF method[l] = "OclCopy" THEN SrcCache(l) ELSE DestCache(l)

Command(kind, at, n) == [kind |-> kind, at |-> at, n |-> n]

(* The queue a command is put into.                                        *)
QueueOf(c) ==
    CASE c.kind = "load" -> DeviceQueue(c.at.from)
      [] c.kind = "dump" -> DeviceQueue(c.at.to)
      [] c.kind \in {"transfer", "back"} -> [of |-> c.kind, at |-> c.at]
      [] OTHER -> DeviceQueue(c.at.from)

(* A scalar has the values of the devices or, summed up, that of a round.  *)
Undefined == -1
Sum(n) == MaxRounds + n
Versions == Undefined .. Sum(MaxRounds)

(* What a command reads and writes.                                        *)
Reads(c) ==
    CASE c.kind \in {"write", "back", "map", "unmap"} -> {}
      [] c.kind = "load"     -> {Main(c.at.from)}
      [] c.kind = "transfer" -> {SrcCache(c.at)}
      [] c.kind = "dump"     -> {DumpedFrom(c.at)}
      [] c.kind \in {"inner", "reduce"} -> {Main(c.at.from)}
      [] c.kind = "use"      -> {Main(c.at.from), Scalar(c.at.from)}
      [] c.kind = "boundary" -> {Main(c.at.from)} \cup {Halo(l) : l \in {k \in Links : k.to = c.at.to}}

Writes(c) ==
    CASE c.kind = "write"            -> {Main(c.at.from)}
      [] c.kind \in {"load", "back"} -> {SrcCache(c.at)}
      [] c.kind = "transfer"         -> {DestCache(c.at)}
      [] c.kind = "dump"             -> {Halo(c.at)}
      [] c.kind = "reduce"           -> {Scalar(c.at.from)}
      [] c.kind \in {"inner", "boundary", "use", "map", "unmap"} -> {}
-----------------------------------------------------------------------------
(***************************************************************************)
(* The host's calls.  Every call is an action; the calls of a round are    *)
(* made in the order of Program.                                           *)
(***************************************************************************)
Calls(call, LinkOf(_, _)) ==
    [k \in 1 .. GridSize * Len(Dirs) |->
        [call |-> call, at |-> LinkOf((k - 1) \div Len(Dirs), Dirs[((k - 1) % Len(Dirs)) + 1])]]

OnDevices(call) == [k \in 1 .. GridSize |-> [call |-> call, at |-> Own(k - 1)]]

Outgoing(d, dir) == [from |-> d, to |-> Neighbour(d, dir), id |-> dir]

(* The lower halo comes over the up link of the lower neighbour.           *)
Incoming(d, dir) ==
    [from |-> Neighbour(d, IF dir = "UP" THEN "DOWN" ELSE "UP"), to |-> d, id |-> dir]

initialize_update_halo_soa ==
    Calls("load", Outgoing) \o OnDevices("flush") \o Calls("transfer", Outgoing)

finalize_update_halo_soa == Calls("dump", Incoming)

(* One round: the field is overwritten, and dslash uses it.  Only the      *)
(* asynchronous dslash computes between the two halves of the exchange.    *)
Program ==
    OnDevices("write")
    \o initialize_update_halo_soa
    \o (IF ASYNC THEN OnDevices("inner") ELSE << >>)
    \o finalize_update_halo_soa
    \o OnDevices("boundary")

(* scalar_product: every device sums up its part, the host maps these      *)
(* values, waits for the events of the maps, replaces them all by their    *)
(* sum and unmaps them; a kernel works with the scalar.                    *)
scalar_product ==
    OnDevices("reduce") \o OnDevices("map")
    \o <<[call |-> "wait", at |-> Own(0)], [call |-> "sum", at |-> Own(0)]>>
    \o OnDevices("unmap") \o OnDevices("use")

Script == Program \o <<[call |-> "end", at |-> Own(0)]>> \o scalar_product

EndOfProgram == Len(Program) + 1
EndOfScript == Len(Script) + 1
Wait(d) == EndOfScript + 1 + d
Done == EndOfScript + GridSize + 1

Init ==
    /\ method \in [Links -> Methods]
    /\ queue = [q \in Queues |-> << >>]
    /\ submitted = [q \in Queues |-> 0]
    /\ event = [l \in Links |-> [k \in EventKinds |-> 0]]
    /\ content = [b \in Buffers |-> 0]
    /\ pc = 1
    /\ round = 1

At(call) == pc <= Len(Script) /\ Script[pc].call = call
Calling(call) == At(call) /\ pc' = pc + 1
Place == Script[pc].at

(* get_raw_events: the valid ones among the given events of a link.        *)
Events(l, kinds) ==
    {Command(k, l, event[l][k]) : k \in {m \in kinds : event[l][m] # 0}}

Entry(kind, at, waits) == [cmd |-> Command(kind, at, round), waits |-> waits]

Enqueue(q, entry, flushed) ==
    /\ queue' = [queue EXCEPT ![q] = Append(@, entry)]
    /\ submitted' = IF flushed THEN [submitted EXCEPT ![q] = Len(queue[q]) + 1]
                    ELSE submitted

(* Device::enqueue_kernel; Buffer::map and the destructor of its handle    *)
(* put their commands into the same queues.                                *)
EnqueueKernel ==
    /\ \E kind \in Kernels \cup {"map", "unmap"} :
        /\ Calling(kind)
        /\ Enqueue(DeviceQueue(Place.from), Entry(kind, Place, {}), FALSE)
    /\ UNCHANGED <<method, event, content, round>>

(* Device::flush *)
flush ==
    /\ Calling("flush")
    /\ submitted' = [submitted EXCEPT ![DeviceQueue(Place.from)] =
                        Len(queue[DeviceQueue(Place.from)])]
    /\ UNCHANGED <<method, queue, event, content, round>>

(* Transfer::load.  AsyncOclCopy leaves the flush to its caller.           *)

(* Mistake: a load does not wait until the cache has been read. *)
Wrong_LoadWaits == [OclCopy      |-> {"load"},
                    AsyncOclCopy |-> {"load", "transfer"},
                    DirectGMA    |-> {"load"}]

LoadWaits == [OclCopy      |-> {"load", "dump"},
              AsyncOclCopy |-> {"load", "transfer", "back"},
              DirectGMA    |-> {"load", "transfer"}]

load ==
    /\ Calling("load")
    /\ Enqueue(DeviceQueue(Place.from),
               Entry("load", Place, Events(Place, LoadWaits[method[Place]])),
               method[Place] # "AsyncOclCopy")
    /\ event' = [event EXCEPT ![Place].load = round]
    /\ UNCHANGED <<method, content, round>>

(* Transfer::transfer: nothing to do for OclCopy.                          *)
transfer_OclCopy ==
    /\ Calling("transfer") /\ method[Place] = "OclCopy"
    /\ UNCHANGED <<method, queue, submitted, event, content, round>>

(* Mistake: a transfer does not wait until the last one has been dumped. *)
Wrong_TransferWaits == [AsyncOclCopy |-> {"load", "transfer", "back"},
                        DirectGMA    |-> {"load", "transfer"}]

TransferWaits == [AsyncOclCopy |-> {"load", "transfer", "dump", "back"},
                  DirectGMA    |-> {"load", "transfer", "dump"}]

(* Mistake: the queue is not flushed. *)
Wrong_transfer_DirectGMA ==
    /\ Calling("transfer") /\ method[Place] = "DirectGMA"
    /\ Enqueue([of |-> "transfer", at |-> Place],
               Entry("transfer", Place, Events(Place, TransferWaits[method[Place]])),
               FALSE)
    /\ event' = [event EXCEPT ![Place].transfer = round]
    /\ UNCHANGED <<method, content, round>>

transfer_DirectGMA ==
    /\ Calling("transfer") /\ method[Place] = "DirectGMA"
    /\ Enqueue([of |-> "transfer", at |-> Place],
               Entry("transfer", Place, Events(Place, TransferWaits[method[Place]])),
               TRUE)
    /\ event' = [event EXCEPT ![Place].transfer = round]
    /\ UNCHANGED <<method, content, round>>

(* AsyncOclCopy hands the source cache back to the source device, which    *)
(* leaves its content undefined.  It flushes neither of its queues.        *)
transfer_AsyncOclCopy ==
    /\ Calling("transfer") /\ method[Place] = "AsyncOclCopy"
    /\ queue' = [queue EXCEPT
        ![[of |-> "transfer", at |-> Place]] =
            Append(@, Entry("transfer", Place, Events(Place, TransferWaits[method[Place]]))),
        ![[of |-> "back", at |-> Place]] =
            Append(@, Entry("back", Place, Events(Place, {"load", "back"})
                                           \cup {Command("transfer", Place, round)}))]
    /\ event' = [event EXCEPT ![Place].transfer = round, ![Place].back = round]
    /\ UNCHANGED <<method, submitted, content, round>>

(* Transfer::dump *)

(* Mistake: a dump does not wait for the data. *)
Wrong_DumpWaits == [OclCopy      |-> {"dump"},
                    AsyncOclCopy |-> {"dump"},
                    DirectGMA    |-> {"dump"}]

DumpWaits == [OclCopy      |-> {"load", "dump"},
              AsyncOclCopy |-> {"transfer", "dump"},
              DirectGMA    |-> {"transfer", "dump"}]

(* Mistake: the copy is given to the device the data come from. *)
Wrong_dump ==
    /\ Calling("dump")
    /\ Enqueue(DeviceQueue(Place.from),
               Entry("dump", Place, Events(Place, DumpWaits[method[Place]])),
               method[Place] # "AsyncOclCopy")
    /\ event' = [event EXCEPT ![Place].dump = round]
    /\ UNCHANGED <<method, content, round>>

dump ==
    /\ Calling("dump")
    /\ Enqueue(DeviceQueue(Place.to),
               Entry("dump", Place, Events(Place, DumpWaits[method[Place]])),
               method[Place] # "AsyncOclCopy")
    /\ event' = [event EXCEPT ![Place].dump = round]
    /\ UNCHANGED <<method, content, round>>

(* hardware::wait, which flushes the queues it waits for.                   *)
wait_for_maps ==
    /\ Calling("wait")
    /\ submitted' = [q \in Queues |-> IF q \in DeviceQueues THEN Len(queue[q]) ELSE submitted[q]]
    /\ UNCHANGED <<method, queue, event, content, round>>

Pending(c) == \E i \in DOMAIN queue[QueueOf(c)] : queue[QueueOf(c)][i].cmd = c

(* Mistake: only the first device is waited for. *)
Wrong_Mapped == ~Pending(Command("map", Own(0), round))

Mapped == \A d \in Devices : ~Pending(Command("map", Own(d), round))

(* Scalar::sum.  The sum is that of the round if all that is summed is. *)
sum ==
    /\ Calling("sum") /\ Mapped
    /\ content' = [b \in Buffers |->
                     IF b.buffer # "scalar" THEN content[b]
                     ELSE IF \A d \in Devices : content[Scalar(d)] = round THEN Sum(round)
                     ELSE Undefined]
    /\ UNCHANGED <<method, queue, submitted, event, round>>

(* The host goes on to a scalar product, or leaves it. *)
BeginScalarProduct ==
    /\ Calling("end")
    /\ UNCHANGED <<method, queue, submitted, event, content, round>>

EndOfRound == pc \in {EndOfProgram, EndOfScript}

(* The host goes on to the next round without waiting for this one.        *)
NextRound ==
    /\ EndOfRound /\ round < MaxRounds
    /\ pc' = 1
    /\ round' = round + 1
    /\ UNCHANGED <<method, queue, submitted, event, content>>

(* The host reads a result back from one device, a blocking call that      *)
(* flushes the queue of that device and waits for it to drain.             *)
synchronize(d) ==
    /\ EndOfRound
    /\ pc' = Wait(d)
    /\ submitted' = [submitted EXCEPT ![DeviceQueue(d)] = Len(queue[DeviceQueue(d)])]
    /\ UNCHANGED <<method, queue, event, content, round>>

Return(d) ==
    /\ pc = Wait(d)
    /\ queue[DeviceQueue(d)] = << >>
    /\ pc' = EndOfProgram
    /\ UNCHANGED <<method, queue, submitted, event, content, round>>

Finish ==
    /\ EndOfRound /\ round = MaxRounds
    /\ pc' = Done
    /\ UNCHANGED <<method, queue, submitted, event, content, round>>
-----------------------------------------------------------------------------
(***************************************************************************)
(* The devices                                                             *)
(***************************************************************************)
(* The queues are in order: the next command runs when the ones before it  *)
(* and those it waits for are complete.                                    *)
Ready(q) ==
    /\ queue[q] # << >>
    /\ \A c \in Head(queue[q]).waits : ~Pending(c)

NextCommand(q) == Head(queue[q]).cmd

Result(c) ==
    CASE c.kind = "write"    -> c.n
      [] c.kind = "load"     -> content[Main(c.at.from)]
      [] c.kind = "transfer" -> content[SrcCache(c.at)]
      [] c.kind = "back"     -> Undefined
      [] c.kind = "dump"     -> content[DumpedFrom(c.at)]
      [] c.kind = "reduce"   -> content[Main(c.at.from)]

Execute(q) ==
    /\ Ready(q)
    /\ content' = [b \in Buffers |->
                    IF b \in Writes(NextCommand(q)) THEN Result(NextCommand(q))
                    ELSE content[b]]
    /\ queue' = [queue EXCEPT ![q] = Tail(@)]
    /\ submitted' = [submitted EXCEPT ![q] = IF @ > 0 THEN @ - 1 ELSE 0]
    /\ UNCHANGED <<method, event, pc, round>>

(* A command that is sure to run some time.                                *)
ExecuteSubmitted(q) ==
    /\ submitted[q] > 0
    /\ Execute(q)

HostNext ==
    \/ EnqueueKernel \/ flush \/ load \/ dump
    \/ transfer_OclCopy \/ transfer_DirectGMA \/ transfer_AsyncOclCopy
    \/ wait_for_maps \/ sum
    \/ BeginScalarProduct \/ NextRound \/ Finish
    \/ \E d \in Devices : synchronize(d) \/ Return(d)

(* The host has ended and so have the devices.                             *)
Terminated ==
    /\ pc = Done /\ \A q \in Queues : queue[q] = << >>
    /\ UNCHANGED vars

Next == HostNext \/ (\E q \in Queues : Execute(q)) \/ Terminated

(* The host thread does not stop, and neither do the devices.              *)
Fairness == WF_vars(HostNext) /\ \A q \in Queues : WF_vars(ExecuteSubmitted(q))

Spec == Init /\ [][Next]_vars

FairSpec == Spec /\ Fairness
-----------------------------------------------------------------------------
(* Every command is in the queue of the device, or of the link, whose      *)
(* buffers it is to work on: get_src_device for a load, get_dest_device    *)
(* for a dump, transfer_queue and back_migration_queue in between.         *)
TypeOK ==
    /\ method \in [Links -> Methods]
    /\ \A q \in Queues : \A i \in DOMAIN queue[q] :
        /\ queue[q][i].cmd.kind \in CommandKinds
        /\ queue[q][i].cmd.n \in 1 .. MaxRounds
        /\ QueueOf(queue[q][i].cmd) = q
    /\ submitted \in [Queues -> Nat]
    /\ \A q \in Queues : submitted[q] <= Len(queue[q])
    /\ event \in [Links -> [EventKinds -> 0 .. MaxRounds]]
    /\ content \in [Buffers -> Versions]
    /\ pc \in 1 .. Done
    /\ round \in 1 .. MaxRounds

(* What a kernel of a round reads is of that round, whenever the devices   *)
(* come to it: the halos hold what the neighbours computed in that round,  *)
(* no copy of an earlier one, and none of a later one although the         *)
(* neighbour may be ahead (the event lists of AsyncOclCopy and DirectGMA); *)
(* and the scalars of all devices hold the sum over all devices (sum).     *)
KernelsReadTheirRound ==
    \A q \in DeviceQueues :
        Ready(q) => LET c == NextCommand(q)
                    IN c.kind \in Kernels =>
                         \A b \in Reads(c) :
                            content[b] = IF b.buffer = "scalar" THEN Sum(c.n) ELSE c.n

(* No two commands that may execute at the same time access the same       *)
(* buffer, unless both only read it; and none accesses a scalar while the  *)
(* host sums up.                                                           *)
NoConcurrentAccess ==
    /\ At("sum") /\ Mapped =>
        \A q \in Queues, d \in Devices :
            Ready(q) => Scalar(d) \notin Reads(NextCommand(q)) \cup Writes(NextCommand(q))
    /\ \A q, r \in Queues :
        (q # r /\ Ready(q) /\ Ready(r)) =>
            Writes(NextCommand(q)) \cap
                (Reads(NextCommand(r)) \cup Writes(NextCommand(r))) = {}

(* Every blocking call returns: the event lists and the flushes never      *)
(* leave the host waiting for a command that nobody executes.  The comment *)
(* in DirectGMA::transfer: "event and buffer will be used by other queues  *)
(* -> flush".                                                              *)
SynchronizeReturns ==
    /\ \A d \in Devices : (pc = Wait(d)) ~> (pc # Wait(d))
    /\ At("sum") ~> ~At("sum")

(***************************************************************************)
(* The links implement the promise of hardware::Transfer.                  *)
(***************************************************************************)
Completed(l, k) ==
    event[l][k] - Cardinality({i \in DOMAIN queue[QueueOf(Command(k, l, 0))] :
                        queue[QueueOf(Command(k, l, 0))][i].cmd.kind = k
                        /\ queue[QueueOf(Command(k, l, 0))][i].cmd.at = l})

Transferred(l) ==
    IF method[l] = "OclCopy" THEN Completed(l, "dump") ELSE Completed(l, "transfer")

InTransit(l) ==
    (IF Transferred(l) > Completed(l, "dump")
     THEN <<content[DestCache(l)]>> ELSE << >>)
    \o (IF Completed(l, "load") > Transferred(l)
        THEN <<content[SrcCache(l)]>> ELSE << >>)

Link == INSTANCE TransferLink WITH
    Sources <- Devices,
    SourceOf <- [l \in Links |-> l.from],
    Values <- Versions,
    Capacity <- 2,
    source <- [d \in Devices |-> content[Main(d)]],
    inTransit <- [l \in Links |-> InTransit(l)],
    destination <- [l \in Links |-> content[Halo(l)]]

(* Every command of the devices is a load, a dump, an overwrite or no step *)
(* at all of links that lose, repeat and mix up nothing (Transfer).        *)
LinksDeliverInOrder == Link!Spec
=============================================================================
