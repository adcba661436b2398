# A formal model of crabcraft

crabcraft runs WebAssembly workloads on ComputerCraft computers. A **gateway** keeps the
registry of deployed workloads and places them; **workers** are computers whose disks are slots,
one workload per disk; **clients** talk to the gateway only. All of it is single-threaded Lua with
coroutines on each computer, and rednet messages between computers.

This directory models the orchestration loop, the way of an invocation through it, the sessions of a
worker, and the C++ guests with their codec in TLA+, checks the models with TLC, and proves their
invariants, and that the codec gives back the values it is given, with TLAPS. Paths below are relative to the repository.

## 1. Inventory

| Component | State | Operations | Talks to | What is hard | What makes it correct |
|---|---|---|---|---|---|
| Gateway, `host/gateway.lua` | `registry` and its file, `workers` (view, states, last heard), `placements`, `cooldown`, `inflight` | register, heartbeat, deploy, remove, purge, update-workers, update-gateway, invoke, assign reply, invoke-reply, 5 s `reconcile` | workers and clients by rednet | everything but the registry is lost on restart; the view is a guess corrected by heartbeats; lost and late messages | only deployed workloads are placed; a restart loses no deploy; a tick settles the plan; a request is answered once |
| Worker, `host/worker.lua` | `slots` (meta, reactor, module, sessions, queue), two files per disk | assign, drain, boot recovery, heartbeat, update | gateway | a start yields for minutes while other coroutines touch the same slot; power loss between two writes | memory mirrors disk; an ok reply is true; a slot serves the workload it names |
| Cluster | links between the two | deploy to running, remove to gone, failure to recovery | | all of the above together | it converges when faults stop, and stays |
| Client library, `host/client.lua` | sequence number, cached gateway id | request with timeout, proxies | gateway | ids reused by the next program run; late answers | an answer belongs to its request |
| Mesh, `worker.lua:167-185` | `mesh_replies` | `mesh_call` | gateway, as a client | the deadline is looked at only on an event; cycles of calls | a call ends |
| Sessions, `worker.lua:328-393` | `sessions`, `sessq` | run, reset, cancel, drain | clients through the gateway | a queue dropped with jobs in it; tasks that outlive their queue | one answer for each job; one task for each session |
| Codec, `tools/crabgen/templates/cpp/crab.{hpp,cpp}` (in `guest/hello-cpp/gen`), `host/cmval.lua` | none | encode, decode | | two implementations, one strict and one lax; 64-bit integers in floating arithmetic; limits of every type | what a host writes arrives unchanged; nothing else is taken for a value of the type |
| C++ guest, `guest/hello-cpp`, `tools/crabgen/templates/cpp/mesh.cpp`, the generated wrappers | `Allocs` (pinned buffers), the static `LENBUF` | alloc, invoke, mesh call | its host; another workload | the memory outlives an invocation; a trap runs no destructor; an error is a string that must not be empty | no buffer is kept; an error is told as an error |
| sqlite guest, `guest/sqlite-c/main.c` | the database handle, a statement, a static buffer | exec | its host, SQLite (external) | every call of SQLite may fail, after rows were written | statements are finalized; an answer is a whole document or a message |
| Guest runtime, `host/runtime.lua` | memory of an instance | load, invoke, host call | wasmcraft engine (external) | an instance survives a failed call | each reply goes to its caller |
| crabgen projects, `tools/crabgen/src/project.rs` | the files of a project, `gen/MANIFEST` | new, regen, discover, check | file system | failure between two writes; an edit during generation | fresh means generated from this WIT |
| crabgen back ends, yaml, json, crb, guests, demos, dashboard drawing, amalgamation, tests | no protocol state | | | | |

The hazards, each at its line and with the properties that cover it, are in `PROJECT.json`.

## 2. Modules

| Module | Models | Notes |
|---|---|---|
| `Gateway` | `host/gateway.lua` | open: workers and clients may send any message they could build |
| `Worker` | `host/worker.lua` without invocations | open: the gateway may send any command |
| `Cluster` | both, over FIFO links, with budgeted requests and faults | `INSTANCE`s the two above |
| `Sessions` | the slot of a session workload in `host/worker.lua`: its queue, its task, one queue and coroutine for each session | open: any command, any outcome of a boot or a run |
| `Calls` | clients, the relay of `Gateway`, reactors with `mesh_call`, `Sessions`, an operator and a dashboard that meddle | `INSTANCE`s `Gateway` and `Sessions` |
| `Codec` | the C++ decoder and encoder, byte for byte | pure operators and recursive functions |
| `HostCodec` | `host/cmval.lua` where it differs | extends `Codec` |
| `Bindings` | the generated bindings of the C++ guest: parameters and results, function by function | extends `HostCodec` |
| `Guest` | a C++ guest and the host that invokes it | extends `Bindings` |
| `Sqlite` | `guest/sqlite-c/main.c` | extends `Codec` |
| `Services` | both guests, the client of each, and the mesh request between them | `INSTANCE`s `Guest` and `Sqlite` |
| `MCGateway`, `MCWorker`, `MCCluster`, `MCCalls`, `MCServices` | instances for TLC | |
| `GatewayProofs`, `WorkerProofs`, `ServicesProofs` | theorems about `Gateway`, `Worker` and `Services` | TLAPS |
| `CodecProofs`, `BindingsProofs` | theorems about the functions of `Codec`; of `Bindings`, and of `HostCodec` that reads their results | over every number, width, value and buffer; `ServicesProofs` extends both |
| `ClusterProofs` | theorems about `Cluster` | extends `Cluster`, and `INSTANCE`s the proofs of the two it composes |
| `CallsProofs`, `CopiesProofs` | theorems about `Calls`: its shape, its answers and who serves a queue; where a request is | `CallsProofs` `INSTANCE`s `GatewayProofs`; the other extends it |

Operators named `Judged`, `Adoptions`, ... sit beside variants commented *Mutant*: a plausible bug
at that place, used to show that a property notices it. No specification uses them.

**Gateway.** One action for each message handler and each tick: rednet handlers run to their end
before the next event, the only wait inside one being `http.get` in update-gateway (`mode`).
`registry` and `regfile` are the table and the file; `known`, `fresh`, `view` and `vstate` are
`workers`: has an entry, heard of in the last 20 s, `w.slots`, `w.states`. `placements` has
`worker`, `slot`, `state` and `hbm`, the count of contradicting heartbeats, which stops at 2
because the code only asks for `>= 2`. `reconcile` is one operator, `Reconcile`, in the order of the
code: drop (`Kept`, `Cooled`), adopt (`Adoptions`), collect garbage (`Garbage`), place
(`Assignments`), expire (`Overdue`). The order in which `pairs()` visits a table is not specified by
Lua, so every order's outcome is allowed. Clocks are abstracted to the three questions the code asks:
20 s since the last heartbeat, 60 s since a failed assignment, 120 s since a request. At the single
instant where exactly 20 s have passed, `> 20` and `< 20` are both false in the code; the model has no
such instant. Replies to deploy, remove and similar requests carry no state and are left out.

**Worker.** One action for each stretch of a coroutine between two yields. Tasks of one computer
interleave: the receiver, one task for each slot, the boot task, the timer. An assign is split at `http.get`
and where the engine compiles and instantiates (`AssignBegins`, `FetchArrives`, `StartEnds`, with
`FetchFails` and `StartFails`); the boot task in the same way (`BootVisits`, `BootStartEnds`,
`BootStartFails`). A handle is modelled by the assignment it was built from, and `workload.wasm` by
the assignment whose bytes it has, so that a slot serving the wrong workload can be seen. `Warmed` is what
`start_slot` may leave behind when other tasks changed its slot meanwhile. `PowerOffInstalling` is a
power loss between the two writes of an assign.

**Cluster.** The two composed. `GatewayHears` hands the head of a link to its handler; faults
(`Fail`) are crashes, reboots, torn writes, lost messages, failing fetches, starts and restarts, and a
worker that falls silent, `MaxFaults` of them of the kinds in `Faults`; an operator has
`MaxRequests` requests. The gateway's own update and invocations are not part of it.

**Sessions.** `queue`, `stage` and `held` are the slot: its commands, what its task does, whether
`s.meta` is set. `booted` is `s.sessions` (absent while drained), `sessq` is `s.sessq`, and `task`
the coroutines, which `kill_task` finds by the name of their session. A coroutine waits for a job,
boots an interpreter (`loadPicat`) or runs one; only there does it give way, so everything between is
one action. `own` remembers that the queue under the session's name is still the one the coroutine was
made for, which the code does not.

**Calls.** A request of a client goes through the gateway's `HandleInvoke` to the slot of its
workload and back (`HandleInvokeReply`, or `Overdue` after 120 s); a reactor runs one invocation at a
time (`run`), and its guest may call another workload in between: `mesh_call` is `MeshCall`,
`HearsMesh` (the receiver stores the reply and wakes whoever waits), `Deadline` (60 s have passed,
which by itself does nothing) and `Wake` (the loop looks at its deadline first). The worker is one
computer; the gateway already knows it and has placed everything on it.

**Codec and HostCodec.** A byte is a number and a buffer a sequence. A decoder gives a value and the
position after it, or `Fail`; `Then` is the early return of the generated code. `Uleb` and `Sleb`
find the last group of a number, check the bits above the width of the type, and sum the groups; UTF-8 is
checked as `Utf8Valid` does, by lead byte and code point. The host decodes numbers as floats
(`Rounded`) and checks no width. Buffers are what TLC enumerates; no text is modelled beyond its bytes.

**Bindings.** What a handler of hello-cpp decodes before it calls its function, part by part to the last
byte (`Params`), and what it encodes afterwards (`Result`), with the encoders of the values (`Encode`). They are
apart from the guest's state so that they can be proved about.

**Guest.** An invocation goes through `Invoke` (the host allocates name and parameters), `Dispatch`
(find the handler, decode, run), possibly `MeshReplies` and `Resume`, `Return`, and `Copies` (the host
copies `LENBUF`). `pins` is `Allocs`; `abandoned` is history: what was pinned when the guest trapped.
The functions are the two of hello-cpp, an echo for every kind of type, and two that ask another
workload, one through the wrapper the generator makes for `result<string, string>` and one for
`result<_, string>`. Error messages are one byte each.

**Sqlite.** `exec` from `uleb_get32` to `reply_result`: open once, prepare, refuse a second statement,
step, finalize. Which branch is taken is SQLite's choice among all it can answer. Statements and the
parts of a document are one byte each, so that a document cut short, or one with the rest of another
before it, can be told from a whole one.

**Services.** `relay` of the C++ guest asks the sqlite guest; the request (`mail`) may be lost, late or
disowned because its caller gave up or restarted, clients use both guests at the same time, and either
computer may restart. `report` asks a workload that answers as it likes within the wire format.

## 3. Runs

| Run | Checks | Instance | Shows |
|---|---|---|---|
| `gateway` | `TypeOK`, `PlacedIsRegistered`, `PlacedIsKnown`, `RegistryIsSaved`, `TickSettles`, `AdoptsBeforeAssigning` | 2 names, 2 workers, 1 slot each; 710,749 states | the control plane is consistent whatever it is told |
| `worker` | `TypeOK`, `MemoryMirrorsDisk`, `OkThenRunning` | 1 slot, 2 names, all three kinds; 367,244 states | one slot under any commands and power losses |
| `cluster_rests` | `TypeOK`, `StaysAtRest` | 2 names, 1 worker, 2 requests, 1 fault of any kind, no timing assumed; 1,192,350 states up to a swap of the names | rest is stable, also after contention for a slot; no deadlock |
| `cluster_converges` | `Convergence` | 1 name, 2 workers, 1 request, 1 fault (no failed restart); 216,430 states | the cluster recovers |
| `calls` | `TypeOK`, `OneCopy`, `QueueServed`, `AnsweredOnce`, `AskedEnds`, `SlotsServe` | 2 clients of sessions or of 2 reactors that call each other, 2 mesh calls, one fault, three troubles in all; 291,730 states | a request is worked on once and answered once; no queue is left unserved; every client hears; a cycle of mesh calls dissolves |
| `services` | `TypeOK`, `PinsReleased`, `FailuresAreTold`, `StatementsClosed`, `AnswersAreAwaited`, `Faithful`, `Unambiguous`, `WholeDocuments`, `WholeAnswers` | values around every limit of every type, damaged parameters, 4 addresses, 2 rows; 814,679 states | the two codecs agree; nothing leaks; answers are whole and go to who waits for them |
| `serves_its_name`, `phantoms_go`, `garbage_only`, `errors_are_errors`, `mesh_calls_end`, `one_coroutine` | one property each, violated, see below | | disagreements between code and documents |

**Bounds.** Two names and two workers are the least with which workloads compete, duplicates
arise and a workload moves. One slot for each worker makes slots scarce, which is where the
code is in trouble; slots of one worker share no state but the receiver. `MaxWire`: the
gateway steps only while no link holds more commands than that; one step may send
several. With 0 the gateway waits for its messages to be received (not for the commands to be
carried out: they wait in `queue`, at most `MaxQueue` of them before delivery stops). `MaxUp` bounds
messages in flight to the gateway when a heartbeat is sent. `MaxBeats` and `MaxLoads` bound the heartbeats
during one fetch and one start. `hbm` saturates at 2. In `gateway` the environment is the most general
one, so no bound on faults is needed there; symmetry over names and workers is used only with invariants
and action properties, never with liveness. `CHECK_DEADLOCK` is left on except in the runs of `Calls`,
where requests, mesh calls and troubles are used up and the system then really rests.

In `calls`, `Targets` are the two extremes (both clients use the sessions, or each a reactor of its
own, the reactors calling each other); `MaxTroubles` = 3 counts the operator's requests, the
cancellations and the one fault together: remove, deploy again and one more is what the stale
coroutine of `OneCoroutine` needs. `Tasks` has one coroutine more than `Names` has sessions, for that
stale one. A guest calls once in an invocation. The gateway restarts only while it relays a mesh call or
every client's request; at other moments there is less to forget.

In `services`, widths above 16 bits are scaled: a 32-bit number has `Int32` = 16 bits, a 64-bit one
`Word` = 22, a float `Mantissa` = 21. The residues modulo 7 that decide how many bits the last group has
are kept where the code depends on them (`WidthAssumption`: one bit in a 64-bit number, several in a
32-bit one), so that every branch of `Uleb` and `Sleb` is reached with numbers of three or four groups.
`MCValues` takes both sides of every limit, `Buffers` every pair of the bytes where a decoder changes its
mind. Functions that ask nobody are called before the database is used (`Untouched`): they share only
`pins` with the ones that ask. Four addresses hold name and parameters of one invocation, the reply of its
mesh call, and what a trap left behind, so that memory runs out as well.

**Timing.** With `Timely`, what takes seconds (a timer, a fetch, a start) ends on a worker only
while its links are idle: rednet delivers within a game tick, the timers run at 5 s. `cluster_rests`
does not need the assumption and does not make it. `cluster_converges` makes it, and `MaxBeats = 0`:
no heartbeat is sent while a fetch is going on. That is a real limit. A slot's meta is set only after the
download (`worker.lua:255`), so that two heartbeats during a slow one contradict a healthy placement and
the gateway gives it up; with a 60 s cooldown that ends while a start is still going on, two workers can
chase each other for ever. With two names, convergence fails as well: a heartbeat sent before an
assign and heard after it was sent rewrites `w.slots` (`gateway.lua:330`), and the next deploy gets the
same slot. The counterexamples that the bounds of `cluster_rests` and `cluster_converges` exclude are
therefore listed here and among the hazards.

**Fairness.** `FairSpec` is weakly fair for each step the program's own loops force: the gateway's
receiver and its 5 s loop, a worker's receiver and heartbeat, the slot tasks, the end of a
cooldown, and a computer that is off being started again (`--install` writes a startup file, and
chunks load again). `Work`, the end of fetches, starts and the boot, is strongly fair: with `Timely` it is
disabled whenever a message is in flight, and those moments come back for ever; the code has
nothing that could postpone it again and again. Requests and faults are not fair.
`Calls` needs no more than `WF_vars(System)`: while some step of the program is possible, one is taken.
A request takes finitely many of them, so none can be put off for ever by the others.

**Violations.**

- `ServesItsName`: the boot task is restarting workload *a* in a slot when the slot's own task drains
  *a* and assigns *b*; the boot task resumes and stores *a*'s reactor under *b*'s name (`worker.lua:233`).
- `PhantomsGo`: a restart that fails at boot keeps the slot's meta (`worker.lua:501`); it is reported
  as loading for ever, and the gateway holds that placement for ever.
- `GarbageOnly`: a drain names a slot only (`gateway.lua:256`). A workload is removed while it is still
  loading, which may take minutes, and another is placed in its slot; each heartbeat until the start ends
  still names the old one, and each tick then sends a drain that waits behind the new assign and wipes it.
- `ErrorsAreErrors`: `Res` takes an empty error for success (`crab.hpp:70`), and its comment says that no
  message is empty; the message of another workload may be, and the generated wrapper hands it on.
- `MeshCallsEnd`: `mesh_call` looks at its deadline only when some mesh reply wakes it (`worker.lua:182`).
  When the gateway restarts and forgets the call, no reply comes, and the slot is held for good.
- `OneCoroutine`: a coroutine finds its queue by the session's name (`worker.lua:335`). One that is
  running when its workload is drained meets the queue of the next assignment and serves it beside the
  coroutine made for it.

## 4. Proofs

Nothing below depends on the instances of section 3.

`GatewayProofs` proves, for every set of names, workers, slots, specs and requests that satisfies the
assumptions of `Gateway` (finite `Names` and `Slots`; `None` is no name, spec, worker, location or
placement), the following:

| Theorem | States | Argument |
|---|---|---|
| `TypeCorrect` | `Spec => []TypeOK` | `TypeOK` is inductive. One lemma for each handler; the work is in `Reconcile`: `InSomeOrder` of a finite set is a sequence of commands (`InSomeOrderType`), settling and occupying keep plan and view (`HeldType`, `ReconcileType`), and a report judges a placement to a state in range because it names a state exactly where it names a workload (`JudgedType`) |
| `PlacedAreRegistered`, `PlacedAreKnown` | `Spec => []PlacedIsRegistered`, `Spec => []PlacedIsKnown` | `Accounted`, the conjunction of the two with the types, is inductive; `ReconcilePlaces` says that what a reconcile leaves placed was there before on a live worker, or is new, registered and on a live worker |
| `RegistrySaved` | `Spec => []RegistryIsSaved` | inductive without the types: every handler that writes the registry saves it before it ends |
| `TicksSettle` | `Spec => TickSettles` | no new invariant: from any well-typed state, `ReconcileSettles` shows that what `Reconcile` writes is settled, by what `OccupyAt` and `ClearAt` say a slot shows afterwards |
| `RequestsAnsweredOnce` | `Spec => AnsweredOnce` | from the types; `ReconcileAnswers` says that a reconcile ends exactly the overdue requests, each with one answer, and one lemma each for the handlers that touch a request |
| `NoKnownDuplicate` | `Spec => AdoptsBeforeAssigning` | from the types: an assign that a reconcile adds to a link is one of `SentTo` (`SentAssigns`), so its workload was unplaced after adoption; had the view shown a running copy, `Adoptions` would have located it (`NothingToAdopt`), while `Occupy` shows only the copy assigned and `Clear` only takes copies out of the view. All other steps add no assign (`NoAssign`) |

`Accounted` needs the types because `Lost` compares workers, and needs both halves
together because adoption asks the registry and the view at once.

A component that is verified on its own is of use in a composition only if the composition is one of
its environments. `GatewayProofs` therefore proves its invariants for `OpenSpec`, in which the links may
lose or deliver commands between two steps of the gateway (`Outside`), and `WorkerProofs` for an `OpenSpec`
of its own whose gateway sends and takes anything at any time, without the bounds of `Spec`; `Spec` implies
it in both (`NetworkIsAny`, `GatewayIsAny`). That is what the composed proofs below instantiate.

`WorkerProofs` proves, for any computers, slots, names, specs and bounds, with `None` none of the images or names:

| Theorem | States | Argument |
|---|---|---|
| `TypeCorrect` | `Spec => []TypeOK` | inductive with `Busy` (a task that is not idle has an image) and `Starting` (so has the boot task's start); one lemma for each action, and one each for what a report (`ReportType`), a start (`BegunType`, `WarmedType`) and sending (`SendType`) give |
| `DisksMirrored` | `Spec => []MemoryMirrorsDisk` | inductive with the types and `Whole` (a disk that has a meta has its wasm): when the boot task meets a slot without wasm it clears the meta in memory, which is right only if the disk has none either |
| `OkMeansRunning` | `Spec => []OkThenRunning` | `Launched`: while a task starts, its slot holds the meta of the task's image, and its module where nothing else makes the workload live. The boot task visits that slot too and clears a meta without a wasm, so this needs `DisksMirrored`; that a reboot does not meet a task needs `Asleep`. `WarmedLive` concludes that the handle stored is one `StateOf` calls running, `ToldAppend` and `ToldTail` that the pair stays together on the link |

`ClusterProofs` proves, for any names, workers, slots, kinds, and any budget of requests and faults:

| Theorem | States | Argument |
|---|---|---|
| `GatewayImplemented`, `WorkersImplemented` | `Spec => GP!OpenSpec`, `Spec => WP!OpenSpec` | step by step: each step of the cluster is one of the gateway, one of the workers, or a change of the links between two of its steps (`Outside`). The messages must be typed (`Typed`) for a handler's step to be one of the component's |
| `TypeCorrect` | `Spec => []TypeOK` | inductive with the types of both components |
| `PlacementsAccounted`, `DisksMirrored`, `OkMeansRunning`, `TicksSettle` | the properties of the components, in the cluster | from the two refinements; no step of the cluster is looked at again |
| `RestIsStable` | `Spec => StaysAtRest` | from any state at rest, each step that is no request and no fault leaves it at rest. The invariant is `Typed`, `Budgeted`, `WP!Boots` (only a computer that boots is restarting a workload) and `PlacedIsRegistered`: at rest the view and the disks agree, so a tick finds nothing to drop, adopt, collect, place or expire, and a heartbeat repeats what the view says |

`CallsProofs` and `CopiesProofs` prove, for any clients, mesh ids, reactors and whom they
may call, sessions, coroutines, kinds of faults and amount of trouble:

| Theorem | States | Argument |
|---|---|---|
| `CallsProofs!TypeCorrect` | `Spec => []TypeOK` | the invariant `Inv` is `TypeOK` with the types of `Gateway` and of every message, and with the three parts below |
| `ReactorsStay` | `Spec => []Home` | a gateway that knows its worker has each reactor placed, confirmed and in view in the slot of its own name, whatever is removed, deployed, reported, lost or restarted. With it the gateway assigns and drains the session slot only (`Ordered`), which the model's worker takes for granted: without it `Receive` would have to be asked what an assign of a reactor does |
| `RequestsAnsweredOnce` | `Spec => AnsweredOnce` | the relay inside `Calls` is an open gateway (`GatewayStep`), whose handlers answer once (`GatewayProofs!AnswerStep`) |
| `WorkedOnOnce` | `Spec => []OneCopy` | see below |
| `QueuesServed` | `Spec => []("assignment" \in faults \/ QueueServed)` | inductive with `Seated` (no queue without `s.sessions`): a coroutine that boots its interpreter into a table that is gone dies, and may do so only if its queue has gone as well. A start that fails breaks just that (`worker.lua:361`), hence the exception |

`OneCopy` counts the places where a request is. The proof follows one id (`Followed`): it is in at most
one of the link to the worker, the slot's queue, the link back, the queue of a session, a coroutine or its
queue's `current`, the queue of a reactor, and a reactor's invocation (`Apart`); there once (`Lone`); and
nowhere before its request is made (`Given`). Three parts of it are what the code relies on without
saying so. A queue's `current` is the job of the coroutine the queue was made for and of no other: that is
what makes `Cancel` answer for the job it kills and `Told` answer nobody twice. A coroutine that boots or runs
as the owner of a queue has one (`Owned`), since `Answers` indexes it. And the ids are distinct
(`MeshIdsAssumption`: those of clients and of the mesh, and those that `mesh_seq` numbers), which the
code has within one boot of a computer; that ids start again at 1 after a reboot is among the hazards.
Each action has one lemma (`RouteCarries`, `CancelCarries`, `TakesCarries`, ...) which says that it carries every
request: what it moves is not left where it was, and nothing comes from nowhere. TLC checked the
strengthened invariant on the instance of the run, and with two sessions and three coroutines,
before it was proved.

`ServicesProofs` proves, for any addresses, rows, values and inputs, and any widths that satisfy the
assumptions of `Codec` and `HostCodec`:

| Theorem | States | Argument |
|---|---|---|
| `BuffersReleased` | `Spec => []PinsReleased` | `PinsReleased` is not inductive: `Return` gives back `call.bufs`, which must be pinned and apart from what a trap left and from the buffer of a mesh reply. The inductive invariant adds that, for each phase of an invocation |
| `StatementsFinalized` | `Spec => []StatementsClosed` | inductive together with the phases of an exec, from any outcome of SQLite |
| `AnswersAwaited` | `Spec => []AnswersAreAwaited` | inductive over both guests and the mail between them: the step that ends the wait of `relay` is always one that also disowns, or takes, what is asked in its name |
| `AnswersAreWhole` | `Spec => []WholeAnswers` | `DocumentsInv`: the static buffer is empty when a statement is prepared, and while it is stepped holds the columns and no more rows than the table. Each way an exec ends is then a document (`BegunGrows`) or a message (`AnswersWhole`); the reset before a failure's message and the one at the start are what the steps use. Needs of `RowsAssumption` that `MaxRows` is a natural number |
| `FailuresTold` | `Spec => []FailuresAreTold` | `TellsInv`: nothing is heard before the wait of `report` ends; then its buffer holds a frame of one of the answers a peer gives, and its reply is what is made of that answer. `ReportTells` goes through the answers: the frame is read back (`LenbufReadsBack`, for every payload whose length four bytes can say), then the flag, then the message (`StringReadsBack`) |
| `Utf8IsUnicode` | `\A s \in Seq(0..255) : Utf8Valid(s) <=> Unicode(s)` | for one character by arithmetic on its bytes, length by length (`CharacterIs`): the code decodes a scalar and checks its range, the table compares bytes. Both walk over the bytes from the left; that they agree from every position on is shown from the end backwards |
| `ServicesTyped` | `Spec => []TypeOK` | `RepliesInv`, `SqliteTyped` and `MailTyped`: everything either guest keeps is bytes, and what a reply frames is either a result or an error with one short message (`Readable`), so that reading the frame gives bytes again |
| `EncodingUnambiguous` | `Spec => []Unambiguous` | `RepliesInv`: from the end of a handler to the moment its caller has the reply, the reply frames what that handler makes of those parameters (`Handles`); so what the caller learned is the result, or that the parameters were refused (`Learned`, `HeardIs`), or that the guest could not go on. The rest is `ParamsTyped`, `NoPartIsTaken` and `ParamsReadBack` |
| `ValuesFaithful` | `Spec => []Faithful` | the same invariant. A value that a host writes is one the bindings take exactly if it fits (`FittingIsTaken`, with `Utf8IsUnicode` for texts), then `ParamsReadBack`; and what the host reads of the result is the outcome (`OutcomeRead`, from `ResultsReadBack`) |
| `DocumentsWhole` | `Spec => []WholeDocuments` | `RelayInv`: what `relay` heard is a frame of a document in a result, of a message in one, or of a failure of the call (`Hears`); what it replies is a document or one message that is a text (`Replies`); what its client has is one of the two (`Given`). The step into `Hears` is `AnswersAreWhole` (`AnswersHeard`), the two behind it take the frame, the flags and the strings apart (`HearsReplies`, `RepliesRead`). That the message is Unicode is `Utf8IsUnicode`. Needs `RowsAssumption`: a document is in the memory of a 32-bit guest, so its length fits a frame and a string |

The first four need nothing of the codec: the proofs treat what is decoded as any value. The others
use `CodecProofs` and `BindingsProofs`, whose operators are those of the instances of both guests (`GuestCodec`,
`CodecsAgree`, `BindingsAgree`). `ServicesTyped`, `EncodingUnambiguous` and `ValuesFaithful` rest on one inductive
invariant, `RepliesTogether`: the seven parts need each other, since what a guest replies in `relay` depends on the
exec it asked for, and that one on the mail. They also need `InputsAssumption` (what is sent is bytes, and
fills less than half of a 32-bit memory, since the reply needs room too: `Half` is the bound, and a length
fits the frame's four bytes) and `ValuesAssumption` (the values are ones that `cmval.lua` can write, of any width). `Idle` is a record with
a phase, and not `None`, so that the phase of a call is defined in every state.

`CodecProofs` proves, for every width in bits (`Word`, the widest, any that satisfies `WidthAssumption`, as
64 and the 22 of the run do), every number and every buffer, whatever stands before and behind what is read:

| Theorem | States | Argument |
|---|---|---|
| `UlebReadsBack`, `SlebReadsBack` | a number that is written and then read gives itself, and reading stops behind it | `GroupInduction` and `SlebInduction`: what is written is a sequence of groups, all but the last with the continuation bit (`Grouped`), whose value is the number and which fits the width |
| `StringReadsBack` | a string is read back as its bytes where they are valid UTF-8, and refused where they are not | its length is read back (`UlebReadsBack`) and the bytes behind it are those written (`BytesReadBack`) |
| `UlebInWidth`, `SlebInWidth` | what is accepted is a number of the width, ends inside the buffer, and is no shorter than what a host writes for it | an encoding may be longer than it need be, never shorter (`GroupsAreCanonical`, `GroupsAreSignCanonical`). At the widest width nothing checks the range of a signed number but its last byte, 0 or 127, which is enough because `Word % 7 = 1` |

`BindingsProofs` proves the same of whole values, for each kind of type and each function of the model that asks nobody:

| Theorem | States | Argument |
|---|---|---|
| `ParamsTyped` | parameters that a handler takes are a value of their type, to the last byte, that a host writes in no more bytes | one lemma for each reader (`OptionRead`, `ListRead`, `FlagsRead`, `AddRead`, `GreetRead`), in the form `ReadOf`: what is read is a value, and an encoder would write no more bytes for it. Those of several parts compose by `InTurn`; lists by induction on what is left to read (`ElementsRead`) |
| `ParamsReadBack` | a value that a host writes is taken as itself if it is of the type, and refused if not | `UlebReads`, `SlebReads` and their like say for any number, of the width or not, what a reader does with it; `ElementsOnly` that a list is not taken if one element does not fit |
| `NoPartIsTaken` | no beginning of what a handler takes is taken as well | a read of some bytes gives the same in any longer buffer (`UlebExtends`, `ListExtends`, ...), so it would end before the buffer does, and `Finished` refuses that |
| `ResultsReadBack` | the host reads in a result what the handler gave | the host's reader checks no width, so what it needs is that the value is below 2^`Word`. Signed numbers it sums as floats, each sum rounded: the sums of the groups only grow (`FirstGroupsLess`), so while the last is at most 2^`Mantissa` none of them is rounded (`RoundedExact`), and taking the sign off leaves a number that is held as well (`GroupsDecoded`). `Exactly64` says how far that reaches for 64 bits; the narrower types are all within it |

An option must be told from a number (`NoneAssumption`), and the widths are at most those of the code
(`Int32 <= 32`, `Word <= 64` in `WidthAssumption`), which the host's search for the scale of a float needs.

A recursive function is a `CHOOSE`: that `Pow2`, `EncodeUleb`, `EncodeSleb` and `Value` satisfy their
equations is proved first (`Recursion`, from `Induction`, which takes a set where the library's
theorem takes an operator).

Every invariant and action property that a passing run checks is a theorem. Only model-checked: liveness
(`Convergence`, `AskedEnds`, `SlotsServe`) and anything with ENABLED, which are out of the prover's reach; and
`QueueServed` after an assignment that failed, which holds in the run only because it has one fault (a lost drain
followed by a start that fails leaves a queue whose coroutine dies: the hazard listed at `worker.lua:361`). What
`Faithful` leaves out, its theorem leaves out as well: the host's reading of numbers of 64 bits beyond `Exact`,
of which it loses low bits.

## 5. Plan

Done: `Gateway`, `Worker`, `Cluster`, `Sessions`, `Calls`, the codec, both guests and `Services`, their
runs, and the theorems above. What would add most next, in this order:

1. The types that the codec leaves out: variants and results with payloads, tuples, floats, each with its
   three lemmas (`...Read`, `...Reads`, `...Extends`) in `BindingsProofs`.
2. Request ids that start again after a reboot: a worker or client that restarts in `Calls`.
3. `Worker`: a disk that is full (`writefile` outside the `pcall` of assign ends the slot's task).
4. `Crabgen`: the project life cycle. Properties: fresh means generated from this WIT; every state can be left.
5. An abstract `Orchestrator` (deployed workloads, where each runs) that `Cluster` implements. The
   counterexamples of section 3 say that it would have to allow a workload to run twice, or in a slot of
   another name, for a while.

## 6. Not modelled

The wasmcraft engine, rednet's own protocol and http are external and appear as the outcomes the code can
see. Text (logs, dashboards, generated sources), command lines and manifests' syntax hold no protocol
state. Read-only requests (ping, list, schema), slot usage, versions and labels change nothing the
properties tell apart. A handler that throws is not modelled: `PlacedIsKnown` covers the one place
where indexing could. In the codec, floats, variants and results with payloads as parameters, tuples,
`schema.lua` and decimal strings as an input are left out; in the guests, `crab_schema` (a constant), a
`malloc` that fails in C, and the text of documents. The Rust guests and `crab-sdk` are not modelled: the
C++ runtime, a mirror of the latter, is. Of the C and C++ sources, `guest/sqlite-c/sqlite3.h` is the header of
a vendored library, 14,347 lines that hold none of this program's behaviour; SQLite itself is external.
`fs.open` giving no handle on a full disk, which `save_registry` ignores, is not modelled either.
