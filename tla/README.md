# Verification of QME

QME (Questa Makefile Environment) is a set of scripts and templates from which a verification
team builds its simulation directories: Perl scripts that compile file lists and generate
makefiles, a makefile template whose targets keep a directory of libraries, VRM databases
(`.rmdb`, Tcl in XML) that run regressions on a grid and merge their coverage, and example
designs, among them the UVM Connect library that joins SystemC models to SystemVerilog test
benches. This directory holds TLA+ models of the parts whose correctness is a matter of order,
state and concurrency, TLC configurations that check them, and proofs for TLAPS. `PROJECT.json`
is the index: components, runs, the source lines behind every definition, hazards, findings and
theorems.

    tlc -workers 2 -config MCDpFifo.cfg MCDpFifo      # a run
    tlapm DpFifoProofs.tla                            # the proofs of a module

## 1. The system

Paths are relative to `src/`; names of targets, procedures and modules are the source's.
UVMC stands for `examples/uvmc/xl-uvmc-2.2/src/connect`.

| Component | State it keeps | Operations | Meets others through |
|---|---|---|---|
| Parallel UCDB merge, `templates/parallel-merge.rmdb` | the file list, the optimized list, the open file and `Remainder` of `GetUcdbFiles`, the cached shares, `availableHosts` and `NextHost` | generate, filter, split the list; expand, launch and complete the instances of `levelOne`; give out and take back hosts | VRM, which calls its Tcl procedures and schedules its actions; the regression runner starts it |
| File list compiler, `scripts/questa_compile.pl` | the hash of files by library, the global arguments, `liborder.txt` | parse a file list, create libraries, join files into commands, run them | called by the makefile's compile targets |
| Simulation directory, `templates/Makefile.template` | under `questa_libs`: libraries, three `liborder` files, snapshots, `makefile.remake` | the compile, optimize, recompile, clean and batch targets | calls the compiler and the generator below, the latter also in the background |
| Generator of `makefile.remake`, `scripts/create_questa_remake.pl` | the file it writes | read `liborder.txt`, write one rule per library | reads what compile targets write and remove |
| AXI4-Lite to APB4 bridge, `examples/axi4lite_to_apb4/rtl/vlog` | four dual clock FIFOs, the AXI side's response machines, the APB master, the arbiter, the registers | read and write transfers from one clock to the other, or on one clock | FIFOs between `ACLK` and `PCLK`; pulse synchronizers; registers on a third clock |
| TLM1 calls, UVMC `sc/uvmc_channels.h`, `sc/uvmc_ports.h`, `sv/uvmc_tlm1.sv` | per proxy: a semaphore, the response `m_t`, the operation `m_blocking_op`, an event; the process `blocking_sync_process` | the blocking and non-blocking methods of every TLM1 interface, `write` | DPI calls in both directions; the packer; the binding |
| TLM2 calls and the payload, the same files, `sv/uvmc_tlm2.sv`, `sc/uvmc_convert.h`, `sc/xl_uvmc_converter.cpp` | the same, and the payload the proxy of the target keeps | `b_transport`, `nb_transport` forward and backward, `write`; pack and unpack a `tlm_generic_payload` | the same |
| Binding, UVMC `sc/uvmc_connect.*`, `sc/uvmc_common.*`, `sv/uvmc_common.sv` | a registry of proxies by name and lookup string on each side, kinds, masks, the ids of counterparts | `uvmc_connect`, `resolve_bindings`, `notify_connected`, `wait_connected` | creates the proxies; callers wait for it |
| Packer, UVMC `sc/uvmc_packer.*`, `sc/uvmc_macros.h` | a buffer of words and the place in it | pack and unpack of every type, converters built from macros | used by every crossing call |
| Commands, UVMC `sc/uvmc_commands.*`, `sv/uvmc_commands.sv` | `sv_is_ready`, the queue of phase requests, the events of those who wait | objections, waiting for a phase, and commands that call SystemVerilog once | DPI calls; the phases of UVM |
| Regression runner, `templates/questa_regression.rmdb`, `grids.*.rmdb` | ranks, merge lists, UCDBs, reruns | sequential and parallel groups, simulate, rerun, merge, trend | test case specification, parallel merge, simulation directory |
| Test case specification, `templates/mytcl.rmdb` | none but counters | which setups, tests and seeds a specification expands to; when to stop | the regression runner |
| Round robin arbiter, APB to register bus bridge (examples) | the last channel served; a phase | grant; an APB transfer as a register access | - |
| Everything else: converters, help and settings, installation, vendored cores and libraries, generated registers, test benches | - | text filters, variables, stimulus | - |

### What is hard, and what makes each part correct

* **Parallel merge.** VRM expands, launches and completes the instances in any order, while all of
  them read one open file and take from one list of hosts; instances fail. Every UCDB must be in
  exactly one share, shares must not change when a parameter is evaluated again, no two instances
  may have a host at a time, and at the end only a failed instance's UCDBs may be missing.
* **File list compiler.** Libraries, arguments and file types are interleaved in one list, while
  files are joined into as few commands as possible; the script may die anywhere and starts over
  an earlier `liborder.txt`. Files must be compiled in the order of the list, each with its own
  arguments, and `liborder.txt` must list the libraries that exist.
* **Simulation directory.** Any target may fail at any line, the next may be another one, the file
  lists change in between, and a generator may still be running in the background. What a target
  reads must belong to the libraries that are there.
* **FIFOs of the bridge.** The two clocks run at any relative speed; each side sees an old pointer
  of the other, and registers may sample a word as it changes. No word may be lost, repeated or
  reordered, and nothing may stay unseen for ever.
* **APB master and arbiter.** Two machines that must be in step decide a cycle ahead on requests
  that come at any time, by a ratio that is written at any time. A request must be taken once and
  serviced, and neither kind may starve.
* **UVM Connect calls.** No call blocks across the language boundary: a blocking call is a request
  that only stores something and wakes a process, an event to wait for, and an answer in a call the
  other way. All callers of a proxy share its one event, response, buffer and operation, and
  neither an event nor a change of a variable is remembered for a process that is not waiting.
  Every call must have one effect, with its own data, and its own answer, and must return.
* **TLM2.** The payload is unpacked into one that exists already, whose array may be the user's; of a
  non-blocking transport the target keeps a reference to the proxy's payload and answers later.
* **Binding.** Both sides register in any order, under names and lookup strings that may coincide,
  and calls are made before, while and after counterparts are found.
* **Packer.** Fields straddle words in a buffer that is used again and never cleared.
* **Commands.** Processes wait for SystemVerilog and for phases whose states pass or recur, and are
  found again by a number.

## 2. The modules

| Module | Models |
|---|---|
| `UcdbFilelist` | the list of UCDBs as `gets` sees it, and the pure procedures over it |
| `ParallelMerge` | the runnable `merge` of `parallel-merge.rmdb` |
| `UcdbMerge` | abstract: what a merge promises |
| `FltCompile` | `questa_compile.pl` |
| `SimDir` | the targets of `Makefile.template` and `create_questa_remake.pl` |
| `DpFifo` | `dp_fifo.v` and `dp_sram.v` |
| `GrayCode` | the two conversions of `dp_fifo.v`, bit by bit (a word is the set of its ones) |
| `BoundedFifo` | abstract: a FIFO of `Depth` words |
| `ApbMasterMc` | `apb_access_arb.v` and `apb_master_mc.v` |
| `Tlm1Target` | external: the object behind a TLM1 proxy, two bounded boxes and a reply |
| `UvmcTlm1` | the TLM1 proxies of both directions |
| `RemoteObject` | abstract: the object called as if it were on the caller's side |
| `GenericPayload` | the payload and its converters |
| `UvmcTlm2` | the TLM2 proxies of both directions, over a target that is a memory of one byte |
| `RemoteMemory` | abstract: that memory called as if it were on the initiator's side |
| `UvmcBinding` | registration and binding of both sides |
| `UvmcPacker` | the packer and what converters make of it |
| `UvmcCommands` | the command interface |
| `ParallelMergeProofs`, `FltCompileProofs`, `SimDirProofs`, `DpFifoProofs`, `ApbMasterMcProofs`, `UvmcTlm1Proofs`, `UvmcTlm2Proofs`, `UvmcConnectProofs` | theorems; the last of them about `UvmcBinding`, `UvmcCommands` and `UvmcPacker`, whose common names it tells apart by the prefixes `Cmd` and `Pk` |
| `MC*` | finite instances of the above |

### ParallelMerge

`stage` is the member or script of `merge` that vrun is at; each member is an action
(`GenerateFileList`, `OptimizeLine` once per line of the loop, `ModePreScript`, `RshPreScript`,
`RepeatLevelOne`). Parameters of type tcl (`OPTFILELIST`, `DATABASES`, `GROUPS`) are operators, as
VRM evaluates them whenever they are expanded. `instance[g]` is where an instance of `levelOne` is:
its script is expanded twice, as it names `(%ucdbfiles%)` twice, then launched, completed or
failed, and its merge script likewise. The Tcl globals have their names (`fp`, `Remainder`,
`UcdbFiles`, `availableHosts`, `NextHost`). VRM itself is not in the repository: it is modelled
from how the file uses it (`maxrunning`, repeated tasks in any order, one Tcl interpreter).

A file is the sequence of the results of `gets`, so that a list ending in a newline has one empty
result more than lines. Of a UCDB only its test status is kept.

### FltCompile

A line of the list is a record of its kind, library, type and arguments; `Parse*` are the branches
of the script's loop over the list, `StartBatch`/`JoinBatch` and `Command` those of the loop that
joins files into commands and runs them. Any command or library creation may fail, which ends the
script. `StaleOrders` are the `liborder.txt` files it may find. The files compiled by a command are
recorded with the library and arguments they got. Not modelled: the `-usegcc` form and the text of
the commands.

### SimDir

A make is a sequence of steps, each a recipe line, or what a script does between two of its
commands; `todo` is what remains of the running one. A step may fail, which ends the make.
`files` holds the three liborder files, `snap` the snapshots that exist and what was compiled since
each was made (nothing, a library, the file list of the test bench), `remake` the orders
`makefile.remake` was written from. `gens` are the runs of the generator: one in the foreground, the
others left in the background by `create_recompile_in_background`, each testing for the file, reading
`liborder.txt`, opening and closing its output as separate steps. The user starts makes (`Make`) at
any time, whatever generators are running, and edits file lists in between: a compile script finds any
revision of its list. `compile_rtl_fv` is `CompileRtlFv`, with neither `clean` nor `remove_remake`
(`Makefile.template:120`); `formal`, like `autocheck` and `cdc_static`, is that after a `clean`.
`MakeAll` is `make all -f makefile.remake`: it compiles a library again, removes no snapshot, and ends at
the `touch` of its first rule. `late` (of a generator) and `spoilers` are history: a compilation was
started while a generator ran, and which exceptions apply to the `makefile.remake` that is there.
`Targets` is the generator's loop over the order, a recursive function: which libraries get a rule, in which order.

### DpFifo

One action per clock edge: `WriteClock`, `ReadClock`, or `BothClocks` at once; each updates all
registers of its side from the old values. A register of the other clock that is sampled while it
changes gives the old word or the new one (`Sampled`): this is sound because one bit changes, which
is what the Gray code is for and what `GrayAssumption` says. The writer pushes only when `full` is
low and the reader pops only when `empty` is low, as `axi4lite_slave.v:109` and `:239` do. Both
sides are reset together. The second-stage registers, the flags and the memory with its registered
read address are the code's, name by name.

### ApbMasterMc

One action, `Edge`, is an edge of `PCLK`: the arbiter's and the master's next states are the
operators `ArbNext` and `MasterNext`, their wires operators with the source's names. A FIFO is what
its APB side sees of it: a count, to which the AXI side adds between two edges. `WriteRatio` writes
the ratio register at any time; the model takes it as one step (in the circuit it is an
unsynchronized register of another clock). `WaitStates` lets the slave keep `PREADY` low before any edge
(`waiting`): the master stays in its active state, while the arbiter, which sees `PREADY` in a setup state
only, goes on to `IDLE` or to one of those, and from `IDLE` may take a request that the master cannot
start (`TakenOver`). `popped`, `passed` and `lost` (a request was taken over a transfer) are history;
`ReadLimit` is how many reads the AXI master has outstanding.

### UvmcTlm1

`use` is the port of a run and the methods its users call: `"channel"` for SystemC callers of
`uvmc_tlm1_channel_proxy`, otherwise SystemVerilog callers of one of the port classes, with
`Overridden` saying which methods of `uvmc_tlm1_port_proxy` that class overrides. A blocking call is
`Start` (the call), `WaitConnected`, `Issue` (the semaphore and the request), `ProcPerform`
(the process of the other side calls the object), `ProcDone` (the answer, with the event) and `Finish`
(the caller copies the response and gives the semaphore back); processes give way only where they
wait, so a step is at most what lies between two waits. `Wakes` is what happens to a request when the
process is not waiting: SystemC notifies an event, SystemVerilog changes `m_blocking_op`, and neither
is remembered. `Try` is a non-blocking call, `Write` that of an analysis port. A request
over a proxy with no counterpart ends the simulation (`Abort`).

### GenericPayload and UvmcTlm2

A payload has a command, a data array, a byte enable array and a status; an array is a pointer
(`"null"`, the user's `"own"`, one that `do_unpack` allocated, never assigned) and bytes, for unpacking
decides by pointer and length whether to take over, re-use or allocate. `b_transport` is `BTransport`,
`WaitConnected`, `Issue`, `Perform`, `RspDone`, `Finish`, as above; `nb_transport` is `NbRequest`,
`NbResponse` and `NbEnd`, with one transaction outstanding. The target answers at once, keeps the payload,
or keeps it and answers `END_REQ`, for which the proxy gives its payload up (`AfterPhase`): the
SystemVerilog proxy drops a handle, the SystemC proxy deletes what the target keeps. `held` is the payload
that the target keeps then, and `astray` says that `m_nb_t` of the SystemC proxy, which its constructor does
not write, points at memory that nobody allocated. A kept payload that is deleted or astray is `Loose`, and
the target finds in it what it left there or whatever was written since (`Found`, `Garbage`).
`RemoteMemory` says what that leaves of the promise: the late answer of such a target is
`Undefined`, in the memory, the status and the data of that one transaction. `Write` is that of an analysis
port. The target's `Latency` is added to the delay, which crosses with the request and the response.

### UvmcBinding

A design gives every object or port its class, its interface, its name and its lookup string.
`ScNew` and `SvNew` are the constructors of the two `uvmc_base` classes, with the entry under name and
string, the connection of two of one side under one string, and what they reject. `Resolve` is
`SV2C_resolve_binding` for one port of the loop at the end of elaboration; `Call` is `wait_connected` of
a SystemC process. Ids are positions in the registries, 0 is none, as in the code.

### UvmcPacker

`bits` are the words of the buffer, `rep` the word pointer, the index in the word and the number of bits.
`PackIntN` is `pack_int_n` with its first part, the word in the middle and the rest. The other types are
`Pieces` of at most two words, one call of `pack_int_n` for each, as in the code: words, characters,
single bits, or a count and the elements; `PackAll` packs the pieces and `Reads` is what calls of
`unpack_int_n` return one after the other. Loops are recursive functions. `Pack`, `InitUnpack`, `Unpack` and
`InitPack` use one packer for one transaction after another. A value is the sequence of its bits;
`FieldsAssumption` says which values the types have: integers of one or two words at most, characters that
are not the zero that ends a string, vectors whose elements an `int` can count.

### UvmcCommands

`Command`, `Proceed` and `Return` are a command of a SystemC process: it waits for `sv_is_ready`, calls
SystemVerilog and, if it waits for a phase, waits for its event. `UvmcInit` starts the process that
takes requests off the queue (`TakeRequest`); each becomes a watcher that notifies when the phase is
as wanted (`Notify`). `PhaseStep` is UVM: the states of one task phase, which falls back from
ready-to-end to executing when an objection is raised late. `met` is history.

## 3. The runs

| Run | Instance | States | Shows |
|---|---|---|---|
| `merge` | local, lsf, sge-like slots and rsh; 1 to 3 jobs; generated lists of up to 5 UCDBs; up to 3 hosts, none and duplicated; supplied lists of up to 4 lines, blank lines anywhere, filtered and not | 518 490 | the list is dealt out once, evenly and stably, and the merge ends |
| `flt` | every list of up to 4 lines of 7 kinds, of up to 3 of 9, and two libraries of two files each; any command failing | 43 000 | order and arguments; `liborder.txt` |
| `simdir` | two revisions of each file list, one background generator at any time | 7 287 903 | what targets read belongs to the present libraries, with the exceptions the properties name |
| `dpfifo` | 4 words deep, 2 values, the real Gray code | 35 043 | no loss, and nothing unseen for ever |
| `apb` | FIFOs of 2 words, all 8 ratios, wait states | 46 062 | requests taken once; which are serviced and which are lost; none starved where none is lost |
| `tlm1` | 2 callers, 2 values, boxes of 1; SystemC callers and six port classes | 58 864 | one effect and its own answer per call; calls return |
| `uvmc_master` | `put` and `get` from SystemVerilog over a master port | - | the put never reaches the object |
| `tlm2` | 3 initiators of either language, 4 payloads, three kinds of target, one value of garbage | 112 718 | one effect and its own response per transport, but for the late answer to a loose payload; transports return |
| `commands` | 2 processes, 7 wanted states, 3 requests, objections | 145 128 | no notification is lost or misdirected, no early command forgotten |
| `binding` | 2 objects and 2 ports in all namings and 7 choices of kinds, 3 and 1, 1 and 3; 1 caller | 119 224 | connected is what was declared and fits; callers get through |
| `packer` | words of 4 bits, 2 fields of 14, twice | 53 276 | what is unpacked is what was packed |
| `packer_bv` | an `sc_bv` of a word and a half | - | it moves what follows |

**Properties worth a word.** *merge*: `SharesPartitionList` (the shares handed out so far are the lines read
so far, without overlap), `SharesStable` (a second evaluation neither changes a share nor reads on),
`HostsExclusive` (although a host goes back to the list after each of two actions), `NothingForgotten`
(`CountFiles`, `CalculateGroups` and the remainder agree about where the list ends), `OptimizedIsFilter`
(what the loop keeps has the requested status, and is as many lines as have it), `ImplementsUcdbMerge` and
`Completes`. *flt*: `CompiledInOrder` (of a conforming list the files visited are increasing lines with no
file line left out before any of them, at every point where a command may fail, and all of them in the end),
`CommandsFitFiles` (nothing gets another's arguments), `LiborderTxtMatches` (the entry of the k-th library
line read is the k-th, and there is no other). *simdir*: `RemakeIsCurrent` (`makefile.remake` was written
from the present order, unless `compile_rtl_fv` was made since or a compilation was started while its
generator ran), `LiborderIsWhole`, `OptIsCurrent` (the snapshot of the regression is never of an earlier
file list of the test bench; the compilations of the RTL and `recompile` may change a library under it),
`RemakeCoversLibraries` (every library has one rule, in the place where it was listed last). *dpfifo*:
`PointersFollow` (the registers of a synchronizer hold pointers that the other side had, in the order in
which it had them), `FlagsCatchUp` (liveness with nobody pushing or popping), `ImplementsBoundedFifo`; that
the flags never allow an overflow or an underflow follows and is a theorem. *apb*: `TakenIsThere`,
`TakenIsServiced` (exactly the requests taken over a waiting transfer are lost, and until one is the arbiter
never waits for a transfer that is not there), `RatioKept`, `RequestsServed`. *tlm1*: `OneCallInFlight`,
`CallIsWorkedOn` (no request is lost on an event that nobody waits for, and no process works for nobody),
`ImplementsRemoteObject`, `CallsReturn`. *tlm2*: `RequestArrives`, `OwnArrayKept`, `ImplementsRemoteMemory`
(with its one exception, which disturbs no other call), `TransportsReturn`. *commands*:
`RequestsHaveWaiters` (the two sides agree on who waits for what), `WokenWhenMet`, `WaitersReturn`,
`CommandsStart`. *binding*: `PairsAreDeclared` (connected is exactly what shares a name and fits, when names
are unambiguous), `BoundSidesAgree` (whatever the names are, the calling side of a bound pair calls only
what the other has, within one generation of TLM), `ConnectionsStay`, `CallersGetThrough`. *packer*:
`BufferIsStream` (the buffer is the concatenation of the fields' bits, as `uvm_packer` has it), `RoundTrip`.

**Bounds.** Three jobs over up to five UCDBs give fewer, as many and more databases than jobs, and
divisions with and without remainder; a third host and instance are enough for two to wait for one.
Two libraries, two argument strings and four lines give every pair of neighbours that may or may not
be joined and every change of library between them. The libraries of a simulation directory occur
in one list, in both, or in only one revision, so that a target can be left over in every way. Depth
4 makes the pointers of a FIFO wrap around with the lag of two registers on each side; two values
tell a right word from a wrong one. With two words a FIFO of the APB side can hold a request that is
waiting behind the one that is chosen; `PassedBound` = 6 stops a history counter above every limit.
Two callers and two values of a TLM1 proxy are enough for one caller to wait for the semaphore, try
without blocking or start anew while the other is at any point of its call and to tell their answers
apart; boxes of one transaction block both ways. Three initiators of TLM2 let two wait for one; two byte
values tell responses apart; the payloads have one byte, more, and a length without an array;
`MCGarbage`, what is found in memory of somebody else, is one write that is no payload of the run, so
that its effect can be told from each of theirs; `MaxDelay` = 2 is the largest latency. Two clients and three numbers of requests (`MaxRequests`) let a
number be confused with an earlier and a concurrent one. Two objects and two ports under the namings
of `MCUvmcBinding` share no string, one or both, within a side and across; three of one side show a
string that is used up. Words of 4 bits and characters of 2, with fields of 1 to 8 bits, make a
field end inside a word, at its end, and one or two words later; two fields and two rounds show
what a field does to its neighbour and what an old buffer does to a new transaction.

**Fairness.** `ParallelMerge`: vrun keeps scheduling what it can, and an action that hangs is ended by its
`mintimeout`. `FltCompile`: the script runs on. `DpFifo`: both clocks keep running; nobody is obliged to
push or pop. `ApbMasterMc`: `PCLK` keeps running. `SimDir` states none, and no liveness. `RequestsServed`
supposes that the ratio register is not rewritten for ever (if it is, one kind can starve), that every slave
answers in the end (`SlavesAnswer`), and that no request has been lost, after which the arbiter may wait for
ever. `UvmcTlm1` and `UvmcTlm2`: both kernels run every process that can run, and the TLM1 object goes on
consuming and producing; nobody is obliged to call, and nothing is assumed of who gets the semaphore next,
so that the liveness properties start where a request has gone out. `UvmcCommands`: SystemVerilog starts and
calls `uvmc_init`, and processes run; the phase need not go on. `UvmcBinding`: elaboration goes through all
objects and ports. Callers are not obliged to call.

**Where TLC need not find a next step** (`CHECK_DEADLOCK FALSE`): a simulation that a fatal error has
ended, callers that have returned and a design that is all bound, all requests made, and a packer that
has had its rounds.

**What the environment is assumed to do.** Library names are not parts of each other (`SeparateNames`).
`JOBS` is at least 1. The AXI master has no more reads outstanding than the FIFO of read data holds
(`ReadLimitAssumption`). Callers of a TLM1 proxy use the methods which its port class overrides (`UsesFit`;
section 5 says which do not). Initiators have one non-blocking transport outstanding. No SystemC process is
reset while it waits.

## 4. The proofs

Every theorem holds for every value of the constants that satisfies the named assumptions. In each module a
theorem or lemma `Invariance` (`InvariantHolds`, or with a prefix, in some) says that an inductive invariant
`IInv` holds; the others follow from it, or from it and a second invariant for one property.

* **ParallelMergeProofs.** `TypeCorrect`, `SharesPartition`, `SharesAreStable`, `SharesAreBalanced`,
  `NothingIsForgotten`, `HostsAreExclusive`, `FilterIsExact` and `Refinement`, for any lists, job
  counts, hosts and schedule. The partition is inductive only together with the position in the
  file: all lines up to `fp` are in a share and no share has a line beyond it, so a new share, taken
  from the lines after `fp`, is disjoint from the others. The type invariant needs that `StopAt`
  finds a line within the list, a lemma of its own. `RestIsDealt` is the arithmetic of
  `CalculateGroups` and the remainder: the shares still to come, each of the integer quotient, and
  the remainder left hold what is left of the list, exactly if it has no blank line; hence the
  balance, and that at the end nothing is left. `DoneIsMerged` (the final merge has the shares of
  the instances that are done) joins that to the merge, and is what the refinement of `UcdbMerge`
  needs besides `IInv`. `HostsInOrder` counts: hosts given back, twice each, stand behind those
  nobody has taken, and as there are no more instances than hosts, whoever takes one takes a new one.
  `FilteredSoFar` is the loop of `OptimizeFilelist` after any number of lines.
* **FltCompileProofs.** `TypeCorrect`, `CommandsFit` and `OrderIsOfThisRun`, for every list,
  conforming or not, and `OrderIsKept`. `CommandsFitFiles` needs that each hash entry is under the
  library of its line (`Filed`) and that the batch that is being collected fits the attributes kept
  for it, with no C file beside another (`BatchFits`). The order is shown by slots, a file's slot being
  the number of its library in `liborder` and its number in the library. Of a conforming list the
  slots filled are the file lines read, in their order (`SlotsInOrder`), because a library is named once
  and the current one is the last (`OrderIsOfLines`); and the files visited are those of the slots
  before the loops' own, `<<cur, n>>` (`VisitedInOrder`), whether compiled or in the batch.
* **SimDirProofs.** `TypeCorrect`, `OrderIsWhole`, `SnapshotIsCurrent` and `RemakeFollows`, for any
  libraries, any revisions of the file lists, any number of background generators and makes at any time. The
  steps still to do say what is true of the directory: `InOrder` is the grammar of the rests of a recipe
  (which step may follow which, and which a recipe ends with), and by it `Creating` and `Compiled` say, for
  the step that comes next, which files are there and of which compilation; `RtlOrderKept` says that
  `rtl_liborder.txt` is of the last compilation of the RTL or about to be replaced, `OptFresh` that a
  compilation of the test bench comes after what removes its snapshot. `RemakeInv` adds that a compilation
  that is under way has met no generator but late ones (`Undisturbed`), that what a generator that is not
  late has read is the order that is there (`ReadIsCurrent`), and that an unspoiled `makefile.remake` is of
  that order, with every step that could change it behind one that removes the file (`RemakeFresh`).
  `RemakeCovers` (`RemakeCoversLibraries`, under `NamesSeparate`: no library's name occurs in another's) is
  about the loop of the generator, by induction along the order: after any number of lines the libraries
  kept are those listed so far, each once, in the order in which they were listed last (`KeptRight`).
* **DpFifoProofs.** `TypeCorrect`, `FlagsAreSafe`, `SynchronizersFollow` and `Refinement`, for every depth
  and any code with `GrayAssumption` (decodable, 0 coded as 0, one bit changed by a successor). Pointers
  live on a circle of twice the depth, so "between" is stated by the distance `Ahead` from the reader's
  pointer: the inductive invariant orders, on that circle, the read pointer, what the reader's side sees of
  the writer (`ReaderBehind`), the write pointer, and what the writer's side sees of the reader
  (`WriterBehind`), and says of the flags that a low flag leaves room, or a word, by what is seen and hence
  by what is. The refinement maps the memory between the pointers to a sequence. `RealCode` discharges the
  assumption: for every width `AW`, with 2^`AW` words, the conversions of `GrayCode` satisfy it. Decoding
  goes down from the highest bit (`BitsComeBack`, `WordComesBack`); for the step, two neighbours shifted by
  `i` are the same or still neighbours (`CarryFacts`), and a bit of the code changes just where the carry
  ends (`CodeChanges`), which it does once (`CarryEndsOnce`).
* **ApbMasterMcProofs.** `TypeCorrect`, `RequestsAreThere`, `RequestsAreServiced` and `RatioIsKept`, with
  wait states, and `ReadySlavesLoseNothing` without. `TakenIsServiced` is not inductive alone: it needs that
  the machines are in step as far as wait states let them (`InStep`), that what was chosen is still there
  (`ChosenIsThere`), and that the reads outstanding leave room. `RatioKept` needs for each state of the
  arbiter how many of the preferred kind may have been taken in a row (`InTurn`): in a setup or an active
  state of that kind more than one only if `cmd_cnt` has counted them, up to the first and the last, and has
  not gone beyond the register.
* **UvmcTlm1Proofs.** `TypeCorrect`, `CallsExclusive` (`OneCallInFlight`), `RequestsKept`
  (`CallIsWorkedOn`) and `Refinement` (`ImplementsRemoteObject`, under `UsesFit`), for any number of
  callers, any values, capacity and reply. The inductive invariant `IInv` has five parts. A request must
  find the process of the other side idle, or it is lost. `OneCallInFlight` says that whoever finds
  the semaphore free is alone, `CallIsWorkedOn` that the process works only for a caller that waits,
  with that caller's method and transaction, and `ProcIdle` that it can be woken whenever it does not
  work; `CallsTyped` says that transactions fit their methods. The
  refinement needs in addition that the method is one of those the port is used for (`Allowed`, in
  `RInv`); it maps a call to its effect when the process calls the object, and its result to the
  response wherever that is: with the process, in `m_t`, or with the caller.
* **UvmcTlm2Proofs.** `TypeCorrect`, `RequestsArrive` (`RequestArrives`), `ArraysKept` (`OwnArrayKept`) and
  `Refinement` (`ImplementsRemoteMemory`), for any initiators, bytes, payloads, garbage and latencies, both
  directions and the three kinds of target. A late answer is the abstract effect if the payload is not loose
  (`NbResponseMaps`), and else `Undefined` (`LooseResponseMaps`). Beside what TLM1 needs (`OneInFlight`,
  `ProcIdle`), `Arrived` says that what the target works on or keeps was unpacked for it, and `ResponseFits`
  that the response has arrays of the lengths of the initiator's payload until that is unpacked, from bits
  that are still its own. The lemmas about the converter say where the fields are in what is packed, and
  what unpacking them into a fresh payload or into the sender's own gives: the same command, bytes and
  status, in the sender's array.
* **UvmcConnectProofs, the binding.** `BindingTypeCorrect`, `PairsFollowNames` (`PairsAreDeclared`), `LinksStay`
  (`ConnectionsStay`) and `SidesAgree` (`BoundSidesAgree`), for any finite numbers of objects and ports and
  any designs, whatever the order of registration, resolution and calls. `IInv` says what the registries
  know: what is found under a string has that string (`NamedSo`); what met nothing when it was
  registered is found under all its strings, and what met something shares a string with it (`Known`,
  `MetOne`); ids are positions (`IdsRight`) and only what is registered has a counterpart (`Untouched`,
  `Linked`); what is bound across was found under a common string and was compatible (`BoundFits`). With
  unambiguous names a string leads to one other, and the three parts of `PairsAreDeclared`
  (`AcrossDeclared`, `ScLocalDeclared`, `SvLocalDeclared`) are kept with it. `SidesAgree` needs only
  `BoundFits`, and which methods a mask stands for (`MethodsOfMask`).
* **UvmcConnectProofs, the commands.** `CommandsTypeCorrect`, `RequestsMatch` (`RequestsHaveWaiters`) and
  `WokenInTime` (`WokenWhenMet`), for any finite number of processes and any bound of the requests. Who
  waits is found under the number given (`NumberHolds`), no number is in the queue and with a watcher at
  once (`QueuedOnce`), and `met` has noted what the phase is (`MetIsNoted`). `NumbersLeft` belongs to the
  bound: a number is left for each process that is about to ask. Together they are `CommandsInv`.
* **UvmcConnectProofs, the packer.** `PackerTypeCorrect`, `BufferHoldsStream` (`BufferIsStream`) and
  `RoundTripHolds` (`RoundTrip`), for words and characters of any width, buffers of any size and any fields,
  under `NarrowVectors`: no `sc_bv` is wider than a word. Without that both are false, which `packer_bv`
  shows. A bit has a place, `w * WordBits + p`: `pack_int_n` writes the bits of a value at the places
  from `bits_size` on and no others (`Written`), through its two or three words, and `unpack_int_n`
  reads them from where they are held (`Holds`). By induction over the pieces so do all of a field
  (`PackAll`, `Reads`), whose bits joined are its part of the stream (`PiecesRight`). That the other
  side gets the field back needs for each type its own reason: a number comes back from its bits
  (`NumberOfNumber`), word pieces make up the vector (`WordPiecesRight`), and of a string the zero behind
  it is the first one read (`UnpackStringRight`). `PkInv` joins it: the buffer holds the stream
  (`StreamHeld`), and the reader stands where the stream of the fields it has got ends
  (`UnpackedSoFar`), so each field is found where the one before it ended.

**Assumptions.** Beside `UsesFit` (section 3), a hypothesis of the theorem that needs it, the assumptions on
the constants say what the code's inputs are: lists of lines (`FltListsAssumption`, `UserListsAssumption`),
revisions numbered from 1, each with a library (`FileListsAssumption`), initiators' payloads whose arrays
the converter did not allocate (`PayloadsAssumption`), memory that reads as some payload
(`GarbageAssumption`), latencies within their bound (`DelayAssumption`), finitely many processes
(`ClientsAssumption`), objects and ports of two languages that are apart and finitely many
(`SidesAssumption`), with the kinds and interfaces there are (`DesignsAssumption`), fields with values of
their types (`FieldsAssumption`), names and values that are not the special ones; `BoundsAssumption` is
about the bounds of the packer's model. `NamesSeparate` and `NarrowVectors` are hypotheses of the theorems
that need them: the code goes wrong without (section 5), and the instances of `simdir` and `packer` have
them. `ReadLimitAssumption` is the one that the circuit does not enforce (section 5).

**Type invariants.** That of each module that models code is a theorem (`TypeCorrect`, or with a prefix in
`UvmcConnectProofs`). No run lists a type invariant.

**Induction.** The library's induction theorems take an operator, which the provers cannot instantiate.
Where a loop has to be followed any number of times, the numbers for which something holds are given as
a set instead: `LeastNumber` is the library's well-foundedness of `<`, and `InductionTo` (in `SimDirProofs`
`Induction`) follows from it. That a recursive function has a value at all is shown the same way
(`LoopExists`, `AppliedExists`, `KeptExists`).

**Only model-checked:** liveness (`Completes`, `FlagsCatchUp`, `RequestsServed`, `CallsReturn`,
`TransportsReturn`, `WaitersReturn`, `CommandsStart`, `CallersGetThrough`), which is out of the prover's
reach, as `ENABLED` is. Every other property that a passing run checks is stated by a theorem.

## 5. Where the code and its documentation disagree

Two runs end in a counterexample that a comment of the source contradicts; `PROJECT.json` quotes it.
`uvmc_master`: the master and slave ports declare `put(REQ &t)`, which hides the proxy's
`put(const T1 &t)` and does not override it (`uvmc_ports.h:766`, 809, 835, 878), so a put from
SystemVerilog is reported done and never reaches the object. `packer_bv`: `pack_sc_bv_base` counts up
(`n += 32`, `uvmc_packer.cpp:311`) where it should count down, so that an `sc_bv` of a word and a half
moves all that is packed after it.

The models of the scripts and of the bridge show, outside the inputs of their runs or as an exception that a
property names:

* A supplied list without a final newline loses its last UCDB (`parallel-merge.rmdb:310`; drop the
  last empty result of a list in `MCLists`). A UCDB without a test status is filtered by the status
  of the one before it (`parallel-merge.rmdb:427`).
* Files before the first `@library` are never compiled (`questa_compile.pl:261`). Every library is
  compiled with the last one's generic arguments (`questa_compile.pl:100`).
* A background generator brings back a `makefile.remake` of libraries that are gone: nothing waits for
  it before a compilation removes the file (`Makefile.template:209`). Without the exception for
  `"overtaken"` TLC finds `RemakeIsCurrent` violated. `recompile` does not wait for the generator it
  starts either (`Makefile.template:221`).
* `compile_rtl_fv` moves `liborder.txt` away (`Makefile.template:127`) and, unlike `compile_rtl`, does not
  require `remove_remake` (120): the `makefile.remake` of the earlier libraries stays, and `recompile`
  uses it. Without the exception for `"compile_rtl_fv"` TLC finds `RemakeIsCurrent` violated.
* `recompile` (`Makefile.template:219`) and the compilations of the RTL change a library and leave the
  snapshots made before. With `snap["opt"] = ""` in place of `OptIsCurrent` TLC finds the one, and with
  an action property that `make_all` leaves `snap["opt"]` as it is, the other.
* In `IDLE` the arbiter does not look whether the master has a transfer (`apb_access_arb.v:86` and 135): back
  there while a slave keeps `PREADY` low, it takes a request that is never put on the bus, and may then
  wait in a setup state for the end of a transfer that is not there (`apb_access_arb.v:96`, 113), for
  ever. The header says of the sides that the one that is ready gets serviced (23). The last
  conjunct of `TakenIsServiced` without `lost`, and `RequestsServed` without `[]~lost`, are violated;
  `ReadySlavesLoseNothing` says that nothing but a wait state does it.
* `questa_compile.pl:198` gives a library that is listed twice a second entry in the order, and its
  files are compiled twice.
* `create_questa_remake.pl:49` skips a library whose name is a part of the previous one's (`core`
  after `core_tb`): with such a pair in `Occurs`, `RemakeCoversLibraries` fails.
* `create_questa_remake.pl:187` touches a file in a directory that nothing creates, so the rule of a
  library fails after its files have been compiled (in the model: `MakeAll` always ends at `touch`).
* `Makefile.template:198` removes `_opt_dbg`, while the snapshot that is built is `_dbg`.
* The arbiter's header promises, say, two reads per write; the read taken from `IDLE` is not counted
  (`apb_access_arb.v:64`), so a first run has three, and one more when the register is written
  meanwhile. `RatioKept` states what does hold.
* `apb_master_mc.v:68` pushes read data without looking at `rdata_ff`, and the arbiter does not
  count the read that is on the bus when it looks for room: an AXI master with more reads outstanding
  than the FIFO holds can overflow it. Dropping `ReadLimitAssumption` shows it.

And in UVM Connect, most of them excluded by what section 3 assumes:

* `uvmc_analysis_port` (`uvmc_ports.h:720`) does not override `write`: what SystemVerilog writes to it
  is dropped. `UsesFit` excludes it.
* `peek` of the SystemC channel does not call `wait_connected` as `put` and `get` do
  (`uvmc_channels.h:263`): before the binding it ends the simulation.
* A blocking `get` holds the semaphore while the object has nothing, so that every non-blocking call
  is refused meanwhile. `RemoteObject` allows that refusal.
* Of `nb_transport_fw` the delay that comes back is not the target's (`uvmc_channels.h:447`), and
  backward it is lost (`uvmc_channels.h:604`): `NoDelay` in the model.
* `x_nb_transport_fw` deletes the proxy's payload when the phase that comes back is 2
  (`uvmc_ports.h:376`), which is `TLM_COMPLETED` as an answer and `END_REQ` as a phase: a SystemC target
  that has answered `END_REQ` keeps a payload that is gone. The pointer it tests first (364) is not written by
  the constructor (282). Without the exception for `Loose` payloads TLC finds `ImplementsRemoteMemory`
  violated in two steps, by either cause alone.
* Unpacking no bytes into a payload without an array leaves its data pointer uninitialized
  (`uvmc_convert.h:206`): `"wild"` in the model, which nothing reads.
* TLM1 and TLM2 interfaces share bits of their masks (`uvmc_common.h:38`), and ports of the two may be
  bound to each other; `BoundSidesAgree` speaks of one generation. The mask of `transport` never
  passes the check of a SystemVerilog port for `nb_transport`.
* SystemC channels that are connected locally are never notified, and their callers wait for ever;
  `CallersGetThrough` leaves them out. `uvmc_wait_for_run_phase` notifies nobody either
  (`uvmc_common.cpp:419`).
* The header's `uvmc_cmd_init` is `uvmc_init`, and commands do not wait for it (`uvmc_commands.h:67`):
  `sv_is_ready` is set by a static initializer (`uvmc_commands.sv:61`). A request for an unknown phase
  is answered with a number that nothing notifies, and its process waits for ever.
* A process that is reset while it waits for a phase leaves its event, a local variable, behind
  (`uvmc_commands.cpp:111`); the header's own example resets one (`uvmc_commands.h:670`).
* Nothing compares what is packed with `UVMC_MAX_WORDS`.

## 6. Not modelled

* The regression runner and the test case specification configure VRM, the vendor's tool: which member
  runs when, what a failure does to the others and how reruns are made is decided by the tool, whose
  rules are not in the repository. The merge is the part in which the files hold an algorithm of
  their own.
* Of UVM Connect: `uvmc_connect` by pairs of names and the connections file, because the function they end
  in, `uvmc_resolve_name_pair`, returns 0 with its body commented out; what a target does with byte enables,
  extensions, the streaming width, and `END_REQ` and `END_RESP` as calls with a result of their own;
  floating point, which is packed as the integer of its bits; printing; the OVM variant of the package.
* The AXI side and the single clock master of the bridge, the round robin arbiter, the APB to register
  bus bridge: example designs with little state. The bridge in VHDL is the same design as in Verilog.
  The register blocks are one assignment per register, or generated. Resetting one side of a FIFO
  while the other runs is left out: nothing in the repository says when that may happen.
* Of the simulation directory: what the formal and CDC tools do after the compilation, the coverage targets
  and the run directories, which share no state with what is modelled; of `makefile.remake`, the commands
  that the simulator's `vdir` prints.
* The converters, help, settings and installation are text filters and straight-line scripts with no
  state. Third-party cores, UVM, Perl modules and test benches are vendored or stimulus.

## 7. What is left

Liveness stays with TLC. Of the hypotheses, users who use what a port class overrides (`UsesFit`),
`NamesSeparate`, `NarrowVectors` and `ReadLimitAssumption` are what the code needs and does not enforce, and
section 5 says what happens without them. `RemakeIsCurrent`, `OptIsCurrent`, `TakenIsServiced` and
`ImplementsRemoteMemory` have exceptions instead, each the least that the code leaves: makes during a
background generator, `compile_rtl_fv`, `recompile`, wait states and `END_REQ` are all in the models. The
theorems about the FIFO hold for any code that `GrayAssumption` describes; `RealCode` is about the
circuit's, for depths that are powers of two, which are the only ones it can have.
