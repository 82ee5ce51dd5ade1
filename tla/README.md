# Verification of Handel in TLA+

Handel is XIA's C library for its digital X-ray processors (Saturn, microDXP,
Mercury, xMAP, STJ). An application describes its detectors, firmware and modules
to it, connects, sets acquisition values, runs data acquisition and reads spectra.
This directory holds TLA+ models of the library, TLC configurations that check
them on small instances, and proofs checked by TLAPS.

    tlc -workers 2 -config Session.cfg SessionMC   # one run
    tlapm Session_proofs.tla                       # one module's proofs

Paths below are relative to the repository's `src/src`.

## 1. The system

### Layers

| Layer | Files | State it keeps | Operations |
|---|---|---|---|
| Handel, configuration | `handel_dyn_*.c`, `handel_detchan.c` | linked lists of modules, detChans, defaults, detectors, firmware sets | create, add item, modify, remove |
| Handel, life cycle | `handel.c`, `handel_system.c`, `handel_xerxes.c` | list heads, the "initialised" flag | `xiaInit`, `xiaStartSystem`, `xiaExit` |
| Handel, operation | `handel_run_control.c`, `handel_run_params.c` | `runActive[]` per module of several channels, entries of the defaults lists | start, stop, special runs, acquisition values, calibration, run data |
| PSL (product specific layer) | `devices/*/*_psl.c` | `currentFirmware`, Detector gains, values it derives | what each of Handel's operations means for one product |
| Xerxes | `xerxes/xerxes.c` | lists of board types, interfaces, boards; `Board.state[]` | configuration, run and control task bookkeeping |
| Device driver | `devices/*/<product>.c` | none of its own: DSP parameters and registers on the board | begin and end a run, control tasks, memory |
| Machine dependent I/O | `md/md_linux.c`, `md/md_win32.c` | tables of ports, one per interface | open, close, read, write |
| Threads | `md/md_threads_*.c` | mutexes, events | wait, signal |

A detector channel is known to the application as a **detChan**, a number of its
own choice; detChan -1 stands for all of them. A detChan leads to a module and a
channel in it (two half-relations, in two lists), the module to a board of Xerxes,
the board to a port. Every call goes down these layers and comes back: the library
creates no thread and makes no callback. What is concurrent is the hardware: the DSP
ends runs and answers late or not at all, the FPGA fills buffers, counters count on,
each between any two accesses of the host.

### What is hard

* **One fact in several lists.** The detChan of a channel is in `Module.channels[]`,
  in the detChan list and in the member list of detChan -1; each list is edited by
  its own functions.
* **One fact in several layers.** That a run is active is remembered by Handel, by
  Xerxes and by the board; a gain is in the acquisition values, in the Detector and
  in the DSP parameters; which FPGA is loaded, on the board and in
  `currentFirmware`; a port, in Handel's detChans, the boards and the port tables.
* **One resource, several channels.** Channels of a module share a FiPPI, a DSP
  program, a mapping register, in the STJ an amplifier. A value of one channel
  changes what the others do.
* **Walks that stop half way.** Calls on detChan -1, the build of the Xerxes
  configuration, `pslUserSetup`, `pslInvalidate` and `xiaUnHook` walk a list and
  return at the first error, after they have acted on the members before.
* **Order.** `pslUserSetup` sets all values again in the order of a list, and some of
  them recompute each other.
* **A cache over the hardware.** The microDXP's values are read from the board once
  and remembered; a command changes registers whose values are remembered.
* **Two actors on one register.** The mapping register is read, modified and written
  by the host while the FPGA changes its bits.
* **Polls with a timeout** whose answer comes later.

`PROJECT.json` lists each of these hazards at the line where it bites, with the
properties that watch it.

### What makes each part correct

* Configuration: a detChan leads to one channel; the configuration can always be
  freed; declaring channels loses no value of the user.
* Life cycle: each board's port is its own device's; a handle is in one slot; after
  `xiaExit` nothing is open.
* Run control: Handel, Xerxes and the board agree on what runs; a call that returned
  success has done what it reports.
* Acquisition values: a value set with success is what the hardware has; a call
  leaves what it was not about as it was; a call that failed can be made again; a
  restart from the reported values reproduces them.
* Mapping: fills of the buffers are read whole, once and in order, or an overrun is
  reported.
* Results: an answer is of one instant, of its own channel, as long as promised.

## 2. The modules

| Module | Models | Instance | Proofs |
|---|---|---|---|
| `HandelConfig` | modules, detChans, detChan -1, defaults lists, `xiaInitMemory` | `HandelConfigMC` | `HandelConfig_proofs` |
| `Session` | `xiaStartSystem`, `xiaExit` and the port tables of Linux | `SessionMC` | `Session_proofs` |
| `RunControl` | starts, stops and special runs over several modules: the outcomes of whole calls | `RunControlMC` | `RunControl_proofs` |
| `BoardRuns` | the drivers of the xMAP, Mercury, STJ and Saturn: a run, register by register | (by `DriverRuns`) | (by `DriverRuns`) |
| `DriverRuns` | the PSLs and Xerxes over `BoardRuns`; implements `RunControl` | `DriverRunsMC` | `DriverRuns_proofs` |
| `MappingBuffers` | the mapping double buffer: host, FPGA, application; implements `BufferQueue` | `MappingBuffersMC` | `MappingBuffers_proofs` |
| `BufferQueue` | what the double buffer promises: a queue that may lose, and says so | (by `MappingBuffers`) | |
| `XmapGain` | the xMAP's gain values, which depend on each other | `XmapGainMC` | `XmapGain_proofs` |
| `GainValues` | gains, thresholds, calibrations, single parameters: Mercury, Mercury OEM, STJ, Saturn | `GainValuesMC` | |
| `FilterValues` | peaking and gap times, offsets, trigger filter, preamplifier: xMAP, Mercury, STJ, Saturn | `FilterValuesMC` | |
| `BoardFirmware` | how FPGAs and DSPs are loaded: Xerxes, the drivers of the xMAP, Mercury, STJ and Saturn | (by `FilterValues`) | |
| `ChannelValues` | spectrum lengths, presets, SCAs, mapping mode and registers: the same four | `ChannelValuesMC` | |
| `UdxpValues` | the microDXP's values: a cache over its registers | `UdxpValuesMC` | `UdxpValues_proofs` |
| `RunMemory` | the memory a run's results are in, and the drivers' and Xerxes' reads of it | (by `Readout`) | |
| `ModuleRunData`, `SaturnRunData`, `UdxpRunData` | what `xiaGetRunData` and snapshots deliver: xMAP, Mercury and STJ; Saturn; microDXP | (by `Readout`) | |
| `Readout` | the calls, the runs and the settings around them | `ReadoutMC` | `ReadoutInvariant`, `Readout_proofs` |
| `AcqValues` | the common path of a value: defaults, `SetDefaults`, failing accesses | (by the value modules) | |
| `Outcomes` | a C function as the set of its outcomes `[ok, m]`, with `Then` for early returns | (by all of these) | |

Properties are at the end of each module. Operators named `Mut...` are plausible
bugs: putting one in the place of the definition that follows it makes the run that
`PROJECT.json` names with it fail, which shows that the property watches that code.

### Two styles

The protocols (`HandelConfig`, `Session`, `RunControl`, `MappingBuffers`,
`XmapGain`) are state machines over variables, one action per call or per access.

The long sequential functions of the PSLs and drivers are operators from a state to
the **set of its outcomes**. `Then(outs, F)` goes on with F where the outcomes so
far succeeded and keeps the failures as they are: it is the early return of C, with
everything that was changed before it. `Anyway` is a status that is ignored,
`OnError` a clean-up. `Access(m, n)` is an access to the hardware that changes m to
n, or fails and leaves m, if faults are left in the budget. An action of the modules
that use them is a whole call of the application, which takes one of its outcomes.
Since one call at a time enters the library and nothing but the hardware acts in
between, this loses no interleaving where the hardware does not act: where it does,
in `BoardRuns` and `RunMemory`, the access itself has the board's outcomes
(a special run may complete, a preset be reached, counters advance).

### HandelConfig

| Variable | Code |
|---|---|
| `live`, `typed` | the list at `xiaModuleHead`; modules whose `type` is set |
| `nChans`, `channels` | `Module.number_of_channels`, `Module.channels[]` |
| `owner` | `DetChanElement.data.modAlias` of the SINGLE elements |
| `masterSet` | the member list of the SET detChan -1 |
| `defaults` | the list `defaults_<alias>_<channel>`: a function from the names of its entries to values |
| `temporary`, `setting` | the list `temporary_defaults`; the channel and the step `xiaSetDefaults` is at |
| `listsOk` | FALSE when `xiaInitMemory` gave up before it reset the list heads |

Actions are the calls: `NewModule`, `AddModuleType`, `AddNumChans` (which goes on in
`xiaSetDefaults`), `AddAlias` and `ClearAlias` (`_addAlias` with a detChan and with
-1), `LoadDefaults` (from an ini file), `ProcessDefault`, `RemoveModule` (with the
`xiaFreeModule` that fails in it) and `InitMemory`. `xiaSetDefaults` is three actions for each channel, in the code's
order: `CopyDefaults` makes the list if need be and copies it to the temporary one (or
gives up when that is still there), `FillDefaults` overwrites it with what the PSL
reports, `RestoreDefaults` writes the copy back and removes it. `Held` is what the
configuration has of a channel at any of these moments: the list, and the copy over it.
A list that is searched for the
first match is a function of its key, since the code refuses a key in use; only
`masterSet` keeps order and duplicates, which matter there. One detChan is negative
(other than -1), which `_addAlias` accepts and never takes out again. Allocation is
assumed to succeed throughout. Aliases are assumed lower case: `xiaFindModule`
lowers the key and not the alias it was stored with.

### Session

| Variable | Code |
|---|---|
| `modules`, `detChans` | the lists of Handel, by module alias |
| `boards`, `ifaces` | the lists of Xerxes |
| `count`, `name`, `handle` | `numUSB2`, `usb2Names[]`, `usb2Handles[]`, and the same for serial ports |
| `driver` | handles the operating system holds on each device (external) |
| `phase`, `pending` | where the call in progress is |
| `orderly`, `wiring` | never change: how the application behaves, the interface of each module |

`Start` is `dxp_init_ds`; `ShareSlot`, `OpenSlot` and `OpenFails` are the three ways a
module's board is added, and `BuildStops` is `xiaBuildXerxesConfig` that returns between
two of them (a firmware file that is not found); `UnHookOne`, `UnHookStops` and `Closed`
are `xiaExit` and `xiaInit`. In an **orderly** behaviour the application exits before it
starts again, keeps each module whose port is open, has its modules on one interface, and
every port closes; the other behaviours are in the same run, and a property says when it
needs an orderly one.

The modules may be on different interfaces (`wiring`). The code then goes wrong:
`dxp_add_board_item` writes the item "interface" into the board of the module before
(`xerxes.c:506`, `WithIface`), whose port number leads into the other interface's table.
The run `session_mixed` shows it (`BoardsReachTheirDevice`). What holds of any wiring is
`SlotsHoldTheirDevice`: the slot is right in the table of the module's own interface,
and with one interface the board is accessed through that table.

### RunControl, DriverRuns and BoardRuns

| Variable of `RunControl` | Code |
|---|---|
| `multi` | `module->isMultiChannel`: has the module more than one channel |
| `runActive` | `module->state->runActive[]`, all channels of a module at once; unused where `multi` is FALSE |
| `xRun`, `xTask` | `Board.state[0] = 1`, `Board.state[4] # 0` |
| `hw` | what the DSP executes |
| `runType` | the DSP parameter RUNTYPE |
| `op`, `asked`, `rest`, `status` | the call in progress, the modules asked for, the detChans still to visit, the answer |
| `over` | history: the modules whose last run has ended by itself |
| `product`, `orderly`, `order` | never change with `multi`; `order` is the member list of detChan -1: what the modules are; whether only starts fail and special runs are made between data runs |

`Call` begins a start or stop on one detChan or on -1, one action visits one detChan
with its early returns, `Return` ends the call. Handel keeps `runActive` only for
modules of several channels (`_initMultiState`): there a second start is skipped and
a stop without a run is. The Saturn and the microDXP always have one channel, the
others may: each call then goes to the PSL, where a second start is refused by Xerxes
(DXP_RUNACTIVE) or, for a microDXP, sent again, and a stop ends what runs.
`InitMultiState` chooses `multi` within what the products allow. A special run has one action per way
it ends. `RunEnds` is the DSP ending a run by itself, at any moment.

`RunControl` says what a call may leave behind; `DriverRuns` says why. There a call
is composed of the register accesses of `BoardRuns`, in the order of the code: the
polls, timeouts, restored parameters, and the statuses that the PSLs drop. The
board is a record; its fields `hw`, `runType`, `run` and `ctask` are `RunControl`'s
variables under the refinement mapping `RC`. `ImplementsRunControl` is `RC!Spec`:
every way through the register accesses is an action of `RunControl`, or stutters.
So what is proved of `RunControl` for any number of modules rests on a model of
single accesses and not on a reading of each function's summary. `Single` and
`Several` are the products a module of one channel and of several may be. The microDXP
is in `RunControl` only: Xerxes keeps no run for it, and its driver sends one command.

### MappingBuffers and BufferQueue

| Variable | Code |
|---|---|
| `full`, `empty`, `clearing`, `overrun` | bits of the mapping flag register MFR |
| `cur`, `held`, `fills`, `inFill`, `pixel` | the FPGA: the buffer it fills, what is in them, its counters (external) |
| `pc`, `buf`, `polls`, `seen`, `doneBits` | the call in progress: its next access and its local variables |
| `want`, `got`, `shown` | the application's loop: its buffer, the fill last read, the answer of current_pixel |

The host's calls are split at each access to the board (`psl__ClearBuffer`,
`psl__GetBuffer`, `psl__GetCurrentPixel`, `psl__SwitchBuffer`), and `Pixel` and
`Emptied`, the FPGA, act between any two. The application is the loop of
`examples/xMAP/hqsg-xmap-mapping.c`. The FPGA is modelled from how the host uses
it, stated at the head of the module. `ClearTimeouts` allows it to empty a buffer
after `psl__ClearBuffer` has given up.

`BufferQueue` is a queue of fills of capacity 2 with `Produce`, `Lose` (flagged),
`Consume` and `Restart`. `MappingBuffers` implements it (`IsQueue`): the mapping
takes the unread fills in their order and the overrun the application is told of.

### The acquisition values

In `FilterValues`, `ChannelValues` and `GainValues` a module is a record with its
defaults (`val`), DSP parameters (`par`), the firmware it runs and the firmware the
host believes it runs, the Detector, and the budget of accesses that may still fail.
The actions are `SetValue` (for a detChan and for -1, with the roll back of
`pslSetAcquisitionValues`), the operations with a value's effect (remove, get,
calibrate, adjust), and `Restart`, which is `xiaStartSystem` with `pslUserSetup` over
all entries in their order. `topic`, which never changes, is the set of names a
behaviour is about; each cfg's topics put names that depend on each other together.
A raw DSP
parameter is entered before it is written and stays when the write fails (`IsRaw`).
`Held(m, c, n)` says that channel c does what its entry n says.

`FilterValues` loads firmware through `BoardFirmware`, call by call as Xerxes and the
drivers do: the board is told the name of the image, the DSP is put to sleep, the FPGA is
exchanged and the DSP is woken, and each of these accesses may fail. Its fields of a module
are what is in the FPGAs and DSPs and what their names are remembered as, what the
DSP is doing (`run`, `busy`) and which task Xerxes thinks is running. `Restart` is
there `xiaBuildXerxesConfig`, `dxp_user_setup`, `pslModuleSetup` and `pslUserSetup` in
their order. The first start of a behaviour may fail, and what follows a failed start
is another start; later starts are made without faults, since what they must show is
that whatever has failed before, the board is ready after them (`Ready`).

Times are in half clock ticks in `FilterValues`, so that rounding shows; positive
doubles that are multiplied are their logarithms in `XmapGain` and `GainValues`, with
constant factors left out; parameters wrap at the width of `parameter_t`.

`ChannelValues` follows the entry pointer of `psl__SetNumberSCAs` over its two
`pslRemoveDefault` calls: `freed` is TRUE once an entry has been freed twice, and
`ended` when the process has ended of it, which it may.

`XmapGain` is the xMAP's gain as a state machine of its own: `val`, `det`, `hw` as
above, `rest` what `pslUserSetup` has still to set, `stale` (history) the names
whose last set failed or that were not set since the DSP was booted.

`UdxpValues` is the other kind: registers and flash are the truth, an entry of the
defaults is unknown, synced or absent, and each setter must forget (`INVALIDATE`)
what its command changes. `outdated` (history) has the entries that the code
is known not to forget, and `upset` whether a call has failed half way;
`LeftBehind` and `CacheCoherent` name them, so the property says that there are no
others. A standard microDXP bounds the trigger filter by `StandardFast` and a super one by
`MaxFast`; the gap is bounded by `MaxFast` on both (`udxp_psl.c:5538`).

### RunMemory, the run data and Readout

What the host reads is kept as where it comes from: a word is a piece of the board's
memory and the instant it was read, a number the set of the words it is computed
from, an answer the sequence of numbers in the caller's array. Addresses and lengths
are computed as in the code. `RunMemory` has the boards' memories and the reads of the
drivers and Xerxes, one module per family of products what its PSL makes of them.
`Readout` lets the board count, runs end and begin,
lengths be set and DSP programs be loaded between the calls and while they read.

## 3. Runs

| Run | Question | Result |
|---|---|---|
| `handel_config` | do the lists agree, can the configuration always be freed, do the user's values survive every step of `xiaSetDefaults` | holds |
| `session` | is each board's slot its device's and, on one interface, reached; in an orderly use, are handles accounted for and all closed | holds |
| `run_control` | with every fault, can each run Xerxes remembers be ended; in orderly behaviours, do the layers agree and has each call done what it reports | holds |
| `driver_runs` | do the register accesses of four drivers implement `RunControl`; are applies and traces that are reported done | holds |
| `mapping` | are the two buffers a queue, is the oldest the one waited for, is a full buffer served | holds |
| `gain` | with every fault, do failed values heal when set again, does a setup keep the values | holds |
| `filters` | does a successful set hold and leave the board ready, are others undisturbed, is a reported value a fixed point, does a restart reproduce and make ready whatever failed before | holds |
| `channels` | the same of lengths, presets, SCAs and mapping; is there one master | holds |
| `gains` | the same of gains and thresholds; do Detector and defaults agree, do calibrations scale | holds |
| `cache` | is a synced entry what the board has, does a set make its value true, do run data fit their length | holds |
| `readout` | is an answer of one instant, of its channel and of the length told; is an error reported | holds |
| `session_mixed` | does each board reach its device when modules are on two interfaces | violated, see section 5 |

Four more configurations end in a violation each and reproduce a defect that section 5
describes; they are kept to be rerun when the code changes there.

| Configuration (module) | Property | What is violated |
|---|---|---|
| `AdjustPercentRule.cfg` (`GainValuesMC`) | `AdjustReverts` | the Saturn's `adjust_percent_rule` reverts when it fails |
| `StopRepeated.cfg` (`DriverRunsMC`) | `StopRunStops` | a stop that succeeds has stopped the board, also after one that failed (xMAP, Mercury, STJ) |
| `SaturnStop.cfg` (`DriverRunsMC`) | `StopRunStops` | the same of a Saturn |
| `NumberOfScas.cfg` (`ChannelValuesMC`) | `FreedOnce` | each removed entry of the defaults is freed once |

The instances have up to 2.6 million distinct states; the depth of the state graphs of
`session` (42), `run_control` (23), `driver_runs` (20), `mapping` (76), `gain` (33) and
`handel_config` (53) is that of several calls after each other.

### Bounds

| Bound | Value | Why it is enough |
|---|---|---|
| `MaxMaster` (HandelConfig) | 3 | registrations between two `xiaInitMemory`: two detChans and one of them a second time, or all three once; the proofs hold for every bound |
| `MaxChans`, `DetChans` (HandelConfig) | 2, 3 | an id moved within a module, between modules, and out of a module that is declared anew |
| `Modules` (Session) | 3, two on one device; on one interface or mixed | a slot that is shared, one that is not, in each order; a board before and after one of the other interface |
| `MaxOpen` (Session) | 2 | handles lost by repeated starts; the guard is on `Start` only |
| `Items`, `PslItems` (HandelConfig) | a name the PSL reports, one it does not | a value that the PSL's would replace, one that only the copy keeps |
| `Scope` (HandelConfigMC) | detChans or values of the user's, not both | the calls on detChans ask of a list of values only whether it exists, which is explored; the proofs are of `Spec`, without it |
| `Modules`, `DetChans`, `MasterOrders` (RunControl) | 2 modules, 2 detChans and 1, or 1 each | a walk of -1 visits a module twice and goes on to another; a module of one channel beside one of several, or two of one |
| one module (DriverRuns) | of one channel or of several | a call visits one board at a time; the walk is `RunControl`'s |
| `PixelsPerFill`, `MaxPixel` (MappingBuffers) | 2, 7 | three fills and a half: both buffers full, one lost, and on; a pixel number has one word here, two in a run of the original |
| `PollScale` (MappingBuffers) | 1 | one poll for 10 ms: an answer before, at and after the last poll |
| `MaxValue` (XmapGain) | 1 | how far calibrations and set-ups of stale values may move a logarithm |
| `MaxStale` (XmapGain) | 2 | two failures in different functions |
| `MaxFaults` (value modules, Readout) | 1 | one access fails, at any place of any call, in `FilterValues` of the first start too; later calls are made without faults |
| `FakePT` (FilterValues) | 4 | the 1 microsecond under which `handel_xerxes.c` asks for system firmware, in half ticks: a time within the shortest range of the table |
| `MaxCalls` | 2 or 3 | set, set another, restart or set again; with `Init` at every topic |
| `Start`, `Values`, `Fdd` | in the MC modules | values below, at and above each range, and of each firmware |
| `Block`, `MaxBins`, `WordSize` etc. | small | spectra of a few blocks; numbers that take two or three words |
| `ModuleChannels` (Readout) | 2 | a channel with another below it: its address depends on the other's length; the proofs hold for any number |
| `StjStats`, `StjCounted`, `MaxAddr`, `MaxScas` (Readout) | 4, 1, 200, 4 | the STJ's block of statistics is not the others', its buffers count fewer channels than it has; both spectra are within the memory; a microDXP with the few SCAs of an old revision and with those of a new one |
| `MaxTime` (Readout) | 1 | two instants: a reading that is not of one shows |

Symmetry is not sound in most runs (orders, starting values) and is used in
`HandelConfig.cfg` only, on the aliases. No state constraint is used: each bound is a
guard, `Scope` one on the next state. Deadlock is checked but where `MaxCalls` or `MaxTime` ends a behaviour
(`FilterValues`, `ChannelValues`, `NumberOfScas`, `GainValues`, `AdjustPercentRule`,
`UdxpValues`, `Readout`).

### Fairness

Liveness is asked once, of the mapping loop: `FullBuffersAreServed`. `FairSpec` is
weak fairness of `Goes`, the accesses inside a call, since the caller's thread keeps
executing it; and strong fairness of `Asks`, the application asks
`buffer_full` again and again, as in the example's loop, though it may ask for the
pixel number or the next pixel in between, for ever. Nothing is assumed of the FPGA:
it need not send a pixel nor empty a buffer, and the polls end by their count.

## 4. Theorems

The theorems hold for every value of the constants that satisfies the named
assumptions of the module: any number of modules, detChans, channels, values.

**`HandelConfig_proofs`.** `TypeCorrect`, `DetChansHaveOneChannel` (`ChannelsOwned`,
`OneChannelPerDetChan`), `MemoryAlwaysFreed` (`ListsNeverDangle`), `LookupsSucceed`
(`LiveDefaultsExist`, `MasterHasEveryDetChan`) and `DefaultsSurvive`. The properties
are inductive together with two more: `CallInOrder` (see below) and `DeadModulesEmpty`, an alias without a module
has no channels, so that a new module of that name starts with none. The heart of
the argument is `AddAlias`: the id it takes is free or was taken from that very
channel, and a free id is named by no channel (`ChannelsOwned`), so no second channel
gets it. `ListsNeverDangle` follows because in such a state every module can be freed
(`EveryModuleFreesLemma`): the early return of `xiaFreeModule` is then never taken by
`xiaInitMemory`, only by `xiaRemoveModule`. `DefaultsSurvive` follows the values
through the three steps: what the list had is in the copy while it is overwritten, and
back in the list when the copy goes. It needs that the temporary list is there exactly
between the first and the third step.

**`Session_proofs`.** `TypeCorrect` and `OneInterfaceIsReached` (`OneInterfaceReaches`)
for systems of one interface, `SlotsAreRight` (`SlotsHoldTheirDevice`) for any wiring,
`NoHandleIsLost` (`HandlesAccounted`), `ExitClosesAll` (`ExitDisconnects`) and
`SlotsAreSeparated` (`CounterSeparates`), assuming finitely many modules and a name that
is no device's for "none". None of them is inductive. For any wiring the invariant,
`BuiltInv`, speaks of what the start in progress has built: a table a board of this start
is in has been initialised in it, the names below its counter are set, and the board's
slot is below the counter and open. For one interface the invariant relates the three
layers. Whatever the application does, each module has at most one board, a board leads to
a slot below the counter that holds an open port of its device (`BoardsInv`, `TableInv`),
and the slots boards lead to are no more than the counter: this is what keeps the counter
from going below zero, and the next slot within the table, when ports are shared and
restarts have lost others. In an
orderly use every open port is, while the system is up, some board's whose module is
still there and, while it is closing, of a board still to be visited
(`OrderlyInv`): so nothing is open when the walk is over, and the next start
begins with empty tables.

**`RunControl_proofs`.** `TypeCorrect` and `XerxesRunsAreKnown` for every set of faults
and every product. `BoardRunsAreKnown`, `StopStops` and `StartStarts` in orderly
behaviours; with the other faults they are false (`StopRepeated.cfg`,
`SaturnStop.cfg`). The invariant has two parts:
on each module the board runs only what a stop reaches (`Reaches`: the module has one
channel or is marked), Handel's runs are Xerxes'
runs, and RUNTYPE is special only while Xerxes remembers a task; and the modules a
call was asked for and that are no longer ahead in the walk are done. The second is
what makes the answers for detChan -1 true for lists of any length and order, with
repetitions.

**`MappingBuffers_proofs`.** `TypeCorrect`, `OldestFirst` (`WaitsForTheOldest`) and
`ImplementsQueue` (`IsQueue`), for every size of a buffer, number of polls and word
size, for each product, and whether clears time out or not. The invariant follows the
application's loop: the buffer it turns to is **due**, it holds the oldest unread
fill or is the one the FPGA fills (`Due`); from the end of a read until the
buffer is empty again it is **spent**, and the other is due (`Spent`). A lost fill is one the
FPGA could not begin because both buffers were in use, so its loss cannot reorder the
two that are there. The refinement has one step per action: `Pixel` is `Produce` or
`Lose` or no step, the end of a read is `Consume`, the begin and the end of a run are
`Restart`, every other access is no step of the queue.

**`XmapGain_proofs`.** `TypeCorrect`, `SettingHeals` (`SettingAgainHeals`) and
`SetupIsIdempotent` (`SetupKeepsValues`), with every fault, for any thresholds, any
order of the defaults list, any values and any amplifier range; the assumption that
matters is `InitialAssumption`, the channel's first values satisfy the relation of
range, rule and energy and are within the amplifier's range. "Everything agrees when
nothing is stale" is not inductive: the invariant says for each relation which names
being fresh make it hold (`RuleWhenFresh`, `PreampWhenFresh`, `FilterWhenFresh`,
`ParamsWhenFresh`). A set that succeeds recomputes the relations of its name from what
is there, whatever earlier failures left, and a set that fails makes its own name
stale, so each relation is either re-established or excused.

**`DriverRuns_proofs`.** `TypeCorrect`, `Implementation` (`ImplementsRunControl`, the
refinement of `RunControl`) and `TasksDone` (`TasksAreDone`), for every set of
products and of faults; the assumptions are that these are the code's
(`ProductsAssumption`, `FaultsAssumption`). The lemmas
climb the layers of the code: a register access, the DSP, a poll, the end of a run,
each driver's special runs, the marks of Xerxes, the PSLs. Each layer is summed up as a
relation between the board before and after (`Ends`, `EndsTask`, `Begins`, `Starts`,
`Stops`, `TaskEffect`, `ReadEffect`, `StartEffect`, `StopEffect`), whatever the board did by
itself in between, so the layer above never looks into it. One lemma per kind of call
(`TaskMaps`, `ReadMaps`, `StartMaps`, `StopMaps`) then finds the action of `RunControl`
that has this effect. `TasksAreDone` needs `Orderly`: in an orderly
behaviour the board executes nothing but what Handel and Xerxes know of, and the trace
waiting in it is the last one begun. Through the refinement,
`BoardRunsAreKnown`, `StopStops` and `StartStarts` above speak of the register accesses.

**`UdxpValues_proofs`.** `BoardTypeCorrect`, `CacheIsCoherent`
(`CacheCoherent`), `DataFitTheirLength` (`DataFitsLength`), `SetsMakeTrue`
(`SetMakesTrue`) and `GetsAnswerTheBoard`, for any limits, values, clocks and contents of
the flash that satisfy `LimitsAssumption`, `ValuesAssumption` and `FlashAssumption`, and
any number of faults. First the board: what a step writes (`Step`, `Out`)
and what each getter reads and remembers (`Acquired`). Then for each
setter which registers it writes, which entries it forgets, and that what it remembers
is true (`SetFine`); the hard ones write a register another value is computed from, as
the gap time and the two peak offsets, where the argument is the arithmetic of the
rounding and the cut at the register's width. Each call of the application then keeps
the cache coherent but for what `LeftBehind` names (`Coherent`). The inductive
invariant, `CacheInv`, adds to `CacheCoherent` that between calls nothing is got and
that the clock's entry is true unless a call failed half way: the times are converted
with that entry.

**`Readout_proofs`.** `DataOfOneInstant` (`OneInstant`), `DataIsItsOwn` (`OwnData`),
`DataHasItsLength` (`DataFitsLength`), `SnapshotsAreOfOneInstant` (`SnapshotsAgree`),
`ErrorsAreReported` (`ErrorIsReported`) and `BoardIsKept`, the invariant they follow from,
for the five products and any number of channels, lengths of spectra, instants and
faults. The board may count on, end its run or fail at every single access. Besides that
the constants are numbers, the proofs assume the layout of the memory
(`LayoutAssumption`): the counters are ahead of the spectra, the longest spectra of all
channels end below the SCAs, the SCAs of two channels do not overlap, and two blocks
of bins are not more than the longest spectrum. In the code a block has 256 words, the longest
spectrum 16384 or 8192, and the SCAs of a channel 64; the place of the SCAs is the DSP
parameter `SCAMEMBASE`, which the host reads and does not check, so the room below
it is assumed of the DSP code.

`ReadoutInvariant` has the vocabulary, in the order of the argument. A read of memory
is of one instant (`AtOnce`, `AreaOnce`), or each word is of its own (`Piecewise`); what
the PSL does with the words gives numbers made of named words (`Sends`). For each
product, one relation says what any call leaves of the board and answers: `Replies` for
the xMAP, Mercury and STJ, `Confides` for the Saturn, `Teaches` for the microDXP, which
also remembers lengths. To compare what was read with what was promised, the address
the host computes must be where the board has the asked channel's words: both are sums over the
channels below (`Adds`), equal while the board's lengths are the run's (`SettledOn`), and
no other channel's spectrum reaches there. `Serves` then is what a call owes
its caller, the same for all products.

None of the properties is inductive. The invariant, `Kept`, says what is true of the
board between the calls and of what the application knows: the lengths in the
parameters and in the defaults agree and are within the memory (`Standing`), a length
that was told and not set since is still the one in use (`Heard`), the Saturn's defaults
are its parameters except for what `moved` names (`Traced`), and what was seen of a
snapshot is the snapshot's instant. Setting a length and loading a DSP or a FiPPI are where it could
break: a Saturn writes the high limit, then the default, and each failure in between
must leave both or neither, or be named. For a Saturn `OwnData` speaks of calls
in which no access failed: where `SYSMICROSEC` cannot be read the PSL assumes a clock
of 20 MHz, and a time may be in the wrong unit, though it is still of one instant,
which is what `Trusted` says.

Only model-checked are the properties of `filters`, `channels` and `gains`, where a call
is a composition of many operators, some of them folds over the order of the
defaults: `ReportedIsFixedPoint`, `OneMaster`, the two `RestartHolds` and the action
properties; and `FullBuffersAreServed`, since liveness under fairness is beyond the
prover, as are ENABLED and induction over recursive definitions. No module declares a
RECURSIVE operator.

## 5. Where the code differs from what it says, and what the models leave out of a property

**Stated as a run** (`session_mixed`) **or as a further configuration.**

* `AdjustPercentRule.cfg`: `psl__AdjustPercentRule` of the Saturn
  (`devices/saturn/saturn_psl.c:2241`) changes the rule in the defaults and returns when
  the gain cannot be set; the comment below says the gain is reset then, which is never
  reached. The entry keeps the new rule and the next gain change uses it.
* `StopRepeated.cfg`: `dxp_stop_one_run` (`xerxes/xerxes.c:2095`) forgets the run before
  `dxp_end_run`. If that fails, `xiaStopRun` returns the error, the second stop finds
  nothing to stop and succeeds, and the board takes data.
* `SaturnStop.cfg`: `pslStopRun` of the Saturn (`devices/saturn/saturn_psl.c:2459`) takes a
  BUSY it could not read for 0.
* `session_mixed`: `xerxes/xerxes.c:506`, see `Session`.
* `NumberOfScas.cfg`: `psl__SetNumberSCAs` (`devices/xmap/xmap_psl.c:4348`, and in the
  Mercury and the Saturn) uses one entry pointer for `sca_lo` and `sca_hi` and does not
  reset it; `pslRemoveDefault` leaves it alone when there is no such entry, and the entry
  that was freed is freed again.

**Met while modelling; the models behave so, and the properties say where they
except it:**

* A removed detChan stays a member of detChan -1 (`handel/handel_detchan.c:271`);
  calls on -1 then fail half way. `xiaGetModChan` (`handel/handel_dyn_module.c:1498`)
  answers 999 for a detChan whose channel was set to -1.
* Removing a module keeps its defaults: `xiaFreeModule` returns
  (`handel/handel.c:721`) at the detChan that is already removed, before the defaults.
  The comment at `handel/handel_dyn_module.c:1640` says they are removed.
* A stop that failed leaves a run nobody remembers: hence the condition `orderly` in
  `BoardRunIsKnown`, `StopMeansStopped` and `StartMeansStarted`.
* A special run that fails may leave RUNTYPE special, and a data run then begins as
  a special run (`devices/xmap/xmap.c:2516`).
* Ports lose handles when `xiaStartSystem` is called twice without `xiaExit`: the
  counter is reset while ports are open (`md/md_linux.c:1146`).
* The STJ skips a peaking time whose SLOWLEN is already there
  (`devices/stj/stj_psl.c:3030`), also after another channel loaded another FiPPI;
  `SuccessHolds` of `FilterValues` leaves that name of the STJ out.
* The microDXP's gap time is written before the peak offsets are asked for
  (`devices/udxp/udxp_psl.c:5136`): where the host does not know them they are computed
  from the new gap and the old PEAKINT, which then stays. The comment above says it is
  updated. The entries other setters do not forget are in `LeftBehind`.
* After five wrong checksums `dxp_download_fippis` (`devices/xmap/xmap.c:3590`,
  `devices/stj/stj.c:3043`) returns success with an FPGA that is not configured: the
  premise on the loaded FiPPI in `SuccessHolds`. The STJ does not verify the
  transfer of its other FPGAs.
* The Mercury downloads its FiPPI under the name `a_dsp_no_wake`, for which
  `dxp_replace_fpgaconfig` (`xerxes/xerxes.c:1663`) reads no file: the image the board
  remembers is loaded once more, and the new name is remembered.
* An error between sleep and wake leaves the DSP asleep, or a task in Xerxes, and tasks
  after it are refused; only a start repairs that. The early returns of the Saturn's
  `dxp_download_fpgaconfig` do likewise. A FiPPI whose download failed keeps its name, so
  that setting the old peaking time again is skipped.
* `xia__DoSystemDSP` (`handel/handel_xerxes.c:1372`) loads a DSP and leaves `currentDSP`
  as it is, so that a later switch may skip the DSP it should load.
* `dxp_add_fippi` (`xerxes/xerxes.c:1394`) leaves a pointer to freed memory in the board
  when the file cannot be read.
* A mapping mode that failed half way leaves `currentSysFPGA` behind
  (`devices/xmap/xmap_psl.c:6075`); the same call again repairs it, another one may
  not: the condition on "mapping_mode" in `SuccessHolds` of `ChannelValues`.
* The STJ computes thresholds with the gain remembered before, and indexes the
  Detector with the detChan (`devices/stj/stj_psl.c:928`): `LeftBehind` of `GainValues`.
* A Saturn goes on without what it could not read, and writes a spectrum of another
  length when its low limit or its DSP changed (`devices/saturn/saturn_psl.c:2560`).
* The energy livetime of an STJ is left as the caller's variable was
  (`devices/stj/stj_psl.c:5698`); the length of a list buffer is read in two words,
  at two instants (`devices/xmap/xmap_psl.c:8502`).

## 6. Not modelled

* Threads and events (`md_threads_*.c`): wrappers that nothing in the library
  waits on; one call at a time enters it.
* Files (ini, FDD, XUP), logging, errors, assertions: text formats and messages.
* The Windows I/O layer and the protocol libraries below the ports; the transport of
  the microDXP: a command fails or succeeds, with its effect or without.
* What FPGA and DSP files hold, and the list in which Xerxes keeps those it has
  read: `BoardFirmware` has an image by its name.
* Detector and firmware lists, and the sort of firmware by peaking time: the value
  modules take a Detector and a firmware table as given.
* Of the modelled components, what the notes of `PROJECT.json`'s components name:
  list mode, traces' data, the Mercury OEM's filters and channels, flash and board
  information of the microDXP, detChan sets other than -1, validation, boards of more
  than a few channels (the 16 bit mask of `xerxes/xerxes.c:572`), wrapping thresholds
  (`XmapGain` and `GainValues` compute with logarithms).

## 7. What could follow

In the order of what it would add:

1. The transport of the microDXP: commands and responses over a line that delays,
   truncates or corrupts, with `dxp_verify_response`, as the layer below `UdxpValues`.
2. `ChannelRegistry`, the abstract promise of `HandelConfig`: a partial map from detChans to
   channels, one to one, with registration, move and removal.
3. Proofs of `OneMaster` of `ChannelValues`, and of the restarts of the value modules.
4. Firmware: validation, sort and choice by peaking time against a reference
   definition.
5. The Mercury OEM in `FilterValues` and `ChannelValues`.
