# A verification project for pcie_util

`pcie_util` is a Linux PCI driver, `xgpu_drv`, and a small tool, `pcie_enum`.
The driver is where things can go wrong: device threads, interrupt handlers and
file operations share structures, most calls into the kernel can fail, and every
failure has an unwinding path that no test takes. This directory holds TLA+
modules of the driver, the TLC configurations that check them, and proofs of the
main results.

## 1. The system

| component | code | state | operations |
|---|---|---|---|
| device library | `libxgpu.c`, `libxgpu.h` | `struct xgpu_dev` of a device; what the kernel holds for it (enable count, regions, mappings, MSI, handlers) | `xgpu_device_open`, `xgpu_device_close`, `xgpu_device_offline`/`online` |
| device list | `libxgpu.c:19-71` | `xdev_list`, `idx` | add, remove, find by `pci_dev` |
| library interrupts | `libxgpu.c:225-362`, `:595-962` | `irq_line`, `msi_enabled`, `msix_enabled`, `interrupt_mode` | set up and tear down, `xgpu_isr`, `xgpu_user_irq` |
| BAR roles | `libxgpu.c:419-487` | `user_bar_idx`, `bypass_bar_idx` | `identify_bars` |
| PCI module | `xgpu_mod.c` | `struct xgpu_pci_dev`, driver data | `probe_one`, `remove_one`, `xgpu_msi_interrupt` |
| device files | `xgpu_cdev.c` | three lists of files, the major number | create and destroy interfaces |
| error handlers | `xgpu_mod.c:140-205` | enable count of a bound device | error detected, slot reset |
| module init and exit | `xgpu_mod.c:215-235`, `xgpu_cdev.c:289-319` | class, cache, driver | init, exit |
| config files | `cdev_config.c` | `config_data`, one array for all devices | read, write |
| register files | `cdev_register.c` | `pcimap_addr`, one mapping for all devices | read, write, ioctl |
| control files | `cdev_ctrl.c` | none of their own | read, write, ioctl, mmap |
| enumeration tool | `pcie_enum/` | a list of devices read from sysfs | list, count resources, print |
| command line parser | `pcie_enum/cmdline.hpp` | vendored | |

How they meet. The kernel calls `probe_one` and `remove_one`; calls for one
device are serialised by the driver core, calls for different devices are not.
Probe allocates its structure, opens the device through the library, enables
MSI with a handler of its own, and creates the files. The library keeps its
devices on a list under a mutex. Interrupt handlers run at any time between the
registration of a handler and the return of `free_irq`, which waits for them.
File operations reach the `xgpu_dev` through pointers kept in each file.

What is hard, and what makes each part correct:

* **Unwinding.** An open makes some twenty calls that can fail, into six labels
  entered from different places. Correct: an open that fails, and a close,
  leave nothing behind (`ClosedHoldsNothing`, `ContractSpec`).
* **Handlers against teardown.** Correct: while a handler runs, what it reads is
  there (`HandlersSafe`, `HandlerHasDevice`), vectors stay allocated
  (`VectorsBacked`), and only own lines are freed (`FreesOwnIrq`).
* **A parameter that changes.** `interrupt_mode` is writable at any time.
  Correct: an open device has exactly the handlers its flags record
  (`OpenHoldsAll`).
* **Two devices at once.** Correct: device numbers are distinct and stable
  (`ListInOrder`, `RegistrySpec`); one device's error path leaves another's
  resources alone (`RegionHeld`, which fails).
* **Loops half way.** The vector loops are undone from one below the vector that
  failed (`FreesOwnIrq`, `IInv`).
* **Progress.** Calls return though `free_irq` waits (`CallsReturn`, `CallsEnd`);
  a channel that interrupts is quieted (`HandlerQuiets`); readers meet the end of
  a file (`ReadersEnd`); the tool ends (`ToolEnds`).
* **Shared globals.** All devices share `config_data` and `pcimap_addr`. Correct:
  a write puts its client's bytes into its device (`WritesOwn`), a reader is
  given a file once and in order (`ShortFilesOnce`, `WholeInOrder`), and what an
  operation has loaded stays mapped (`AccessMapped`). That what is read or
  written is the device's own (`WholeGiven`, `SpaceKept`, `OwnRegisters`) fails
  with two devices.
* **Files that outlive what they stand for.** Correct: files go before their
  device does (`FilesHaveDevice`), an open file finds its structure
  (`OpenFileHasCdev`, which fails), and there is a BAR behind every access
  (`MmapInBar`, and `AccessInBar` and `ConfigBarMapped`, which fail).
* **Boundaries.** BAR lengths beyond an `int` (`AllOrNothing`), a read that
  starts in a file and ends behind it (`WholeInOrder`), the size left of a BAR
  (`MmapInBar`, and `MmapStaysInBar`, which fails), counters that start one ahead
  (`RegionsShown`), names that are equal (`TreeDrawn`, and `OneLast`, which
  fails).
* **Registers that outlast an open.** Correct: vectors are right in whatever
  order of modes a device is opened (`VectorsRouted`).
* **Recovery and unloading.** Correct: a recovered device is enabled and has its
  configuration back (`RecoveredEnabled`, `RecoveredRestored`), the class lives
  as long as devices do (`ClassWhileUsed`), and a failed load leaves nothing
  (`UnloadedHoldsNothing`).
* **A file system that changes.** The tool reads sysfs while devices come and
  go (`AmountBacked`, `ToolSurvives`).

`PROJECT.json` lists every hazard at its line.

## 2. The modules

| module | what it is |
|---|---|
| `LibXgpu` | the device library: open, close, list, interrupts |
| `LibXgpuInv` | its inductive invariant |
| `LibXgpuProofs` | the invariant proved, one lemma for each action; the safety properties that follow; and that `LibXgpu` implements the two abstract modules below |
| `IndexRegistry` | abstract: a registry of device numbers |
| `DeviceContract` | abstract: what the library promises its caller |
| `XgpuMod` | probe and remove, the module's MSI handler, creating and destroying files |
| `XgpuModProofs` | its inductive invariant and the proofs of its safety properties |
| `BarMap` | mapping the BARs in detail, and their roles |
| `IrqRegs` | the interrupt registers: vectors, channel masks, `xgpu_isr` |
| `LibDetailsProofs` | proofs about these two: the vectors are right; the BARs found are those there are, and the roles those described |
| `XgpuFiles` | `XgpuMod` with clients that hold device files open |
| `XgpuDriver` | module init and exit, and the PCI error handlers |
| `XgpuDriverProofs` | its inductive invariant, and the proofs of its properties |
| `ConfigFiles`, `ConfigFilesProofs` | the config files, over one array for all devices |
| `RegisterFiles`, `RegisterFilesProofs` | the register files, over one mapping for all devices, and the test program |
| `CtrlFiles`, `CtrlFilesProofs` | the control files: words of a BAR, and mapping it |
| `PcieEnum`, `PcieEnumProofs` | the enumeration tool |
| `MC...` | instances for TLC |

`LibXgpu` implements `IndexRegistry` and `DeviceContract`; `XgpuMod` is built on
`DeviceContract`, so that the two detailed modules meet in it and neither
carries the other's state. `XgpuFiles` extends `XgpuMod`. `BarMap` and `IrqRegs`
refine single steps of `LibXgpu` and leave the rest of it out; `XgpuDriver` takes
a whole probe for one step that succeeds or leaves nothing, which `XgpuMod`
shows (`IdleHoldsNothing`, `BoundHoldsAll`). The three modules of file
operations have the creation of their files, which fills the shared state, from
`xgpu_cdev.c`, and nothing else of probe.

### LibXgpu

`pc[d]` is the next call of the thread that opens and closes device `d`; the
labels of `xgpu_device_open` are locations of their own name (`err_msix`,
`err_mask`, `err_map`, `err_regions`, `err_enable`, `free_xdev`).
`xgpu_device_close` makes the same calls in the same order after
`irq_teardown`, and shares these locations. `xdev[d]` is the `struct xgpu_dev`,
with `live` for "not freed"; `bar` is the set of BARs with an address.
`pci[d]` is the kernel's side: enable count, requested regions, mappings,
interrupt kind, and the lines on which this device has a handler. `running` is
the set of handlers that are running.

Each call is one action with an alternative for its failure. `xdev_list_add`,
`xdev_list_remove` and the look-up hold a mutex throughout, and are one step
each. `free_irq` is two: it takes the handler off the line, and returns when no
call of it runs (`FreeIrq`, `SyncIrq`). The loops over BARs and over vectors are
one step for each iteration. `enable_msi_msix` reads `interrupt_mode` in two
steps, and sets its flags whether or not the kernel agreed, as the code does.
`got_regions` and `regions_in_use` are constant operators because the only
assignments to them are compiled out.

The library is modelled for any `user_max`; the shipped caller asks for 0. With
more, the first user interrupt wakes a wait queue nobody has initialised: the
outcome is the variable `panicked`, after which nothing happens. Values of
registers and log output are left out; the vector table is in `IrqRegs`, the
roles of the BARs in `BarMap`.

### XgpuMod

`mpc[d]` is the next step of the thread that probes or removes `d`; `remove_one`
and the label `err_irq` share `free_irq`, `sync_irq`, and both continue with
`xpdev_free`. `lib[d]` is the state of `DeviceContract`. `nodes[d][t]` is the
length of list `t` of files, `region[d]` the majors allocated for `d`.
`unregister_chrdev_region` takes numbers, so `Unregister(m)` removes a region
from whoever has it. The rest of `create_xcdev` is one action with its
outcomes: created, name refused, `cdev_add` refused, and a crash, because
`kobject_set_name` frees the name found in memory that `kmalloc` has not
cleared. `file_destroy_interfaces` on a list that is not empty ends in the
location `oops`: `list_for_each` reads the successor from an entry that has
been deleted (its `next` is the list poison) and freed. The thread is gone, and
the kernel, which goes on, still holds the lock of that device.
`xpdev_cnt` is never read and is left out.

### BarMap

One action for an iteration of `map_bars`, for each of its outcomes. `IntMax` is
3, so that lengths of 4 and 8 go through the conversion to `int` as 2 GB and
4 GB do; every length of six BARs is an initial state. `unmap_bars` keeps the
BARs its loop does not come to, which are none; it is called from the error path
of `map_bars` and, in `CloseUnmaps`, from the label `err_mask` and from
`xgpu_device_close`. `refused` is a history variable: the BARs `pci_iomap` has
refused. The names that several modules have (`Init`, `Next`, `Spec`, the counter
`i`) are `MapInit`, ..., `bar_i` here, for the proofs to extend it together with
`IrqRegs`. `identify_bars` is an operator of the list and the position, checked
against the rule its comment gives (`IdentifiesAround`), and used with the
position `map_bars` passes, which stays 0 (`RolesAroundConfig`).

### IrqRegs

The registers keep their contents from open to open; the mode may be another
each time. The two loops of `prog_irq_msix_user` are one step for each register,
with the counting of `i` as in the code, by vectors when it programs and by four
when it clears. `irq_legacy_setup` may fail with the vectors written. `xgpu_isr`
is two steps, the read of the requests and the write that disables them; clients
and engines raise, enable and serve in between.

### ConfigFiles, RegisterFiles, CtrlFiles

In `ConfigFiles` a byte is the device and the place it is meant for, and the
client that has written it, so that a byte that goes astray shows; `Stray` is a
byte meant for no place, or not for the one where it is. `config_data` is read
and written byte by byte, by `cdev_config_init` of any probe and by any client,
as nothing locks it. A client reads and writes an open file in any order, with
any of its counts. A read of the config file takes the bytes from `*pos` on and
ends early where `*pos` has reached the count. A write takes the whole item from
the client's buffer, whatever its count: for the config file from `buf + *pos`
on, put into the array from 0 on, so that a write that does not start at 0
stores bytes meant for other places; and it adds the item's length to `*pos`.
The kernel's `copy_to_user` may fault between two bytes, as may the
`copy_from_user` of the config file, which zeroes the rest; that of a short
item fails before anything is written. A client that has been given the end or
an error closes the file. `disturbed` is a history variable: the clients whose
write is under way and whose array somebody else has changed meanwhile.

In `RegisterFiles` an operation loads `pcimap_addr` and then accesses what it
has loaded. A mapping is named by the device and the file it was made for. The
error path destroys the first file of the list and crashes behind it, as in
`XgpuMod`; its test for a register file takes major and minor together, so that
`cdev_register_exit` never runs: a device number is the major, which is not 0,
above 20 bits of minor, and no file has that many before it
(`NodesAssumption`). The test program is a client with a program
counter.

In `CtrlFiles` a BAR has an address and a length in pages, with which it stays
below `Word` (`StartAssumption`), and `bridge_mmap` computes in unsigned
arithmetic of `Word` values.

### XgpuFiles

A file is a device, a list and a place in it, and can be opened from `cdev_add`
to the end of its device or list; the client keeps it open as long as it likes.
`freed` has the lists whose first entry `file_destroy_interfaces` has freed: it
crashes before it can free another.

### XgpuDriver

`mod` is where `insmod` or `rmmod` is. `enable_cnt` and `command` are the
device's enable count and the bits of its command register, with the kernel's
rule that `pci_disable_device` acts when the count reaches 0 and
`pci_enable_device_mem` when it was 0 or less. `saved` is what `pci_save_state`
has saved. A link reset between `xgpu_error_detected` and `xgpu_slot_reset`
clears what was written to the device, or fails.

### PcieEnum

An initial state is one of the `Machines`: the devices there are, with the
resource files they may have, and the options the tool is called with. With
`Changing` devices come and go. `scan` says whose `pci_tree` is being built:
`main`, `print_pci_tree` and `read_region` each build one. Every look at sysfs is
a step: the directory, the ids of a device, its config, each resource file. `Plug` adds or removes a device
between any two. A file name is the numeral `aaa` writes. The bytes and headings
`read_region` prints are a sequence, computed from the counter `i` as in the
code; spaces and line ends are left out. The sorted names are given by what
sorting does (`Slots`): of a list in order, fewer than `k` elements are below
the `k`-th, and at least `k` up to it. Devices on several buses may come to one
name.

## 3. The runs

| run | root module, bounds | shows |
|---|---|---|
| `two_devices` | `MCLibXgpu`: 2 devices, no user interrupt, all modes, `MaxIdx` 4 | safety of the library with two devices that differ in BARs and capabilities; both refinements; that every call returns |
| `vectors` | `MCLibXgpu`: 1 device, 2 vectors | the vector loops, and the inductive invariant |
| `mod_two_devices` | `MCXgpuMod`: 2 devices, 2 majors, tables of 2, 1, 1 files | what bound and unbound devices hold, what handlers find, and `CallsEnd` |
| `bar_map` | `BarMap`: 6 BARs of 4 lengths | what is found, what a failure and a close leave, `identify_bars` against its comment |
| `irq_regs` | `IrqRegs`: 0, 1, 4, 6 or 16 user interrupts, pins 0, 1, 3, 2 channels | vectors after any sequence of modes; `HandlerQuiets` |
| `config_files` | `MCConfigFiles`: 1 device, the config file of 4 bytes and an item of 3, a reader and a writer | bytes are given once and in order, and written as they were given; `ReadersEnd` |
| `config_clients` | `MCConfigFiles`: 2 devices, config files of 2 bytes, 2 clients that read and write 1 or 2 bytes | the same of clients that do both, over one array for two devices |
| `reg_two_devices` | `MCRegisterFiles`: 2 devices of 2 files, the test program and a client | `AccessMapped` |
| `ctrl_files` | `MCCtrlFiles`: 3 BARs of 0 to 2 pages | `MmapInBar` |
| `driver_two_devices` | `XgpuDriver`: 2 devices, enable count down to -2 | `ClassWhileUsed`, `RecoveredEnabled` |
| `enum` | `MCPcieEnum`: 1 device with 6 resource files, and 3 devices on 2 buses, with equal names or not, plugged at any time | the count, the printed regions and tree, `ToolEnds` |
| `config_shared` | `MCConfigFiles`: 2 devices, 1 reader | `WholeGiven` fails |

Deadlock is checked in `two_devices`, `irq_regs`, `ctrl_files`, `config_files` and
`config_clients`. Elsewhere the system may really stop: after a panic
(`vectors`), when every device's thread has crashed (`mod_two_devices`,
`reg_two_devices`, `driver_two_devices`), and when a loop or the tool has ended
(`bar_map`, `enum`).

The other `.cfg` files are counterexamples to keep, with the properties that
fail; section 4 names them. `tlc -config <file> <root module>` shows one.

Why the bounds are enough. Two devices are what it takes for one to be added
while another is being removed, or to share a line or a region; the properties
speak of pairs. Two vectors give a loop a first, a last and a failing iteration,
with and without earlier ones. `MaxIdx` caps the device number, which grows
without end while some device is always on the list: `CallOpen` is disabled when
an open could go above it, and four opens beyond the first reach every shape of
a list of two. `MixedBars` gives one device neither region 2 nor 5, so that it
can be opened again and again, and the other both, so that a second open fails.
Both have BAR 1; a device without one is the counterexample `lib_config_bar`.
Tables of 2, 1 and 1 files have a first file, a file that is not first in its
list, and a first file of a later list; longer ones add nothing to what an error
path can meet.

A configuration space of 4 bytes holds an item read in three accesses and the
whole, with reads that start in it and end behind it. One reader and one writer
meet every pair of accesses that two operations can make to the array. With 2
bytes a write can start at 0 and at 1, take data for a part or for all, and
leave a position of 2 or 3; two clients that do so, of two devices, also have
their writes meet each other's and the probes' in the array. Two files for
each device let a mapping be replaced by the same device and by the other;
`Values = 1`, as `AccessMapped` is about where an access goes and not about what
it returns (the counterexample `reg_test_program` has 3).
A word of 128 addresses with pages of 8 has offsets before, at and behind the
end of a BAR. `MaxPos` caps how far a client reads on, `MaxLost` how often a
device can be frozen without being reset: one such loss makes the count 0
before the next, two make it negative. 16 user interrupts fill four registers
of the table, 6 one and a half. Six resource files are all there are. No
symmetry is used: the devices differ, or liveness is checked.

Fairness. A thread inside a call goes on (`WF` of its steps), and a handler that
runs returns (`WF` of the handler): the kernel schedules both. Nothing obliges
anyone to open a device, and no interrupt has to come. Handlers may start again
at once, so that `free_irq` returns only because it takes the handler off first.

In `IrqRegs` an interrupt that is asserted is delivered, and nothing is assumed
of clients or engines, except for `ChannelsReenabled`, where every request is
served in the end. In `ConfigFiles` a client inside a read or write goes on, and
one that has a file open reads on; probes need not go on. In `PcieEnum` the
tool's process is scheduled, and devices need not stop coming and going.

## 4. Where the code does not do what one expects

One disagreement with the documentation is a run of the project:

* **The config file of a device shows another device** (`config_shared`): all
  devices fill and read one array, and the driver's README promises boards with
  several GPUs.

The others are kept as configurations that fail, by file and root module:

| `.cfg` | root module | fails | because |
|---|---|---|---|
| `lib_regions` | `MCLibXgpu` | `RegionsReleased` | `request_regions` takes regions 2 and 5; `got_regions`, which decides whether they are released, is only set in code that is compiled out. A device that has been opened once cannot be opened again. |
| `lib_config_bar` | `MCLibXgpu` | `ConfigBarMapped` | The config BAR is 1, present or not: on a device with a 64-bit BAR 0 the open goes on and writes through NULL. |
| `mod_msi_twice` | `MCXgpuMod` | `MsiEnabledOnce` | In modes 0 and 1 the library enables MSI where the device has it; `probe_one` enables it again, the kernel refuses, and the device is not bound. |
| `mod_regions` | `MCXgpuMod` | `RegionHeld` | When `cdev_add` fails for the first file the region is unregistered three times, by number: a region of another device may go. |
| `mod_remove` | `MCXgpuMod` | `RemoveReturns` | The walk over the files reads freed entries: a bound device cannot be removed. |
| `files_cdev` | `MCXgpuFiles` | `OpenFileHasCdev` | The structure of an open file is freed. |
| `bar_roles` | `BarMap` | `RolesAroundConfig` | The config BAR's position in the list stays 0 when its index is set to 1, and it is given a second role. |
| `irq_reenabled` | `IrqRegs` | `ChannelsReenabled` | The comment in `xgpu_isr` says that channels are enabled again; no code does. |
| `config_parts` | `MCConfigFiles` | `WholeGiven` | A reader that takes the config file in parts meets the end early. |
| `config_writes` | `MCConfigFiles` | `SpaceKept` | Two devices are written through one array: one is given what was meant for the other. |
| `reg_own` | `MCRegisterFiles` | `OwnRegisters` | The register files of all devices go to the one whose files were created last. |
| `reg_test_program` | `MCRegisterFiles` | `TestReadsBack` | The test program prints as read what it has computed itself. |
| `ctrl_outside` | `MCCtrlFiles` | `AccessInBar`, `MmapStaysInBar` | A control file of an absent BAR is read through NULL; and for an offset behind the BAR the size left wraps. (`-continue` shows both.) |
| `driver_restored` | `XgpuDriver` | `RecoveredRestored` | No state was saved before the reset that `pci_restore_state` could restore. |
| `driver_init` | `XgpuDriver` | `UnloadedHoldsNothing` | A load that fails leaves the class, and no later load works. |
| `enum_regions` | `MCPcieEnum` | `RegionsCounted` | Regions are counted up to the first gap. |
| `enum_tree` | `MCPcieEnum` | `OneLast` | The names have lost the bus: of two devices that have come to the last name both are drawn as the last. |
| `enum_unplug` | `MCPcieEnum` | `ToolSurvives` | A device that is unplugged between listing and reading ends the tool with an exception. |

## 5. What is proved

The theorems hold for every value of the constants that satisfies the named
`ASSUME`s of the modules; TLC evaluates these in the runs.

### The library

`LibXgpuProofs` proves, for any finite set of devices, any
BARs and capabilities, any modes, and up to 16 user interrupts (the size of
`user_irq`):

* `InductiveInvariant`: `Spec => []IInv`
* `TypeCorrect`, `HandlersAreSafe`, `ListStaysInOrder`
* `MessageVectorsBacked`, `OwnIrqsFreed`, `ClosedDevicesHoldNothing`,
  `OpenDevicesHoldAll`

The safety properties speak of a device that is open or closed, or of a handler
that runs, and none is inductive: whether a failed open leaves nothing depends
on what each label may assume. `IInv` says this location by location. It groups
the locations by what is held there (`EnabledLocs`, `MappedLocs`,
`HandlerLocs`, ...) and has one conjunct for each kind of resource:

* `LiveInv`, `EnableInv`, `MapInv`: the structure, the enable count, the BARs
* `MsiInv`: the flags and the kernel's interrupt kind agree wherever a handler
  may be registered; after a refusal a flag may be set on its own, but only
  on the way to `disable_msi_msix`, which then has no effect in the kernel
* `IrqInv`: the lines with a handler are exactly those that the location and the
  loop variable give (`Registered`)
* `RunInv`: a running handler is on a registered line, or on the line `free_irq`
  is waiting for
* `ListInv`: who is on the list, and that the list is in the order of the
  numbers; the last number plus one is new only because of this

Each action has a lemma that it preserves `IInv`. Most are instances of general
lemmas: an action of one device leaves the others' conjuncts alone (`LocalStep`),
and one that only moves the thread between two locations of the same group
(`PlainMove`, `GuardedStep`) needs no more than the groups.

The library implements its abstract modules:
`ImplementsContract` is `Spec => ContractSpec` and `ImplementsRegistry` is
`Spec => RegistrySpec`. `IInv` is strengthened by `KindInv` (the kind of
interrupt a device has is one it can have) to `RefInv`; under it the abstract
state of a device is a function of its location alone (`AbsState`), because a
closed device holds nothing and an open one all it needs. What remains is the
control: every action moves its device between the parts of an open and a close
(`Moves`), gives it a number when it is listed and never another (`KeepsIndex`),
and leaves the other devices where they are (`Stays`). Each kind of move is a
step of the contract, and being listed or unlisted one of the registry, or
nothing changes that they see.

### The PCI module

`XgpuModProofs` proves the invariants of probe and remove, for any devices and
majors, and tables of files of any length: `ModuleTypes`, `HandlersHaveDevices`,
`FilesHaveDevices`, `IdleDevicesHoldNothing`, `BoundDevicesHoldAll` and
`RegionsAreKnown`. Its `IInv` says for each location what the contract's state is
(`LibInv`), whether structure and driver data are there (`XpdevInv`), that MSI
outlasts the handler and the handler its last call (`IrqInv`), that there are
files only while the library has the device open (`FileInv`), and that a region
which is allocated is the one in `xpdev->major` (`RegionInv`). The last is
inductive though regions are unregistered by number, because that can only take
one away. There is one lemma for each action, and `Frame` for the devices that
do not act.

`XgpuDriverProofs` proves `DriverTypes`, `ClassOutlivesDevices` and
`RecoveredDevicesEnabled`, for any devices and any `MaxLost`. `ModuleInv` orders
class, cache and registration along `mod`; `DeviceInv` ties the enable count to
the state of the recovery: it is 1, less one while a reset is outstanding,
unless a reset was lost (`unreset`).

### Interrupt registers and BARs

`LibDetailsProofs` proves `VectorsAreRouted`, for up to 16 user interrupts and any
pin. What an open finds in the registers is what the last close left, so that
its invariant speaks of all of them at all times: those programmed so far hold
their vectors (`ProgrammedInv`); a device whose pin is 1 has no other vectors
above 0 (`ClearedInv`), which is why a line needs no programming there; and the
counter and the register agree in both loops, up to the last, partial register
(`LoopInv`).

Its second part is about `BarMap`. `BarsFoundOrNone` holds for BARs of any
length and an `int` of any width: what `map_single_bar` returns for a BAR that is
there is positive (`MappedIsPositive`), because the length is limited before it
is converted. So only a refusal of `pci_iomap` makes `map_bars` fail, and then, as
after a close, the loop of `unmap_bars` leaves none of the six. `RolesAreAround`
holds for any list of BARs.

### The device files

`RegisterFilesProofs` (`RegisterTypes`, `LoadedStaysMapped`): for any devices,
files and clients, what an operation has loaded from `pcimap_addr` stays mapped.
No mapping is ever undone; the argument is that a file can only be open once
there has been a mapping (`HasMapped`), and that the test of the error path
never finds a register file (`NoRegisterItem`).

`CtrlFilesProofs` (`CtrlTypes`, `MappingsInBars`): for any word and page, a
mapping that starts within its BAR ends within it. The size left does not wrap
when the offset is not behind the BAR, and the length 1 that an absent BAR is
given is less than a page (`SizeLeft`).

`ConfigFilesProofs` is about any devices, with any clients that read and write
their files in any order, any items and counts; no theorem has a condition on
who uses the shared array.

* `ConfigInvariant` has how far each operation is, and relates positions to what
  a reader has been given: a position is the number of bytes given, or `Size`
  more after a write, which only starts below `Size`. `ConfigTypes` follows: a
  position gets behind the end of the file, but never to twice `Size`.
* `BytesInPlaces`: a byte in a device, in the array or in a read under way is one
  for the place where it is, of whatever device, or `Stray`. What a client
  writes from further on becomes `Stray` by `Put`, and what it writes short has
  `Stray` behind it. With the control invariant this gives `WholeFilesInOrder`
  and `ShortFilesGivenOnce`: the order survives everything that the contents of
  the array do not.
* `WritesPutOwn`: the array holds the client's own bytes while it stores them
  (`OwnInv`), unless the write is one of those `Excused` names: it has data for
  less than the item, it starts further on, or somebody else changes the array
  under it. The proof has to account for every step of the others that changes
  the array, and that is what `disturbed` records. Without the excuses it
  fails, as `config_writes` shows for the last.

### The enumeration tool

`PcieEnumProofs` proves the three safety properties, for any machines, options
and devices, plugged at any time.

* `AmountIsBacked`: the count is one ahead of the files found (`CountInv`). The
  names of the files come from the recursive `aaa`, whose equation is proved
  (`aaaUnfolds`) before it is used.
* `RegionsAreShown`: the text is given in closed form, item by item (`Text`). The
  loop has printed a prefix of it after each of its 64 turns (`TurnPrints`), whose
  length `Printed` follows the counter; `r_a`, the number of headings so far, is
  counted by induction (`HeadingsCounted`). `RegionText` is a prefix of the same
  text (`RegionTextIs`), and the lengths agree because at most 6 regions are
  counted. `FlattenSeq` is recursive, and `FlattenIs` is what is needed of it.
* `TreeIsDrawn`, for any names, equal or not: the number of names up to each is
  a rank, every position is reached by one (`RankReached`, a pigeonhole
  argument), and the least such name stands there (`LeastReached`), so that the
  sorted list exists, is in order, and has a name as often as devices have come
  to it (`NamesCounted`).

Induction. The library's theorems about it take an operator, which the provers
cannot instantiate. `SetInduction` is stated for a set of numbers instead, and
proved from the well-foundedness of the order.

## 6. What is only model-checked, and what is not modelled

Every invariant of a passing run is a theorem, without further hypotheses. Only
model-checked is liveness (`CallsReturn`, `CallsEnd`, `HandlerQuiets`,
`ReadersEnd`, `ToolEnds`), which is beyond the prover, as is `ENABLED`.

Not modelled: the vendored command line parser; log output; the options of the
tool that only print what the first scan has read; the version ioctl, which
changes nothing; config items of 4 bytes, which the code treats and the table
does not have; `pread` and `pwrite` on the config files, and one open file
used by two threads at once, so that a client's position is its own; engines and
the code for them that is compiled out; and the values that register accesses
return, except where a property is about them.

Some hazards of `PROJECT.json` have no property that holds, because the code does
not meet them: the regions that are never released, a device without BAR 1, a
region taken by another device's error path, a remove that walks freed entries,
an open file whose structure is freed, the class a failed load leaves. Each has
a counterexample in section 4. The wait queue that is never initialised and the
kobject's name in memory that is not cleared are outcomes of an action
(`panicked`, `oops`), and nothing in the code prevents them. The bytes of a class
code may be from before and after a write; `ShortFilesOnce` does not ask for one
value.

Known from reading only: a control file has no end, so that a reader goes on
behind the BAR; a read of a short config file gives the whole item, whatever the
count, as a write takes it; `config_data` has 128 bytes where the driver's README
says 256; a control file serves a count that is no multiple of 4; and the
function that draws the tree returns no value.

## 7. Plan

1. Bytes of a class code that belong to one value: what a lock around the item
   would have to give, as an abstract specification of the short files.
2. The step from `CtrlFiles` and `RegisterFiles` to `LibXgpu`: what the file
   operations assume of an open device, as a refinement of `DeviceContract`.
3. The action properties behind the liveness results: what a step of `free_irq`
   or of a reader may not undo.
