# dwipe2 in TLA+

dwipe2 is a bootable program that overwrites every disk of a PC, except a disk
that carries a given FAT label (normally the medium it was booted from). It
runs alone on the machine, without an operating system: a boot loader puts it in
memory, C code in protected mode decides what to do, and all disk access goes
through the BIOS (INT 13h) in real mode.

This directory holds TLA+ models of its own code, TLC runs on small instances,
and theorems checked by TLAPS. `PROJECT.json` maps every definition to source
lines, and lists the runs, a mutation for each property, the findings, the
hazards and the theorems.

## Inventory

| part | source | state | operations | depends on |
|---|---|---|---|---|
| wipe program | `dwipe.c` | disk list, four counters, loop position, buffer, return value | `enum_disk`, `is_skiped_disk`, `wipe_disk`, `wipe_sectors_lba`, `do_main` | disk access, label test, options, progress |
| sector addressing | `disk.c` | none | `lba2chs`, `chs2lba`, `varify_chs`, packing of CX | 64-bit division |
| disk access | `disk.c` | the shared register image and buffer | `sector_chs_rw`, `sector_chs_verify`, `sectors_lba_rw`, `get_disk_param(_ext)`, `check_extensions_present` | BIOS gate |
| label test | `fat.c` | the entry examined | `contain_fat_label` | disk access |
| command line | `cmdline.c`, `option.c` | slots, `opt` | `parse_cmdline`, `set_default_opt` | boot loader (the line) |
| BIOS gate | `int13.S`, `head.S`, `disk.c` `relocate_real` | CPU mode, descriptor tables, interrupt flag, two stacks, `real_reg`, `real_dap` | `int13_1` .. `int13_4`, `query_pcbios` | BIOS, interrupts |
| exceptions | `head.S`, `inter.c` | interrupt table, trap frame | `vec0` .. `vec19`, `int_hand`, `inter` | |
| clock | `timer.c` | RTC reading at start, TSC base, `extclock` | `rtc_get_rtc_time`, `my_mktime`, `do_gettimeofday`, `timer_init` | clock chip, TSC |
| division, delays | `lib.c` | locals | `__udivmoddi4`, `usleep`, `msleep`, `sleep` | clock |
| progress line | `dwipe.c` | `struct progress_t`, one screen line | `reset_progress`, `update_progress` | clock |
| start-up | `setup.S`, `head.S`, `dwipe.c` | A20, the keyboard controller, the command line in memory | `start_of_setup`, `empty_8042`, `startup_32`, the calls of `do_main` before the first BIOS call | boot loader |
| serial console, log | `serial.c`, `debug.c`, newlib's `_write` | UART registers, `opt.debug` | `serial_echo_init`, `serial_echo`, `_minios_print_log` | UART |
| screen | `display.c` | video memory | printing | |
| boot sector | `bootsect.S` | load position | `read_it` | BIOS |
| boot record payload | `mbr.S` | none | plays a tune | |
| C library | `newlib/` (vendored) | | | |

The program has one thread of C code. What makes it hard is elsewhere:

- *Partial failure.* Every BIOS call may fail, with -1 (refused by `disk.c`) or a
  positive AH code (from the device), which the callers treat differently; a
  transfer may be short. A wipe is a long sequence of requests that share one
  variable `ret`.
- *Boundaries.* Sizes that are no multiple of the buffer, the C/H/S limits
  (1024 cylinders, 255 or 256 heads, 63 sectors), the geometry disagreeing with
  the packet interface, 32-bit microseconds, leap years, the number of slots.
- *The machine under the code.* Interrupts while the CPU changes mode, a clock
  that ticks while it is read, a keyboard controller and a UART that work in
  their own time and are polled without a timeout, descriptor tables and a
  register image shared by successive calls, memory that the boot loader still
  uses.

What must hold: a disk counted as wiped is overwritten as its mode says, on
every sector no transfer left out; nothing outside a request, no protected disk,
and in test mode nothing at all is written; all disks are counted and the
machine reboots; addresses, divisions, dates and
times are exact; a BIOS call looks like a function call to C; the program gets
from the boot loader to the wipe, and what it prints arrives.

## Modules

| module | models | state and actions |
|---|---|---|
| `Geometry` | `disk.c` addressing | operators only |
| `Sweep` | the walk of `wipe_disk` over a disk, seen from `lba2chs` | position; one step per sector |
| `Disk` | `disk.c`: what is refused, what is returned for a BIOS answer | operators |
| `Fat` | `fat.c`: which sector is the boot sector, does it match | operators |
| `Dwipe` | `do_main` from `enum_disk` to reboot | the variables of `enum_disk`, `wipe_disk`, `do_main`; histories of what was written where |
| `DwipeInv` | the inductive invariant of `Dwipe` | |
| `WipeService` | abstract: what the wipe program promises | drives found, in turn, written, wiped, counted |
| `DwipeService` | the refinement mapping from `Dwipe` to `WipeService` | |
| `Progress` | `reset_progress`, `update_progress`, joined to the steps of `Dwipe` that call them | `struct progress_t`, the line on the screen |
| `Cmdline` | `parse_cmdline` | slots; one step per word, one for the options |
| `Gate` | the BIOS calls of `disk.c`, `int13.S`, `query_pcbios`, `vec0` .. `vec19`, `int_hand` | CPU mode, tables, registers, stacks, the frame of an exception; a step ends where mode, tables or interrupt flag change |
| `BiosCall` | abstract: what `int13_n` promises its C caller | registers, answer, result |
| `Calendar` | BCD, year window, `my_mktime`; the true calendar | operators; the date, one step per day |
| `Rtc` | `rtc_get_rtc_time` beside a running clock chip | the chip's time and phase, the registers read; days pass, power on, one step per port access |
| `Udivmod` | `__udivmoddi4` | one step per loop iteration |
| `Clock` | `cpu_type`'s measurement, `gettimeofday`, `usleep`, `msleep`, `sleep`, on top of `Udivmod` | the cycle counter, its rate and base; one step per reading, per iteration of the division |
| `A20` | `setup.S`, with the keyboard controller beside it | ports and buffers; one step per port access |
| `Serial` | `serial.c`, with the UART beside it | registers, the line; one step per character and per move inside the UART |
| `Start` | `A20` and `Serial` composed with `startup_32` and the start of `do_main` | position, the command line in memory, `opt.debug`, text to print |
| `MC...` | constants for TLC | |
| `GeometryProofs`, `SweepProofs`, `DwipeProofs`, `CmdlineProofs`, `GateProofs`, `StartProofs` | theorems about the module each is named after | |
| `ServiceProofs` | theorems about labels, limits, the service and the progress line, on top of `DwipeProofs` | |
| `TimerProofs` | theorems about `Calendar`, `Rtc`, `Udivmod` and `Clock` | |

`Dwipe` extends `Fat`, which extends `Disk`, which extends `Geometry`: together
they are one program, with the machine (disks, geometry, partition tables,
labels, faults) as environment. `Rtc` extends `Calendar`: the chip moves the
calendar, and what is read from it goes through the conversion. `Progress` runs
`Dwipe` with the progress line, `Clock` runs `Udivmod` as the division of every
`gettimeofday`, `Start` runs `A20` and then the console.

Two abstract specifications state what a component promises as a whole.
`WipeService` knows nothing of requests, passes, addresses or return codes: the
drives are found and taken in turn, and each is counted once, as done, error or
skipped; done means wiped unless a write fell short; a spared drive is never
written and counts as skipped; the program ends. It does not promise the converse:
a drive that was written counts as skipped when its last request returns an error
code of the BIOS, which is positive (`dwipe.c:574`). `Dwipe` implements it under the
mapping of `DwipeService` (checked in run `cases`). `BiosCall` is a
function call with an answer: `Gate` implements it (run `gate`), with all of its
mode switches, stack switches and interrupts as stuttering.

How data is abstracted: a sector is the sequence of patterns written to it
(`zero`, `ones`, `rand`, `mbr`, `stale`), a label is a name, a command line is a
sequence of words already cut by `strtok_r`; `atoi` and `stricmp` are parameters of
`Cmdline`, given by `MCCmdline` for the words it uses. In `Dwipe` a BIOS transfer is
atomic: how many sectors it moved and what it returned are chosen freely, up to
`MaxFaults` times in a behaviour. Identification calls for one disk are one step,
because nothing runs between them. In `Gate` only the registers a C caller may
rely on, the function number and the pointer registers have contents. In `Start`
the command line is the debug option it gives, and a message is one character: the
UART does not tell characters apart, and every one is polled for by itself. In
`Clock` the words are narrow and the units small (three microseconds to the
millisecond, two milliseconds to the second), and keep their ratios: the wrap
falls in the middle of a millisecond, as 2^32 does.

Names such as `InLoop_mut` are deliberate slips (a dropped guard, an off-by-one,
a missing reset), each the counterpart of the definition that follows it; no
specification uses them. They show that each property depends on the code.

## Runs

Passing:

| run | cfg | what it shows |
|---|---|---|
| `sweep` | `MCSweep.cfg` | every sector number converts to an address that converts back, packs and unpacks, and advances like an odometer; only head 255 is refused. The code's own limits; small disks whole, large ones around cylinder 256 and to the last sector of 255 and of 256 heads |
| `wipe` | `MCProgress.cfg` | eight machines (one or two drives: geometry smaller, larger or equal to the packet size, empty drive, CD-ROM, labelled disk), all 48 option sets, two faults anywhere. `WipedInFull`, `RequestInRange`, `NoStrayWrite`, `TestModeReadOnly`, and the inductive invariant `WipeInv`; `BarIsCurrent` and `FullMeansWhole`: the bar is the present disk's, never stale, and a full one means that all sectors had their passes, except where a transfer fell short |
| `cases` | `MCDwipe_cases.cfg` | labels in every kind of entry `fat.c` reads, decoys, CD-ROMs, disks with a head too many, a disk of exactly one request and an empty one; up to two faults. `ProtectedUntouched`: the labelled disk is not written unless an identification read failed. `AddressLimitReported`: a sector C/H/S cannot reach makes the disk an error, not a success. `EveryDiskCounted`: the reboot is reached and the counters add up. `ImplementsService`: every step is one of `WipeService` |
| `cmdline` | `MCCmdline.cfg` | every line of up to four words, many of five and six, with four slots. `ParsedAsGiven`: the words of a documented line have the effect the README gives them, in any order. `FirstWordsDecide`: on a line that fits the slots, what comes first cannot be undone by what follows. Neither says anything of a line with more words than slots, whose last slot is written beyond the array |
| `gate` | `MCGate.cfg` | up to three calls by any function of `disk.c`, arbitrary registers from the BIOS, interrupts whenever IF is set. Interrupts are on only in a consistent real mode; C gets its registers, stack and tables back; pointers passed to the BIOS lead to the structures meant; what is returned is made of this call's carry flag and AH (`ResultFresh`), also when a short write is refused verification; each of the twenty exceptions leaves the same frame, whether or not the CPU adds an error code (`FramesAlike`; that it is the one `inter.h` describes is not true, see below); `ImplementsCall`: all of this is one function call |
| `rtc` | `MCRtc.cfg` | the seconds since 1970 that the program starts from are those of the second in which the poll ended: never a mixture of two seconds, right across leap days and in both register formats; the poll ends and the time is still the present one |
| `clock` | `MCClock.cfg` | a counter that advances at will between readings, on eleven kinds of CPU and at every measured rate, the failed measurement included. Divisions are exact and end. `SleptEnough`: `usleep`, `msleep` and `sleep` wake less than a millisecond early, counted in cycles of the measured rate, although the microseconds wrap; the millisecond is real, since times are whole milliseconds and a sleep may begin at the end of one. `StopwatchExact`: times with no wrap between them differ by what the counter says. `TrapsOnlyOldCpus`: `timer_init` faults, at `rdtsc` or dividing by zero, only on CPUs before the Pentium, Cyrix and unknown ones. A wrong rate is not seen by either property of time |
| `start` | `MCStart.cfg` | with and without 8042, port 0x92 and UART, in every state firmware leaves them in, up to three keys pressed at any time. `A20Open`: with an 8042 the program is never entered with A20 shut. `TextInOrder`: what is printed arrives, in order, at 9600 baud. `LogAsGiven`: the log is the one asked for, although the option arrives in memory that `relocate_real` overwrites. `StartUpEnds`: neither polling loop waits for ever |

Bounds, and why they are enough:

- `wipe`: two sectors per buffer and up to five sectors give one, two and three
  requests with and without a rest, and C/H/S requests inside and across tracks.
  Two faults are the least that lets one be hidden by another. The loop keeps
  nothing from one request to the next but `offset_lba`, `ret`, the buffer and
  the progress, so that longer disks repeat these cases; the proofs below
  remove the bounds for all but liveness.
- `cases`: one disk of each kind the code distinguishes; the C/H/S limits are
  scaled down (254 heads to 2, and so on), with the comparisons kept. Requests of
  six sectors make one disk reach the head `varify_chs` refuses, and the other
  pass `max_lba` without meeting it.
- `gate`: no state survives a call except the tables and the register image, so
  that a second call sees every leftover and a third repeats it.
- `rtc`: the calendar is followed from 1970 to 2037, the last year whose seconds
  fit TLC's integers; the program is started at the ends of all months of six
  years (common, leap, century, first and last), in every phase of a second. The
  chip announces an update eight accesses ahead, the least that can work.
- `wipe`, the bar: a line of two columns has every relation of bar and disk:
  empty, a column gained, a column shared by two requests, full.
- `clock`: five-bit words; three arguments for each of the three sleeps, chosen so
  that a wrap falls before, within and after a sleep, and that some of the products
  in `msleep` and `sleep` fit the word and some are cut.
- `start`: three keys are one for each wait of `empty_8042`; more of them repeat
  the drain. The UART holds two characters, the program prints up to two dozen.
- `cmdline`: four slots instead of 64; five words reach the slot beyond the
  array, the sixth is cut off.

Deadlock is not checked where the program stops by design (reboot, `inter`,
end of a function).

Disagreements between the code and what its documents or comments say. Each is a
run that checks the documented statement and finds it violated:

| run | the document says | the code does |
|---|---|---|
| `modes_doc` | FAST writes zeros; OCD passes are 00, FF, 00, random (`option.h`, `README.md`) | FAST writes the buffer as `malloc` left it to C/H/S disks (`dwipe.c:355`), which is the trace found; OCD makes four random passes (`dwipe.c:329`) |
| `check_doc` | write and check | an error in any request but the last is overwritten (`dwipe.c:451`) |
| `skip_doc` | FAT16 labels are skipped | partition types 1, 4 and 6 are not looked at (`fat.c:159`) |
| `idt_doc` | an exception handler is set up | after the first BIOS call the real-mode table stays loaded (`head.S:728`) |

Seen while reading, without a run of their own:

- the default label is `NIMIME` (`option.c:8`), the README and `syslinux.cfg:10` say
  MINIME; `ParsedAsGiven` is about the words given, so that it says nothing of it;
- the 65th word of a command line is stored in `cmd_slot[64]`, beyond the array
  (`cmdline.c:69`): depending on the layout it spoils the count, the text of the
  first words, or something else;
- `msleep` and `sleep` multiply in 32 bits (`lib.c:45`, `50`): a sleep of 4295
  seconds or more returns early (they have no caller);
- `get_timer_offset_usec` wraps after 71 minutes (`timer.c:1141`), although
  `do_gettimeofday` says "usec may have gone up a lot: be safe" (`timer.c:1163`);
- before the first request the speed counts as one byte per second, and the hours
  of the ETA have up to seven digits in a field of two (`dwipe.c:235`);
- `int_hand` gives `inter` a "pointer to structure on the stack" (`head.S:670`), but
  does not push the two words `struct eregs` begins with, so `inter` prints every field two words off, and takes the
  interrupted address for the vector;
- `cpuspeed` returns -1 to "make sure we have a credible result" (`timer.c:235`);
  `speed` is unsigned, so that the -1 passes the test `> 0` and becomes a rate of
  499 kHz (`timer.c:1062`);
- `debug.c:14` describes `debug` as a level from 0 to 3, the code and `debug.h`
  use it as a mask;
- the byte that decides whether port 0x92 opens or closes A20 is read from the
  stack, where nothing put it (`setup.S:142`); with an 8042 it does not matter;
- `bootsect.S:149` loads 0x10000 into a 16-bit register.

## Fairness

Liveness is stated under weak fairness of the program's own step relation: the
CPU goes on executing. What that includes besides: the BIOS returns from INT 13h
(`cases`, `gate`), the clock chip ends its update cycle because every port
access takes time (`rtc`), and a division goes on (`clock`). In `start` the two
devices that are polled have a fairness of their own: the UART sends what it
holds, and a keyboard controller whose output has been read takes the byte in its
input buffer (one whose output is full need not, which is what `empty_8042` drains
it for). There is no fairness on faults, interrupts, keys, the cycle counter
(`SleptEnough` says when a sleep may end, not that it does), or the days that pass
before power on. The code has no time-outs; if the BIOS does not return, neither
does the program.

## Theorems

All hold for every value of the constants that satisfies the named assumptions:
a buffer of whole sectors and not larger than 63 of them, drive ids in order,
machines and options of the right type, C/H/S limits not above the code's
(`Dwipe`, `Geometry`); structures within 64 KB of the real-mode code (`Gate`); a
second that is a whole number of milliseconds, an `unsigned long` no wider than the
words of the division, a rate that fits it with its rounding, no CPU with the
ID flag but without the AC flag, and a cycle counter in every CPU from the Pentium
on (`Clock`); any number of slots, any set of lines, and an `atoi` and a `stricmp` of
which only this is used: the number 0 is 0 and no word equals two names of modes
(`Cmdline`).

Every invariant and every safety action property of the runs is stated by one:

| theorem | statement |
|---|---|
| `GeometryProofs!PackInverse` | unpacking CX returns the cylinder and sector packed |
| `SweepProofs!SweepAddressesExact`, `SweepPackRoundTrip`, `SweepRefusedOnlyAtHead255`, `SweepOdometer` | the properties of run `sweep`, any geometry |
| `DwipeProofs!TypeCorrect`, `RequestsInRange` | types; every request is not empty, fits the buffer and the BIOS's limit, ends where the wipe ends and, with the packet interface and without `force_chs`, on the disk (an address by C/H/S may still be refused) |
| `DwipeProofs!WritesStayInRequest`, `TestModeNeverWrites` | `NoStrayWrite`, `TestModeReadOnly` |
| `DwipeProofs!WipeInvariant`, `CountedDisksAreWiped` | `WipeInv`, and from it `WipedInFull` |
| `ServiceProofs!ProtectedStaysUntouched` | `ProtectedUntouched` |
| `ServiceProofs!LimitIsReported`, `LimitIsReportedInCode` | `AddressLimitReported`, under `RoomBeyondLimit`; and with the limits of `disk.h` |
| `ServiceProofs!DwipeImplementsService` | `Spec => Service!Spec`: do_main refines `WipeService` |
| `ServiceProofs!BarStaysCurrent`, `FullBarMeansWhole` | `BarIsCurrent`, `FullMeansWhole`, a line of any width |
| `GateProofs!GateInvariant`, `InterruptsAreSafe`, `CallIsTransparent`, `PointersAlwaysResolve`, `ResultIsFresh` | the invariants of run `gate`, any layout and any answer of the BIOS |
| `GateProofs!FramesAreAlike` | `FramesAlike` |
| `GateProofs!GateImplementsCall` | `Spec => Bios!Spec`: the gate refines `BiosCall` |
| `TimerProofs!BaseSecIsExact` | `RtcSpec => []BaseSecExact`: every time of every day from 1970 to 2069, if the chip announces its update at least eight accesses ahead |
| `TimerProofs!MktimeFitsUnsignedLong` | on all those days the seconds fit 32 bits |
| `TimerProofs!DivisionIsExact`, `ClockDivides` | `DivisionExact`, any word size, alone and within `Clock` |
| `TimerProofs!OnlyOldCpusTrap`, `UsleepSleepsEnough`, `StopwatchIsExact` | the invariants of run `clock`, any units, rates and word size |
| `StartProofs!A20IsOpen`, `TextArrivesInOrder`, `LogIsAsGiven` | the invariants of run `start` |
| `CmdlineProofs!LinesAreParsedAsGiven`, `BeginningDecides` | `ParsedAsGiven`, `FirstWordsDecide`, any number of slots and lines of any length |

The arguments:

- *`WipeInv`.* `WipedInFull` speaks of disks already counted, and says nothing of
  the state in the middle of a wipe, so it is not inductive. `WipeInv` adds what
  the loop maintains: the list describes distinct drives (`ListInv`, or a wipe of
  one entry could touch a finished disk), verdicts exist for the disks before
  `index` (`IndexInv`), the position is a multiple of the buffer and within the
  disk (`LoopInv`), each sector of the current disk has exactly the passes its
  position implies, where no transfer fell short (`CurrentInv`), drives not
  reached are untouched (`FreshInv`, `EnumFreshInv`), and finished disks stay so
  (`DoneInv`). The part that does not mention media comes first (`CoreInv`), then
  the rest, one lemma per action. `wipe` checks the whole of it with TLC as well.
- *Labels and the limit.* `ScanInv`: the entries `contain_fat_label` has passed over
  carry no label, so a disk that gets to the buffer need not be kept out of, unless
  a call about it failed. `LimitInv`: a disk with sectors beyond the last C/H/S
  address never gets past the request that begins there. For that the rest beyond
  the limit must be long enough to begin a request: with a small limit and a large
  buffer the last request would begin below the limit and end above it. That is
  `RoomBeyondLimit`. It follows when a buffer is no longer than a full track
  and a track has no more sectors than the BIOS may report heads; in the code 16, 63
  and 256.
- *The service.* Through the mapping of `DwipeService` a step of `Dwipe` finds a
  drive, begins, writes, doubts (the examination of a drive fails), counts one, or
  changes nothing the service knows; one lemma for each. `SpareInv` adds that a
  drive to be kept out of reaches the count with the value of a skip.
- *The bar.* `BarInv`: from its first update to the end of the loop the bytes counted
  are 512 times the offset, and what is shown is what was saved; before it the line
  belongs to an earlier disk. A width is full exactly when the bytes are
  (`FullWidth`), so a full bar means the offset is at the end, where `CurrentInv` has
  all passes. When the last whole request fails the bar fills as well: there the
  sectors are among those left out.
- *The gate.* `GateInv`: where the CPU is decides its mode, tables and segments
  (`CpuInv`), which words of whom are on the two stacks (`StackInv`,
  `RealStackInv`), and whether the register image is a question that resolves or an
  answer (`ImageInv`). Address arithmetic (16-bit halves, the paragraph of the
  buffer, `xor` with 64 KB) is in lemmas over all addresses in reach.
- *Geometry.* The round trip of `lba2chs` is two divisions with remainder; the
  lemmas bound each field and rebuild the number from them. The odometer is one
  lemma on the successor of a quotient, used twice.
- *`BaseSecExact`.* It speaks of the end of the reading only. `ReadInv` adds that
  since the poll at most one access per register was made, so that the phase is
  below the update, the second is the one started in, and the registers read so
  far are the ones shown; `ChipInv` that the chip shows a valid date and time, and
  `days` is tied to a closed formula of the date, month by month, with February
  last as `my_mktime` has it.
- *Division and the running clock.* During the second loop, the dividend is
  quotient times divisor plus rest, with the rest less than twice the shifted
  divisor; the bits the first loop produced (`qbits`) are exactly those the second
  consumes. `ClockInv` adds that a reading is the time of the counter it was taken
  at; a difference of two readings modulo the word never exceeds the whole
  milliseconds between them, and readings d milliseconds apart are more than d - 1
  milliseconds of cycles apart, which is why `usleep` wakes less than one early. The
  microseconds compared are those asked for whenever these fit the word (`Fits`).
- *Start-up.* `A20Inv` follows the bytes 0xD1 and 0xDF through the controller:
  between two writes the one before is in the input buffer or has had its effect.
  `UartInv`: divisor and format are set before the first character. `LogInv`: a
  message asked for is still pending until it is sent.
- *Command line.* `CmdInv`: on a line that fits, the slots are its beginning, word for
  word, and once the options are set they are the ones the slots give.

Only model-checked, because liveness is out of the proof system's reach:
`EveryDiskCounted`, `ReadEnds`, `DivisionEnds`, `StartUpEnds`, and the "ends" and
"returns" of the two abstract specifications (`ImplementsService` and
`ImplementsCall` are the refinements proved here, plus that).

## Not modelled

- The tables of CPU names and cache sizes in `cpu_type`, and `correct_tsc`: data
  that is shown, or that scales a measured rate which `Clock` lets be anything.
- The speed and the remaining time of the progress line: text. Their divisors are
  set to at least 1 before use (`dwipe.c:215`, `235`).
- Screen (`display.c`): writes to video memory that nothing reads back.
- `set_cache`: one bit of CR0. Descriptor tables and segments of `setup.S` and
  `head.S`: set up once, in a straight line.
- `bootsect.S`: the floppy boot sector. The boot loaders the README names skip it,
  and with `TSTLOAD` cut to 0 its first read replaces the interrupt table that its
  second read needs.
- `mbr.S`: opaque bytes to this program. newlib: vendored; of its port to this
  program, `_write` and `_gettimeofday` are modelled, `_sbrk` shows as an allocation
  that may fail.
- Clocks in 12-hour mode, and a BIOS that reports failure with AH = 0: see the
  hazards.

## Plan

Done: wipe program with addressing, disk access and label test (first, because
data loss and false success are what this program must not do), its proofs,
command line, gate, clock, division; then the abstract service and the abstract
BIOS call with their refinements, the progress line joined to the wipe, the
running clock, exceptions, start-up and console; then the proofs of every safety
property the runs check, and of the safety part of both refinements.

Next: theorems beyond the runs' properties, such as the counters of `do_main` at
every moment (not only at the end, which `EveryDiskCounted` has), and shorter
proofs where lemmas of two modules say the same.
