# A TLA+ model of c-periphery

c-periphery is a C library of small modules that drive Linux peripherals from user
space: GPIO, PWM, serial ports, SPI, I2C, memory-mapped registers and LEDs.  Every
call runs in the caller's thread and ends in a handful of system calls.  What makes
the library hard to test is on the other side of those calls: other threads and
processes that use the same lines, a kernel that keeps the real state while a handle
keeps a copy, udev rules that arrive late, devices that go, and system calls that fail
between two steps of one operation.  The modules here model that.

## Inventory

| component | state it keeps | operations | interacts with | what is hard | correct when |
|---|---|---|---|---|---|
| GPIO character device v2 (`src/gpio_cdev_v2.c`) | chip and line descriptor, line, a copy of the configuration | open by line or name, seven setters, read, write, read event, poll, close | the process's descriptor table, the kernel's line requests and event queues, other processes | each setter closes the line and requests it again; the request can fail; descriptors are reused | no descriptor is lost or closed for another; the copy is the kernel's configuration; events belong to the current edge |
| GPIO character device v1 (`src/gpio_cdev_v1.c`) | the same | the same, over a line handle or an event handle | the same | the same; requests that carry neither a clock nor a debounce period, headers that may lack flags | the same; what a request cannot carry is refused, not dropped |
| GPIO sysfs (`src/gpio_sysfs.c`) | line, value descriptor, "I exported it" | open, setters, read, write, poll, close | `/sys/class/gpio`, udev, other processes | the race between `stat()` and the export; waits with a bound; failures after the export | only the exporter unexports; a successful open has applied its arguments; calls return |
| GPIO dispatch (`src/gpio.c`) | the table of operations | every call, `gpio_poll_multiple()` | both back ends | several handles in one `poll()`, a pass over them that can fail half way | flags and count agree and report only GPIOs that had an event |
| PWM (`src/pwm.c`) | chip, channel, cached period | open, close, setters, getters | `/sys/class/pwm`, udev, other processes | the same waits; the cached period | ratios are converted with the channel's period; calls return |
| Serial (`src/serial.c`) | descriptor, "VMIN is in use" | open, setters, read, write, poll, close | the terminal | the loop of `select()` and `read()`, time, signals, unplugging; VMIN and VTIME | no byte lost, timeouts kept, a disconnect told from silence |
| SPI (`src/spi.c`) | descriptor; mode, order, flags, speed and word size are the device's | open, setters, transfer, close | spidev, other handles on the device | an open of three ioctls; read-modify-write of one word in two widths | a setter changes its field and keeps the others; a failed open leaves no descriptor |
| MMIO (`src/mmio.c`) | base, size, mapping | open, reads, writes, close | `/dev/mem` | windows off page boundaries, bounds in machine words, failed mappings | exactly the accesses in the window succeed; mappings are owned |
| LED (`src/led.c`) | name, cached maximum brightness | open, setters, getters | `/sys/class/leds`, other processes | failed opens, parsing of the trigger list, streams left open on errors | the maximum is the named LED's; the list is read as it is |
| I2C (`src/i2c.c`) | descriptor | open, transfer, close | i2c-dev | an open that fails after it has a descriptor | the descriptor is its own; a failed open leaves none |

Error texts, `tostring`, name and label queries and the version only format and read.

## Plan

In the order of importance, each step checked before it was proved:

1. `GpioCdev`, the core: descriptors, reconfiguration, events.  Done, checked, proved.
2. `GpioSysfs`: the export race and the waits.  Done, checked, safety proved.
3. `Pwm`: the waits and the cached period.  Done, checked, safety proved.
4. `Serial`: the read loop and the settings.  Done, checked, safety proved.
5. `GpioLine`, the abstract owner of a line (a line is held or lost, its configuration
   changes in one step, an open gives all or nothing), and the mapping under which
   `GpioCdev` implements it.  Done, checked, proved.
6. `GpioCdevV1`, against the same abstract specification.  Done, checked, proved.
7. `Spi`, `I2c` and their composition `Bus`.  Done, checked, proved.
8. `Mmio`.  Done, checked, proved.
9. `Led` and `GpioPoll`.  Done, checked, proved but for the parsing of trigger lists.
10. `Peripherals` as the composition of its parts.  Done, checked, proved.
11. The bounds on the calls that wait, which is what of CallReturns and
    TimedReadReturns is safety: `GpioSysfs`, `Pwm`, `Serial`.  Done, proved.
12. What follows from `GpioLine` alone.  Done for the exclusive use of a line; the order
    of events across a reconfiguration is left.
13. Left: two handles on one serial port, and the export of a PWM channel shared by
    handles and processes, for neither of which the repository states a promise.

None of the modules to be proved about uses a `RECURSIVE` operator.

## Modules

Every call that makes several system calls is cut where others can run between them.
`pc[h]` names the system call the handle's thread makes next ("idle" outside a call),
`Continue` goes to the next one, `Return` ends the call with a result, kept in `ret[h]`.
A disjunct of an action is one outcome of the system call: any system call may fail.
Results are the error codes of the headers without the texts.

### GpioCdev

The kernel is `fdt` (the process's descriptor table: free, a chip, or a line with its
attributes and its queue of events), `level` (the physical level of each line) and `ext`
(lines other processes hold).  The handle is `chip_fd`, `line_fd`, `line` and `cfg`, the
fields of `struct gpio_handle` for the character device.  `req` is the configuration the
call in progress passes to `_gpio_cdev_reopen()`, `tmp_fd` and `want` are locals of
`gpio_open_name_advanced()`.

* `_gpio_cdev_reopen()` is `Reopen` (build check, close of the line) followed by
  `RequestGranted` or `RequestRefused`.  Between the two every other thread and process
  may run, take the line, or get the freed descriptor number.
* `gpio_open_advanced()` is `OpenChip`: the argument checks, the open of the chip, the
  cleared handle; then the same second half, with `AbandonOpen` on failure.
* `gpio_open_name_advanced()` is `OpenName`, `Scan`, `OpenFound`.  The queries of the
  lines are one step: names do not change, and each query may fail in the same way.
* The setters are instances of `Setter`: invalid, not allowed, no change, reopen.
* `Read`, `Write`, `ReadEvent`, `Poll`, `Close` are one step each, of which all but the
  last may fail.  `ReadEvent` blocks until an event is queued.  Closing chip and line in one step is sound: the handle's
  thread alone uses both.

`GpioOf` is what remains of a handle when the descriptors are hidden, and `LinePromise`
the specification of `GpioLine` with it substituted.

Left out: a failing `close()` (FdOwned shows that the library only closes descriptors
it owns, and a line or chip file has no other failure), opening a handle that is open
(the documentation asks for a close; it would leak the old descriptors).

### GpioLine

A handle is closed, holds its line under one configuration with a queue of events, or
is open and lost its line.  An `Acquire` takes a free line, an event-less queue and a
configuration in one step; `Lose` is what a setter does to a line it is about to request
again; `Answer` is any call that changes nothing, and `Truthful` limits what it may say
of levels and events.  `LinePromise` says that this is all a caller can see of chips,
temporary descriptors, half-done requests and failures.

### GpioCdevV1

`gpio_cdev_v1.c` is compiled in place of v2 for older kernels; the module extends
`GpioCdev` for the handle, the kernel and the calls that are the same, and defines anew
what differs.  A configuration can ask for what the requests of v1 cannot carry:
`OpenSupported` refuses a debounce period, the argument checks refuse a clock, and
`BuildSupportsV1` refuses biases and drives that the headers lack, before the line is
closed.  A line handle has no events to wait for and polls as ready at once
(`PollReady`).  The grant of a request is that of `GpioCdev`, whose attributes name a
clock: a request of v1 carries none, and "realtime" is what the code caches after each
and the only clock its checks let through.  So the clock part of ConfigApplied says
nothing of v1 beyond these checks.

### GpioSysfs

A line's directory is absent, hidden (exported, not there yet), denied (there, udev has
not run) or ready; `by` records who exported the line, which the code cannot see.  The
attribute files hold direction, edge and `active_low`.  The handle's `line_fd` is none,
live, or dead when the directory went.  `OpenSysfs` stands for the `stat()`, then
`Export`, `WaitDirectory`, `WriteDirection`, `OpenValue`, `OpenDirection` and
`OpenInverted` for the rest of `gpio_open_sysfs()`; `CloseValue` and `Unexport` for
`gpio_sysfs_close()`.  Opening a handle that is open is allowed here and loses the old
descriptor, as in the code.

Assumed of the outside: another process unexports only what it exported.  The library
itself keeps to that (ExportedByHandle); a process that does not can kill any
descriptor of anybody.  An attribute file is opened, written and closed in one step.

### Pwm

The same directory, without a record of the exporter, for `pwm_close()` unexports
whoever exported.  `state` holds what the attribute files hold; the kernel refuses a
state without a period or with a longer duty cycle.  `period_ns` is the cache.  `opened`
is not in the code: it is what a caller knows from the result of `pwm_open()`.
`WaitChannel` waits for the path the code passes to `stat()`, which is the export file.
Assumed: 64 bit `unsigned long`; other processes export and unexport channels but do not
configure this one; the hardware keeps its state while the driver is unbound; the close
of an attribute file that was written does not fail.

### Serial

`tty` is the terminal's settings, `waiting` the bytes it holds, and the handle `fd` and
`use_termios_timeout`.  `serial_read()` is `Read`, then `SelectReady`, `SelectTimesOut`,
`Tick` and `SelectFails` for `select()`, `ReadBytes`, `ReadTick`, `ReadInterrupted` and
`ReadFails` for `read()`.  `left` is `tv_timeout`, which `select()` brings up to date.

The terminal follows the rules of VMIN and VTIME.  With both on, `select()` is ready at
the first byte and `read()` waits for the others (`ReadWaits`): `ReadTick` is the time
that passes there, and `quiet` how much of it since the last byte, for each byte starts
VTIME afresh.  The read ends with VMIN bytes or a full buffer, with VTIME, with a
signal, which returns the bytes there are, or with the port.  `waited` and `owed` are
history: the time spent in both system calls of one `serial_read()`, and the bytes
received and neither returned nor given up.  The port belongs to the handle alone.
Calls that leave all of this alone are one action, `Other`.

WaitBounded relates `waited` to the timeout.  It cannot say that the timeout bounds the
call, because it does not: nothing ends a `read()` that waits when `timeout_ms` is over.
What holds is the timeout plus `InterByte`, VTIME for each byte of VMIN after the first,
which is the timeout itself whenever VMIN is 0 or 1 or VTIME is off.

### Files, Spi, I2c, Bus

`Files` is the process's descriptor table for handles of one descriptor; `Bus` puts SPI
and I2C handles on it, so that a number one of them closes the other gets.  In `Spi` the
settings `spidev` are the kernel's, and several handles may have the device open.  An
open is `SpiOpen` and one `SpiConfigure` per ioctl, each of which may fail and end in
`SpiGiveUp`.  `spi_set_mode()`, `spi_set_extra_flags()` and `spi_set_extra_flags32()`
are `SpiReadWord` then `SpiWriteBack`, with other handles in between; 8 bit accesses see
and leave only the flags of the low byte.  `mode32_build` is the build option.
`spi_alone` is history: no other handle wrote to the device since the call began.
Assumed of the callers (SpiFlagsAssumption): extra flags have no bit of the mode or the
bit order.  The code combines them unmasked (`src/spi.c:109`, 327 and 345), so a flag
that is such a bit would change the mode or the order; SpiCallExact says nothing of it.
When another handle writes between a setter's read and its write, its change is lost;
OtherSettingsKept says that nothing else is.

### Mmio

The fields of `mmio_t`, and `mapped`, what the kernel mapped for the handle.  Addresses
are numbers below `Word` and every sum is taken modulo `Word`.  The ten accesses are one
action with a length, for their check is the same.  A failed mapping leaves `ptr` at
MAP_FAILED, with which `mmio_close()` fails.  Opening a handle that has a mapping is
left out (it would lose it).

### Led

`leds` is the kernel, `led_name` and `max_brightness` the handle.  `led_open()` is two
steps, the name and the maximum, between which the LED may go.  The trigger file is a
sequence of names of one character, blanks, brackets and the end of the line, in the two
forms kernels write it, or empty for a failed read; `Entry`, `CountOf` and `Active` say
what the three loops make of it.  `streams` counts the streams error paths leave open.
`max_read` is not in the code: whether the maximum was read since the name was set, by
`led_open()` or by `led_get_max_brightness()`.  TrueIsMax is about handles of which it is
true; for the others, see the notes under the findings.  The streams leak as in the code:
StreamsClosed says that calls that return 0 have no part in it, not that none does.

### GpioPoll

`gpio_poll_multiple()` is `PollStart`, the wait (`PollWakes`, `PollTimesOut`,
`PollFails`), and `PollPass` once per index, which can fail where it rewinds a sysfs
GPIO.  Edges occur and other threads consume them at any step; a character device GPIO
may have lost its line before the call, and `poll()` then passes over it.  Every GPIO has
an edge set; without one, a line handle of v1 is reported ready at once.

### Peripherals

These modules share no state but the descriptors of SPI and I2C.  `Peripherals` holds
them side by side: `part` picks, at the start, which one a behaviour is about, so the
checked states are the sum and not the product of theirs.

## Runs

| run | instance | shows |
|---|---|---|
| gpio_cdev_config | one handle, one line, all directions, edges, clocks, two biases and drives, each with an invalid value, a queue of two events | TypeOK, ConfigApplied, EventsMatchEdge, InitialLevelApplied, LinePromise |
| gpio_cdev_share | two handles, two lines, four descriptors, lookups by name | FdOwned, NoLeak, OpenAllOrNothing |
| gpio_cdev_v1 | two handles contending for one line, four descriptors, headers with biases and without drives, one configuration for each check of the open | FdOwned, NoLeak, ConfigApplied, NothingDropped, LinePromise |
| gpio_sysfs_open | one handle, every argument, one other process, three retries | TypeOK, OpenApplied, CallReturns |
| gpio_sysfs_share | three handles and another process on one line, two retries | ExportedByHandle, ExporterKeepsLine |
| pwm_open | one handle, one channel, periods and ratios in and out of range | TypeOK, CachedPeriod, CallReturns |
| serial_read | buffers up to three bytes, timeouts none, zero and two, VMIN 0, 2 and 3, VTIME off and two ticks | TypeOK, BytesAccounted, TimeoutKnown, EmptyMeansUnplugged, WaitBounded, TimedReadReturns |
| peripherals | two SPI handles on a device and one I2C handle over two descriptors, both builds; one LED handle, two LEDs, three triggers; one MMIO handle, 4 bit addresses, pages of 4 bytes; a poll of three GPIOs | SpiTypeOK, SpiFilesOwned, I2cFilesOwned, SpiCallExact, OtherSettingsKept; LedTypeOK, TrueIsMax, StreamsClosed, ListRead; MmioTypeOK, MappingsOwned, BoundsExact; PollHonest |
| gpio_cdev_setter, gpio_cdev_out_low, pwm_waits, serial_strip | the instances above | the findings below |

Why these bounds are enough.  A descriptor conflict needs two owners and a number that
is reused: two handles with a chip and a line each use the four descriptors up, so the
full table is reached too.  The configuration of a handle is independent of other
handles but for the line, which `ext` takes away, so one handle explores it.  Two
queued events show the order of a queue and its overflow.  A race for the export needs
two openers, and a third shows that closing a handle that did not export harms neither
of the others.  The retry counters reach their last turn with any bound above one; the
code's is ten, and the theorems hold for every bound.  The v1 run has two handles
and one line, so that a line lost to the other handle is part of it.  Two descriptors
for three handles make every number change hands between SPI and I2C; one flag in the
low byte and one above it tell the two widths apart.  LEDs with the maxima 1 and 3 tell
one LED's maximum from another's and from a brightness; three triggers put the active
one first, in the middle and last.  Windows of MMIO begin and end at, before and after
page boundaries, the empty one and one whose end wraps among them.  The array of a poll
has sysfs GPIOs first and last, so that the pass fails before and after a ready one.
Three bytes take a read through
its first, a middle and its last turn.  VMIN of two is below the length and above one,
so that a read waits for one byte; with three it waits for two, and a byte between them
starts VTIME afresh.  Two ticks of VTIME tell a fresh start from none.

`CHECK_DEADLOCK` is left on everywhere: a caller can always make another call.
Symmetry is used in the runs without liveness properties, over handles and descriptors.

### Fairness

`GpioSysfs` and `Pwm` assume weak fairness of the steps of a call in progress: the
thread is scheduled, and none of the system calls of these calls blocks.  Nothing is
assumed of udev or other processes: CallReturns holds because the loops are bounded.
`Serial` assumes weak fairness of the steps of `serial_read()`, the passing of time in
`select()` and in `read()` among them, for a clock stands still in neither; no byte or
signal ever need arrive, so a read without a timeout is only shown to return when the
port goes.  `GpioCdev`, `GpioCdevV1` and `Peripherals` state no liveness:
their calls have no loop that waits, but for `read_event()` and polls without a timeout,
which may wait without end.

### Findings

* `serial_set_parity()` strips the eighth bit (serial_strip): it sets ISTRIP whatever
  the data bits, against the comment at `src/serial.c:187`.
* `pwm_open()` does not wait for the channel (pwm_waits): the loop looks at the export
  file.  The next loop then fails with ENOENT where the wait would have succeeded.
* A setter may return 0 on a handle without a line (gpio_cdev_setter).
* `GPIO_DIR_OUT` on an output that is high leaves it high (gpio_cdev_out_low).

Other behaviour that a reader of the documents may not expect, in the models as in the
code.  The properties are stated so as to hold beside it, and no run is about it:

* A `serial_read()` with a timeout, also one of zero, can wait in `read()`
  (`src/serial.c:265`) when VMIN is above one and VTIME is on, where `docs/serial.md:95`
  has "zero for a non-blocking read".  `ReadTick` is that wait; with
  `waited <= timeout` in its place, WaitBounded fails after one byte and one tick.
* A `led_open()` that fails after `brightness` was found (`src/led.c:70-74`) leaves the
  handle with the new name and the maximum it had, and `led_write(true)` (`src/led.c:92`)
  writes that number to the new LED.  TrueIsMax without `max_read` fails there.
* A failed `mmap()` leaves MAP_FAILED in the handle (`src/mmio.c:77`), and a later
  `mmio_close()` reports an error, where `CHANGELOG.md:80` counts MMIO among the modules
  whose handles are cleared by a failed open.
* Errors between `fopen()` and `fclose()` in `src/led.c` leave the stream open.
* Two handles on an SPI device lose each other's changes of the mode word.

## Proofs

Eight modules prove, for every value of the constants allowed by the assumptions in
the modules they extend:

| module | proved |
|---|---|
| `GpioCdevProofs` | TypeOK, FdOwned, NoLeak, ConfigApplied, EventsMatchEdge as invariants, OpenAllOrNothing and InitialLevelApplied as action properties |
| `GpioCdevRefines` | `Spec => LinePromise`: the v2 back end implements `GpioLine`; `LinePromise => []OneHolder`: whatever implements it gives a line to one holder |
| `GpioCdevV1Proofs` | TypeOK, FdOwned, NoLeak, ConfigApplied, EventsMatchEdge, OpenAllOrNothing, InitialLevelApplied, NothingDropped, LinePromise and OneHolder of v1 |
| `GpioSysfsProofs` | TypeOK, ExportedByHandle, ExporterKeepsLine; OpenApplied under `[]OpensApart`, and with one handle; a call makes at most `6 * Retries` system calls |
| `PwmProofs` | TypeOK; CachedPeriod and RatiosFit under `[]Apart`; a call makes at most `4 * Retries` system calls |
| `SerialProofs` | TypeOK, BytesAccounted, TimeoutKnown, EmptyMeansUnplugged, WaitBounded; a read of n bytes makes at most 2n + 1 system calls and waits its timeout and what VTIME adds |
| `BusProofs` | SpiFilesOwned, I2cFilesOwned, SpiTypeOK, SpiCallExact, OtherSettingsKept |
| `PeripheralsProofs` | MmioTypeOK, MappingsOwned, BoundsExact; LedTypeOK, TrueIsMax, StreamsClosed; PollHonest; and the composition |

The theorems on the parts of `Peripherals` are about `BusSpec`, `MmioSpec`, `LedSpec` and
`PollSpec`.  PartsImplemented shows that every step of `Peripherals` is one of a part's
or leaves the part's variables alone, so its `Spec` implies all four; PeripheralsInvariants
and PeripheralsSteps are what the run checks, but for ListRead, for every value of the
constants.

None of the invariants is inductive alone.  In `GpioCdev`, FdOwned needs to know that the call in
progress has closed the line it is about to replace, and ConfigApplied that a request
went through the argument checks, for an edge with an output would be dropped by the
kernel's configuration and kept by the cache.  `CallOK` states what each value of `pc`
implies, and `IInv` is the conjunction.  A step changes the descriptor table in few
ways (it releases some descriptors of one handle, or fills one free descriptor, or
replaces a line's attributes or queue): the proof of each action classifies it so, and
the conjuncts about ownership are proved once per form.  In `GpioSysfs`, an open that
has exported a line (`made`) and a close that is about to unexport have the export to
themselves; `by` cannot change under them because only its exporter removes an export.
The lemmas separate the typing of a step from what it does to the exports.

In `Serial`, `CallOK` is what the loop of `serial_read()` relies on: the time waited,
the time left to `select()` and the time VTIME may still hold up `read()` stay within
the timeout and `InterByte` (a byte starts VTIME afresh, but leaves one byte less to
wait for), a `read()` that follows a successful `select()` finds
a byte unless the port has gone (nobody else reads it), and VMIN is in use only while
nothing has been read.  The last one is why BytesAccounted holds: with VMIN the code
returns what this `read()` gave, not the sum, which is right only because such a call
never loops.  The lemmas on the settings show that each setter keeps VMIN, so that the
handle's copy stays true; the setters share one proof.

The refinement has one lemma per action of `GpioCdev` and one for the outside.  Most
steps map to `Answer` or to no step at all; the grant of a request is `Acquire`, the
close in the middle of a setter is `Lose`.  IInv supplies what the mapping needs: a
line that a handle records is in the descriptor table with the attributes the handle
caches (so that what the kernel answers is what `GpioLine` says), and it is recorded
once (so that a step of one handle leaves what the others map to alone).  v1 reuses
these lemmas: `SetFormsV1` and `StepFormsV1` show that each step of v1 has the form of
one of v2 with other arguments, and only its polls are proved afresh.  NothingDropped
then follows from the arguments: a configuration that gets past the checks is its own
`RequestV1`.

In `Pwm`, `IInv` is TypeOK, which bounds the retries, and that a call in progress has a
channel and a handle that is not open.  CachedPeriod needs `Apart`, that no two handles have one channel open:
`pwm_set_period_ns()` refreshes the cache of its own handle only.  The theorem is
`Spec /\ []Apart => []CachedPeriod`, and its proof sorts steps into those that leave a
channel and its cache alone, those that fill the cache from the channel, and successful
writes, which put the same number in both.

In `Bus`, `FilesInv` says that each handle records exactly the descriptors the table
gives it; a step gets one descriptor, gives its own up or moves none, whichever library
it is of.  `BusInv` adds the types of the device and of the calls in progress, and that
a call nobody disturbed still finds the device as its earlier ioctls left it.  From that
and the last ioctl follows SpiCallExact.  In `Mmio`, the arithmetic of pages and wrapped
sums is in lemmas of its own, and `MmioInv` states that the aligned fields are those of
`base` and `size` whenever there is a mapping.

In `Led`, `LedInv` adds to LedTypeOK that a handle of which `max_read` is true
has the maximum of the LED it names.  It is the order in `led_open()` that keeps this:
the name changes first, but with it `max_read` falls, and rises again only with the new
maximum.  In `GpioPoll`,
`CallHonest` follows the call: what `poll()` reports had an edge since the call began,
also if another thread has consumed it since, and at every index of the pass the flags
set are exactly the GPIOs below it that `poll()` reported.

OpenApplied needs more than `IInv` of `GpioSysfs`.  From the write of the direction to
the end of the open the line must stay as it was written (`DirectionWritten`), and a
second handle on the line may change it in between: TLC finds that with two handles, and
the code has no lock that would prevent it.  `OpensApart` says that no other handle is
open on, or about to direct, a line that is being opened; exports and unexports by
others are allowed.  A process with one handle satisfies it, which is the second theorem.

CallsAreBounded is the part of CallReturns that needs no fairness.  `Left` counts the
system calls a call can still make: the retries of every step ahead, less the tries it
has made.  `LeftOK` bounds it, `CallsShorten` says that each step of the call lowers it and
that nothing else touches it: udev, the loss of the directory and other threads send no
call back to an earlier step.  `TurnsLeft` is the same for `serial_read()`: two system
calls for each byte there is room for, one `select()` that finds no more, and the ticks
left to the timeout and to VTIME.  A byte that arrives does not raise it, for only a
`read()` that gets one goes on, and what it adds to VTIME it takes off the bytes VMIN
still lacks.

RatiosFit follows from CachedPeriod and the arithmetic of a fraction: the duty cycle that
`pwm_set_duty_cycle()` computes is within the period of the channel, so the kernel
never refuses it for being longer than that.

Most proofs for v1 go through the step forms of `GpioCdevProofs` (`CallForms`,
`FormStep`): what a form does to descriptors, caches and levels is proved once, and each
back end shows that its steps have these forms.  OneHolder is proved of `GpioLine` only,
from its definitions, and both back ends have it through their refinement.

Model-checked only: CallReturns of `GpioSysfs` and of `Pwm` and TimedReadReturns of
`Serial`, because they rest on fairness, which takes reasoning about ENABLED; and
ListRead of `Led`, because the list is flattened and folded over sequences of any
length, and what such a recursion computes takes an induction over data.  The four runs that
expect a violation have no theorem.

## Not modelled

* `version.c`, the error texts and the `tostring`, name, label and `fd` queries: they
  format and read.
* A `close()` of a device that fails: the models of the character device, SPI and I2C
  only close descriptors they own (FdOwned, SpiFilesOwned, I2cFilesOwned), which those
  drivers never refuse.
* Opening a handle that is open, except in `GpioSysfs` and `Led`: the documentation asks
  for a close, and the old descriptor or mapping would be lost.
* Floating point: periods and ratios of `Pwm` are integers and fractions.
* Two handles on one serial port, and handles or processes that configure one PWM
  channel together: no text of the repository says what should hold of them.
* Buffers shorter than a trigger's name in `Led`, and the data of transfers: nothing
  else depends on them.
* A blocking `gpio_poll()` on a handle that lost its line, which waits without end.
