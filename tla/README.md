# Formal model of the rix IPC library and the MBot teleoperation programs

This directory holds TLA+ specifications of the C++ code in this repository, TLC
configurations that check them on small instances, and proofs checked by TLAPS.
Paths below are relative to the root of the repository.

## The system

Two programs run in a shell pipeline, `teleop_keyboard | mbot_driver`:

    keys -> FIFO "teleop" -> TeleopKeyboard::spin -> stdout | stdin -> MBotDriver::spin -> MBot::drive -> /dev/mbot_lcm
                                   ^                                        ^
                                   +------------- SIGINT (Signal) ----------+

| component | source | state it keeps | operations | interacts through |
|---|---|---|---|---|
| `Signal` | `src/rix/ipc/signal.cpp` | static table `notifier[32]` (flag, self-pipe), `signum_` per object | construct, move, destroy, `raise`, `kill`, `wait`, the asynchronous `handler` | pipe(2), signal(2), the kernel's deliveries |
| `Notification` | `include/rix/ipc/interfaces/notification.hpp` | none (an interface) | `raise`, `wait`, `is_ready` | implemented by `Signal`, used by both programs |
| `File`, `Pipe`, `Fifo` | `src/rix/ipc/{file,pipe,fifo}.cpp` | `fd_` | open, copy (dup), move, destroy, read, write, poll, O_NONBLOCK | descriptor table |
| `TeleopKeyboard` | `src/teleop_keyboard/teleop_keyboard.cpp` | sequence number, position in a write | `spin` | input and output `IO`, `Notification` |
| `MBotDriver` | `src/mbot_driver/mbot_driver.cpp` | position in a read | `spin` | input `IO`, `Notification`, `MBotBase` |
| `MBot` | `src/mbot/mbot.cpp` | mutex, timesync thread, stop flag, serial `File` | construct, `drive`, `timesync`, destroy | serial port |
| packets | `include/mbot/messages.hpp` | none | `checksum`, `encode_msg`, generated structs | called by `MBot` |
| messages | `include/rix/msg/**` | none | `size`, `serialize`, `deserialize` | called by both programs |
| time | `src/rix/util/time.cpp` | `Rate` keeps a start time | conversions, arithmetic, `sleep` | poll timeouts, stamps |
| `ArgumentParser` | `src/rix/util/argument_parser.cpp` | arguments and their values | `add`, `parse`, `get`, `help` | called by `main` |
| programs | `src/teleop_keyboard/main.cpp`, `src/mbot_driver/main.cpp` | their process | `main` | the pipe, SIGINT, SIGPIPE |
| `Log` | `include/rix/util/log.hpp` | level, stream | formatting | used by no program |

What is hard here: the signal handler runs between any two steps of any operation, on
any thread; `wait()` polls, then drains a pipe whose blocking mode it changes; descriptors
are reused by the kernel; bytes arrive and leave in arbitrary pieces, with EAGAIN, EINTR,
the end of the input, a full pipe and a reader that goes away in between; a notification
races each of these; and several results (`::signal`, `Pipe::create`, `File::write` in
`MBot::drive`) are not looked at. PROJECT.json lists these hazards by line.

What makes each component correct:

- *Signal*: a delivered signal is not lost and none is invented; numbers, objects,
  handlers and descriptors stay in step; `wait` and the handler return.
- *TeleopKeyboard*: the output is a sequence of whole frames, one per valid key, in order
  and numbered; it ends on the notification and at the end of its input.
- *MBotDriver*: it never loses the frame boundaries; it drives exactly what was sent, and
  stops the MBot whenever it ends.
- *The pipeline*: each program is the environment the other relies on; what is typed is
  driven, the MBot is left stopped, and neither program keeps the other alive.
- *Descriptors*: every open descriptor has one owner, and is closed once.
- *MBot*: the packets of its two threads do not mix on the line, a command is lost only
  with a write that fell short, and `drive` and the destructor return.
- *Packets, messages*: what is encoded is what the receiver decodes, and nothing that is
  cut off, or damaged on the line, is taken for something else.
- *Time*: a conversion keeps the value in the sense its rounding mode names, `poll` waits
  no less than it was asked to, and `Rate::sleep` is never early.
- *ArgumentParser*: every token of an accepted command line has one meaning, and the
  arguments have the values the tokens mean.

## The modules

| module | models | checked by | proved in |
|---|---|---|---|
| `Notification` | the promise of `interfaces::Notification` | refinement in `signal_single`, `signal_threads` | `SignalProofs` (that `Signal` keeps it) |
| `Signal` | `rix::ipc::Signal` with its handler, self-pipes and descriptors | `MCSignal*.cfg` | `SignalProofs` |
| `MBotDriver` | `MBotDriver::spin` and the stream it reads | `MCMBotDriver.cfg` | `MBotDriverProofs` |
| `TeleopKeyboard` | `TeleopKeyboard::spin`, its output pipe and the reader | `MCTeleopKeyboard*.cfg` | `TeleopKeyboardProofs` |
| `Pipeline` | both `main()`s, the two modules above on one pipe, SIGINT and crashes | `MCPipeline.cfg` | `PipelineProofs` |
| `MBot` | constructor, destructor, `drive`, the timesync thread and the serial line | `MCLibrary.cfg` | `MBotProofs` |
| `Descriptors` | `File`, `Pipe` and `Fifo` as owners of descriptors | `MCDescriptors*.cfg` | `DescriptorsProofs` |
| `Serialization` | the codec and every message class | `MCLibrary.cfg` | `LibraryProofs` |
| `Packets` | `checksum` and `encode_msg`, a line that damages a byte, a receiver | `MCLibrary.cfg` | `LibraryProofs` |
| `Sums` | the loops that add up a sequence, used by the two above | `MCLibrary.cfg` | `LibraryProofs` |
| `ArgumentParser` | `add` and `parse` | `MCLibrary.cfg` | `LibraryProofs` |
| `Clock` | `Duration`, `Time`, `Rate` and the timeouts of `File` | `MCLibrary.cfg` | `ClockProofs` |

`MCLibrary` runs `MBot` and the last four machines side by side, one in each behaviour: they
share no state.

### Signal

The state is the code's: `signum_` per object (an index, or -1), `notifier[i]` with
`is_init` and the two descriptors, and what the kernel keeps: the descriptor table
(`fdtab`: which end of which pipe), the bytes in each pipe, O_NONBLOCK of its read end, and
`handled`, the signals whose disposition is `Signal::handler`. The constructor is three
steps (`Construct`: range check, `is_init` check and `Pipe::create`; `CtorInit`;
`CtorRegister`), the destructor and the move assignment are four (`Release` takes the flag
down; `RelCloseRead`, `RelCloseWrite`; `RelDefault`), because a signal can be delivered
between any two of them. `Deliver` is the kernel: the default action ends the process, the
handler interrupts the thread, and a `poll` that has found nothing is cut short with EINTR.
The handler is three steps: `HandlerCheck` looks at the flag, `HandlerLoad` reads the
descriptor, `HandlerWrite` uses it. A handler whose object goes away between the first and
the last is marked `late`, a history field; this happens on another thread than `Main` only.
`wait` is one step per system call: poll, get flags, set flags, each read of the drain loop,
restore. A thread runs its own code only when no handler has interrupted it; one thread,
`Main`, constructs, moves and destroys.

A handler interrupted by a handler of another signal is not modelled: the inner one returns
before the outer one goes on and writes to another pipe. SA_RESTART and the blocking of a
signal during its own handler are those of glibc's `signal()`.

`Signal` implements `Notification` under the mapping at its end: a source is open while
`is_init` is up, pending while it is open and the pipe of its read end holds bytes, and a wait
has *seen* its source once poll has returned. The promise shown this way is the one the
programs rely on: a wait that returns false has taken nothing. It is kept on any number of
threads, with one concession (`Stray`): when there is a second thread, a late handler of a
number's previous object may have put a byte into the new pipe before the new object is
there, so that a source may be pending when it opens. That a source must be open
and have a read end to be pending was found by the proof: when `Pipe::create` fails in a
constructor, the flag goes up over no pipe at all, and what was left in the pipe of an
earlier life of that number is nobody's event.

### MBotDriver

The stream is a sequence of frames known by their offsets, so that the model can tell a
reader that is in step from one that is not without carrying bytes: `base + got` is the
offset of the next byte `read` returns, `SizesAt` and `Decoded` say what the bytes at the
reader's offset can be taken for (anything, unless they are the prefix or the payload of a
frame). The writer (external) sends frames whose payload may be malformed (`Lens`), too
large to allocate (`Sizes` above `MaxAlloc`) or truncated (`CloseWrite` at any time), in
pieces of any length. `read` returns any part of what is there, EAGAIN, 0 at the end, or an
error; EINTR leaves no trace. The notification is used by its contract.

### TeleopKeyboard

One action per step of `spin` that can be interleaved with the outside: poll, read, each
check of the notification, the building of a message, each `write`. `msgs` are the messages
begun, `sent` the bytes written; the output pipe holds at most `OutCap` bytes and its reader
takes them, stops, or closes it (SIGPIPE, which ends the process). `HupReadable` says what
`wait_for_readable` answers at the end of the input: TRUE for the `MockIO` of the tests,
FALSE for `File` and `Fifo`, whose `poll` reports POLLHUP without POLLIN. The retry of the
read after EINTR or EAGAIN (lines 45-52) is left out: a single reader does not get there
after `wait_for_readable`.

### Descriptors

`fd_` and `label_` are the members of the objects (`label_` stands for `Pipe::read_end_` and
`Fifo::pathname_`), `table` is the process's descriptor table and `labels` says what each
open file description really is, so that `LabelTrue` can compare. `own` is a history
variable: what the object obtained last, by open, pipe, dup, adoption or move. Each special
member function is one action over two objects of one class, self-assignment included;
`open` and `dup` take the lowest free descriptor and fail when there is none. The three
classes differ where the code does: which of them initialises the copy of an invalid object,
what a default Pipe says it is, what is left of the label of an object that was moved from.
`Adopt` is `File(STDIN_FILENO)` and the like: nothing is duplicated, and no other object
holds the descriptor. `CopiesInvalid` allows the copy of an invalid File, whose `fd_` the
code leaves uninitialised: any descriptor is possible then. Descriptor 0 is never closed
(the tests are `fd_ > 0`), so nothing leaks only if 0 is one of those the process was
started with.

### Pipeline

`Pipeline` takes the steps of `TeleopKeyboard` (`T`) and `MBotDriver` (`D`) by INSTANCE over
one pipe. What each of them leaves to its environment is done by the other here:
the driver's `base + got` is what the reader of `T`'s pipe has taken, the bytes `T` has
written are `D`'s `sent`, and a message that `T` begins is the next of `D`'s `frames`
(`FrameBegun`). Around `spin` there is `main()`: a process is in "start" before its Signal
exists, in "spin" until it returns, and "gone" or "crashed" afterwards; SIGINT is deadly
outside `spin`, a crash (`Crash`) is possible at every step, and the end of a process closes
its end of the pipe. The FIFO that `teleop_keyboard` reads is opened for reading and
writing, so its input does not end while it lives.

`EachServesTheOther` is `T!Spec /\ D!Spec`: the pipeline implements both modules, so that
what is shown of one program alone, in an environment that may do much more, holds of it
here.

### MBot

One action per step at which the other thread can come in: `Lock`, `WriteByte` (the terminal
takes one byte), `WriteReturns` (all, a part or nothing was taken), `Unlock`. `line` is the
incomplete packet at the end of the serial line and `cut` says that nobody will complete
it. The robot is external: it obeys a packet that arrives whole, and may or may not
recognise one that follows the remains of another. `port` keeps apart a port that could not
be opened, one whose setup failed (`SetupFails`: `close(fd)` behind the `File`, which still
holds the number) and an open one. `Calls` is the program; it calls `drive` or the
destructor when the other has returned.

### Serialization, Packets

`Serialization` translates the functions of `serialization.hpp` one by one: a byte is a
number below `Base`, a message the sequence of its fields. The templates over the vector's
element type are one operator each, and the numeric types, which are copied, are one type
of `Word` bytes. The machine reads one value of any kind after the other from a buffer of
arbitrary bytes until a read fails. What reads items one after the other (the fields of a message, the
strings or messages of an array) is one operator, `InOrder`, which is given a table of what
reading each item at each offset would return. `Packets` encodes a message, changes at most one byte of
it, and hands it to a receiver that applies the format of `messages.hpp`.

### ArgumentParser

A token of argv is a record of what the parser looks at: its length, its leading dashes, the
name behind them, and what `stoi` makes of it. `Add`, `Call`, and a step of `parse` per
argument (`RequiredArg`, `Option`, `Unknown`, `Finish`). `uses` is a history of which tokens
were consumed for which argument; the properties compare it with the values.

### Clock

Times and durations are counts of ticks in a signed integer of width `Most`, with `Milli`
and `Second` ticks to the units. One machine does arithmetic on a register and checks the
conversions at every value it reaches; the other is a `Rate` that sleeps by a clock that
ticks and can be set. `since` is the time that really passed since `sleep` returned last, and
`excused` says that the promise is off: the clock was set forward, the period was changed,
or `start_ + period_` overflows.

## The runs

Every run has `CHECK_DEADLOCK FALSE`: the programs end, and a process may be left with
nothing to do.

| run | instance | what it shows |
|---|---|---|
| `signal_single` | 1 thread, 2 objects, 3 numbers (one uncatchable), 4 descriptors, pipe of 3 bytes, drain buffer of 2, 3 signals | types; no signal lost (`NoLostSignal`); one owner per number (`OneOwner`); no descriptor leaks (`NoFdLeak`); refinement of `Notification` (`ImplementsNotification`), by which no signal is invented either; waits and handlers return (`CallsReturn`) |
| `signal_threads` | 2 threads, 2 objects, 2 numbers, 3 descriptors: one pipe at a time, its numbers reused | `NoLostSignal` and the refinement of `Notification` when waits, handlers and destructions overlap and `Pipe::create` fails; a handler that is not late writes to its own pipe, and a handler on `Main` is never late (`HandlerFdFresh`) |
| `signal_stale` | 2 threads, 1 object | **violated** (`WritesToOwnPipe`): a late handler uses a stale descriptor |
| `signal_eintr` | 1 thread | **violated** (`WaitReportsArrival`): a wait interrupted by its own signal returns false |
| `signal_pipefull` | 1 thread, pipe of 2 bytes, 3 signals | **violated** (`HandlerReturns`): `raise()` does not return once the pipe is full |
| `driver` | 2 frames of sizes empty, exact and too large, word of 2 bytes | `Framing`, what is driven (`DriveFidelity`), at most one command after the notification (`OneAfterRaise`); it ends on the notification and at the end of the input (`Stops`), and takes every frame (`EveryFrameTaken`) |
| `teleop` | 3 keys of 3, pipe of 9 bytes against frames of 17, sequence numbers modulo 2 | whole frames (`WholeFrames`), those of the keys in order (`OutputFidelity`); at most one message after the notification; it ends on the notification and the end of the input (`Stops`). Its ASSUME compares the key table with its meaning for 15 keys |
| `teleop_eof` | `HupReadable = FALSE` | **violated** (`EOFStops`): the end of a real pipe is never seen |
| `descriptors` | 2 Files, 2 Pipes, 2 Fifos, 4 descriptors of which 2 are inherited, 4 descriptions; objects of one class symmetric | one owner per descriptor (`Exclusive`), none closed or reused under its owner (`NotStale`), none leaked (`NoLeak`), labels true (`LabelTrue`) |
| `descriptors_copy` | 2 Files, `CopiesInvalid` | **violated** (`Exclusive`): the copy of an invalid File can hold another object's descriptor |
| `pipeline` | 2 keys of 2, word of 1 byte, messages of 7, pipe of 3 | the commands driven are those typed (`DrivesWhatWasTyped`), the last one is the stop (`StoppedAtTheEnd`), each program is the environment the other assumes (`EachServesTheOther`), neither keeps the other alive (`ProgramsEnd`) and every key reaches the MBot (`EveryKeyDrives`), with SIGINT to either and a crash of either at any step |
| `library` | 2 commands, packets of 3 bytes on the serial port; bytes of one bit, words of 2, every buffer of up to 8 bytes and longer ones; packets of up to 3 bytes to the base 3; up to 3 arguments and 3 tokens; durations of 8 bits, a clock of 7 ticks | of `MBot`, `Unmixed`, `CommandArrives`, and `drive` and the destructor return (`CallsReturn`); a value that is read is what its bytes say (`Canonical`) and a read fails only at the end (`FailsOnlyWhenShort`); packets arrive as sent or not at all (`ReceivedAsSent`); `ParsedAsGiven`; `ConversionsKeep`; `NeverEarly` |

Bounds. A pipe of 3 bytes and a buffer of 2 let one wait need two reads to drain it; three
signals let one arrive before, during and after a drain; two objects and two catchable
numbers give every pair of moves, and four descriptors make the second pipe reuse those the
first has freed. In `signal_single` no more signals are delivered than the pipe holds, so
that the blocking write of `signal_pipefull` does not hide the rest. In `signal_threads`
three descriptors are one too few for two pipes, so that the second object that lives at the
same time has none, and the next pipe gets the numbers a late handler holds. With sequence
numbers modulo 2 the third key of `teleop` is numbered 0 again. Two frames are needed
to come back to a boundary; a word of two bytes lets a prefix arrive in two pieces. Sizes
around 14 (the smallest payload that decodes with that word) with `frame_id` lengths 0 and
1 give a payload that decodes and one that is a byte short. An output pipe smaller than a
message makes every message block at least once, in `pipeline` too, where the driver has to
empty it for the message to be completed; its theorem covers other sizes. In `descriptors`
two objects of a class give every copy and move, also onto itself; two descriptors besides
the inherited ones let one pipe be created, fill the table and be reused, and an adopted 1
that is destroyed adds a third. Packets of three bytes can be refused, cut after the first
byte or before the last. In `library`, two-byte lengths to a small base make lengths and
counts larger than the buffer; a stamped twist needs 14 bytes and more, hence the longer
buffers; to the base 3 the length of a packet of three bytes needs its high byte; 8-bit durations with 4 and 10 ticks to a unit hit every remainder, halves
included, every bound of a message's seconds and of `poll`'s int, and overflow. Counters
that would grow for ever are bounded by `MaxSignals`, `MaxFrames`, `MaxKeys`, `MaxOpens`,
`MaxAdds`, `MaxArgs`, `MaxMsg` and `MaxNow`.

Fairness. `FairSpec` of `Signal` asks that a thread that can take a step of its wait, its
handler or of an operation it has begun takes it (the scheduler), never that anybody calls
an operation or that a signal arrives; the `poll` timeout is finite. That of `MBotDriver`
asks the same of the driver only: the writer owes nothing. That of `TeleopKeyboard` asks
that the program runs without being forced to fail (`Works`: a write to a full pipe just
waits) and that bytes in the pipe do not stay there for ever (`Drain`): `mbot_driver` reads
until it exits. `Pipeline` does not need the second assumption, the driver is there; it has
the two processes run, and neither typing, interrupts, failures nor crashes. `MBot` asks that
both threads run, and strong fairness for `drive`'s lock, which the timesync thread leaves
free for half a second after each packet. `Rate` has no liveness property: whether `sleep`
returns depends on who sets the clock.

## What is proved

TLAPS checks, for every value of the constants that satisfies the named assumptions
(`SignalAssumption`, `DriverAssumption`, `TeleopAssumption`, `PipelineAssumption`,
`DescriptorsAssumption`, `MBotAssumption`, `CmdsAssumption`, `ClockAssumption`,
`PacketsAssumption`, `ParserAssumption`, `CodecAssumption`: numbers are numbers, sets are sets of numbers, no
command is called "no command", a byte of a packet has more than two values and one of the
codec more than one, a word has at least one byte, an argument is a record and the value of a
bool is one). A theorem that needs more says so in its own
ASSUME:

- `SignalProofs!TypeCorrect`, `SignalProofs!SignalsAreKept`: `Spec => []TypeOK` and
  `Spec => []NoLostSignal`, for any number of threads, objects, signal numbers and any pipe
  and buffer size. `NoLostSignal` is not inductive by itself. The invariant adds `FdInv`
  (the descriptors in the table are the ends of their own pipes: otherwise a handler's byte
  could go elsewhere, or closing one notifier could close another's pipe), `OpInv` (a
  notifier that is being built or taken apart has its flag down) and `ThreadInv`. The two
  steps that matter are `HandlerWrite`, where `FdInv` says that the byte lands in the pipe
  that owes it, and the drain loop, where the bytes it takes are accounted for by the
  `Draining` disjunct until `DrainEnd` settles them.
- `SignalProofs!NumbersHaveOneOwner`: `Spec => []OneOwner`, again for any number of threads.
  `OneOwner` speaks of the moments between two operations; `OwnersInv` says what holds in the
  middle of one: which object the constructor is giving a number to, which number a
  destructor or move has taken down and not yet given back, and that exactly the numbers
  whose flag is up and that can be caught have the handler.
- `SignalProofs!DescriptorsDoNotLeak`: `Spec => []NoFdLeak` for any number of threads, if
  `0 \notin Fds`: `Pipe::create` must never be handed descriptor 0, because the release tests
  `fd > 0` and would leave it open. That is so while standard input is open. `LeakInv` accounts
  for every open descriptor (`Ends`: it is the one in its notifier's entry), and lets a notifier
  that is down keep an entry only while an operation has still to close it (`Emptied`).
- `SignalProofs!LoadedDescriptorIsFresh`: `Spec => []HandlerFdFresh` for any number of
  threads. `mbot_driver` has a second one (the timesync thread of `MBot`, which is started
  before the `Signal` and with no signal blocked), so that one thread must not be assumed.
  `FreshInv` says it of every point of the handler: while it has seen the flag and is not
  late, the flag is still up, so that the pipe it belongs to is the one in the notifier and
  `FdInv` applies; and no handler on `Main` is late, because `Main` releases nothing while
  it is in one. That the flag goes down before the ends are closed is what makes a handler
  that looks at it afterwards harmless; only those that have looked before are late.
- `SignalProofs!SignalNotifies`: `Spec => ImplementsNotification`, step by step over every
  action and for any number of threads. It needs that the number of a wait stays open while
  the wait lasts (`WaitInv`) and that with a single thread the pipe is empty when the flag
  goes up (`EmptyInv`); with a second one a late handler may have been there (`Stray`).
- `MBotDriverProofs!KeepsFraming`, `DrivesWhatWasSent`, `AtMostOneAfterRaise`,
  `TypeCorrect`: for any number and sizes of frames and any fragmentation. The invariant
  adds `Chain` (the frames follow each other, so that no two start at the same offset and
  the bytes at a boundary can only be read as that frame's) and `Notified` (a raise stays
  pending until `spin` has returned, and a command driven after it leads to the check).
- `DescriptorsProofs!OwnersAreExclusive`, `OwnersAreNotStale`, `NothingLeaks`, `TypeCorrect`:
  for any numbers of objects and descriptors, unless an invalid File is copied
  (`~CopiesInvalid`). `Exclusive` and `NotStale` need each other: `close` disturbs nobody
  because the descriptor is held once (`Apart`), and the kernel never hands out a descriptor
  that is held because what is held is open (`Held`); objects that do not exist must hold
  nothing (`Dead`). `NothingLeaks` assumes `0 \in Std` and adds `ZeroOpen`: with it, what an
  assignment or a destructor does not close was inherited. `LabelsAreTrue`:
  `Spec => []LabelTrue` under the same two assumptions; `LInv` says that the label of
  a Pipe or Fifo is that of the description it obtained, and that this is never the one the
  process was started with: a move assignment to an object that held
  descriptor 0 would swap it into the other one without its label.
- `TeleopKeyboardProofs!MessagesAreTheKeys`, `MessagesAreWhole`, `AtMostOneAfterRaise`,
  `TypeCorrect`: for any keys, speeds, sizes, capacity of the pipe and modulus of the
  sequence number. The invariant adds `InStep` (by how much the messages are behind the keys,
  where `spin` is, and that `seq` is their number modulo `SeqMod`), `Unfinished` (in a write
  something is left to write, so that the end of a part is not missed) and `Notified`.
- `PipelineProofs!ProgramsFit`: `Spec => EachServesTheOther`, the refinement of both
  programs' specifications, for any keys, message size and pipe capacity. The step that is
  not obvious is a write: that its bytes belong to a frame of `D` needs `Written`, which ties
  what `write_exact` has left to the end of the last frame; that no more frames are begun
  than keys are typed needs `Budget`, and that a read of the driver is a read that `T` allows
  needs `Flow`. `LeftStopped`: `Spec => []StoppedAtTheEnd`, from `StopsLast` and from
  `OneSize`, by which the driver never fails to allocate a payload that `teleop_keyboard`
  sent.
- `PipelineProofs!TypedIsDriven`: `Spec => []DrivesWhatWasTyped`, the property of the two
  programs together. It is composed, not proved again: by `ProgramsFit` what
  `TeleopKeyboardProofs` and `MBotDriverProofs` show of each program in any environment holds
  of it here (`TeleopTransfers`, `DriverTransfers`: the messages are the keys, the commands
  are the frames), and the frames are the messages.
- `MBotProofs!PacketsDoNotMix`, `CommandsArrive`, `ThreadIsJoined`, `TypeCorrect`: for any
  length of a packet and any commands. `Mutex` (held exactly around a write) with `LineOK`
  (the incomplete packet on the line is the one that the holder is writing, or was cut)
  carries the first, `CommandOK` the second.
- `ClockProofs!SleepIsNeverEarly`, `ConversionsAreFaithful`: for any width of the integers,
  any ticks to the units, periods and frequencies, of the two machines of `Clock` running
  together (in `library` one of them runs in each behaviour). `NeverEarly` needs `Honest`:
  unless `sleep` is excused, the clock has not run ahead of the time that passed and the
  deadline did not overflow, so that a deadline that is reached is a period that has passed.
  The conversions are lemmas about every integer (`TruncIs`, `CeilIs`, `NearestIs`,
  `WrapKeeps`), which rest on the four lemmas of integer division at the top of the module.
- `LibraryProofs!PacketsArriveAsSent`: `PacketSpec => []ReceivedAsSent` for any base, any
  bytes and any message of up to `MaxMsg` bytes, if `MaxMsg < PktBase * PktBase`: the length
  of a message is sent in two bytes, and of a longer one the receiver reads another length.
  The invariant (`PInv`) says what is on the line: the packet that was encoded, or that
  packet but for one byte. The receiver finds the flags, the checksum of the length or that
  of the rest wrong because two sums that differ in one byte differ modulo `PktBase`
  (`SumExcept`, `CloseMultiples`). What a sum over a sequence of any length is
  (`SumIs`, `SumAppend`) is proved by induction: `SetInduction` states it of membership in a
  set, which follows from the well-foundedness of the naturals without an operator parameter.
- `LibraryProofs!ArgumentsAreParsed`: `ParserSpec => []ParsedAsGiven`, for any arguments, any
  tokens and any argv. The invariant (`AInv`) says that the uses recorded form a chain that
  begins at the first token and ends at `at` (`Chain`), all of them successful while `parse`
  goes on, so that `EveryTokenIsUsed` at the end is what is left when `at` has reached the end
  of argv; and that the values are right after each use, not only at the end.
  `ValueIsParsed` says of every type what `parse_arg` returns: a value that is what the tokens
  denote, or a refusal; `ValuesAfter` is the step, with the parity of the uses of a bool.
- `LibraryProofs!ReadsAreCanonical`, `ReadsFailOnlyWhenShort`: `CodecSpec => []Canonical` and
  `CodecSpec => []FailsOnlyWhenShort`, for any base, word, array length and buffers and for
  every kind of value. The invariant (`CInv`) says that the last read is what `Reads` returns
  at the place where it began, in the buffer; the work is in the lemmas about `Reads`, which
  follow the nesting of the codec: a number, a string, a message, an array, a vector.
  `NumberRoundTrip` goes by the digits of a division and Horner's rule. A list of items is
  described by the marks between them (`InOrderRow`): each item is read where the one before
  ended, so that the bytes of the list are those of its items (`RowSays`) and the sizes add
  up (`SizesAddUp`). `Canonical` follows from `KindIs`. For `FailsOnlyWhenShort` the reads of
  the buffer and of the padded buffer are compared item by item (`Agree`, `ListsAgree`,
  `KindsAgree`): either both succeed alike, or the first fails because the second, if it
  succeeds, ends after the buffer. That the second does succeed needs room (`KindFits`):
  beyond the buffer every number is zero, so that there every length is zero, and no
  read asks for more than one string that was begun before the end plus `Word` bytes for each
  field of each item (`PaddingIsRoom`). The proof showed the padding that the property used
  before to be too short for an array longer than the largest number, which no run has:
  its bound now counts `ArrayLen`.

Only model-checked: everything temporal beyond safety (`CallsReturn` of `Signal` and of
`MBot`, `Stops` of both programs, `EveryFrameTaken`, `ProgramsEnd`, `EveryKeyDrives`), because
liveness under fairness is outside the prover's reach. Every safety property that a passing
run checks has a theorem.

## Where the code and its documentation disagree

Each of these is a run that TLC finds violated; PROJECT.json quotes the line.

1. `wait()` returns false when its signal interrupts `poll` (`signal_eintr`).
2. The handler's blocking write hangs the process when the pipe is full (`signal_pipefull`).
3. `TeleopKeyboard` does not see the end of a pipe or FIFO (`teleop_eof`).
4. The copy of an invalid `File` leaves `fd_` uninitialised (`descriptors_copy`).
5. A handler that runs on another thread than the one that destroys its object may write to
   a descriptor that is closed or belongs to something else (`signal_stale`). `mbot_driver` has
   such a thread: a SIGINT that comes while `spin` returns may be delivered to it.

Not runs, because nothing in the repository comes into the situation, or says what should
happen, or because the state belongs to the environment, but worth knowing:

- `wait()` reads, sets and restores the flags of the read end in three steps
  (`signal.cpp:100-119`): with two threads waiting for one signal, the restore of one lets the
  other block in `read` past its duration. `CallsReturn` is checked with one waiter, the only
  use in the repository; with two threads that wait TLC finds it violated.
- When `Pipe::create` fails the object looks valid, its handler is installed and its signals
  are dropped (`signal.cpp:24`, `137`); the constructor has no way to report it.
  `NoLostSignal` speaks of the notifiers that have a write end.
- A descriptor 0 that the program opened itself, because it was started without standard
  input, is never closed (`file.cpp:63`); with `Std = {1}` TLC finds `NoLeak` violated.
  `file.cpp:34` and `file.cpp:62` say that stdin, stdout and stderr are not closed, but the
  test is `fd_ > 0`, so that of these only 0 is spared.
- A size prefix that cannot be allocated ends `mbot_driver` by `bad_alloc`
  (`mbot_driver.cpp:71`), without the stop: the state "aborted" of `MBotDriver`, which its
  properties allow. `teleop_keyboard` never sends one (`PipelineProofs!LeftStopped`).
- The result of `file.write` is not looked at in `drive` (`mbot.cpp:55`), so that the stop
  itself can be lost; `timesync` ends for good after its first failed write (`mbot.cpp:81`);
  and when the second `tcgetattr` fails (`mbot.cpp:23`), the descriptor is closed while `ok()`
  stays true.
- `Rate(0.0)` stands for the longest period (`time.hpp:190`), `start_ + period_` overflows
  (`time.cpp:326`), and `sleep()` returns at once, not never. `Rate` also drifts: the next
  period begins when `sleep` wakes, not where the last one ended.
- `FLOOR` truncates toward zero (`time.cpp:113`): of negative durations it is the ceiling.
- `Time::to_string` does not pad the microseconds with zeros (`time.cpp:22-27`): 5 us print as
  ".5".
- `stoi` stops at the first character that is not a digit, so that "5x" is a number, and
  doubles are read by `stof`; a vector ends at a negative number, which is taken for an
  option; a required argument can be given again as `--name`; the second `add` of a name
  changes the list of required names and the short names but not the argument.

## Plan

Everything planned is modelled: `Signal`, `Notification`, `MBotDriver`, `TeleopKeyboard`,
`Descriptors`, `MBot`, `Pipeline` and the library. Every safety property of the passing runs
is proved; what is left to TLC is liveness.

Not modelled: `Log` (formatting, used by no program), `Time::to_string`, `Timer` (two
readings of the clock) and `Rate::frequency`, `ArgumentParser::get` and `help`, `hash()` of the
messages (constants), the generated serial structs (memcpy of fixed layouts), the settings
of the terminal, `File::remove`, the reuse of the number of a port whose setup failed by a
descriptor that is opened later (in `mbot_driver` the read end of the Signal's pipe, where a
write fails as on the closed port), what the destination of a read holds after the read
failed (no caller looks at it), the contents of floats, stamps and names (they are
carried, never looked at, except for their sizes), and the tests' mocks beyond the one
answer that differs (`HupReadable`).
