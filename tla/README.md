# A verification of the UADE playback plugin

The repository embeds UADE, a player of Amiga music, as a playback plugin. A
*host* thread uses libuade (`uade/src/frontends/common/`); libuade runs the
Amiga emulator, *uadecore* (`uade/src/`), in a second thread of the same
process. The two speak a message protocol over a channel that replaces the
sockets of the original program. This directory holds TLA+ modules of that
machinery, TLC configurations that check them, and proofs checked by TLAPS.

Paths below are relative to the repository; `common/` is short for
`uade/src/frontends/common/`.

## Inventory

| Component | State | Operations | Interacts with | What is hard |
|---|---|---|---|---|
| Channel (`common/uadechannel.c`) | 8 slots: generation, two ring buffers, closed flags; one lock, one condition variable | create, read, write, close | called by both threads | interleaving, waits that drop the lock, reuse of slots, timeouts |
| Message layer (`common/uadeipc.c`) | R/S state and input buffer per side | send and receive a message, string, file; request a file | channel below, session and core above | the turn must be handed over exactly |
| libuade session (`common/uadestate.c`, `uadecontrol.c`, `ossupport.c`) | song state, pending seek or subsong, queued commands, spawned thread | new_state, play, read, seek, set_filter_state, stop, cleanup_state | message layer; joins the core's thread | messages in any order the emulated program likes, failures half way |
| uadecore (`uade/src/uade.c`, `uademain.c`, outer loop of `newcpu.c`, `audio.c` output) | static variables: read size, reboot flag, output flags, song | boot, command loop, Amiga messages, audio blocks, reboot, exit | message layer; exits by `longjmp` out of its thread | statics outlive the thread; it looks at the channel only when it has something to say |
| Queues (`common/fifo.c`, `vparray.c`) | growing buffers | read, write, erase tail; push, pop, remove | session | growth behind bytes already read, memory refused half way |
| Plugin (`uade_plugin.cpp`) | instance: state, thread, subsong | create, open, read, seek, close, destroy, probe, metadata | libuade; several instances share uadecore's statics | instances in parallel |
| Audio (`audio.c`), CIA timers (`cia.c`), custom chips | Paula channels, timers, event table, scope ring | register writes, event handlers | 68000 emulation; scope read by the host | timer arithmetic, a ring read by another thread |
| Format detection, song database, RMC, effects, configuration | tables and files | pure functions and text parsing | session | nothing concurrent |
| 68000 instructions (generated), host API headers, other frontends, vendored bencode, data | | | | outside the program's own logic |

What makes each correct: the channel is a pair of FIFO byte streams per
connection, whatever else happens to other connections or to its slot; the
message layer lets one side send at a time; the session finishes every call,
and leaves the protocol where the next call can start; the core understands
every message and starts each song alike. `PROJECT.json` lists the hazards, each
at its line, with the properties that cover it.

## Modules

| Module | Models | Composed of |
|---|---|---|
| `UadePipe` | what a channel promises: connections, streams, partial transfers, closing | |
| `UadeChannel` | `uadechannel.c`: table, generations, rings, lock, waits, timeouts | implements `UadePipe` |
| `UadeIpc` | `uadeipc.c` over one channel, with whole messages | |
| `UadeSession` | host and core and all they say to each other | two users of `UadeIpc` |
| `UadeReading` | `uade_read()`, seeks, subsongs, limits, ends, with positions; `read_data()` of the plugin | |
| `UadeQueue` | what `fifo.h` promises | |
| `UadeFifo` | `fifo.c` | implements `UadeQueue` |
| `UadeOutput` | bytes from the sound buffer of the core to the caller, and commands the other way | two of `UadeFifo` |
| `UadeInstances` | several states over the same static variables | |
| `UadeCia` | `cia.c`: timers, flags, time of day, the planned event | |
| `UadePaula` | one audio channel of `audio.c`, with the fetches of `custom.c` | |
| `UadeCpu` | INTREQ, INTENA, the interrupt mask, STOP and `spcflags` | |
| `UadeChips` | lines, frames and events of `events.h` and `custom.c` | `UadeCia`, `UadePaula`, `UadeCpu` |
| `UadeChannelProofs`, `UadeSessionProofs`, `UadeTurnsProofs`, `UadeReadingProofs`, `UadeFifoProofs`, `UadeOutputProofs`, `UadeChipsProofs`, `UadePaulaProofs` | theorems | |
| `MCUade...` | instances for TLC | |

### UadeChannel

`channels` is the table, `holder` the lock, `pc` and `call` a thread's place in a
transfer. A pass of the loop in `uade_ipc_read`/`uade_ipc_write` is one step,
since the lock is held all through it and given up only in
`wait_for_progress()`; create and close are one step each. A wait ends by a
broadcast, for no reason, or by the timeout, which may also strike a thread that
was just signalled: `pthread_cond_timedwait` reports one of the two, and the
code does not look at the ring again. `serial` is a history variable: the
generation if it did not wrap. Callers may use any id they were ever given, and
the all-zero id of a `struct uade_ipc` that was never connected.

`UadePipe` is the abstract specification; `PipeSpec` maps the ring to a
sequence, a write in progress to what is left of its data and a read in progress
to what it got. A transfer may stop anywhere (error, end of file, timeout), but
what was moved is in order, complete and in the right connection.

### UadeIpc and UadeSession

A message is its type. A queue has `Room`; files and audio blocks take two units
and all else one, as their sizes compare with the 16 KiB ring. `todo` holds the
messages a side is in the middle of sending, so the two threads interleave at
every message.

`host.pc` is the call in progress: `ack`, `acktoken`, `canttoken`, `options`
are `uade_song_initialization()`, `event` is `receive_messages()`, `serve` is
`send_file_back()`, `flush1`/`flush2` the two `get_pending_events()` of
`uade_stop()`, `close` and `join` the end of `uade_cleanup_state()`. `Caller` is
any sequence of API calls that `uade.h` allows: after `uade_play()` returned -1
only the cleanup, and no second `uade_play()` without `uade_stop()`.

`core.pc` is the message the core waits for at boot (`config`, `score`,
`player`, ...), `commands` is `uadecore_handle_r_state()`, `run` the emulation,
`rebooted` the boot after a reboot. The emulated program may post a name, a
message, subsong info, an end of song, or a request for a file at any moment, and
may or may not report that its output starts. The static variables stay when the
thread ends (`Exits`), and whether `exit()` was preceded by `close_ipc()` is
followed case by case. Every send and receive can fail because an end is closed,
or by the 30 s timeout; `late` records that a timeout has happened.

Abstractions: a message that cannot be sent is lost whole (the code can leave
its beginning in the ring); how many bytes a seek skips or whether a subsong
change is needed are choices; the options sent with a song are one message;
a file is one message, or two with data; a new state always finds a free slot.

### UadeReading

The positions behind the session's `event` state. `song` and `seek` are the
fields of `struct uade_song_state` about positions and about seeks, `stash` what
is left of a block, `read` the call in progress, `status` and `told` what the
plugin and the notifications said. A block carries, as history, the subsong and
the position it was played from; the host does not see them. `ReadStep` is one
round of the loop in `uade_read()` with everything `uade_get_event()` does in it;
`CoreBlock` is the next block of the core, with an end of song in it or not.
Silence is a choice per block, since it depends on the samples.

The module keeps some behaviour that a reader may not expect: a seek that was
noted survives an automatic change of subsong (`uade.h:475-477` speaks of the
seek in progress only); `uade_play(..., 0, ...)` plays the default subsong; a
small seek forward just after a restart restarts again; `songbytes` counts audio
of restarted subsongs twice. One end of song per block is modelled here;
`UadeOutput` has several.

### UadeFifo and UadeQueue

A fifo is `struct fifo` with the contents of its buffer, where memory nobody has
written holds `Junk`; `peak` is a history. A shrinking buffer may be refused
(`halve_fifo()` has then already moved the bytes); a growing buffer that is
refused leaves the fifo as it was, so it is a stutter. The `-1` of
`fifo_write()` for sizes near `SIZE_MAX` is not modelled.

### UadeOutput

`snd` is the sound buffer with `uadecore_read_size`, `uadecore_audio_output`,
`uadecore_reboot` and the filter; `wire` the messages to the host; `stash` and
`commands` are fifos. Frames are numbered modulo `Numbers`, and a block is their
bytes, so that a byte that is lost, repeated or moved shows. `uade_stop()` is
three steps (`uade_stop`, `Drains`, `OrdersReboot`), since the core finishes its
block meanwhile. After the reboot command the emulated instruction may make
`Burst` more frames: `check_sound_buffers()` returns before it looks at the
buffer (audio.c:156). In the code that burst is far smaller than the room behind
a block, which `SndSize` states; `Burst < Numbers` keeps the numbers of its frames
apart. `Kept` forgets the bytes of a buffer outside the valid range, which are
never read, and `After` lets a smaller buffer never be refused; `UadeFifoProofs`
covers that outcome. Seeks and limits are in `UadeReading`.

`uade_set_filter_state()` only changes what is played when `led_forced` is set
(uadecontrol.c:60); the module follows the value sent. Assertions are taken as
compiled in: with `NDEBUG` the `assert(!fifo_erase_tail(...))` of
uadestate.c:651 vanishes with its call, a command refused memory leaves its size
in the queue, and the queue is misread from then on.

### UadeInstances

Each state has a core thread and a channel; `uadecore_ipc` and the emulated
memory (`module`) exist once. A thread in a read waits for the channel it found
when the read began; every other access finds what `uadecore_ipc` is then. One
access is one step, which is less than the data races of the C code allow.
Stopping is not modelled; the run looks for the first audio that goes astray.

### UadeCia, UadePaula, UadeCpu, UadeChips

Time is relative: `since` the last calculation of the timers, `due` the time to
the planned event, `next` the time to the next event of `events_schedule()`.
`do_cycles` is a cycle with or without an event; in this build only lines and the
CIA have events. `Instruction` lets the program access the registers of one
part at a time, in any way, at any cycle; the instructions themselves stand for
nothing more. `UadeCpu.pc` is where in `m68k_run_1()` the CPU is: an
interrupt is looked at after the instruction, and only if a flag says so.

`CIA_update()` gives the timers the clocks passed, with the rest of the division
carried in `div10` and `lastdiv10` (the code adds the older one, so the timers are
up to two clocks behind, but never ahead); `Plans` is `CIA_calctimers()`, where the
estimate for a chained timer is an `int` (`Truncated`, `IntMod`) that may wrap.
If it wraps to the present cycle the event only comes when the cycle counter
wraps: the machine is `Stalled`, and the runs do not go on. Likewise faithful:
the mask of the interrupt register is written without looking for an interrupt
(cia.c:487); counts read by the program are stale, so reading them is left out.

`UadePaula` names a word by its address and follows which word is played:
`audio_handler()` state by state, `update_audio()` for the cycles since the last
time, the fetch at the end of a line. Buffers of one or two words begin with
their first word twice; `intreq2` survives a stop; a channel that modulates only
the period of another raises no interrupt at the end of its buffer. `heard`, a
history, follows the words from the start of DMA. DMA turned off and on again
between two words makes no difference to them; a word taken without DMA, a stop
or a change of `ADKCON` ends what is followed. `customreset` keeps INTREQ, ADKCON
and the alarms. Every frame has `Rows` lines; the one line more that `lof` gives an
interlaced frame, and a write of `VPOSW` in that line, are left out.

## Runs

| Run | Question | Bounds |
|---|---|---|
| `channel_streams` | `TypeOK`, `ReadableWritten`, refinement of `UadePipe` | 2 threads, 1 slot, ring of 2 bytes, payloads of one and of two different bytes: wraps, partial and full rings, short transfers |
| `channel_calls` | `NoAliasing`, `SlotsReclaimed`, `NoLostWakeup`, `CloseUnblocks`, `EveryCallReturns` | 1 slot used for two channels, transfers of 2 bytes through a ring of 1 |
| `session` | all session invariants and `CallsReturn` | room for 4, 2 posts per turn, any number of states, songs and blocks |
| `reading` | positions, what is heard, ends, returns | blocks of 2 units, reads of 3, 2 subsongs of at most 4, limits of 4, 5 and 9, 2 calls per song |
| `output` | buffers, tails, order of bytes, filter, queues | blocks of 2 frames of 2 bytes, reads of 3 bytes, 2 commands waiting, 2 ends per block, any number of songs |
| `chips` | timers, events, time of day, audio words, interrupts | 2 chips, bytes of 2 values, 3 cycles in a line, 2 lines in a frame; 2 accesses to timers, 4 to the clock, 5 to audio, 3 to interrupts |
| `chips_done` | what must come, comes | 1 chip, 2 cycles in a line; 2, 3 and 2 accesses |
| `session_filter`, `session_join`, `reading_end`, `reading_seek`, `instances` | one statement each of a comment or the API documentation that the code does not meet | as above; 2 states in `instances` |

Why the bounds suffice. The channel's code compares ring positions with the ends
of the buffer and of the data only: two bytes reach every combination of empty,
partial, full, wrapped and not. Two threads are what the program has per channel.
In the session the only counters are `Room` and `MaxPosts`; with room for 4,
short host commands fit together while files, and a block after two posts and a
log, find the ring full. Reads of one and a half blocks leave every part of a
block in the stash; targets and limits lie inside blocks and at their ends, and
the limits strike before, during and after a seek. In `output` the capacities of
the fifos pass 8, so that they are halved and grow again, and three frame numbers
tell a lost block of two from none. In `chips` a byte of two values makes latches
of 0 to 3 clocks, timers run out at every distance from the planned event, and
`IntMod` = 22 makes estimates of chained timers wrap, to small values, negative
ones and zero, while a single timer's fits. A line of 3 cycles against periods of 1
and 2 puts fetches before, between and after words; five accesses to audio start a
buffer, turn its DMA off and on and still change a register. The theorems remove the bounds
for the properties they state.

`chips`, `chips_done`, `reading` and `instances` do not check for deadlock: a
stalled machine, a failed assertion and a process whose threads have left each
other's channels do stop.

What the passing runs show:

* `session`: only one side ever sends; no state assertion of `uadestate.c` or
  `audio.c` can fail; nobody waits for somebody who waits, unless a timeout has
  upset the order; every message is expected where it arrives; after
  `uade_stop()` the next song can start; after `uade_cleanup_state()` the slot is
  free and the statics are clean, unless there was a timeout; every call returns.
* `reading`: the position the host counts is where the core is, so that a seek's
  target lies in the block that reaches it, unless a limit strikes during the seek;
  what the caller hears goes on exactly where it stopped or begins exactly at the
  target; ends are told after the last audio; every read returns; a caller that
  keeps reading is told of the end, though notifications are flushed.
* `output`: the comparison for equality that completes a block always meets; the
  tail computed when the song ends is where it ended in the block; bytes arrive
  in order for all sizes of reads; a command that was accepted is in the core
  before the next block is asked for, though others were refused memory half way;
  stash and queue are used as queues; a block that was asked for is completed
  after the end of a song, even if the program never starts its output.
* `chips`: the clocks given to the timers never drift from the cycles; the four
  assertions of `CIA_update()` hold; no event is passed over, except by an
  estimate that wraps to nothing; a latched time of day is read whole; a channel
  plays the words of the buffers in order, and the interrupt at the end of a buffer
  comes, also when DMA is turned off and on between two words; no deliverable interrupt is without a flag that makes the CPU look.
* `chips_done`: a running timer underflows, a channel turned off falls silent, an
  interrupt is taken.

The statements that fail:

* `session_filter`: `uade_set_filter_state()` between songs kills the core
  (constant `FilterBetweenSongs`; the plugin does not do this).
* `session_join`: the cleanup waits for ever for a core whose program starts no
  output.
* `reading_end`: after a read that returned 0, because the player crashed or was
  silent, the next one returns audio.
* `reading_seek`: silence or a limit in the block of a seek's target makes the
  next block fail an assertion.
* `instances`: a second state takes the first one's audio; the metadata scan of
  the plugin makes one.

## Fairness

`UadeChannel`: a thread holding the lock goes on (WF), and a woken thread gets
the lock in the end though others take it in between (SF). `EveryCallReturns`
assumes in its own statement that the deadline is kept: it is computed from a
monotonic clock and moved only by progress. `UadeSession`: both threads run and
emulated time passes (WF of `HostStep`, `CoreStep`), a wait does not outlast its
timeout (WF of `HostTimesOut`, `CoreTimesOut`), and a seek ends (SF of
`EventData`), since every block moves the position and the subsongs are finite.
`UadeReading`: a read in progress goes on and the core makes its block (WF of
`ReadStep`, `CoreBlock`). `UadeOutput`: emulation makes frames (WF of `Sample`),
since the frames depend on emulated time only, whatever the program does.
`UadeChips`: cycles pass, the CPU executes and looks at its flags (WF of
`do_cycles`, `OtherInstruction`, `Specials`). Nothing is assumed of the callers and of the
emulated program; `CallsReturn` itself assumes that a program that keeps running
starts its output, which `session_join` shows to be necessary, and `EndTold`
that the caller keeps reading.

## Proofs

`UadeChannelProofs` proves, for any number of threads and slots, any capacity,
payloads and bounds on counts that satisfy `ChannelAssumption` and
`GenerationAssumption`: `TypeCorrect`, `OnlyWrittenBytes`, `StaleIdsDead`,
`NoSlotLeak`, `WakeupsKept`. `NoAliasing` and `NoLostWakeup` are not inductive by
themselves. The inductive invariant `IInv` adds that the generation counts a
slot's channels (so that equal generations mean the same channel), that a call's
data agree with its progress (so that the bytes copied exist), and that readable
positions hold written bytes (so that a write at the tail leaves the rest
intact). Lemmas state what each helper preserves: a chunk written at the tail or
taken at the head, the broadcast, a released channel. Each action then preserves
`IInv`, conjunct by conjunct. `channel_calls` has one slot; that a stale id does
not resolve in another slot is a matter of these theorems.

`UadeChipsProofs` proves, for any clock ratio, byte, line and frame and any
number of accesses that satisfy the assumptions of the four modules:
`ClocksNeverDrift`, `AssertionsNeverFail`, `NoEventPassedOver` and
`InterruptsNeverLost`. The inductive invariant `IInv` ties the planned event to
the counts: it is planned no later than any timer that counts the clock runs
out, seen from the last update and with the rest of the division (`PlannedInTime`),
exactly the two rests are still to be given to the timers (`RestsKept`), and the
next event is no later than the planned one (`NextInTime`). That is what makes
the assertions hold at every update, at an event or at a write in between;
`TimersInvariant` states it. It needs that a single timer's
time fits an `int` (`CiaAssumption`), which holds for `unsigned long` counts of
16 bits and `DIV10`; the estimate for a chained timer needs no such assumption.
For `NoInterruptLost` the flags are followed through `INTENA`, `INTREQ`, the
status register and STOP. `OneTimeRead` proves `TodReadWhole`: the digits a
program has read so far since it latched are digits of one count (`ReadSoFar`),
because the latch keeps the count while the clock goes on. `RangesInvariant`
bounds the time to the next event by a line, which the channel below needs.

`UadePaulaProofs` proves, for any line, word, period and length: `WordsInOrder`,
`RingsAtEnd` and `TypeCorrect`. `update_audio()` applies the state machine once
per cycle, by a recursive function. The prover has no induction over data, so
the module derives it for sets of numbers from the order of the naturals being
well-founded, and shows that the function exists and that a set of channels that
one cycle does not leave is not left by any number of them. That set is given by
phases (`AInv`): DMA has begun with a buffer (`Opening`), its first word is to be
fetched (`Begun`), the word that is due is fetched (`Ready`) or not (`Awaited`).
Each phase says which word the pointer is at and how many are left, and the
interrupt is pending just while the last word of a buffer is due (`Ending`). The
proof showed that `TypeOK` and `InterruptAtEnd` need words of more than one value:
with `WordMod = 1` a length wraps to 0 at once. `PaulaAssumption` says so; the
code has 16 bits. `InterruptAssumption` says the chips' sources and masks are
those of INTREQ.

`UadeFifoProofs` proves, for any data and any sizes: `FifoIsQueue`, that
`fifo.c` implements `UadeQueue`, and `FifoStaysInSpace`, that the buffer is at
most eight times the peak of the contents, plus 14. For the latter the capacity
alone is not inductive. The strengthening is that the bytes already read are at
most 7, or at most three times the peak: a read that leaves more makes the
contents a quarter of the buffer or less, and then they are moved.

`UadeSessionProofs` proves, for any `Room`, any number of posts, and with or
without timeouts: `TypeCorrect`, `OneSideAtATime`, `StatesAreRespected`,
`NextSongStarts` and `AnswersUnderstood` (`HostUnderstands`, the host's half of
`MessagesUnderstood`). None of them is inductive. `IInv` is about what is on the
way: a message still in `todo` and one in the ring are the same to the reader, so
`ToCore` and `ToHost` join the two and a send leaves them as they are. `Wire`
says that messages go in one direction at a time, that the one that gives the
turn is the last one, and which protocol states the two sides can be in then;
`HostSide` and `CoreSide` what a call may still have to send; `Starts`, `Plays`
and `Stops` which messages can meet which call while a song is started, played
and stopped. `IInv` holds after failed sends, timeouts and exits of the core
too, so it is proved for `HostSendFails`, `CoreSendFails` and `Exits` like for
any action. `ReadyForNext` needs `Stops`: the one token behind the reboot is its
acknowledgement.

`UadeTurnsProofs` goes on from that invariant and proves, for any `Room` and any
number of posts, `NeverBothWait` (`NoMutualWait`), `CleanedUp` (`CleanAtEnd`) and,
when `FilterBetweenSongs` is FALSE, `EveryMessageUnderstood` (`MessagesUnderstood`;
with TRUE it is what the run `session_filter` shows to fail). `TInv` is `IInv` and,
as long as no wait timed out (`~late`), `InTime`. A core that ended closed its end
of the channel and left no request (`Ended`). While the core runs (`Calm`): between
songs it waits for the next one (`Rests`); when both sides wait, the turn or a file
is on the way (`Given`, `Answered`); a request for sound or a reboot is the last
command of the host's turn, and only `uade_stop()` reboots (`Commanded`); and
what is on the way to a core that loads is the rest of what it waits for (`Loads`).
`IInv` is not enough, since it also holds after timeouts, where both sides may well
wait and messages are taken for others. Without a timeout the host's sends and
receives fail only when the core ended, and a send of the core does not fail at
once (`CoreSendsAlways`); of all receives only the core's, between songs, can meet
something unexpected: the option of the filter (`OnlyFilterUnexpected`).

`UadeReadingProofs` proves, for any sizes, limits, subsongs and number of calls:
`TypeCorrect`, `PositionsAgree`, `EndIsLast` and `NothingLostOrTwice`
(`HeardExactly`, an action property). The invariant lists what can be on the way
to the host (nothing, a token, a block and a token, an end of song before them)
and relates the two positions in each case: the core is one block ahead while a
block is on the way, elsewhere they agree unless a seek or a change of subsong
waits for the host's turn. `due` is the first byte of the stash, or where the next
block begins that is not to be skipped.

`UadeOutputProofs` proves, for frames, blocks and buffers of any size: `TypeCorrect`,
`BuffersInBounds`, `EndsCut`, `StashKeepsOrder`, `FilterReachesCore`
(`FilterFollows`) and `OutputUsesQueues` (`FifosAreQueues`, the refinement, from
its initial states and steps). The frames collected, and those on the way, are a
run of numbers up to the one that is made next (`Frames`); what the caller is due
is the first byte of the stash, or of the block on the way or being made (`Stash`);
an end that was told lies in its block, at its tail (`Ends`); the last command in
the queue is what the caller wants (`Queue`). Room in the sound buffer comes from
`Burst`, and from a block being sent as soon as it is full. For the fifos it uses
what `UadeFifoProofs` found: the bytes already read are at most 7, or at most three
times the most that was held.

Only model-checked: all liveness and what fairness gives (out of the prover's
reach), and the refinement of `UadePipe`.

## Plan

Done: channel, messages and session, positions and seeks, queues, output,
timers, audio and interrupts, each with its proofs; instances. Next:

1. The channel implements `UadePipe` as a theorem (initial states and steps).
2. Byte-level messages, composing `UadeIpc` with `UadePipe`, for fragments left
   by a timed-out write.
3. `UadeInstances` with stops and cleanups.

## Not modelled

* The 68000 instructions (`generated/`) and their generator, the FPU, the compiler
  and memory banks: they compute what the emulated program does, which the
  modules leave open. They are two thirds of all lines, so the lines modelled
  are a small share of the implementation, though most of the code with state
  that two parties share is covered.
* Copper, blitter, disk, sprites and bitplanes of `custom.c`: `events_schedule()`
  never plans an event for them in this build, and nothing of them is heard.
* Clock chip, ports, keyboard and serial registers of the CIAs, reading of counts.
* Sample values, volume, filters and resampling in `audio.c`, and what a channel
  attached to another does to that one.
* The scope ring (audio.c:45-50, 800-827): the host reads it without a lock; only
  the drawing depends on it.
* `vparray.c`, which nothing calls.
* Format detection, song database except the silence test, RMC and bencode, effects,
  configuration and the debugger: pure functions or text without interleaving.
* Subsong numbers of 256 and more, which `uadecontrol.c:115` asserts away.
* Host API headers, other frontends, data and build files.
* Memory exhaustion in `malloc`, except for the fifos and a channel that
  may not be created.
