# A TLA+ verification of AlgoScore

AlgoScore is a graphical editor for algorithmic composition: a score of objects
that compute data, output busses that turn the data into sound, MIDI or OSC, and
a player on top of JACK. It is written in C (audio, bindings, the embedded Nasal
interpreter) and in Nasal (the score model and the user interface). This
directory holds TLA+ models of its concurrent parts (rendering, the players, the
interpreter's lock), of the score and the order of its updates, of the language it
is written in (lexer, compiler, virtual machine, containers, text) and of the files
it exports, the TLC configurations
that check them, and TLAPS proofs. All paths below are relative
to the repository.

## Inventory

| component | state it keeps | operations | interacts with | hard behaviour | what makes it correct |
|---|---|---|---|---|---|
| Background rendering: `classes/signalbus.nas`, `classes/cs.nas`, `ASObject.update`, `Score.update_all` (`lib/algoscore.nas`), `lib/outbus.nas` | per bus `thread_working`, `thread_cancel`, a lock, a semaphore, `pending_update`; per thread its time | update, update_all, cancel_all, generate, the thread's loop, the monitor | shared flags; semaphore; timer on the UI thread | cancel against the end of a thread, restart, errors at every step, delayed updates | one thread per bus; sources stable under a thread; cancel answered; no file shown as current that is not |
| MIDI player: `src/playbuslib.c`, `classes/midibus.nas` | event list and index per bus, `play_pos`, `playing` | locate, play, stop, clear/add/sort, process | `midi_lock` by trylock; JACK transport; `play_pos` without a lock | missed locks, full buffers, locate in the middle of a cycle | events in order, once, in their cycle; locate takes effect; progress |
| Audio player: `disk_thread`, `process`, `do_locate` | ring buffer, file position, `silence`, flags | fill, read, reset, reopen of a growing file | rwlock, condition, ring without a lock | reset against fill and read, underrun inside a frame | what is heard is the file from the position on, channel by channel |
| OSC player: `osc_thread`, `classes/oscbus.nas` | event list and index per bus, wake-up time, time of the last signal | timed wait, send, signal, add, sort, clear | `osc_lock`, condition | time-outs against signals, lists that change under a sleeping thread, half-made events | each event once, none early, none forgotten |
| Modification lock of Nasal: `src/nasal/gc.c`, `naCall` | `nThreads`, `waitCount`, `bottleneck`, semaphore | naModLock, naModUnlock, bottleneck, collection | every thread and callback | leaving against waiting, stray tokens, nested release | a collector is alone; nobody waits for ever |
| Score model: `lib/algoscore.nas`, and what `lib/score_ui.nas` calls of it | objects, connections, children, links, groups, what waits for an update, whether updates are held | create, destroy, edit, connect, disconnect, link, drag, align, hold, update, save and load | callbacks into every class | many lists changed together, order of updates, held and delayed updates, cycles | the lists agree; what is out of date has its red bar and the update button cures it; a saved score comes back |
| Send/Recv: `classes/sendrecv.nas` | tables by symbol | change_sym, cleanup | the score model | rename and delete in any order | each symbol finds its owner |
| Export: `export_midi`, `export_audio`, the scaling of `classes/midibus.nas` | file position, byte counts | write header, events, length; copy frames | `midi_lock` | rounding, variable-length numbers, the last chunk | a reader gets back each event at its tick, each frame once |
| Timers: `lib/interval.nas` | table of procs | add, enable, tick | UI thread | procs that change the table | every enabled proc runs |
| Nasal compiler: `lex.c`, `parse.c`, `codegen.c` | tokens, tree, code cells, loop table | lex, parse by precedence, generate | the lexer builds the parser's list; code for the VM | associativity, jump addresses known later, error positions | code means what its source means |
| Nasal VM: `code.c`, `call`, `die` of `lib.c` | contexts with stacks of operands, frames and marks; a pool of free ones | every operation; calls, errors | contexts of C callbacks | leaving loops, errors through contexts, limits | stacks balance; every context is in use or free; programs end |
| Nasal containers: `hash.c`, `vector.c` | record with cells and entries; array with room | get, set, delete, keys; append, pop, setsize | symbols of the VM | rebuilds, deleted cells | a map and a list |
| Nasal strings and numbers: `string.c`, text functions of `lib.c`, `utf8lib.c`, `bitslib.c` | none | conversions, substr, find, split, sprintf, characters, bit fields | the lexer | boundaries, empty strings, negative places | conversions undo each other |
| Library wrappers (GTK, cairo, unix, sqlite, io, regex), UI tools and dialogs, object classes, options and files | | | | | |

PROJECT.json lists the hazards found in each, at their lines.

## Modules

- **BackgroundRender** models the rendering of signal busses and Csound busses.
  The UI thread is one process with a program counter (`ui`): a handler
  cancels each bus in its scope (`CancelGenerate`, blocking in `SemDown`),
  regenerates the source object, and starts one thread per bus (`Publish`,
  `Generate`). A thread runs `Poll` (or `MoreToRender` on a Csound bus),
  `Compute`, `LoopEnd`, `ThreadDone`, `SemUp`. The timer runs `Monitor` between
  handlers. Errors of the source, of opening the file, of compiling the
  orchestra, of starting a thread and of rendering are bounded by `MaxFaults`.
- **RenderService** is what that promises: a bus is idle, rendering or done, the
  sources change only when no bus they feed is being rendered. BackgroundRender implements
  it under the mapping in its `ImplementsService`.
- **Playback** models playing one MIDI bus: the UI thread in `do_locate`,
  `generate`, `export_midi` and the buttons; `process` step by step
  (`TakeLock`/`MissLock`, `SendEvent`, `MidiDone`, `LoadPos`, `StorePos`,
  `EndCycle`); and JACK's transport, an external actor that rolls and holds.
- **AudioStream** models one audio bus: the disk thread (`Top`, `Bus`, `Frame`,
  `Write`, `Filled`), the audio part of `process` (`StartCycle`, `ReadFrame`,
  `EndCycle`, and `AdvancePos`, which stops playing at the end mark), the play button and
  `do_locate` (`SetEnd`, `Play`, `Locate`, `Reset`), the rendering thread that lengthens
  the file (`Render`), and JACK's transport, which any client may start and stop.
- **ModLock** models the lock and the bottleneck of the interpreter for a set of
  threads; each critical section of the giant lock is one action, except for the
  collection, so that what runs beside it is visible.
- **OscOut** models the OSC player: the thread's wait (`Timeout`, `Wake`), one
  round of its loop under `osc_lock` (`Serve`, `ServeNothing`, `Crash`), and what
  the UI thread does: make and remove busses, `Clear`, `Add`, `AddBad`, `Sort`,
  `Locate`, `Seek`, `Play`, `SetPlaying`, `Signal`. `Tick` is time.
- **Score** models the score as one record and its methods as operators on it
  (`Connect`, `Disconnect`, `AddLink`, `DestroyObject`, `Update`, `UpdateAll`, `Unhold`,
  `Dump`, `Replay`); an action is one thing the user does, with the method calls it
  leads to (`DragEnd`, `AlignEnd`).
- **NasalScalar**, **NasalParse**, **NasalCodegen**, **NasalVM** model the compiler
  and the machine. The first three are functions: `ParseCode` makes the tree of
  a program, `CodeGen` its code, cell by cell. NasalVM runs the code: one action
  per operation. A context is a record with its operands, frames and marks;
  `call()` enters another one, an error leaves one per step (`Rethrow`).
- **NasalShape** says what the machine takes for granted of its code, as a bytecode verifier
  would: for every address that is reached, the types of the operands the function has on the
  stack and the heights of its marks. MCNasal computes them for the code of each program.
- **NasalMeaning** is the specification of the four: an abstract syntax, the words
  it is written with and the value it has, without tokens, code or stacks.
- **NasalHash** and **NasalVector** model the records of a hash and of a vector with
  one action per operation, **Containers** the two with `keys()`, **Collections**
  what they promise: a map and a list. Containers implements it.
- **NasalNumbers**, **NasalText**, **NasalBytes**, **NasalLex** and **Export** hold
  what is computed without state: numbers to strings and back; substr, find,
  split, cmp, sprintf; UTF-8 and bit fields; from source to tokens; MIDI and
  audio files. Each ends with what its operators are to do, as a reference.
- **Library** puts these together: Nasal code that operates on its containers, or
  calls one of the functions, whose arguments and result are in `call`.
- **MCBackgroundRender**, **MCPlayback**, **MCOscOut**, **MCScore**, **MCNasal**, **MCLibrary** give
  values to the constants; **BackgroundRenderProofs**, **PlaybackProofs**,
  **AudioStreamProofs**, **OscOutProofs**, **ModLockProofs**, **NasalVMProofs**, **ContainersProofs** and
  **ScoreProofs** hold the theorems.

### Modelling decisions

*BackgroundRender.* A critical section of `thread_lock` is one action; the one that
can be left with the lock held, when opening the file fails in `SigBus.generate`,
records it in `locked`. One source feeds all busses; its own `delay_update` is
not modelled. `fresh` and `clean` are history: the file of a bus is a whole
rendering of the current data, and the data a thread reads has not changed. A bus
has at most one live thread (proved), so as many threads as busses suffice. The
modification lock of Nasal, which makes each Nasal statement atomic only up to
the next check, is left to ModLock. The initial state is that of a loaded score.

*Playback.* `midi_lock` is taken by what the UI thread does in one action each;
`MissLock` is the cycle that comes at that moment. `play_pos` is written without
a lock, so the increment in `process` is a load and a store. `generate` may fail
anywhere between `clear_events` and `sort_events` (`GenerateFails`; `update_now` catches
the error): then the list stays half filled and in the order it was filled in, and the
player goes on with it. `whole` says that the last `generate` got to its end. `qsort` may put
events of one time in any order. Positions are counted up to `MaxPos`; a cycle
that `process` skips because `can_process` is 0 is a cycle that does not happen.
`whole`, `sent`, `from`, `first`, `dirty`, `late`, `ran`, `torn` are history; they are
cleared when they say nothing more, as are the registers of `process`.

*AudioStream.* The ring buffer is JACK's: one thread appends a sample, one takes a
frame. JACK says that a reset is not safe beside them; a `Reset` that finds a thread
in the ring leaves any number of stale samples from `Leftovers`. At the end mark
`process` itself clears `playing`, until its next cycle asks JACK again; the disk thread,
which it has woken just before, may see either, and fills the ring with what it last
read. `play_pos` is written there and by `do_locate` without a lock: a locate may be
overwritten at once. It is counted up to `MaxPos`. A sample is its frame and
channel. The sample rate divisor, the amplitude, a change of file or ports during
playback are not modelled. `heard` and `clean` are history.

*ModLock.* The unlocked read of `bottleneck` is the guard of `Check`. `spent` and
`full` stand for the allocators and the list of dead blocks; what a collection
marks and sweeps is not modelled. `Printers` are the threads that may be in
`f_dump_messages`. The semaphore is counted up to `MaxTokens`, no less than the
number of threads: more tokens than threads only wake a thread that looks and
waits again.

*OscOut.* What a thread does while it holds `osc_lock` is one action. The clocks are
kept as differences (`elapsed` since the last signal, `left` until the wakeup) and
counted only in the states where the thread will look at them. `raced` says that
the thread has run between the change of the position and the signal, or timed out
before the signal came, which is then lost: that is where the code lets an event
come early. `dirty` says that a list has been rebuilt since the last locate: a
sleeping thread does not notice its events. A bus that never had an event has no
list, and playing it makes the thread read address 0 (`Crash`). `from`, `ran`,
`sent` and `early` are history. The address of a bus is left out.

*Score.* The data of an object are `stale` when they are older than a change of
something they depend on; the code does not store this, it is history. A connection
is a source, an inlet and a destination: which outlet it comes from is left out, and
replacing it by one from another outlet is the same connection and an update. Link
times, positions, unused regions and drawing are left out; a drag or an alignment
is its end, where all calls are made that change the tables. Whether a drag has shifted its group,
and which members the loop at its end tells (`lib/score_ui.nas:1474-1480`), are inputs of `Drag`:
the test is made anew for each member, before its own turn, so a group whose earliest member is pushed below
zero and set back ends where it began with the first members told. The one key that acts in the middle
of a drag is Delete (`Destroy`); an update there, by `u` or a button, of objects that afterwards move back is left
out. `keys()` gives numbers in some order;
the model takes them ascending. `Reopen` saves and loads at once: opening an older file
leads to the state it led to then, as only `hold` outlives it. Cycles are made only
where the walks of an update still end, and no part of one is dragged, which would walk it
round for ever; so `Walks`, which goes as deep as there are objects, is the walk of the code. Not modelled are ghosts of objects (experimental,
`doc/commands.t2t:74`: the update of a ghost is a no-op, so that moving one leaves what
depends on it as it was, and a ghost whose original is destroyed is saved as
an object that names a missing one), global variables as sources, inlets that a class adds
or deletes, and the generate of busses, which is in BackgroundRender.

`Practice` says what the users of an instance do. The run `score` leaves out the eight practices
after which data are out of date without a red bar, or a file does not restore the score:

| practice | where the code goes wrong |
|---|---|
| single update | the key `u` on an object whose source still waits clears its bar although it has computed from old data |
| inner delay | an object with `delay_update` waits, those that depend on it are updated from its old data at once, and not again when it is (`lib/algoscore.nas:1256-1278`, `285-300`) |
| failing | `update` returns at the first object that fails; those after it in the tree are neither updated nor marked (`lib/algoscore.nas:1271-1274`) |
| align groups | the loop over the group calls `me.obj.move_done` for each member, so only the aligned object is updated (`lib/score_ui.nas:1593`) |
| bus groups | a group dragged by an output bus moves, but whether it did is asked of the bus (`lib/score_ui.nas:1480`) |
| delete moved | Delete in the middle of a drag destroys the object held, which splits its group, before the end of the drag goes over what the group then is: the others stay where they were moved to and are not told (`lib/score_ui.nas:1756-1760`, `1413-1427`) |
| negative start | nothing keeps a property or a resize from setting a start below zero. A drag straight up or down sets such a group back to zero, and members before the dragged one in the hash are shifted but not told, because its own start has not changed yet (`lib/score_ui.nas:1474-1480`) |
| cycles | the finding of `score_cycles` |

*The compiler and the VM.* A program is a sequence of words in NasalParse; from
characters to words is NasalLex, on other inputs. Numbers are small integers, the
text of an error is its kind, hashes are functions, memory is not collected. The
limits of the stacks are those of the code, made small. MCNasal lists the programs
as abstract syntax; NasalMeaning writes their words and evaluates them. The
programs whose code is known to go wrong are left out: a default argument that is
a function (`setupArgs` binds it to what lies under the frame that calls, `code.c:266-271`,
and a call by name does not bind it, `code.c:292-296`), a parameter named
twice, `break` outside of a loop or in a loop's test (it jumps to 0xffff,
`codegen.c:495`), `(a, b) = f(x)` and `!-x` (syntax errors), code with more than
65535 cells or calls with more than 31 arguments (the fields are not checked), and a function with more
than `MAX_MARK_DEPTH` loops inside each other: `startLoop` (`codegen.c:285-294`) writes behind its table, over
`loopTop` and `consts` (`parse.h:109-117`), and what the compiler does then is anyone's guess. `CodeGen`
gives `<<"overrun">>` for it, as `LoopsAssumption` of MCNasal shows, and no such program is run. The keys of a call by name are names,
never string literals, which `checkNamedArgs` would not find (`hash.c:252-267` compares pointers). Left out as well
is `call` itself under `call()`, and a vector set to a negative size is taken as empty.

*Hashes and vectors.* Cells hold an entry, nothing, or a deleted one; the walk over
them has a start and an odd step from the hash code, which is any function of the
key here. Keys are strings, interned or not, and numbers. One operation is one
action: beside each other, threads are kept apart by the modification lock (ModLock).
A container is created when none exists, and the calls of Library are made
when there is none: each is of interest alone.

*Text and numbers.* A string is a sequence of bytes. A double is a decimal with
`DIGITS` digits; which digits `rawprint` makes of one, and what rounds on the way
back, is left out. sprintf is modelled up to the pieces it puts together, for
arguments that are numbers. In NasalLex a program begins at line 1, as for both
callers of the parser. The quirks below are in the operators, and the references
except them by name: `BareSignOrPoint` (1e+ is taken as a number), `NumberLost` (a
number literal before a string literal disappears), a string that is closed by the
end of the source, and `Reversed` (`setfld` writes the lowest bit first, `fld` reads
it as the highest).

*Export.* An event is its time in frames and the bytes of its message. A tick lasts a whole number
of frames, the division of `export_midi` without its rounding of doubles; only the track is written, without the header.
A frame of an audio file is its number, and how often it was normalised. What
follows the last frame, when the last chunk is short, is what the buffer held; the
property is about the frames before. The pitch wheel's upper end, which wraps
to the lower one, is excepted in `PitchMeant`.

## Runs

| run | instance | result |
|---|---|---|
| `render_safety` | a signal and a delayed Csound bus, two threads, two steps of the loop, every kind of failure | one thread per bus, no stale token, stable sources, implements RenderService |
| `render_live` | one signal bus, three steps, up to two rendering errors, updates not delayed | cancel is answered, a rendering ends, a bus without pending update has a current file |
| `render_hang` | one bus, no failure | violated: a cancel after the thread's last look blocks the UI for ever |
| `playback` | lists of three events and of one, a port with room for one event per cycle, two positions | order, completeness, timeliness, offsets, effect of locate, progress |
| `audio` | stereo, a ring of two frames, an end mark at once or never, a file that grows to two frames | what is heard is the file from the position on, channel by channel; the ring has room for what is written; sound comes |
| `modlock` | three threads, one of which prints | exact counters, a lone collector unless a thread prints, a wanted collection takes place |
| `modlock_print` | two threads, one of which prints | violated: a collection runs beside Nasal code |
| `osc` | two busses, a list added out of order, two positions, one spurious wakeup | no event early unless a locate and a time-out cross, none twice, no sleep past an event, lists played to their end |
| `score` | three objects, output busses or others, two inlets used of the last one; links between what are no busses, and delays where nothing depends | the tables agree, what is out of date is shown, the update button cures it, a saved score comes back |
| `score_cycles` | the same, with connections in a circle | violated: the objects of a circle are not saved |
| `nasal` | some 620 programs | each comes to what it means, ends, keeps its stacks and contexts |
| `library` | hashes with three names and colliding codes, vectors of five, and the arguments described below | containers are maps and lists; conversions of numbers, text, sources, UTF-8, bit fields and files undo what they did |

What the runs that expect a violation show are the findings in PROJECT.json. A second
way into the hang of `render_hang` is an error in the thread: its token
answers the first cancel, and `thread_working` stays 1, so that a second one without
a generate between them (the Stop button twice) waits for a thread that is gone.

Beside the runs there are nine configurations, each of which TLC finds violated in
seconds:

| configuration | module | what TLC finds |
|---|---|---|
| `render_lost_queue.cfg` | MCBackgroundRender | the monitor forgets an update queued while it cancels (`PendingShown`) |
| `playback_stops.cfg` | MCPlayback | the position timer stops playing before JACK rolls (`StopsOnlyAtEnd`) |
| `score_single.cfg`, `score_inner.cfg`, `score_failing.cfg`, `score_align.cfg`, `score_bus.cfg`, `score_delete.cfg`, `score_negative.cfg` | MCScore | the first seven practices of the table above (`NeedsShown`) |

Deadlock is not an error in the runs of BackgroundRender, because the UI really
hangs there, in those of Playback and AudioStream, because playing is up to the user, in
that of OscOut, because the program may crash there, and in that of Library, where a
call is the last step; in ModLock, Score and NasalVM it is checked.

`PendingShown` is checked in `render_live` with rendering errors only: a queued
update (`render_lost_queue.cfg`), an error in a source (`ASObject.update` returns at
the first one, `lib/algoscore.nas:1271`) and a failed compilation (`CSBus.generate`
returns nil, `classes/cs.nas:592`) each break it.

**Bounds.** The loop of a thread needs a step before, at and after the cancel:
three. Two busses are what one handler has to treat in turn; a third adds
no new pair. In Playback one event per cycle with two events at one time fills
the buffer; one list, added out of order, has events before and after the locate position 2,
the other its only event at the end mark, which is the first frame of a cycle; cycles of
two frames have an event inside and one at the boundary. In AudioStream a ring of two frames lets
writer and reader be inside different frames; an unsafe reset leaves a frame or a part of one;
the end mark is at 0, where each cycle stops playing, or beyond `MaxPos`, where none does; the file
is reopened twice on its way to two frames. In ModLock the third thread is the
one that enters, leaves or steals a token while one collects and one waits. In OscOut
two busses give the thread two next events to choose from, two positions a locate
forward and back, times up to 2 an event before, at and after the clock. In Score three
objects make a chain, a fork, a join, two connections between the same two, and groups that
fall apart when their middle goes; numbers are used again after a removal. The
programs of `nasal` are every pair of operators in both groupings, every loop inside
every other left in every way, every kind of parameter, and the limits of each stack; a
limit of 7 calls is reached by recursion, one of 5 marks filled by the loops of one
function and broken by a function that calls itself inside two loops. In
`library` the hash codes have 4 bits and either all collide or differ in start and
step, five elements let a vector grow twice and shrink once; numbers of three digits meet every
layout; strings of up to four bytes hold a delimiter, a specifier or an escape
with something before and behind it; the characters are those on both sides of
each border of UTF-8; a chunk of three frames meets sounds of up to seven.

**Fairness.** BackgroundRender: threads and timer go on (the scheduler), the user
owes nothing. Playback: JACK calls `process` for ever (WF) and its transport, asked
to roll again and again between cycles, rolls (SF); nothing is assumed of the user
or of how long a handler takes. AudioStream: JACK calls `process`, the disk thread goes on
when it has been woken (WF), the transport owes nothing. ModLock: a thread goes on inside the lock's
functions (WF), and code that runs reaches a loop, an allocation or a release
(SF, because straight-line code may pass through `naGC_swapfree` in between).
OscOut: the thread and a handler that has begun go on, and time passes (WF); the
user owes nothing, and no signal is sent again. NasalVM: the machine goes on (WF).

## Proofs

`BackgroundRenderProofs` proves, for every set of busses and threads, every loop
length and every bound on failures:

- `HandshakeCorrect`: the inductive invariant `HandshakeInv` holds. It says for every bus
  how `thread_working`, `thread_cancel`, `thread_sem`, the position of the thread
  and the place of the UI thread fit together; none of the properties below is
  inductive alone, because whether a thread may be started depends on what the last
  cancel found.
- `RenderTypeCorrect`, `AtMostOneThread`, `TokensAreFresh`, `SourcesAreStable` follow from it.
- `RenderImplementsService`: the initial states map to initial states, and each
  step to a step of RenderService or to a stutter.
- `PendingIsShown`: what a bus has still to do is shown (`PendingShown`), where no update
  is ever put off (`NothingQueued`) and only running threads fail (`OnlyRenderFails`): with
  an update that is queued, or with a fault of the source, the opening of the file, the
  compiler or the start of the thread, TLC finds a counterexample. `PendInv` says where
  the mark comes from: a bus whose file is not fresh is marked, or has a live thread or a
  handler that will mark it or start one, or a rendering that has just been thrown away.

`PlaybackProofs` proves, for every set of lists and positions, every cycle length and
every buffer:

- `TypeCorrect`: the type invariant.
- `PlaysInOrder`: what has been sent is the list from one event on, without gap or
  repetition, also when an error has ended `generate` early. That the events come in the
  order of time, and that the first is the first one at the position, is promised of a
  list that `generate` has filled and sorted to its end (`whole`), and the same holds for
  `NothingLeftBehind` and the order in `OffsetsRise`: after an error the order is that of
  the connections, and JACK refuses what comes out of order. The invariant `IInv` adds
  what the search in a locate relies on: a whole list is sorted (`ListOK`), inside
  `generate` nothing sent counts any more (`dirty`), and `process` never runs past the end
  of a list that has not been changed (`PassOK`). `SeekFinds` says what the search returns
  in any list, `SeekFindsAll` in a sorted one.
- `LocateIsKept`: the play position is the one asked for and what has been played since
  (`LocateTakesEffect`). `PosOK` says it of every place in a cycle, and that the
  register of `process` holds that position between load and store.
- `NothingLeftBehind`: between two cycles everything before the play position has been
  sent (`OnTime`). `TimeOK` follows what is still to be sent through the cycle: it lies
  at or after the position that this cycle will leave behind. A locate establishes it
  from `PosOK` and `SeekFinds`, the end of `process`'s loop from the order of the list.
- `OffsetsRise`: JACK gets the events of a cycle in order of their offset and inside the
  cycle (`OffsetsInOrder`), since none still to be sent comes before the last one (`OffsetOK`).

`AudioStreamProofs` proves, for every number of channels, ring and length:

- `StreamTypeCorrect`: the type invariant, with a ring that never overflows.
- `RoomForEverySample`: `disk_thread` finds room for every sample (`NoSampleDropped`). The
  invariant `Fits` adds up what is in the ring, the whole frames still to come and the
  rest of the one being written; `WholeFrames` is the division in between.
- `FileIsPlayed`: what `process` takes from the ring is the file from the position asked for, or
  silence (`PlaysTheFile`), also when the ring has run empty in between. `clean` says what
  is excepted, until the next locate: a frame of which only a part was in the ring; playing
  was ended, by JACK or at the end mark; the reset found `process` taking a frame, or the
  disk thread beyond its look at `locate_was_set`. What is heard of an empty ring is
  whatever `readbuf` held, and nothing is said of it. The invariant `StreamOK` says what is in the ring at any time:
  silence, then the samples of consecutive frames from the expected one on, then silence;
  and it follows `disk_thread` through its chunk and `process` through its cycle. TLC
  has checked it on the constants of the run `audio`, 1,417,978 states.

`OscOutProofs` proves, for every set of busses, lists and positions and every bound
on time:

- `OscTypeCorrect`: the type invariant, with the clocks in their bounds.
- `OscNeverOversleeps`: the thread has a wakeup no later than the next event of each
  bus. Its invariant `IInv` says more: `SleepOK` relates wakeup, clock and next event
  also while a handler is between its steps and has still to signal, `LateOK` what
  the clocks are after a time-out, `AddOK` which lists a generate may be changing.
- `OscNotEarly`: no event is sent before its time (`NotEarly`), because the thread has
  never counted longer than the score has played since the signal (`ClockOK`).
- `OscSentOnce`: from a locate on each event is sent once (`SentOnce`). `SentOK` adds that
  none before that position is still to come.

`ModLockProofs` proves, for any finite set of threads and any bound on tokens:

- `LockTypeCorrect`: the type invariant.
- `CountersCount`: `nThreads` and `waitCount` are exact (`CountersExact`). `StepCounts`
  says what a step of one thread does to the sets that they count.
- `CollectorIsAlone`: who collects is the only thread that can run Nasal code, unless one prints
  (`CollectsAloneUnlessPrinting`). The invariant `CollectorOK`: for as long as somebody
  collects, `nThreads` is at most `waitCount` + 1, as nobody can be counted meanwhile.

`NasalVMProofs` proves of the Nasal machine, for any programs and any limits:

- `ContextsNeitherLostNorFreedTwice`: every context is in use once or free once
  (`ContextsPartition`), whatever code the programs compile to.
- `AlwaysAtAnOperation`: the running frame is at an operation, never at the argument of one or
  past the end of its code (`AtAnOperation`).
- `StacksAlwaysBalance`: a function returns with a value of its own, and at its end with one
  only; no mark outlives the program; a break finds a mark of its own function (`StacksBalance`).
- `StacksStayInTheirArrays`: each operand refers to an object there is, and the three stacks of every
  context stay in their arrays (`TypeOK`).

For the first, the invariant `PoolInv` says where contexts are: those in use are one chain, each the child
of the one before it, that the running one is part of, and the free ones are linked to
none. `FreeTail`: `naFreeContext` takes the end of the chain to the free list; `TakeNew`,
`LinkChild`: `naSubContext` puts a new one behind the one that runs. `LineageIsPath` is the
induction for the walk down the children.

The other three are about what `run()` relies on and does not check: it pops operands
without looking whether the stack has any, takes each cell for an operation and the operand of a
loop for an index. They hold of code that is verified, so they rest on the assumption
`CodeIsVerified` of NasalShape about the constants: each code has a table (`Shape`) of the
operand types and mark heights at its addresses, every operation finds there what it takes
(`Ready`) and leads to addresses whose entries fit what it leaves (`After`, `Fits`). TLC evaluates it in the run
`nasal` for the code `CodeGen` makes of all its programs, with the table computed by walking along
the code (`ShapeOf`): that is what connects the theorems to the compiler, which is itself out of
the prover's reach. The assumption speaks of one function at a time and of no run; the theorems
add everything that happens between functions and contexts.

Their invariant is `VMInv`. While a program runs (`Well`), all values are among a set `V` whose members refer to
objects there are (`Sound`, `World`), and every context that is in use has a list of frames each of
which owns a part of the operand stack and of the marks, in the shape its code has at
its instruction pointer (`Framed`): parts lie on top of one another, every frame but the
last waits for one value above its part, and so does every context that is inside of `call()`
(`WaitsAs`), while the last frame of the one that runs has all that is left
(`RunsAs`). Why it must say so much: `OP_RETURN` cuts the caller's stack at a
height noted when the call was made, `OP_BREAK` at one that a mark noted, and `f_call` at
`opFrame`, so what runs after them is balanced only if nothing between touched what was under. `StackGoes`,
`FrameGoes` and `Lands` carry a frame from one shape to the next; `StraightWell`, `JumpsLead`, `MarksWell` and
`CallerWaits` do so for the kinds of operations, and each action has its own lemma
(`CatWell` ... `RethrowWell`). `LibraryIn` says that what the library functions return, and what they make of
vectors and hashes, is of the values there are; `GetMemberIn` and `ScopesIn` are
inductions over the depth of parents and closures. `AlikeBodies` and `StillWaits`: freeing contexts and
making objects leaves the waiting ones as they were.

`ContainersProofs` proves, for any keys, any hash codes of any width, any values and sizes:

- `TableStaysOK`: the record of a hash stays well formed (`TableOK`). The invariant `HInv`
  adds what the probing relies on: the table has 2^n cells of which one is empty, and on the
  walk of a name to its cell there is no empty cell (`Good`). An odd step leads to all
  cells of such a table, so every walk ends; rebuilding the table enters the names
  again, by induction over its cells.
- `HashIsMap`: each operation is the one of the map of Collections.
- `VectorIsList`: the record of a vector implements the list of Collections (`RecOK`: the
  array has the room that `alloced` says, and `size` elements of it are in use).
- `RecordsStayOK`: the records of hash and vector are well formed under the operations of
  both (`RecordsOK`).
- `ContainersImplement`: with `keys()`, which makes a vector of a hash, they implement
  Collections. `CInv` is the two invariants together.
- `ExportsAreMeant`: exported files hold what was exported (`ExportsOK`), for any events, bends,
  sounds and sizes of the chunks. `Read7`: the groups of seven bits that `put_var_value` writes give the
  value back to a reader that stops at the first byte below 128. `ReadsMessage`: a reader at the end of one message finds
  the next with its ticks; `TrackKeeps`: what has been written stays and is counted. By induction
  over the messages the reader finds, behind the tempo, each event at its tick (the ticks of the differences
  add up, since each is a difference of rounded ticks), the end and nothing behind it.
  `ChunksWritten`, `AudioCopied`: place `a * CHUNK + i` of a sound file is place i of the buffer after chunk a + 1.

What is said of hashes has the hypothesis `NoEmptyKey`: the empty string is not a key, or no number is. `equal`
takes the empty string for any number (so does the code), and two keys that are equal to a
third but not to each other have no place in a map. It is true in the run `library`.
What is said of files rests on `LibraryAssumption`: events come in the order of their times, as
`sort_events` leaves them at the end of `MidiBus.generate`, each message has the length of its status
byte, as the notes, controllers and bends made there have, and ticks are below 2^28, the most that four
bytes hold. A list that an error in `generate` has left unsorted is outside it. A message from the `raw` inlet that is not whole makes a file no reader could follow, and is left out.

`ScoreProofs` proves `TablesStayAgreed`, for any number of objects and inlets and users of
any practice: the tables of the score that are kept by hand beside one another agree
(`TablesAgree`). The invariant `Inv` speaks of any score and not only of the variable, since
a method is called on scores that no handler leaves behind, half destroyed or half loaded. It
adds that connections are finitely many, that every flag is one of an object, that
an absent object has no links, and it says what groups are as an equation: the table of
groups is that of the hulls of the ties (`GroupsOf`, `Ties`). `AddGroupHulls`: `add_group` turns
the hulls of a relation into those of the relation with one more tie. `RebuildHulls`: what
`rebuild_groups` makes of the members of one group are the hulls of the ties that are left,
because no tie leads out of a group. Each method is shown to change no more than flags (`Quiet`),
connections with children (`Rewired`) or links with groups (`Retied`); `RunLineInv` and `ReplayInv`
follow the run of a file line by line, also one that ends in an error. That the lists the updates go
along hold objects only, each once, is `TreesStay`, by induction on the depth of a walk. A fold of the
community modules chooses a function defined by itself on smaller sets; `FoldExists`
proves that there is one, and one lemma for each fold of the score says that what a step
keeps holds in the end.

It proves more where the users leave some practices alone:

- `NothingWaitsUnasked`: without circles and without errors left in scripts (`Orderly`), nothing
  waits while updates are automatic but what has a `delay_update` of its own (`AutomaticMeansDone`).
- `NeedsAreShown`: if besides nothing that others depend on is delayed, no single object is updated
  whose sources wait, no member of a group is aligned, deleted in the middle of its drag or before
  zero when it is dragged, and no output bus linked (`Careful`), what is
  out of date has the red bar (`NeedsShown`).
- `ButtonSuffices`: for the same users the update button brings everything up to date
  (`UpdateButtonSuffices`).
- `FilesRestore`: without circles (whatever else the users do, also with errors left in scripts)
  the file of the score runs without an error and makes the score again (`SaveRestores`): each object
  with its connections, links and `delay_update`, a bus or not, under a number that no other has.

The invariant of the first three is made of `Punctual`, `Visible` and `Aside`, which says that no
link leads to a bus. The first two rest on the order of the trees: without circles the objects can be ranked along the
connections (`RankExists`), so that a walk of the code lists each object before all that depends
on it and reaches all of them (`TreeOrders`, `CoveredFacts`). An update along such an order
generates each object from data that are no longer stale (`UpdateFlags`, `UpdateAllFlags`), and
what a change makes stale is inside what the update after it covers (`OnwardLeast`). Every method
that is called while updates are held marks all that follows (`GroupMoveDoneAsks`, for the drag),
and letting go updates what is marked, unless it is delayed (`UnholdSound`). For files, `Restarts`
says that data go from the objects made first to those made later, so that no circle comes up on
the way, and that delays and busses return to where they were, under the new numbers that loading
gives.

`FilesRestore` has the invariant `Inv` with `Acyclic`. `Copies` follows the file while its lines are
run: which objects have been made, under which numbers, and which connections. A line names the
sources of its object, and the order of the tree is what shows that earlier lines have made them
(`LinesCopy`). `Linked` follows the links at the end of the file; `add_link` turns a link round that
is there already, so it matters that no two objects are linked both ways. That opening a file keeps
`Acyclic` (`ReopenAcyclic`) follows from what is proved of the file itself.

The type invariants of these modules and `HandshakeInv` are proved and not checked
by a run again, but for those the runs name. Where a run checks what is
proved, it shows that the instance is not vacuous: a mutant of the code breaks it.

They rest on `RenderAssumption`, `PlaybackAssumption`, `StreamAssumption`, `OscAssumption`,
`ModLockAssumption`, `BoundsAssumption`, `CodeIsVerified`, `HashAssumption`, `VectorAssumption`, `ContainersAssumption`,
`ExportAssumption`, `LibraryAssumption` and
`ScoreAssumption`, on the hypotheses named above, and on nothing else. Liveness (`CancelAnswered`, `RenderingEnds`,
`NextIsSentBounded`, `SoundComes`, `BottleneckOpens`, `AllSentInTheEnd`, `Terminates`) is out of
the prover's reach and is model-checked only. So is everything about the compiler, whose operators
are recursive, and about numbers, text, UTF-8 and bit fields (`NumbersOK`, `TextOK`, `BytesOK`). Induction is had where it is over a
particular set of numbers (`NatInd`) and the recursion is over numbers; the library's induction rules,
which take the statement as a parameter, cannot be used. That the
code the compiler makes is verified is checked by TLC for the programs of `nasal` and not proved for all,
and that it means what its source means (`ResultAsMeant`) stays with TLC too.

## Not modelled

- Send and Recv (`classes/sendrecv.nas`), which the score reaches through callbacks: tables by symbol,
  where the faults known are in the hazards. Ghosts and global variables of the score, marks,
  object classes and options: bookkeeping by one handler at a time on the UI thread.
- What the UI does to audio busses while the disk thread runs (`set_file`,
  `setup_ports`, removal), sample rate divisors, amplitudes.
- Marking and sweeping in the collector, and with it the life of ghosts.
- In the VM: `naContinue`, elements of strings, lines of traces, and the code
  listed under the modelling decisions. In the library: `sort` (its comparison is a call
  back into Nasal while it holds a pointer into the vector), `int`, `chr`, `rand`
  and other functions of one line.
- The wrappers of GTK, cairo, libsndfile, SQLite, PCRE and POSIX, drawing, tools and
  dialogs, macOS integration, vendored code and build scripts: no state of the kinds
  above.
