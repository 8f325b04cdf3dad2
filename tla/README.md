# winbox.js in TLA+

winbox.js runs Windows 3.x programs: a 16-bit x86 core (`crates/winbox-cpu`),
the machine's memory and files (`crates/winbox-machine`), and KERNEL, USER, GDI
and the other libraries of Windows implemented natively
(`crates/winbox-win16`). Several programs run beside one another as Windows' own
did, co-operatively: one task has the processor until it gives it up. This
directory holds TLA+ specifications of that part, what TLC checks of them, and
proofs that TLAPS checks. Paths below are relative to
`crates/winbox-win16/src/` where they name no directory.

## The system

### How it runs

The engine (`engine.rs`) holds a table of slots, one for each task ever made.
A slot's program is a Rust future: it runs the task's instructions and, where
an instruction calls Windows, the handler of that call, which is asynchronous.
A handler that must wait -- for a message, an answer, its turn -- awaits a
point at which the task may lose the processor. `round` polls the future of the
task that has it. Nothing pre-empts a task, so between two such points a
handler is atomic; between them everything may change: other tasks post, send,
end and launch, and the host puts in keys, the mouse, time and new programs.

This is where the difficulty lies. The calls nest (a message sent is answered
by a window procedure that may send, wait, reply early, or end its task); what
was decided before an await is used after it; and a task that nothing wakes is
lost without a sign.

### Components

| Component | State | Operations | Hard to get right |
|---|---|---|---|
| Scheduler (`scheduler.rs`, `engine.rs`) | slots; `current`; `waiting`, the line; each slot's `wait`; `locked`; wait timers | signal, release, grant, end, round | a task in the line twice, or nowhere; the processor nobody's with a task in line |
| Task calls (`tasks.rs`) | the above; each slot's `sent` | Yield, DirectedYield, WinExec, LockCurrentTask, exit, TerminateApp | who goes next; ends in the middle of calls |
| Messages sent (`tasks.rs`, `reply_message.rs`) | `sent`, what is being handled, answers | SendMessage across tasks, the procedure's return, ReplyMessage | nesting, answers given twice or never, circles of senders |
| Looks (`queue.rs`) | queue flags, the quit message | GetMessage, PeekMessage, WaitMessage | state read before a hook and used after it; the order of the sources |
| Ring of posted messages (`queue.rs`) | places of eight (by default), `ring_read` | PostMessage, a filtered read, SetMessageQueue | places after a read out of the middle; a full ring; coalescing |
| System queue (`system_queue.rs`) | input events, whose look holds the input, marks | host input, the read, its hooks | the queue changing under a hook; a look turned away and never woken |
| Hot keys, task list (`task_list.rs`) | the list's window | Ctrl+Esc, Alt+Tab | posting to the very task whose look is under way |
| Hooks (`hooks.rs`) | chains | set, unhook, call | removal while a hook runs |
| Timers (`timer.rs`), the clock (`winbox-machine/clock.rs`) | timers by time due | SetTimer, KillTimer, a look's read, multimedia timers | starvation among timers due together |
| Paint (`raster_input.rs`, `paint.rs`) | a region for each window | invalidate, BeginPaint, the wake | waking who has something to paint, once |
| KERNEL's list of tasks, events (`task_order.rs`, `kernel_calls/tasks.rs`) | priorities, event counts | SetPriority, PostEvent, WaitEvent | byte arithmetic; a list of waiters that outlives the wait |
| DDEML (`ddeml/`) | instances, conversations, transactions | connect, request, poke, advise, abandon | late answers, transactions over ended partners |
| OLE (`olecli/`, `olesvr/`) | objects, documents | launches, requests | requests over asynchronous conversations |
| Heaps, atoms, clipboard | blocks, handles, counts, the owner | alloc, free, lock; add, delete; open, close | free lists; counts over tasks' ends |
| Multimedia (`mmsystem/`) | buffers queued, sequences | open, write, reset, notify | a notification racing a reset |
| Serial ports, spooler | queues, jobs | read, write, events; jobs | queues at their limits |
| Files (`winbox-machine/files/`, `dos.rs`) | FAT, overlays, handles | DOS calls | chains of clusters |
| Windows, dialogs, menus, controls | the tree of windows | create, destroy, modal loops | re-entry; sequential and very large |
| GDI, raster, fonts, CPU, OPL | pixels, registers, waves | -- | numeric, tested against recordings and vectors |
| Hosts (native, web, wasm) | windows and files of the host's | events, time, launches | -- |
| TypeScript engine (`src/`) | the first implementation | -- | followed file by file by the Rust one |

`PROJECT.json` lists each with its status. The tasks meet in four places: the
line for the processor; the queues of what is sent and posted; the system queue
of input, one for all; and the windows due to be painted. `Tasks` models all
four around the scheduler; the other modules open up one each (`SystemQueue`
the input, `MessageRing` what is posted, `Timers` what a wait ends at), or what
tasks share beside them: KERNEL's list of them (`TaskList`), the clipboard
(`Clipboard`), and conversations over posted messages (`DdeCallbacks`,
`DdeTransactions`). `LocalHeap` stands by itself: it is a task's own memory.

## The plan

In the order of what the rest depends on:

1. **`Tasks`** -- scheduler, calls between tasks, the wait of GetMessage, ends,
   the host. The abstract specification **`SendCall`** of what SendMessage
   promises, and **`TasksCalls`**, the mapping by which the tasks implement it.
   **`TasksProofs`**: type correctness and the turns; the calls, and what no task
   sleeps over. *(done)*
2. **`SystemQueue`** -- the events of all tasks in one queue, the lock on the
   input that one look holds, hooks and window procedures run while an event is
   considered, and who is woken when the lock is let go. **`SystemQueueProofs`**:
   one reader, order, and no sleep over input. *(done)*
3. **`MessageRing`** -- the queue of posted messages, and the places it answers
   for them, against the ring of cells USER keeps, **`UserRing`**: reads out of
   the middle, merged posts, a full ring. **`OwnProofs`**: types and the
   refinement. *(done)*
4. **`TaskList`** -- KERNEL's list of tasks by priority, PostEvent and WaitEvent,
   handles used again. **`TaskListProofs`**: types, order, no wait that misses an
   event. *(done)*
5. **`Clipboard`** -- what is on it, promised and made, over the calls that cross in
   an owner's answers. **`Timers`** -- set, taken in turn, waited for.
   **`BetweenProofs`**, and the timers' part of **`OwnProofs`**. *(done)*
6. **`DdeCallbacks`** -- DDEML's list of callbacks, blocking, waits and the ends of
   conversations; **`DdeTransactions`** -- transactions, their answers, and the posts
   that carry them. Their parts of **`BetweenProofs`**. *(done)*
7. **`LocalHeap`** -- the heap a program's blocks lie in: handles, compaction, discarding,
   growing and shrinking. **`HeapLemmas`**, **`HeapProofs`** and the heap's part of
   **`OwnProofs`**: the heap's order, its handles, and what each call leaves alone. *(done)*
8. To come: DDEML's connecting, advise links and data handles, and the two modules of it
   composed; atoms over tasks' ends; multimedia's queues.
9. Proofs to come: `NoSleepOverInput` where looks nest.

## `Tasks`

| In the module | In the code |
|---|---|
| `life` | a slot made, and `Slot.ended` |
| `current`, `line`, `wait`, `locked` | `Scheduler.current`, `Scheduler.waiting`, `Slot.wait` (with `wait_timer` set: `Timed`), `Scheduler.locked` |
| `stack` | the points at which a task's future waits, one inside the other: a future is a stack of awaits, which the code does not name |
| `sent` | `Slot.sent` |
| `posted` | how many messages lie in the task's ring |
| `paint` | a window of the task's whose region is not empty |
| `input` | an event in the system queue for a window of the task's |
| `Grant`, `Release`, `Enter`, `Woken`, `Settle` | `grant`, `release`, `signal_slot`, `queue_for_processor` |
| `Send`, `TakeNext`, `ReturnAnswer`, `Reply`, `SendDone`, `Resume` | `send_across`, `take_sent`, ReplyMessage, the loop of `send_across` |
| `GetMessage`, `ReadPosted`, `ReadInput`, `ReadHotKey`, `ReadThroughHook`, `HookReturn`, `LookFurther` | the order of `look`, and `wait_for_wake` |
| `Yield`, `DirectedYield`, `Exec`, `Lock`, `Exit`, `Terminate` | the handlers of the calls of those names |
| `TimeComes`, `HostInput`, `Launch` | what the engine and its host do between two polls |

`stack` carries the idea of the module. A frame says where a future is: `look`
at the head of GetMessage's loop, `reading` past the posted messages (from which
the loop does not go back to them), `send` awaiting an answer, `answer` in the
procedure a message was sent to, `hook` in a procedure the read of the input
calls. The program's own code runs over an empty stack or over `answer` or
`hook`. `Engine(t)` is what the machine does for the task that has the
processor, `Program(t)` what the task's program may call, `Host` the rest.

Abstractions: what a message says; windows (a task has some once it has run);
which of a task's events is read; a task's register file and its switch.
`release` wakes the tasks with a window due and grants the processor as soon as
the first is in line; as the line is not empty then or the first woken is its
head, the model wakes all and grants last.

Not modelled here: the lock on the input (`LookFurther` may pass over `input`,
which stands for a read turned away, and only the wait that follows is the
model's), message filters, the quit message, PeekMessage when it finds
something, PostEvent and WaitEvent, waits in DOS calls, loading a program (a
program that cannot be loaded makes no task) and the selectors an end gives
back.

`SendCall` says what SendMessage is to its users, with no processor, line or
waits: a task's calls and the messages it handles nest, each at a depth; queues are
taken in order; the latest message taken is the one answered, once, with nothing
begun within it left; and a call returns when it is answered and all that was begun
within it is over (`Clear`). `TasksCalls` reads a `SendCall` state off the stacks: a
frame of `send_across` is a call, one of `take_sent`'s procedure a message handled, at the
frame's own place.

## `SystemQueue`

Where `Tasks` has one flag of input for each task, this module has the queue
itself, and leaves the scheduler out: a task whose program's own code is to run
may run at any point (a program may give the processor up anywhere in it), and what
the machine does for a task between two such points is not interrupted (`Quiet`).
Every order the scheduler could choose is among these.

| In the module | In the code |
|---|---|
| `queue`, `serials` | `System.input`, `message_serials` |
| `focus` | `System.focus`, or the active window where there is none: whose window keys are for |
| `lock`, `first`, `mark` | `input_lock`, `input_first`, `input_mark` |
| `posted`, `taken`, `posts` | the marks of `Queue.messages`, `Queue.taken_mark`, `post_mark` |
| `stack` | looks under way and the procedures they call, one inside the other |
| `given` | history: the serials of the events taken |
| `Look`, `LetGo` | the beginning of `look` |
| `BeginEarly`, `TakePosted`, `BeginRead` | the order of its loop: the input first after a look that only looked, what was posted, the input |
| `MayHold`, `Begin`, `NoInput` | `holds_input`, `take_input` where nothing was read |
| `ForNobody` ... `ToldReturn` | `consider`: each outcome of `resolve_mouse`, the filter, the hooks and `mouse_taken` |
| `HostInput`, `Post`, `SetFocus`, `TakeSent`, `End` | `queue_input`, `post_to`, and the calls of those names |

A frame of `stack` is a look: where it is (`at`), where in the queue (`index`),
the event considered (`one`) and the index it was taken from (`back`). All of these
are values the code reads before an await and uses after it.

Abstractions: an event's window is its task's; a window below the mouse is the same
each time it is asked, and `resolve_mouse` finds another task's without asking it;
a window on no part of which the mouse is, or no window, throws the event away.
Painting and timers are never due.

Not modelled: the journal's hooks, the events of other hardware, presses of one
key merged into a repeat, hot keys (`Tasks` has them), the system-modal window,
the desktop's window, the quit, EnableHardwareInput, LockMyTask's letting go,
ranges of messages and single windows in a filter (`kinds` stands for both).

## `MessageRing`

Windows' USER keeps the messages posted to a task in a ring in the queue's
segment, and PostMessage answers where in it the message was put. winbox.js
keeps a queue, and one place: where the oldest message *would* be. The places
it answers are right only if that one is moved as USER's would move, each time a
message is taken, from wherever in the ring.

| In the module | In the code |
|---|---|
| `messages`, `quit` | `Queue.messages`, `Queue.quit_code` |
| `ring_size`, `ring_read` | the fields of those names |
| `place` | what `post_to` answered last |
| `RingAt`, `RingPlace`, `RingTaken` | `ring_at`, `ring_place`, `ring_taken` |
| `Post` | `post_to`: the merge with the last message, then the room, then the push |
| `Take`, `TakeQuit` | `find` and `take`, asked to remove |
| `PostQuitMessage`, `SetMessageQueue` | the calls of those names |

`UserRing` is external: what `queue.rs` says of USER.EXE where it follows it. A
message lies in a cell; one posted goes to the cell after the last, or over the
last where it merges with it; one taken at or after the oldest's cell moves those
before it up, and the oldest's cell with them; one taken before it, past the end of
the ring, moves those after it down. `AsUserRing` says that `MessageRing`
implements it. In the mapping the oldest's cell is `First`, the next message's
is `Wrap(First + Len(messages))`, and cell `c` holds message `Index(c)`, counted
on from the oldest, if there are that many.

What a look asks for is a set of windows and a set of numbers: more sets than
Filter's window with its children and its range. The task's end is `Tasks`'; marks
are `SystemQueue`'s. A ring that is longer than its segment (`SizesAssumption`:
more than 2,974 entries) is left out: there `ring_at` multiplies past a word.

## `TaskList`

KERNEL keeps its tasks in a list by priority, and for each a record with its
priority and its events. winbox.js keeps both by the task's handle, a selector,
which is given to another task once its own has ended.

| In the module | In the code |
|---|---|
| `slots` | `Scheduler.slots`: a task's handle, its state, and (`on`) the task it waits in WaitEvent for |
| `order`, `lastRan` | `System.task_order`, `last_ran` |
| `records` | `task_records`: priority and events of each handle |
| `waiters` | `event_waiters`: pairs of a handle and a slot |
| `Insert`, `Ran`, `HandOn` | `insert_task`, `task_ran`, what `grant` does of it |
| `MakeTask`, `EndTask`, `GetCurrentTask`, `SetPriority` | `task_made`, `end_task`, `task_list`, `change_priority` |
| `PostEvent`, `WaitEvent`, `WaitAgain` | the handlers: `WaitAgain` is a turn of WaitEvent's loop after the first |

A priority is a signed byte, and `Moved` wraps and clamps as the code does. An insert
goes before the first live task with a priority as high (`Goes`); ended tasks' handles
between are passed over. Of the record, the queue, the flags and the handlers are left out. A record is not
made anew for a new task: with the handle it takes over the ended task's priority,
though `task_order.rs:25` says "nought to start with".

## `Clipboard`

| In the module | In the code |
|---|---|
| `formats` | what `Clipboard` has of each format: for a text, a bitmap and an OEM text, whether it is absent, promised (`Rendered`), a block, or made from the other text |
| `open`, `owner`, `changed` | the fields of those names |
| `alive` | which blocks of memory are allocated |
| `calls` | EmptyClipboard, GetClipboardData and Print Screen under way, each waiting for an answer |
| `OpenClipboard`, `SetClipboardData`, `CloseClipboard` | the calls of those names |
| `EmptyClipboard`, `EmptyDone` | `empty_clipboard` before and after WM_DESTROYCLIPBOARD is answered |
| `GetClipboardData`, `RenderDone`, `MakeUp` | `get_clipboard_data` before and after WM_RENDERFORMAT is answered, `made_text` |
| `PrintScreen`, `PrintScreenGoesOn` | `print_screen` (`task_list.rs`) |

A sent message is answered at any later point and anything may happen before it is.
Left out: formats of the program's own, what data says, and the chain of viewers, which
the programs keep themselves but for its head. Who owns the clipboard after
EmptyClipboard is whoever has it open once the owner before has answered; nothing in the
repository says who should, and no property does.

## `Timers`

| In the module | In the code |
|---|---|
| `timers` | `System.timers`, in the order they were set |
| `tasks`, `sleep` | tasks that have not ended, and how long each look has to wait |
| `SetTimer`, `KillTimer`, `OwnTimer`, `TaskEnds` | `set_timer_as`, `kill_timer_as`, `own_timer`, `kill_timers_of` at an end |
| `Due`, `DueFirst`, `TakeTimer` | `due_timer`: of those due and asked for the first due, and of these the first set; it is then set again from now |
| `Until`, `Wait` | `look_further`: the wait ends at the task's next timer, asked for or not |
| `ClockTick`, `WakeUp` | `time_passed`, `signal_slot` |

Time is relative: what is kept of a timer is how long until it is due, or since
(`MaxLate`). A timer one task sets for a window of another's, the machine's own timers
and the wait for a playback hook are left out. A look that asks for some messages only
waits until a timer it does not ask for, and once that is due waits for nothing,
round after round, until the host's time goes on; that is the host's liveness and
not this module's.

## `DdeCallbacks`

DDEML calls a program back about what its partners post. It never does so as a message
comes in: the callback is put in a list, and a message 4CCh to a window of its own has
the list run. The procedure called may wait for a transaction in a loop of messages,
may block its conversation, and may end it.

| In the module | In the code |
|---|---|
| `callbacks` | the instance's list 16h |
| `status`, `count` | each conversation's word 20h, the instance's word 2 |
| `waited`, `looped` | the instance's words 28h and 3Ah |
| `stack` | awaits of `run_queue`, `callback`, `modal_loop` and `on_terminate`, one inside the other |
| `runs`, `endings`, `coming` | messages 4CCh, 4CEh, and 3E1h or 4D1h posted |
| `Arrive`, `DispatchRun`, `RunNext`, `CallbackReturns`, `RunDone` | `queue_callback`, `dmg_proc`, `run_queue` |
| `EnableCallback` | `enable_callback` with `enable_command` |
| `WaitFor`, `WaitOver`, `WaitDone` | `modal_loop` |
| `Disconnect`, `Terminate`, `DispatchEnding` | `disconnect`, `terminate` |
| `DispatchTerminate`, `TellEnd`, `EndTold` | `on_terminate` before the list is run, before XTYP_DISCONNECT, and after |

A callback is the order it came in and no more. Its answer's post (`reply`) is one step
with its return. A 4CCh is posted to a queue that may be full, of 4CCh or of anything else, at any time
(`PostRun`): it is refused, the error is DMLERR_SYS_ERROR, and `queue_callback` and
`modal_loop` go on. The callback stays listed with no message to have it made. `refused` is a
history of that: it is true from a run of the list that was refused, there or as
DdeEnableCallback asked for it in a callback, to the next run that begins and is not under a
callback, which comes to the whole list whatever it was posted for (`RunBegins`).
`NoCallbackStranded` holds but for that time, which lasts for good where nothing else
comes in.

`misused` is a history of what a program did that the promises do not
outlast, and each property names the part of it that excuses it:

- `enabled`: DdeEnableCallback within a callback. It is refused with
  DMLERR_REENTRANCY, but its conversation is unblocked all the same: what was blocked is
  left waiting without a message to run the list (`refused`, above), and what the run
  under way has passed is made after newer ones (`MadeInOrder`).
- `ended`: the program's own termination is dispatched within a callback that
  `on_terminate` makes. Both then change the flags by exclusive or, and the conversation
  is left connected, or counted for an answer that has come (`TerminationsCounted`, `EndedGone`).

Without these excuses, and `refused`, TLC finds each of the four violated. Left out: more than one instance in a task,
monitors, connecting callbacks (made at once and not through the list), low memory
(4D0h), DdeUninitialize, a SetTimer that fails (after which word 28h stays set and every
later wait is refused), a loop of messages of the program's own in a callback -- a 4CCh
dispatched there runs nothing and is gone -- and `on_terminate` run at once from
DdeClientTransaction, of a partner of DDEML's whose record is gone (`xact.rs:80-87`). `terminate`
asks twice whether the partner's window is there (`conv.rs:881`, `890`) and posts between,
which may give the processor up; `Terminate` asks once.

## `DdeTransactions`

One conversation, its client and server in two tasks. A message says which item it is
about: an answer is matched to the first transaction waiting for that item, so that it is
the right one only if everything stays in order, over queues that are full.

| In the module | In the code |
|---|---|
| `pool`, `sync` | the conversation's records (3Ah), and its own (0Eh) while it is waited for |
| `answered` | states 6, 8, 0Ah, and 1 after a negative answer |
| `completions`, `requests` | the client's and the server's lists of callbacks, for this |
| `wire`, `posting`, `kept`, `timer` | messages posted; `post_dde` between two tries; the posts kept (34h); timer 4 |
| `Transact` | `transact` and `send`, up to the wait |
| `PostDde`, `TryAgain`, `Repost`, `TimerDue`, `Enable` | `post_dde`, `repost`, and who calls it |
| `TakeAnswer`, `WaitEnds`, `Complete`, `Abandon` | `client_dde` with `answer`, `finish`; the end of `transact`; `reply` to XTYP_XACT_COMPLETE; `abandon_one` |
| `TakeRequest`, `Reply` | `server_dde`, `reply` |

`loose` is a history again. `again`: the program begins a transaction for an item while an
answer for it that it gave up is still to come, or is waiting for one of that item
otherwise; that answer is then taken for the new one's. The knowledge base says of
an abandoned one that its answer "matches nothing"
(`kb/topics/ddeml-transactions.md:102`), which is so unless the item is asked for again.
`within`: a procedure run in the Yield of a post begins a transaction, whose message goes
first. Begun in such a procedure, a transaction is asynchronous here.

Left out: executes and advises (matched as pokes are), advise data, data blocks and
atoms -- an abandoned transaction whose completion waits has its own freed twice --
a partner that goes while posts are kept, and DMLERR_SERVER_DIED.

## `LocalHeap`

A local heap is a row of arenas in one segment, from which blocks are made; a moveable one
is held by a handle, so that it may be moved to the top when room is short, or discarded
if its program allowed it.

| In the module | In the code (`winbox-machine/src/local.rs`) |
|---|---|
| `arenas` | the arenas linked both ways, each with two bits: in use, moveable; the free list is the free ones of it, and `ARENAS` its length |
| `entries`, `spare` | the handle tables, and the list from `FREE_HANDLE` |
| `size`, `refused` | `segment_size`; a history of the last refusal |
| `Alloc`, `AllocSpan`, `Tried`, `Placed`, `TooLittle` | `alloc`: fixed blocks from the bottom, moveable from the top; room as it is, compacted, or in the heap grown |
| `Walking`, `Walk`, `Stepped`, `Step` | `compact`: the walk down from the last arena |
| `Compacted`, `Passes`, `NextPass`, `Ends` | the loop of `compact` around it: a walk, and another for each level discarded |
| `Slide`, `Fitting`, `Fit` | `slide`, `fitting`, `fit` with `move_block` |
| `WithoutLevel`, `Discarding`, `Discarded`, `NextLevel` | `discardable` and the loop that discards |
| `Grown` | `out_of_memory` |
| `NewHandle`, `HandleFreed`, `Linked` | `handle` with `table`, `free_handle`, `rehandle` |
| `LocalAllocFixed`, `LocalAllocMoveable`, `LocalFree`, `LocalLock`, `LocalUnlock`, `LocalCompact` | the functions of those names |
| `LocalReAlloc`, `MovedTo`, `Shortened`, `LocalModify` | `realloc` with `move_to`, its in-place end, and LMEM_MODIFY |
| `LocalShrink`, `Lowering`, `Lowered`, `LoweredBlock`, `PastTo`, `CutAt` | `local_shrink` and its loop, with `shrink_into` and `large_enough`, `cut` |

Every call is one step, as the code's are. Addresses and sizes are the code's own: what can
go wrong lies in roundings, thresholds and which of two neighbours is looked at, and
would not be there in an abstract heap. The code's loops are recursive functions of how
often they have gone round, taken where they have ended: a walk after a sixth of the heap's
bytes, as each step takes it six or more on; the passes after fifteen, one a level; the
heap lowered after a twelfth of its bytes, an arena having twelve or more. That walks and
passes have ended by then is proved (`WalkedIs`, `PassesEnd`); what is proved of a lowered
heap is so after any number of times. `HeapAssumption` keeps the heap within its segment, which if it may grow
is of whole units of 32, as `out_of_memory` leaves it, and `LayoutAssumption` leaves room for a block.

Four things the module has as the code does:

- A LocalReAlloc that has to move its block may discard that very block while it makes
  room. Its handle then stays discarded and what is answered is the address of the new
  block, which no handle has: such an arena is `lost`.
- With no free arena at all, `compact` answers nought before it looks for anything to
  discard, and the call is refused over blocks that could have been discarded
  (`RefusedWhenFull` speaks of heaps with a free arena).
- In a heap with two free arenas side by side a walk passes the upper one before it fills the
  lower to its top, and leaves a block that might have been slid up just under a free
  arena. So `RefusedWhenFull` says of blocks left to move only where no two were side by
  side before the call. It is of steps and not of states for that reason.
- It is LocalShrink that can leave two side by side, where `cut` ends the heap just above
  one; every other call joins them (`FreeJoined`). The instance of `own` is too
  small for it: a heap from 65340 to 65471 with tables of two is not.

Left out: what is in a block, LocalHandleDelta, a notify procedure of the program's own, and
the calls that change nothing (LocalSize, LocalFlags, LocalHandle).

## The runs

The runs `tasks_*` are of `MCTasks`, `input_*` of `MCSystemQueue`, `own` of
`MCOwn`, `between` of `MCBetween`, `dde_kept` of `DdeTransactions` itself. `MCOwn` and
`MCBetween` each hold several modules that share no state: `part` is the one that goes
on while the others stay as they began, so that the states are the sum of theirs and
not the product; `OwnTypeOK` and `BetweenTypeOK` put types of several together. In the first, `Calls` names the calls
and events an instance makes, so that each question is asked of the calls that bear on it; `MaxDepth`
bounds the frames on a stack when its program calls (not the model's own
pushes); `RingSize` is the ring's places. Program and host are otherwise free.
Tasks other than the first are alike, and the runs with three and no liveness
use that symmetry. Deadlock is not an error: a machine whose programs all wait for
messages stops until its user does something.

| Run | Instance | What it shows |
|---|---|---|
| `tasks_turns` | 3 tasks, depth 2 | types; each live task runs, is in line once, or sleeps (`OneTurnEach`); no idle processor (`NoIdleProcessor`); the lock on a task holds (`LockHolds`); a send and an answer pass the processor on (`HandedOver`) |
| `tasks_wake` | 3 tasks, depth 2, ring of 1 | no task sleeps over what was sent, posted or is due to be painted; without ReplyMessage no two tasks' messages cross |
| `tasks_nested` | 2 tasks, depth 4 | every message is in one place until answered, in nested procedures with replies, hooks and ends (`CallsHeld`); the tasks implement `SendCall` (`SendsAsCalls`) |
| `tasks_live` | 3 tasks, depth 3 | senders in a ring all get their answers (`CallsReturn`) |
| `tasks_hotkey` | 2 tasks | finding: a hot key read posts behind the look |
| `tasks_exit_paint` | 2 tasks | finding: a task's end wakes nobody to paint |
| `input_held` | 2 tasks, 3 keys and presses, 2 posts, depth 1, both hooks | one task at a time reads (`OneReader`); none sleeps over its input (`NoSleepOverInput`); input keeps its order over all tasks (`InOrder`) and waits behind what was posted to the holder (`KeptWhilePosted`) |
| `input_nested` | 2 tasks, 2 keys and moves, depth 2, sends and ends | nested looks hand no event over twice (`EventOnce`) |
| `input_readers` | the same as `input_nested`, no sends or ends | finding: with nested looks two tasks read at once |
| `own`, ring | rings of 0, 1 and 3; 2 windows, a merged and a plain number, 2 contents | the places answered and what is left after each take are those of USER's ring (`AsUserRing`) |
| `own`, timers | 2 tasks, intervals of 0 and 2, up to 2 late | none is taken twice while another that its looks ask for is due (`TakenInTurn`); no task sleeps over a timer of its own (`NoSleepOverTimer`) |
| `own`, heap | from 65388 to 65503, in a segment that may grow to 64 KiB, tables of 1, 2 handles, requests of 0 and 20 bytes, 2 levels, locks of up to 2, 1 fixed block | handles and blocks agree (`HandlesAgree`); free arenas are joined (`FreeJoined`); locked and fixed blocks stay (`LockedStays`); the highest level is discarded first (`HighestFirst`; the two are `AsAllowed`), and room refused only where there is none (`RefusedWhenFull`) |
| `between`, list | 3 handles, 3 slots, a priority moved by 224 (-32), 1 event, 2 waiters | each live task is in the list once and by priority (`ListOrdered`); no wait misses an event (`NoSleepOverEvent`) |
| `between`, clipboard | a window, 2 blocks, 2 calls at once, 2 renderings | what is on the clipboard is allocated, and what was taken off freed once (`HeldAlive`); what is made has something to be made from (`MadeHasSource`; the two are `CanBeGiven`) |
| `between`, callbacks | 2 conversations, one of which ends, 2 callbacks, a queue of 1 | order, none stranded but by a run refused, no end under a wait, ends counted and over (`MadeInOrder`, `NoCallbackStranded`, `WaitedStands`, `TerminationsCounted`, `EndedGone`) |
| `between`, transactions | 2 items, requests and pokes, 3 transactions, queues of 1, 2 tries | order, own answers, none lost, completed once (`OnTheWayInOrder` and `NoneLost`, as `KeptSafe`; `OwnAnswers`, `CalledBackOnce`) |
| `dde_kept` | 1 item, 3 transactions, queues of 1, 5 tries | finding: a post kept sets no timer |

**Bounds.** Two tasks make every pair of caller and callee; a third is what a
line, a ring of senders, or a hand-over past another task needs. Depth 2 lets a
task answer a message while its own send waits; depth 4 nests twice. A ring of
one place is full after one message. Three events let one be typed ahead for
another task, behind one that is being read; two suffice for a nested look to
take the event its outer look considers, or one to take its place. A ring of
three has a first, a middle and a last entry, so that a take can be at, after
and, the ring wrapped, before the oldest; one and none are the edges of the
remainder. Three handles for as many slots let one be used again beside two that
live; -32 takes a priority to the other end of its range and over it. Two renderings
let a rendering's owner ask for another. Two callbacks are enough for one to be made out
of turn; with a queue of one the second is refused, as is any at any time where others fill the
queue. (With three callbacks the module alone was checked too: 4.1 million states.) Three transactions let one be answered,
one wait and one be kept; two tries have a first, and a last after which it is kept --
the code's five are in `dde_kept`. Items are alike, and `MCBetween` has the first transaction be
of one of them; of the three handles the last keeps its priority (with all three moved the
module was checked too: 640,000 states). It also leaves out the programs that do both of the things that take a promise of
DDEML's away (either empties most of the invariants), and has the one that begins a transaction in the
middle of a post begin two. Two blocks let what is taken off the clipboard be freed while another is on it,
and a text be made from the other; a third block, with a format for each, was checked for the module alone. The heap has room for two
or three blocks and grows once, by 32 bytes, to the end of its segment's reach: so blocks are
slid, fitted, discarded and refused, and the end of the address space is near enough for a
word to wrap. Of two handles one is locked and each has a level of its own (`FewHandles`). Every other counter is bounded by these constants in the actions'
guards.

**Fairness** (`tasks_live` only). Weak fairness of `Engine(t)`: `round` polls
the task that has the processor until it gives it up. `ProgramsGoOn` is an
assumption on the programs: each comes back to its GetMessage and each
procedure, at each depth, returns. Both are strong fairness as a program's turn
comes and goes; no fairness is assumed of any call, of the host, or of a choice
among tasks, so that what comes about does so through the line alone. The run
leaves out ends, locks and waits in procedures, with which a sender may rightly
wait for ever.

## Findings

- `tasks_hotkey`: `wait_for_wake` waits "to be woken -- by a message posted or
  sent". A look that finds nothing posted and then reads Ctrl+Esc or a hot key
  posts to the active window, which may be the looking task's own, and goes on
  to its wait without looking back: the task sleeps over a message posted to it
  until something else wakes it.
- `tasks_exit_paint`: every giving up of the processor wakes the tasks with a
  window due but for a task's end, which grants the processor without it: a task whose
  window the ended one's covered, or was made due by it, sleeps on.

- `input_readers`: `holds_input` says "One task at a time reads the input (...):
  the first to come to it holds it (...) and another's look finds none
  meanwhile". A look lets its task's lock go as it begins, by marks, or when it finds
  nothing; made in the procedure of a window that the same task's outer look is
  asking or telling, it lets another task read while that one is in the middle.
- `dde_kept`: `post_dde`'s comment, and the knowledge base, say of a message that could
  not be posted that it is kept "to be posted again on timer 4". The timer is set by
  `repost` alone. A message kept waits until another post, or DdeEnableCallback, comes
  to it.

`NeverCross` is checked without ReplyMessage, and proved without it and without locks.
`send_across` says that two tasks' messages "never cross", as the task sent to runs next;
once a task has answered early both go on, and each may send to the other.

What `SystemQueue` claims only under conditions, which are the hypotheses of its
theorems too, shows what the code does outside them, by reading it as Windows' own
behaviour rather than as errors:

- `NoSleepOverInput` where every look asks for all input and no task ends: a look that
  asks for none lets the input go without waking a task that was turned away, and so
  does the end of the task that holds it.
- `KeptWhilePosted` where nothing is posted to a task in the middle of its look,
  and looks take what they find: handing an event over marks the input as last,
  over the mark of what was posted meanwhile.
- `EventOnce` without the mouse's hook. After the window is asked, the event is
  looked for again (`queued`); after the hook it is not, and a look that the hook
  makes itself could take it first.
- `InOrder` without nested looks: an inner look takes what its outer one passed
  over, or the event after the one being told.

## The proofs

`TasksProofs` proves, for every finite set of tasks, every set of calls, every
depth and every size of ring (`TaskAssumption`, `CallsAssumption`,
`BoundAssumption`):

- `TypeCorrect`: `Spec => []TypeOK`;
- `TurnsKept`: `Spec => []OneTurnEach`;
- `ProcessorUsed`: `Spec => []NoIdleProcessor`;
- `LockKept`: `Spec => LockHolds`;
- `InductiveInvariant`: `Spec => []IInv`, from which the others follow.

`IInv` is `TypeOK /\ OneTurnEach /\ NoIdleProcessor /\ UnmadeOut`. The turns are
not inductive alone: a task made enters the line, which would hold it twice, or
hold a task asleep, had a slot not yet made been in the line or asleep before.
`UnmadeOut` says it was not. That a task ended may stay in the line or be put
there by a late timer or answer is why `OneTurnEach` speaks of the live.

The argument goes by layers. Lemmas on sequences say what taking a task out of
the line, putting it first and dropping a prefix do to a line that holds each
once. Lemmas on the scheduler say that `Enter` and `Grant` keep the turns from
what holds *while* a handler changes them (`Sound`: the line is right and the
processor is nobody's; `Beside`: it is somebody's), since no handler keeps
`OneTurnEach` between its assignments. Then each action has its lemma, and
`StepKeeps` puts them together. `LockKept` is an action property, proved from
`IInv` before the step.

Of the calls it proves, of the same instances and with no further hypothesis:

- `CallsAreHeld`: `Spec => []CallsHeld`;
- `CallsHandOver`: `Spec => HandedOver`;
- `TasksSendAsCalls`: `Spec => SendsAsCalls`, the refinement of `SendCall`;
- `CallsInvariant`: `Spec => []CallsInv`.

`CallsHeld` counts the places a call is at. It is not inductive: a message taken
turns a place in a queue into a frame of a procedure, an answer ends that frame
and the sender's wait at once, and an end takes frames of any depth and queues
with it, so that one needs to know of each place which call it is for. `CallsInv` says
it of the places one by one. An entry of a queue and a frame that answers name a
sender and a depth, and the sender, if it has not ended, waits there for that
very task (`AllAwaited`); no two places are for one call (`NoneTwice`); no frame
waits without a place (`NoneLost`). It says as well which frames lie over which (`Shaped`) and
that only the living have any (`StacksLive`). `CallsAreHeld` then has two sets to count, of which
one has one member and the other none. The lemmas say what putting a frame on, taking one off and
answering do to the places; an end is the hard case, as it answers
everyone who waits for the task at once.

The refinement goes by steps. `QuietStep` is of those the mapping does not see: what they put
on a stack, take off it or put in another's place is no call and no procedure
(`SameCalls`). Each of the others has its lemma (`AskStep`, `TakeStep`, `ReturnedStep`,
`FinishStep`, `ReplyStep`, `EndStep`), which says what its change of the stack is to
calls and messages (`PushRead`, `PopRead`, `DoneRead`). That an answer is to a call
still open, of a sender that has not ended, is `CallsInv`'s `AllAwaited`. That nothing lies
over what is answered or returned is one more invariant, `CallsNest`: over a frame that
awaits an answer only a message taken lies. So a program that calls ReplyMessage has no
call of its own within the message, and a message is taken one place deeper
than a program may call at most.

It proves as well what no task sleeps over, each theorem under a hypothesis
on `Calls` that names the calls by which the code breaks it:

- `PostedSeen`, `NoSleepOverPosted`: no hooks and no hot keys (`tasks_hotkey` has
  hot keys);
- `PaintSeen`, `NoSleepOverPaint`: no ends (`tasks_exit_paint` has them);
- `SentSeen`, `NoSleepOverSent`, and `SendsNeverCross`, `NeverCross`: no
  ReplyMessage and no locks. With either TLC finds a task asleep beside a message
  sent to it, where calls go two or three deep: the one sent to is not the next
  to run.

All rest on `IInv` and `CallsInv`. What is posted and due needs little more: a task
that goes to sleep has just looked (`ToSleep`), and whoever makes something due
wakes the sleeper. What is sent needs `SentInv`: a message not yet taken is
alone, at the task that has the processor, at a place where it is taken before anything
else; every other live task is at a place where it would take one, and does not
wait with its answer there (`PendingRuns`, `OutOfTurn`). It is the hand-over of
`send_across` as an invariant, and `NeverCross` follows: of two messages one
would be at a task without the processor.

`OwnProofs` proves of the ring, for every set of sizes within the segment and every
set of windows, numbers and contents (`SizesAssumption`, `EmptyAssumption`):

- `TypeCorrect`: `Spec => []TypeOK`, which is inductive;
- `PlacesAsUserRing`: `Spec => AsUserRing`.

Nothing but `TypeOK` is needed of the states: no more messages than entries, and
the oldest's place an entry's. The lemmas go from numbers to cells. `EntryOn`
turns the remainder into one subtraction, as no index is twice round; `PlaceOf`
gives the cell of the message at an index, and `CellOf` that cell and index
are inverses. Then each step has its lemma. For a take there are two: where the
message lies at or after the oldest's place every message before it moves up a
cell and the oldest's with it; where it lies before, the ring has wrapped and those
after it move down. Both reduce to the index of a cell before the step and after.

Of the timers it proves, for every set of tasks, of intervals and every `MaxLate`:

- `TimersInTurn`: `TimersSpec => []TakenInTurn`;
- `TimersSeen`: `TimersSpec => []NoSleepOverTimer`;
- `TimersInvariant`: `TimersSpec => []TimersInv`, and `TimersTyped` from it.

`TakenInTurn` needs the reason for it (`SinceDue`): a timer taken while another
waits due is set going again, to a time after the other's, so that the next look
that asks for both comes to the other. That no interval is nothing, which `Every`
sees to, is what makes it so.

`TaskListProofs` proves, for every finite set of handles, every set of moves and every bound:

- `ListTypeCorrect`: `ListSpec => []ListTypeOK`;
- `ListKept`: `ListSpec => []ListOrdered`;
- `EventsNotSlept`: `ListSpec => []NoSleepOverEvent`;
- `ListInvariant`: `ListSpec => []ListInv`, from which they follow.

`ListInv` adds to the types that no two live tasks have one handle or the processor
(`SlotsOK`), that the list holds every live one and each handle once, in order (`InOrder`,
`Holds`), and that whoever waits for a live task is down for it among the waiters
(`WaitsKept`), without which taking an event could leave a wait beside one. The
argument goes from the list to the slots to the actions: lemmas say what an insert does to a list in
which only some entries are in order, the place of which is the least that fits and is
there by the well-foundedness of the numbers.

`BetweenProofs` proves of the clipboard, for any windows, blocks, calls under way and renderings
that one call waits for:

- `ClipboardGives`: `ClipSpec => []CanBeGiven`;
- `ClipboardInvariant`: `ClipSpec => []ClipInv`.

`ClipInv` adds `TextsByTurns`: a call that waits for a rendering to make its own format
from waits for the one text inside the other. Without it a rendering that returns late,
after others have emptied the clipboard and put more on it, could make a text from a format
there is nothing of.

Of DDEML's callbacks it proves, for every finite set of conversations, any of which
may be those that end, every length of the program's queue, which others may fill at any time, and every number of
callbacks (`CallbacksAssumption`):

- `TheyAreMadeInOrder`: `CallbacksSpec => []MadeInOrder`;
- `NoneIsStranded`: `CallbacksSpec => []NoCallbackStranded`;
- `TheWaitedStands`: `CallbacksSpec => []WaitedStands`;
- `TerminationsAreCounted`: `CallbacksSpec => []TerminationsCounted`;
- `TheEndedAreGone`: `CallbacksSpec => []EndedGone`;
- `CallbacksInvariant`: `CallbacksSpec => []CallbacksInv`, and `CallbacksAreTyped` from it.

None is inductive alone, and `CallbacksInv` has a part for what each needs:

- Of the stack: a run is never under anything, no callback is made under another but
  that of a termination's end (`Nested`), one wait is under way at most and is for the
  conversation that `waited` names (`OneWait`), and a partner's termination is followed once,
  and not over a wait for its own conversation (`EndsApart`). From these `WaitedStands` follows: what would end the
  conversation is put off while the wait lasts, and what was begun before the wait would lie
  under it.
- Of the flags: `Accord` says what the exclusive ors can make of a conversation's flags, whatever a
  program does: one without `connected` has `destroy`, and is ended again only as its program is told of the end. `Clean` says what they make of it where no
  termination of the program's own is dispatched as the partner's is followed: a conversation with a window is connected,
  awaits an answer, or is one whose program is being told of the end. `Counts` needs it, as the
  count goes up or down with the flag `awaited`, and `EndedGone` is a case of it.
- Of the list: `Listed` says that callbacks the frames name are in it, and `InTurn` that what a
  run has passed is blocked. `MadeInOrder` follows as a run makes nothing before what it is at, and its one
  exception is seen at once: an unblocking in a callback, under which the run is not begun anew.
- `Reached` says of every callback that may be made why it will be: a 4CCh is posted, a wait in a callback
  has yet to post one, the run under way has yet to come to it, or it is under way or next after
  the one that is. When nothing is under way only the first is left, which is `NoCallbackStranded`. A run that
  is refused breaks it (`refused`), and one that begins makes it so again whatever was refused
  before (`RunMakesUp`, `ReachedAnew`).

What the steps can do to the stack is said once (`StackStep`), as is what they do to the flags (`QuietSteps` and the
lemmas after it) and to the list (`ListStep`); each part of the invariant is shown of those rather than of the
nineteen actions.

Of DDEML's transactions it proves, for every number of them, any items, any
places in a task's queue and any number of tries of a post (`TransactionsAssumption`):

- `PostsAreKeptSafe`: `TransactionsSpec => []KeptSafe`;
- `AnswersAreOwn`: `TransactionsSpec => []OwnAnswers`;
- `AnswersAreCalledBack`: `TransactionsSpec => []CalledBackOnce`;
- `TransactionsInvariant`: `TransactionsSpec => []TransInv`, and `TransactionsAreTyped` from it;
- `BetweenAreTyped`: `BetweenSpec => []BetweenTypeOK`, from this, the callbacks and the clipboard.

The argument for `OwnAnswers` is the order. What is on its way lies in seven lists, and
`WayOrdered` says of each that it is in order and of each two that one is before the other;
of a program that posts in the middle of a post only that each transaction is in one place. For
that a side that tries a post keeps none (`OnePost`), or the post
would be behind what it ought to go before. So an answer dispatched is the earliest of all on the
way. If its transaction waits, an earlier one for the same item that waited would be on the way as
well (`NoneGone`), and before it; the records are in order (`Records`), so its own is the first that
fits, and is not refused as unfit. If it waits no more, nobody waits for the item (`LateApart`), and
the answer is thrown away. A synchronous transaction is looked at before all records, out of order,
and is alone for its item (`SyncAlone`). What `loose` records is just what would break the last two.

A post that moves on within its side (`Moving`), a new one (`Growing`) and one dispatched
(`Taking`) are each shown once for both kinds of order, from how lists are joined
(`JoinedLists`); the actions of both sides reduce to these.

`SystemQueueProofs` proves, for any tasks, kinds of looks and bounds
(`TasksAssumption`, `KindsAssumption`, `LimitsAssumption`), each theorem under
the condition its property has (see *Findings*):

| Theorem | Property | Hypothesis |
|---|---|---|
| `QueueTyped`, `EventsOnce` | `TypeOK`, `EventOnce` | `HookedOnce`: no look within a look where a hook is asked about the mouse |
| `OneReads` | `OneReader` | no look within a look |
| `InputKept` | `KeptWhilePosted` | `TakesAll`: none within another, each takes what it finds and asks for what is posted, and nothing is posted to a task in the middle of its look |
| `InputInOrder` | `InOrder` | `SeesInput`: none within another, and each asks for all input |
| `InputSeen` | `NoSleepOverInput` | `NoneEnds`: the same, and no task ends |

The instance of `input_held` satisfies them all, and that of `input_nested` `HookedOnce`, with looks within looks.
Each was found by dropping it: TLC shows the property violated without it. There are two exceptions, where the
proof asks for more than may be needed: `TypeOK` is proved with `HookedOnce` because its argument goes through
who owns an event, and of looks within looks, which `NoneEnds` excludes, TLC shows nothing wrong on small instances.

The argument goes from the frames to the queue. Every action puts one frame on
one stack, or takes it off, and at most wakes others; so what is said of frames
one by one is shown of that one, and of the others only as far as the queue and
`given` have changed (`StepKeeps`). Four invariants follow one another:

- `QInv`: types; each serial is in the queue once and none of those is given; an
  event that a frame owns (`Owns`: told of, asked about, or a key to be taken) is owned by no
  other and was not given (`Framing`); stacks are of the living and no deeper than the bound
  (`Shape`); who reads holds the lock, where looks do not nest (`ReaderHolds`).
- `Kept`: a mark is one message's, and who reads has nothing posted.
- `Order`: the queue rises, what was given is before it (`Passed`), and who reads
  has passed nothing over (`Foremost`). `InOrder` alone says nothing of the event
  about to be given.
- `Awake`: who holds the lock does not sleep. What keeps a task from sleeping over an event
  of its own is another awake that will let the input go, and wake it then.

`HeapProofs` proves of a local heap, for every segment, start and end, tables of any length,
any lock limit, requests and levels (`HeapAssumption`, `LayoutAssumption`):

- `HeapTyped`: `HeapSpec => []HeapTypeOK`;
- `HeapHandlesAgree`: `HeapSpec => []HandlesAgree`;
- `HeapFreeJoined`: `HeapSpec => FreeJoined`;
- `HeapRefusedWhenFull`: `HeapSpec => RefusedWhenFull`;
- `HeapAsAllowed`: `HeapSpec => AsAllowed`;
- `HeapInvariant`: `HeapSpec => []HeapInv`, from which they follow.

`HeapInv` is `Good`, what a heap is not only between calls but at every point within one, and that
nothing in it is past its end. `Good` adds to the types that the arenas are `Laid` (from
KERNEL's two to its last, each twelve bytes or more from the next), that the last is within the
segment (`Sized`), that the handles given back are blank (`Blank`), which is what makes a handle
new when it is given again, and that handles and blocks agree (`Agree`), said of the set of
blocks, so that it does not matter where in the row a block has come to lie.

The argument goes by what may have become of a heap, each relation one that composes with itself.
`HeapLemmas` has those of `compact`. A row changed between two places (`Spliced`) is laid out
if what is put there is, and its blocks are those there were less those taken out. A block moved in
a walk makes a heap `Shift`ed: handles and blocks agree, fixed and locked ones are where they were, and
what is over the highest free arena is as it was. The walk is `Resting` at an arena: it has
shifted the heap, knows the largest free arena over it (`BestLeft`), and no free arena over it
is just over a block that may move (`NoneBelow`), if none were side by side. A free arena joined, a block put in over
where the walk is, and an arena passed each keep that; each takes `Ahead` down by six, so that the walk
is over when its steps are. A pass discards a level, after which none has a block as high
(`NoneFrom`), and fifteen leave none to be discarded (`Compacts`).

`HeapProofs` has the calls. Making a block `Makes` a heap that differs by that block (`Got`),
or refuses it of a heap that is `Full`; a call then `Leads` to a heap whose handles are
`Treated` as their programs allowed: none locked is moved, and none discarded before all of higher levels.
`LeadsBar` excepts the handle and the block a call is made for. LocalShrink is proved on the way down:
what lies over the `Edge` is past what is kept, no handle is of anything there, and the heap
`Sinks` to a lower edge with each arena taken, though blocks move down and the heap may be compacted again in between. That this compaction
discards nothing (`Stuck`), the first having discarded all it could or had no free arena, is what lets
handles be followed through it. So each call makes a `HeapStep`, and the properties are read off that.

A recursive function has no induction rule that the prover can use, but numbers have a
least (`Least`). So each is shown to be as it is defined by what its first steps come to
(`StepsOf`, `DiscardsOf`, `PassesOf`): of two such sequences that differ there is a
least place where they do, and there they cannot. What holds of every step is shown in the same way.

`OwnProofs` puts the timers and the heap together: `OwnTyped`, `OwnSpec => []OwnTypeOK`, from
`OwnInvariant`.

`SequenceLemmas` holds what several of these need: what `InsertAt`, `RemoveAt`,
`Append` and `Front` make of a sequence, cell by cell, and that of numbers there is a least.

Only model-checked is liveness (`CallsReturn`): the prover does not reason about fairness and
ENABLED. Every other property of a passing run is proved of every instance its theorem's
assumptions and hypotheses allow.

## Not modelled

What each module leaves out is said with it. As a whole, the specifications follow what runs
beside one another: tasks, their queues, what they share. Most of the repository is not of
that kind. The cores (CPU, FPU, OPL), GDI, the rasters and fonts are numeric functions
tested against recordings and vectors, and a copy of them in TLA+ would say nothing of its own.
Windows, dialogs, menus and controls are one very large sequential state. `kept.rs`, the
largest file, is a table. Files, loader, hosts and the TypeScript engine, which the Rust
one follows, are I/O, formats, or the same again. So the lines that definitions stand for are
a small part of all, and would be so with the plan done.

Three things that the code says of itself have no property: the third task that comes between a task and the one it starts (`tasks.rs:256`), what is posted
while PeekMessage yields between its two looks (`queue.rs:1073`), and a ring asked
for that is longer than its segment (`queue.rs:154`, excluded by `SizesAssumption`).
