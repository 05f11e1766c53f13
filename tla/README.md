# Verification of the XOS kernel (k210-os)

TLA+ models of the kernel under `src/src`, the TLC runs that check them and the
theorems TLAPS proves about them. Every definition is written from the C code;
`PROJECT.json` maps each one to its lines.

## 1. Inventory

XOS is a RISC-V kernel for the K210 board in the tradition of xv6 and rCore.

| part | files | state | operations | hard because |
|---|---|---|---|---|
| spin lock | `sync_spinlock.c` | `locked`, `cpu` per lock; `depth_of_ir`, `ir_enable` per hart; SSTATUS.SIE | acquire, release, push_off, pop_off, holding | several harts, an interrupt between any two statements |
| timer, traps | `timer.c`, `exception.c` | TICKS, the trap context | timer_handle, exc_handler, system call table | the handler takes locks the interrupted code may hold |
| task manager, dispatcher | `tk_manage.c`, `tk_proc.c`, `list.c` | ready_queue, all_task, sleep_vec, wait queues, `cpus[].current` | task_add, task_fetch, run, schedule, sleep, wakeup_fromwq, wakeup_fromsv | one list node per task for all queues; wake-ups and sleeps must not cross |
| process life cycle | `tk_task.c`, `tk_pid.c`, part of `syscall.c` | task_status, parent, child, exit_code, cwd, tcb_lock | fork, execve, exit, yield, waitpid | locks kept across schedule(), orphans, retries after a failed copyout |
| pipe | `fs_pipe.c` | ring buffer, `nread`, `nwrite`, open flags, two wait queues | pipealloc, pipewrite, piperead, pipeclose | calls cut in pieces by sleeping, counters that wrap, closing ends |
| physical pages | `mm_frame_allocator.c`, `max_heap.c` | boundary `current`, array heap of recycled frames | frame_alloc, frame_dealloc | stale cells, empty heap, an unusual way of taking frames from the heap |
| kernel heap | `bitmap_buddy.c`, `mm_heap_allocator.c` | tree of block sizes, bitmap layers | buddy_alloc, buddy_free | size arithmetic on logarithms, early return with the lock held |
| address spaces | `mm_memoryset.c`, `mm_page_table.c` | areas, frame lists, page tables | from_elf, from_existed_user, brk, mmap_handler, ms_ma_free | overlap, double mapping, frames to give back |
| open files | `fs_file.c`, part of `syscall.c` | ftable, `ofile[]` | filealloc, filedup, fileclose, fdalloc, sys_pipe, sys_dup | reference counts over fork, dup, exit and failing calls |
| semaphore, buffer cache | `sync_sem.c`, `fs_buf.c` | value, waiters; refcnt, LRU list | sem_wait, sem_signal, bread, bwrite, brelse | an unsigned value compared with 0; a fixed number of buffers |
| FAT32 | `fs_fat32.c` | FAT chains, entry cache | eget, eput, ealloc, eread, ewrite, etrunc, dirlookup | cached cluster positions, full disk, nested entries |
| SD card, K210 devices | `d_sdcard.c`, `d_spi.c`, `d_dmac.c`, `d_sysctl.c`, `d_fpioa.c`, `d_gpiohs.c` | device registers, the driver's semaphore | sdcard_init, sector read and write, DMA and polled transfers, pin routing, clocks | hardware running beside the processor, a card with modes and phases, retries, unbounded polls |
| console, boot | `console.c`, `main.c`, `sbi.c` | | the order of initialisation | |

How they interact: a trap reaches `syscall.c`, which calls the process, pipe,
file and memory operations; these sleep and wake tasks through `tk_proc.c`, whose
`run()` loop is the only place where a task is chosen. All of them use spin
locks; exit touches every part (children, address space, files, cwd, parent's
wake-up). Fork copies what a task owns in each part.

Two facts of the boot code (`main.c`) shape everything above the spin lock:

* hart 0 enters `task_run()` and never returns from it, so `started` is never set
  and hart 1 spins: one hart runs tasks;
* `set_next_trigger()` is commented out: no timer is armed. A task gives up the
  hart only where the kernel calls `schedule()`.

So the modules above `SpinLock` take as one step everything a task does between
two calls of `schedule()`. A lock taken and given back within such a step is
invisible; a second acquire of a lock that a sleeping task kept is a panic, since
`acquire` finds its own hart in `lk->cpu`.

What makes each part correct: the spin lock excludes and restores interrupts;
every task is in the one queue its status names; the family tree stays whole and
no wake-up is lost; a pipe is a FIFO whose callers return when they can; no page
is handed out twice and none is lost; heap blocks are disjoint; page tables and
areas agree and no frame has two uses; what the buffer cache returns is what is on
the card, and a transfer ends; a cached directory entry is what its directory
says, reference counts are the number of references, and no two files share a
cluster. The hazards behind these are listed, with
their lines, in `PROJECT.json`.

## 2. Modules

| module | models | uses |
|---|---|---|
| `SpinLock` | `sync_spinlock.c`, `timer_handle`'s locking | |
| `MCSpinLock` | instance for TLC | `SpinLock` |
| `SpinLockProofs` | theorems | `SpinLock` |
| `Scheduler` | queues, `run()`, `schedule()`, wake-ups | |
| `SchedulerProofs` | lemmas on the queues | `Scheduler` |
| `Process` | `tk_task.c` and its system calls | `Scheduler` |
| `ProcessProofs` | theorems | `Process`, `SchedulerProofs` |
| `PipeFifo` | what a pipe promises | |
| `Pipe` | `fs_pipe.c`, shown to implement `PipeFifo` | `Scheduler`, `PipeFifo` |
| `MCPipe` | instance for TLC | `Pipe` |
| `PipeProofs` | theorems | `Pipe`, `SchedulerProofs` |
| `PageRange` | the constants of the page allocator | |
| `FramePool` | what the page allocator promises | `PageRange` |
| `FrameAllocator` | `mm_frame_allocator.c` + `max_heap.c`, shown to implement `FramePool` | `PageRange`, `FramePool` |
| `FrameAllocatorProofs` | theorems | `FrameAllocator`, `FramePool` |
| `Fpioa`, `Sysctl`, `Dmac`, `Spi` | `d_fpioa.c` + `d_gpiohs.c`, `d_sysctl.c`, `d_dmac.c`, `d_spi.c` | `Dmac` uses `Sysctl`, `Spi` uses `Dmac` |
| `Semaphore` | `sync_sem.c` | |
| `SdCard` | `d_sdcard.c`, and the card | `Fpioa`, `Spi`, `Semaphore` |
| `BufferCache` | `fs_buf.c` | `Semaphore` |
| `Storage` | `main.c`'s device bring-up, `fs_disk.c`, fat32_init, buffer users | `SdCard`, `BufferCache` |
| `MCStorage` | instance for TLC | `Storage` |
| `StorageProofs` | theorems | `Storage` |
| `Buddy` | `bitmap_buddy.c` | |
| `BuddyProofs` | theorems | `Buddy` |
| `AddressSpace` | `mm_memoryset.c`, `mm_page_table.c`, `tk_pid.c`, the memory part of fork, exit, brk, mmap and faults | `PageRange` |
| `AddressSpaceProofs` | theorems | `AddressSpace` |
| `Fat` | `fs_fat32.c` as operators on a volume | |
| `Files` | `fs_file.c` and the file system calls | `Fat` |
| `MCFiles` | instance for TLC | `Files` |

Names ending in `_Something` after a definition's name (`PopOff_Twice`,
`Dispatch_Lifo`) are faulty variants of that definition. They are used by no
specification; replacing the original by one of them must make a named property
fail, which shows that the property constrains the code.

### SpinLock

One action per statement of push_off, acquire, release and pop_off. A hart has a
task flow and a trap-handler flow; the handler runs whenever SIE is set, between
any two statements, and makes timer_handle's calls: tickslock, mytask (a bare
push_off/pop_off) and, if there is a current task, its tcb_lock. Task flows call acquire and release
freely, except that they do not acquire what they hold or release what they do
not. `held` records whose exchange set the lock bit; `base` remembers SIE at the
start. The exchange that finds the bit set is not a step: the loop changes
nothing. The two reads of holding() are separate steps in acquire; in release
the lock is the caller's own, nobody else writes its fields, and they are one.

### Scheduler and Process

`Scheduler` has no specification of its own: it holds the queues' state and the
effects of `run()` (`Dispatch`), suspend and the two wake-ups, which `Process` and
`Pipe` combine with theirs in one step, as the code does. `current` survives
`schedule()`, as in the code; `idle` says whether the hart is in `run()`.

`Process` has an action for each outcome of a system call: normal return, error
return, sleep, and each panic. waitpid's loop is a turn per dispatch: `call` keeps
the arguments of a task asleep in it. Exit codes are words `[val, bytes]`, val
shifted left by 8 bits `bytes` times, since waitpid shifts the stored code in
place. `sent` and `got` are history variables. A panic stops everything; which
panic it was is kept.

`BootTasks` is how many programs `file_search()` loaded. In this commit its loader
is under `if (0)` with the condition to test in the comment above it
(`fs_fat32.c`, 1066), so the shipped value is 0; with 0 INITPROC has no cwd, its
children inherit none and the first exit faults in `eput(NULL)`. The values 1 and
2 are the loader switched on: loaded programs have a cwd and can fork, exit and
wait, which is the configuration the rest of the code is written for. Loaded
programs name INITPROC as parent but are not on its child list, so nobody can
collect them; `FamilyTree` says so by speaking of forked tasks.

Left out of `Process`: address spaces (`AddressSpace`), descriptors (`Files`; exit
closes files, which may wake a pipe's sleepers), times, execve's loading. `sys_exec` ends in
`panic("stop !")` whatever it did.

### Pipe

Tasks either read or write one pipe. A write's buffer is a sequence of bytes,
ending in NULL where copyin2 fails; a read has a count and the room its buffer
has before copyout2 fails. Calls store or take as many bytes as the loop does
before it sleeps or returns. `UINT` stands for 2^32; it is a multiple of PIPESIZE
as 2^32 is of 512. `holds` counts who still has the descriptor: the last close of
an end is pipeclose. A task that holds both ends, and sys_pipe's error paths,
are not modelled.

`PipeFifo` is the promise: bytes come out in the order they went in, each once; a
read comes back with nothing only at end of file or if it asked for nothing; a
read whose buffer faults loses exactly one byte. The refinement maps the ring
buffer to the sequence of its unread bytes.

### FrameAllocator

The array heap is modelled cell by cell, cells beyond `CurrentSize` included,
because frame_dealloc reads cell 0 of a heap that may be empty. The three loops
(heap_SiftUp, heap_SiftDown and frame_dealloc's lowering of the boundary) are
`Loop`s of one turn each (`SiftUpStep`, `SiftDownStep`, `TrimStep`), with a bound
on the turns that the proofs show to be enough. `used` is what the callers own. `FramePool` is the promise: allocation takes a recycled frame or
the next fresh one; a free lowers the boundary past every free frame on top of
it; freeing what nobody owns panics. The refinement maps the array to the set of
its counted cells.

### Storage: from the pins to the buffer cache

`Storage` composes everything between `main()` and a sector of the volume. One
kernel thread executes it (no call on this path gives the hart away), so its
steps end where hardware has to act: the DMA engine, the SPI shift register and
the card are actions of their own, marked external.

* `Fpioa` holds the whole table function_config and fpioa_set_function; the pads
  in `LeftPads` may carry any of the card's functions at power-on. fpioa_init is
  commented out in the source, so the tie fields of the table (set in the two
  rows for SPI0_ARB and SPI1_ARB) are never applied and are left out.
* `Sysctl`: gates, PLL1 and DMA routing. spi_init's call of spi_clk_init is
  commented out, so the kernel relies on the gate of SPI0 being open when it starts;
  that is an assumption of Init. Gates that main() and dmac_init open are modelled.
* `Spi`, `Dmac`: every transfer goes through a block of the kernel heap
  (`bounce`), allocated and freed by the driver; a DMA transfer ends when the
  engine clears its enable bit. Polled transfers are one step.
* `SdCard`: initialisation (CMD0, CMD8, CMD58, ACMD41, CMD16) and its loops, the two
  transfers with their waits, every panic. The card is standard or high capacity,
  may lose or refuse any command, and may report a failed write. A
  loop that polls for a byte is one step that sees it or runs out; a loop that
  repeats a command counts to `TIMEOUT` (3 for 0xff and 0xfff).
* `Semaphore`: `uint value` makes sem_wait a subtraction that wraps (`UINT_RANGE`,
  16 for 2^32, is never approached) and never sleeps.
* `BufferCache`: `bget`, `brelse` and the LRU order. The file system holds at most
  one buffer at a time; reading `fs_fat32.c`, every bread is followed by its brelse before
  the next bread, zero_clus included.
* `Storage`: disk_init reads sector 1 to find out whether the card has a partition
  table, comparing all four bytes of `fi` after copying two: the other two are
  whatever the stack held, so the test may fail on an unpartitioned card. The
  number then read at offset 0x1C6 of a boot sector is one of `StrayLbas`.
  fat32_init's checks of the boot and FSInfo sectors stop the kernel at every
  place but one: a FAT32 volume has a copy of both (`BkBoot`, sectors 6 and 7 on a
  real one), and a stray number that leads there is mounted. `MountedBootSector`
  says just that, and that a partitioned card is always mounted right. It does not say that
  the volume is used from where it starts: mounting the copy is a behaviour of the model,
  as it is of the code.

### Buddy

The tree is the one of the code: nodes hold logarithms, the two lowest layers
single bits. The descent of buddy_alloc and the way back of both operations are
functions of the number of turns, at most `MAX_LOG` = 29, since buddy_new counts
its 2 * size - 1 nodes in an int. Callers allocate sizes from `Requests` and free what they were given.
buddy_free marks a node whole when the logarithms of its children add up to its
own (3 + 4 = 7); the history variable `misled` is set when that happens while a
block below is in use. It is reachable in a heap of 128 bytes, and allocations
overlap after it. The properties are about everything before, and show that this is
the only way to overlap. buddy_alloc's early return keeps the lock: `failed`.

### AddressSpace

Areas, data frames, page-table nodes and entries of each task and of the kernel
space. `NewTask` makes a space, its areas and then the kernel stack; it is a step of
the boot (`AddInitproc`, `Load` for each of `LOADED` programs) and of fork. A
system call or a fault of user code is a `Trap`. The lowest free frame is taken,
one of the choices `FramePool` allows. The operations take a `Memory` (the space, the
frames in use, what went wrong) to a `Memory`: once a panic has happened they change
nothing, and the step leaves the spaces as they were. A page fault of K210 arrives as load or
store access fault and goes to mmap_handler; instruction faults end the task.
As in the code: fork copies the areas and not the vma list, though the comment on
from_existed_user speaks of an identical copy; exit gives back the frames of areas
and keeps page tables, pages of file mappings and the kernel stack; sys_munmap
does nothing; brk downwards moves base_size only. mmap's filedup, never undone,
belongs to the file and is left out. execve is left out, since sys_exec panics
after it. `strange` is the history that `RemapHasCause` is about.

### Fat and Files

`Fat` gives each function of `fs_fat32.c` as an operator from a volume (FAT, slots,
entry cache, LRU order) to a volume and a result; `Files` is the state machine of
system calls over it. Each call is one step, as nothing in the file system gives
the hart away. Offsets count slots of 32 bytes, and a name takes two slots; a
cluster has `CLUS` of them. What the code does and the model keeps:

* alloc_clus scans the sectors of the table to their end, `FAT_LAST`, beyond the last
  cluster of the volume, `LAST_CLUS`. A cluster it finds there is marked and zeroed,
  but read_fat answers 0 for it and write_fat leaves it alone: the chain goes on in
  cluster 0, and etrunc does not free it. With the table full alloc_clus returns 1.
  Files go on in clusters 0 and 1, whose entries become links like others, and can
  meet there; their sectors are those of the second copy of the table, which the
  kernel does not read. A directory that gets there would be
  read from that copy, and the model stops. The card is taken to go on behind the
  volume. `ChainsSound` is about the clusters in the volume and the cursors, on a full
  disk too. `InsideUntilFull` says that chains and cursors stay in the volume until a
  cluster is wanted that it does not have (`vol.full`), and no more can be said: the
  next write to a file may continue in cluster 0 (`fs_fat32.c`, 246 and 194), against the
  "no 0 and 1" in the comment on first_sec_of_clus.
* filewrite does not ask whether the entry is a directory, and fileopen's check is
  commented out. The bytes written could be anything enext makes of them: the model stops
  after such a write.
* emake writes "." and ".." when the offset is 0 or 32, whatever the name: a
  new name in the first two places of a directory that does not begin with them (the root, an empty
  chain) is replaced. `dotted` records it; afterwards the cache and the disk disagree.
* a refused openat puts the reference of its directory's descriptor (`stolen`);
  openat without O_CREATE dereferences NULL; unlink of a missing path too.
* unlink takes its reference off the entry directly, without eput: the parent keeps
  the reference the entry had on it (`unlinked`), eput's branch for removed entries is
  never reached, and the clusters of an unlinked file are not freed.
* getdents reads an uninitialised `valid`; the panic it may cause is a choice.
* file_search at boot loses one cache entry per directory searched. The image has
  one directory below the root (two entries lost): with two siblings the path of the second is built
  on uninitialised memory.

Loaded programs run with the root as cwd, as in `Process` with `BootTasks` 1.
Not in the model: names that are illegal or need conversion, failing copies, the
read/write flags of a descriptor (the attribute they set is always 0), descriptors of
the console and of pipes.

## 3. Runs

| run | instance | checks | result |
|---|---|---|---|
| `spinlock` | 2 harts, 3 locks | MutualExclusion, HolderMasksIrq, NoPanic, DepthMatched, IrqRestored | hold |
| `process` | 5 tasks, 2 loaded, WNOHANG, failing copyout | TypeOK, QueueDiscipline, FamilyTree, NoLostWakeup, ZombiesStay | hold |
| `process_blocking` | 5 tasks, 2 loaded, blocking waits, valid addresses | LockedOnlyInWaitpid, StatusCollected, ReadyQueueServed, LoadedStarted, WaitCompletes | hold |
| `process_shipped` | 3 tasks, none loaded | NoDeadLock | violated |
| `process_nohang` | 3 tasks, 1 loaded, WNOHANG | LockedOnlyInWaitpid | violated |
| `pipe` | 1 reader, 1 writer, PIPESIZE 2, counters modulo 4, calls of up to 3 bytes | TypeOK, QueueDiscipline, SleepersHaveReason, ImplementsFifo, CallsFinish, no deadlock | hold |
| `pipe_two_readers` | 2 readers, 1 writer | CloseWakesAll | violated |
| `frame_allocator` | 6 frames | HeapOrdered, ImplementsPool | hold |
| `storage` | 2 buffers, 2 tasks, 9 sectors, either card, partitioned or not | SdPinsRouted, DmaOnLiveBlock, CommandsMeetReadyCard, CacheCoherent, SemaphoresExact, MountedBootSector, TransfersEnd | hold |
| `kernel_heap` | 128 bytes, requests of 5, 12, 24, 64, five blocks | BlocksDisjoint, BlocksFoundAgain, PanicsAfterFailure | hold |
| `address_space` | INITPROC, one loaded program, one child, 37 frames, five traps | FramesPartitioned, TablesMatchAreas, BelowBreakMapped, RemapHasCause | hold |
| `files` | one program and a child, 2 open files, 5 descriptors, 5 cache entries, one free cluster and one entry of the table past the volume, four calls | CachedNamesTrue, RefsExact, ChainsSound, InsideUntilFull | hold |

Bounds. Two harts and three locks give every kind of contention: two tasks, a
task and its own handler, a task and the other hart's handler, nested locks
released in any order. Five tasks give three generations (loaded program, child,
grandchild), orphans dead and alive, and two loaded programs competing for the
queue. A pipe of two bytes with calls of three makes a writer sleep in mid-call
and buffer and counters wrap within a few calls. Six frames give a heap with
three levels, so that a sift moves more than one cell. Two buffers and three data
sectors recycle a buffer on most reads; the last sector of the card holds the
FSInfo of an older volume, so a stray volume start can pass one of the two checks or, at the copies of boot
sector and FSInfo, both. `BkBoot` is 2 there to keep the card small.
A heap of 128 bytes has three layers of logarithms above the bitmap, enough for a
wrong sum; requests include one below the smallest block, one in each bitmap
layer and one of half the heap. 37 frames are fewer than the 40 pages below the file mappings, and than the tasks
can ask for in five traps, so "no_frame_to_alloc" is reached as well as a page mapped twice; pages of two bytes
let a break end inside a page. In `files` a call
writes two clusters' worth, so that four calls suffice to fill the disk and the table and to
reach cluster 0, to exhaust the cache, to take over a cached slot and to truncate
a file that is open elsewhere; the same instance was run once with five calls (427,401
states) with the same result.

The type invariants of `SpinLock` and `FrameAllocator` are theorems (section 4) and in no run.

`CHECK_DEADLOCK FALSE` where the system may stop: after a panic, and when every
pid of the instance is used or every task has exited and `run()` idles.

The violations:

* `process_shipped`: INITPROC forks, calls waitpid and sleeps holding its
  tcb_lock; the child's exit acquires that lock unconditionally
  (`tk_task.c`, 85) and panics, against the comment in sleep() that this case is
  prevented.
* `process_nohang`: waitpid's break for WNOHANG (`tk_task.c`, 295) skips the
  release, against "they are matched" in `sync_spinlock.c`.
* `pipe_two_readers`: pipeclose wakes one sleeper (`tk_proc.c`, 270), against the
  description of wakeup in `sync_sem.c`.

The passing runs contain these panics too: `process` includes WNOHANG, failing
copyouts and INITPROC waiting, and its invariants are about everything up to the
panic. `process_blocking` leaves out WNOHANG and bad addresses because
LockedOnlyInWaitpid fails with the first and StatusCollected with the second
(`exit_code` is shifted again on the retry, `tk_task.c`, 264).

### Fairness

In `Storage` it is weak fairness of the kernel thread, which no interrupt and no
other task holds up, and of the hardware: the DMA engine moves data when its
channel is enabled and routed, the FIFO drains, the card ends its programming.
The card owes no answer to a command. `TransfersEnd` is what the driver makes of it.

Above the spin lock the only fairness is weak fairness of `Run`: the idle loop is an endless loop on
hart 0, so a task that can be fetched is fetched. Nothing is assumed of tasks: a
task may run for ever without a system call, and nothing preempts it. The
liveness properties therefore have the premise `[]<>idle`, tasks keep giving up
the hart, and `ReadyQueueServed`, `WaitCompletes`, `CallsFinish` and `CloseWakesAll`
say what the kernel makes of that. `LoadedStarted` needs more: run() starts a loaded
program only when its fetch has emptied ready_queue (`tk_proc.c`, 304). Two tasks that yield to
each other keep it from that, and another program waits in all_task for ever, although
`tk_manage.c` speaks of "the simplest RR algorithm". Its premise is that the queue
runs down to one task again and again.

## 4. Proofs

Each theorem is about `Spec` of the module the run checks, and holds for every
value of the constants that the named ASSUMEs of that module allow. None of the
properties below is inductive as it stands; what had to be added is the content of
each paragraph.

`SpinLockProofs`, for any set of harts and any finite set of locks, under
`SpinLockAssumption` only (the named locks are locks, NULL is neither a lock nor a
hart):

* `TypeCorrect` and `SpinLockExcludes`. MutualExclusion says nothing that ties a
  lock bit to a holder, so acquire could take a lock that is held. `LockInv` adds
  that a held lock's bit is set, and that a flow between its exchange and its
  clearing store holds the lock it is working on.
* `IrqInvCorrect`, from which `PushPopMatched` and `HoldersMaskInterrupts` follow.
  The invariant relates, per hart, SIE, the trap state, where each flow is in its
  call and depth_of_ir: past irq_disable interrupts are off, in a trap the
  interrupted flow holds nothing and is before irq_disable or between calls, and
  the depth is the sum of both flows' push_offs. Without the trap part an
  interrupt could arrive over a holder; without the sum pop_off could re-enable
  interrupts early.
* `NeverPanics`. `OwnerInv`: lk->cpu names the holder from the assignment in
  acquire to the one in release, and no one else's hart at any time, so holding()
  answers truly though it reads two fields that other harts write.
* `InterruptsRestored`. `RestoreInv`: what ir_enable keeps is the value SIE had
  before the first push_off, also when an interrupt comes between reading SIE and
  storing it.

`SchedulerProofs` has the lemmas that Process and Pipe share. `QueueInv` says that
no task is in a queue twice, that no two queues share a task, and that the queue
is the one the status names; it survives run(), suspend, sleep and both wake-ups.

`ProcessProofs`, for any number of tasks and loaded programs (`ProcessAssumption`):
`QueuesExact`, `FamilyTreeSound`, `NoWakeupLost` and the action property
`ZombiesRemain` from `ProcInv`. Its parts are QueueInv; `PidInv` (pids are given in order,
INITPROC never exits); `ListInv` and `CareInv` (a child list holds its owner's
uncollected children, each once, and every forked task that was not collected is on
the list of a live parent, which is what exit's reparenting has to keep); and
`WaitInv` (who is inside waitpid holds its lock, who sleeps there has no zombie to
collect). Two theorems have a condition on the calls, and the code needs it:
`LocksReleased` that waitpid is called without options, as the run `process_nohang`
shows the lock kept otherwise; `StatusIsTheCode` that status addresses are valid,
since a failed copyout leaves exit_code shifted.

`PipeProofs`, for any readers, writers, PIPESIZE and counter width that PIPESIZE
divides (`PipeAssumption`): `TypeCorrect` (never more than PIPESIZE bytes),
`QueuesExact`, and `PipeIsFifo`, the refinement of `PipeFifo`, initial states and
every step. The work is in the counters: the number of unread bytes is
`nwrite - nread` modulo the width, and the cells `nread % PIPESIZE` onwards are the bytes
in order, also while a counter wraps and the other has not, which is where PIPESIZE
dividing the width is used. `NoSleepWithoutReason` is for one reader and one
writer: with two readers a wake-up takes one of them only, and the second may sleep
beside bytes it could read; the run `pipe_two_readers` shows what comes of it at close.

`FrameAllocatorProofs`, for every page range (`PageRangeAssumption`): the array heap
implements `FramePool` (`AllocatorIsPool`), so the pool's three promises hold of the
code (`AllocatorKeepsPromises`), the array stays a heap (`HeapStaysOrdered`) and the fields keep their types (`TypeCorrect`). The
argument has three layers.

* Loops. A loop is a function of the number of turns. The library's induction rules
  take a predicate and cannot be used, so `Induction` is stated with a set, and
  derived from the well-foundedness of the naturals. `HistoryExists` gives the
  sequence of a loop's states, `Settles` says that a measure that each turn lowers
  brings the loop to rest within the bound.
* What the loops compute. `UpStates`, `DownStates` and `TrimStates` are the
  loop invariants: a heap except at the moving cell, with the same elements. They give
  `InsertAdds` and `RemoveTakesRoot`. `RootIsMax` makes the test
  at cell 0 the right one in frame_dealloc. `FullHeap`, a pigeonhole argument, shows
  that an array of distinct frames below the boundary cannot overflow, so heap_insert's
  panic is unreachable.
* `FrameInv`: the counted cells are a heap of distinct frames, disjoint from those in
  use, and together they are what lies below the boundary. The step of a free rests on
  `TrimLowers`: the loop stops at the lowest boundary, and it stops when it has
  emptied the heap, because the stale cell 0 it then reads still holds the frame it
  removed last, which is no longer below the boundary.

The pool's promises are the last section of that module, about `FramePool` with
`recycled` a variable of its own, so that they hold of any implementation:
`FramesAreConserved` (owned and recycled frames partition what lies below the boundary),
`BoundaryIsTrimmed`, `NoFrameTwice` (an allocation never returns a frame in use). The
invariant is their conjunction; each free needs the partition to know that the
frames it takes off the top were not in use.

`StorageProofs`, for any card, volume, number of tasks and of buffers
(`StorageAssumption`): `DmaBlockLives`, `CardIsReady`, `SemaphoresAreExact`,
`CacheIsCoherent`, `BootSectorMounted`, `CacheNeverPanics` and `PinsStayRouted`. `StoreInv` says of a kernel
that has not halted that `DriverInv` (registers, the card's phase and the driver's semaphore
are those of the line the driver is at), `TransferInv` (the heap block, the FIFO and the card
hold the data of the job), `CallInv` (the job is what the caller needs), `HoldInv`
(one buffer at most is referenced, its semaphore is the one taken), `CopyInv` (a valid
buffer not being written is a copy of its sector, no sector has two) and `VolumeInv`
(until a volume is found, the only boot sectors on the card are the volume's own and its
copy, as nothing was written, and DBRsec on a partitioned card is 0 or where the volume
starts; after that, DBRsec is at one of the two, on a partitioned card the first). CacheCoherent alone is not inductive because
between the caller's write and the end of the DMA the buffer and the card differ, and
the data must be followed through each place it is in.
The assumption that counts is that file data and unused sectors do not look like an FSInfo
or boot sector; without it a stray start could be mounted at more places than the copy.
`PinsStayRouted` has an invariant of its own, `PinsInv`. fpioa_set_function takes a
function from every pad it was on (`SetFunction`), so the five calls of fpioa_pin_init do not undo
one another (`RouteOne`) because their pads and functions differ, whichever pads `LeftPads`
names; gpiohs_set_drive_mode then finds the chip select at pad 32 and changes its pulls
only. `SdConfig` reads the six rows that are applied out of the table.

`AddressSpaceProofs`, for any number of frames, tasks and traps, any arity of the page
tables and any sizes of programs and stacks: `FramesPartitionedHolds`,
`TablesMatchAreasHolds`, `BelowBreakMappedHolds` and `RemapHasCauseHolds` from
`AddressInvariant`.

* Loops. ma_map and the list of areas are recursive functions; `TurnsExist` gives a loop
  its history, and `MaMapFacts` and `PushAllFacts` say what the turns leave behind. They
  carry `Exact` (the frames of the space and those of others are the frames in use, none
  twice), `Match` (entry and recorded frame agree, and the tables on the way exist) and
  `MappedTo` (the pages mapped were new).
* One space. None of the properties survives brk alone: that a grown break runs
  into no file mapping needs `Low` (areas lie below VMA_START), and brk does not check it. It holds
  because all pages below the break but one have a frame of their own, and there are fewer
  frames than pages below VMA_START (`FramesBoundPages`, a pigeonhole argument): the kernel runs out of
  frames first. `Sound` has this, `Disjoint`, and where mmap puts mappings (`Placed`).
* The assertion in map. `Sane` says of a task without a strange past that its break is a
  whole page, no area reaches above it, and an entry of a file mapping permits what the mapping does,
  so that a fault on a mapped page cannot come back to mmap_handler.
* All spaces. `Partitioned`: spaces own disjoint frames, and used is their union; exit
  gives back what only the dying task's areas own (`GoneExact`). Kernel stacks of two pids never
  share a page (`KernelStacks`), and pids are given in order (`InOrder`), so ks_new finds its pages free.

`LayoutAssumption` is what the proof needs of the constants. In the code VMA_START is
page 0x40000, the memory of 8 MB has 2048 frames, and programs are linked low. The last part,
that MAX_VMAS mappings of the lengths in `Lengths` end below the trap context, is a
restriction on what user code asks for: sys_mmap checks no length, but with the trap
context at the top of 64 bits a task would need lengths near 2^64.

`BuddyProofs`, for every heap of 2^7 to 2^29 bytes and any sizes of requests
(`BuddyAssumption`): `BlocksStayDisjoint`, `BlocksAreFoundAgain` and
`PanicsOnlyAfterFailure` from `HeapInvariant`. Like the properties they are about a heap
that buddy_free has not misled.

* Geometry. A node's bytes are those of its two halves (`Halves`), a node above covers
  those below (`PathUp`), and two nodes that share a byte are on one path to the
  root (`SharedByte`). So whether blocks overlap is a question about paths.
* Recursion. `RecursionExists` gives the recursive functions (powers, sizes, paths,
  turns of the loops) the equations that define them; `StrongInduction` is stated with a set.
* The descent. A node that promises a size and is neither whole nor in use has a half
  that does (`GoodHalf`), and it is the one `GoesLeft` picks; so the node found is free as a
  whole (`FoundIsFree`).
* The way back. `ClimbAdvances` and `WayBackIs`: it ends at the root with every node
  above the changed one `Settled`, that is, as the last statement on it left it, and the others untouched.
* `TreeInv`. Blocks are cut from nodes that hold zero (`Cut`) and are `Apart`; a node
  that holds zero is filled with blocks within it (`ZeroFilled`); a node promises no more than a
  half of it, unless it is whole (`Kept`); a node that claims to be whole, and is not
  part of a block, is free (`WholeFree`). Disjointness alone is not inductive: an allocation
  trusts the numbers it reads. After a free `WholeFree` is what not being misled means;
  the free keeps the other parts whatever it merges.
* Finding blocks again. Below the node of a block nothing holds zero (`NoZeroBelow`), so a climb
  from the lowest layer stops at that node (`NodeAtIs`). The sum of buddy_remain_size is
  the number of bytes covered (`DisjointSum`), for the first zeros and for the blocks alike (`InUseIs`).

Only model-checked:

* liveness (`ReadyQueueServed`, `LoadedStarted`, `WaitCompletes`, `CallsFinish`, `TransfersEnd`): the prover
  has no fairness;
* Fat and Files: recursive operators.

## 5. Not modelled

* The functions of the vendored drivers that the kernel does not call, the
  real-time clock (set once, read for printing), CLINT access, SBI calls, entry
  code and context-switch assembly: registers without a protocol of the kernel's own.
* Console, formatting and string functions: no state that other parts read.
* `bitmap.c` has no caller; bpin, bunpin and pid_dealloc neither.
* System calls that only report (uname, times, getcwd, fstat), munmap (a stub), and
  sys_exec beyond its panic.
* sys_pipe's error paths and console descriptors; a task that holds both ends of a pipe.
* FAT name conversion (long names, checksums, case).
* buddy_alloc returning NULL to `d_spi.c`, which does not check it: the heap of `Buddy` and
  the driver's blocks of `Storage` are separate models. Freeing a frame number below the
  managed range, which frame_dealloc does not check and no caller does.
* Crashes: the file system has no recovery, and a card pulled out half way is
  not a case the code handles.
* `bootloader/` and `tools/` are third-party.

## 6. Plan

What remains, in order of importance:

1. Proofs: AddressSpace over any choice of a free frame, where the theorems now have
   the lowest; the chains of Fat, once its recursive operators are functions of the number of turns.
2. `Kernel`, composing Process, Files and Pipe, so that exit's closing wakes pipe
   sleepers and one task may hold both ends; sys_pipe's error paths.
3. An abstract file store (names to contents) and the part of `Files` before
   `dotted` and `stolen` shown to implement it; today's properties are invariants of
   the representation.
