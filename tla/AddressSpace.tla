--------------------------- MODULE AddressSpace ---------------------------
(***************************************************************************)
(* The address spaces of the user tasks (mm_memoryset.c, mm_page_table.c): *)
(* areas with the frames behind their pages, three-level page tables that  *)
(* take frames of their own, the break, mappings of files that are filled  *)
(* in on first access, and the kernel stacks.  Spaces are made at boot and *)
(* by fork, grow by brk and mmap, and are taken down by exit.              *)
(*                                                                         *)
(* Frames come from frame_alloc.  Which of the free ones it hands out      *)
(* makes no difference to its callers; here it is the lowest, which is one *)
(* of the choices of FramePool.                                            *)
(***************************************************************************)
EXTENDS PageRange, FiniteSets, FiniteSetsExt, Sequences, SequencesExt, Functions

CONSTANTS
    PAGE_SIZE,          \* bytes of a page
    PTES,               \* entries of a page table node
    USER_STACK,         \* pages of a user stack
    KERNEL_STACK,       \* pages of a kernel stack
    VMA_START,          \* first page for file mappings
    TRAMPOLINE,         \* the highest page
    InitCode,           \* pages of the first program
    TEXT, DATA,         \* pages of the segments of a loaded program
    LOADED,             \* how many programs are loaded at boot
    MAX_PID,            \* bound on the tasks created
    Breaks,             \* addresses given to sys_brk
    Lengths, Prots,     \* lengths and protections given to sys_mmap
    MAX_VMAS,           \* bound on the mappings of a task
    MAX_TRAPS           \* bound on the system calls and faults of a behaviour

ASSUME AddressSpaceAssumption ==
    /\ {PAGE_SIZE, USER_STACK, KERNEL_STACK, InitCode, TEXT, DATA}
           \subseteq Nat \ {0}
    /\ PTES \in Nat \ {0, 1}
    /\ {LOADED, MAX_PID, MAX_VMAS, MAX_TRAPS, TRAMPOLINE, VMA_START} \subseteq Nat
    /\ VMA_START < TRAMPOLINE - 1
    /\ Breaks \subseteq Nat /\ Lengths \subseteq Nat
    /\ Prots \subseteq SUBSET {"R", "W"}

(* Where things lie: there are fewer frames than pages below the file      *)
(* mappings, programs are linked below these, and the mappings of a task   *)
(* end below its trap context.                                             *)
ASSUME LayoutAssumption ==
    /\ end - start < VMA_START
    /\ InitCode + 1 + USER_STACK <= VMA_START
    /\ TEXT + DATA + 2 + USER_STACK <= VMA_START
    /\ \E most \in 0..TRAMPOLINE :
         /\ \A n \in Lengths : (n + PAGE_SIZE - 1) \div PAGE_SIZE <= most
         /\ VMA_START + MAX_VMAS * most < TRAMPOLINE

VARIABLES
    space,      \* the MemorySet of each task; KERNEL_SPACE under KERNEL
    base_size,  \* each task's break, an address
    status,     \* "none", "alive" or "zombie"
    used,       \* the frames in use
    strange,    \* history: tasks that left the break inside a page, moved
                \* it down, or mapped a file for writing only
    panicked,   \* "no", or the panic that stopped the kernel
    traps       \* how many system calls and faults there were

vars == <<space, base_size, status, used, strange, panicked, traps>>

KERNEL == 0
INITPROC == 1
Pids == 1..MAX_PID
Owners == {KERNEL} \cup Pids
TRAP_CONTEXT == TRAMPOLINE - 1
Pages == 0..TRAMPOLINE

va_floor(va) == va \div PAGE_SIZE
va_ceil(va) == (va + PAGE_SIZE - 1) \div PAGE_SIZE

(* The page table nodes below the root on the way to a page's entry. *)
Node1(vpn) == <<1, vpn \div (PTES * PTES)>>
Node2(vpn) == <<2, vpn \div PTES>>
TableNodes(vpn) == {Node1(vpn), Node2(vpn)}
Root == <<0, 0>>

Alive(t) == status[t] = "alive"
Running == panicked = "no"

(* pid_alloc: the next pid. *)
Fresh == Cardinality({t \in Pids : status[t] # "none"}) + 1

(* Task t, started once the boot has loaded every program, enters the      *)
(* kernel.                                                                 *)
Trap(t) ==
    /\ Running /\ Alive(t)
    /\ Fresh > LOADED + 1
    /\ traps < MAX_TRAPS
    /\ traps' = traps + 1

(* An area of pages, with what its PTEs permit. *)
Area(first, last, perm) == [vm_start |-> first, vm_end |-> last, map_perm |-> perm]
PagesOf(a) == a.vm_start..(a.vm_end - 1)
Covered(areas) == UNION {PagesOf(areas[i]) : i \in DOMAIN areas}

-----------------------------------------------------------------------------
(***************************************************************************)
(* What the operations work on: the MemorySet of one space and the frames  *)
(* in use, with what went wrong.                                           *)
(***************************************************************************)
Memory(t) == [ms |-> space[t], used |-> used, err |-> panicked]
Good(m) == m.err = "no"
OutOfFrames(m) == [m EXCEPT !.err = "no_frame_to_alloc"]

(* frame_alloc. *)
Free(m) == Frames \ m.used
frame_alloc(m) == Min(Free(m))

(* A map with one more entry, or another value for one. *)
With(f, x, v) == [y \in DOMAIN f \cup {x} |-> IF y = x THEN v ELSE f[y]]

(* A page table node that does not exist yet is made. *)
AddTable(m, node) ==
    IF ~Good(m) \/ node \in DOMAIN m.ms.tables THEN m
    ELSE IF Free(m) = {} THEN OutOfFrames(m)
    ELSE [m EXCEPT !.ms.tables = With(@, node, frame_alloc(m)),
                   !.used = @ \cup {frame_alloc(m)}]

(* find_pte_create: the nodes on the way to a page's entry, from the top. *)
AddTables(m, vpn) == AddTable(AddTable(m, Node1(vpn)), Node2(vpn))

(* ms_init and ms_map_trampoline: a root, and the tables on the way to the *)
(* trampoline, whose frame is the kernel's.                                *)
NoSpace == [tables |-> <<>>, pte |-> <<>>, areas |-> <<>>, vma |-> <<>>,
            data |-> <<>>]
ms_init(m) == AddTables(AddTable([m EXCEPT !.ms = NoSpace], Root), TRAMPOLINE)

(* A map that overwrites an entry. *)
MayMap_Always(s, vpn) == TRUE

(* The assertion in map: the entry is not valid yet. *)
MayMap(s, vpn) == vpn \notin DOMAIN s.pte

(* frame_alloc of ma_map_one, recorded in the area's data_frames. *)
Backed(m, vpn) ==
    IF Free(m) = {} THEN OutOfFrames(m)
    ELSE [m EXCEPT !.ms.data = With(@, vpn, frame_alloc(m)),
                   !.used = @ \cup {frame_alloc(m)}]

(* map, for a page with a frame behind it. *)
map(m, vpn, perm) ==
    IF ~Good(m) THEN m
    ELSE IF MayMap(m.ms, vpn)
    THEN [m EXCEPT !.ms.pte =
            With(@, vpn, [ppn |-> m.ms.data[vpn], perm |-> perm])]
    ELSE [m EXCEPT !.err = "map"]

(* A page gets a frame, then map makes the tables it needs and the entry. *)
ma_map_one(m, vpn, perm) ==
    IF ~Good(m) THEN m
    ELSE map(AddTables(Backed(m, vpn), vpn), vpn, perm)

(* ma_map: the pages of an area, from its first. *)
ma_map(m, area) ==
    LET upto[n \in Nat] ==
            IF n = 0 THEN m
            ELSE ma_map_one(upto[n - 1], area.vm_start + n - 1, area.map_perm)
    IN upto[Cardinality(PagesOf(area))]

(* ms_push: the area is mapped and put on the list. *)
ms_push(m, area) == [ma_map(m, area) EXCEPT !.ms.areas = Append(@, area)]

(* The areas of a list, one after the other. *)
PushAll(m, areas) ==
    LET upto[n \in 0..Len(areas)] ==
            IF n = 0 THEN m ELSE ms_push(upto[n - 1], areas[n])
    IN upto[Len(areas)]

TrapContext == Area(TRAP_CONTEXT, TRAMPOLINE, {"R", "W"})
UserStack(bottom, pages) == Area(bottom, bottom + pages, {"R", "W", "U"})

(* ms_map_uinit: trap context, code from page 0, a gap, the stack. *)
UinitAreas == <<TrapContext, Area(0, InitCode, {"R", "W", "X", "U"}),
                UserStack(InitCode + 1, USER_STACK)>>
UinitBreak == (InitCode + 1 + USER_STACK) * PAGE_SIZE

(* from_elf: the segments, and a stack one page after the last of them,    *)
(* with a page above it.                                                   *)
ElfAreas == <<Area(0, TEXT, {"R", "X", "U"}),
              Area(TEXT, TEXT + DATA, {"R", "W", "U"}),
              UserStack(TEXT + DATA + 1, USER_STACK + 1), TrapContext>>
ElfBreak == (TEXT + DATA + 2 + USER_STACK) * PAGE_SIZE

(* ks_new: the stack of a pid in the kernel's space, below a gap. *)
KernelStack(pid) ==
    LET top == TRAP_CONTEXT - pid * (KERNEL_STACK + 1)
    IN Area(top - KERNEL_STACK, top, {"R", "W"})

-----------------------------------------------------------------------------
(* new_kenel: of the kernel's frames those of its tables and its context;  *)
(* the identity mappings own none.                                         *)
KernelAtBoot ==
    ma_map_one(ms_init([ms |-> NoSpace, used |-> {}, err |-> "no"]),
               TRAP_CONTEXT, {"R", "W"})

Init ==
    /\ space = [t \in Owners |-> IF t = KERNEL THEN KernelAtBoot.ms ELSE NoSpace]
    /\ used = KernelAtBoot.used
    /\ base_size = [t \in Pids |-> 0]
    /\ status = [t \in Pids |-> "none"]
    /\ strange = {}
    /\ panicked = KernelAtBoot.err
    /\ traps = 0

-----------------------------------------------------------------------------
(***************************************************************************)
(* The creation of a task: a space with the areas, then the kernel stack,  *)
(* in that order.  When it panics the kernel has stopped, and how far it   *)
(* came no longer matters.                                                 *)
(***************************************************************************)
NewTask(pid, areas, break) ==
    /\ pid \in Pids
    /\ LET user == PushAll(ms_init(Memory(pid)), areas)
           kernel == ms_push([user EXCEPT !.ms = space[KERNEL]], KernelStack(pid))
       IN IF Good(kernel)
          THEN /\ space' = [space EXCEPT ![pid] = user.ms, ![KERNEL] = kernel.ms]
               /\ used' = kernel.used
               /\ UNCHANGED panicked
          ELSE panicked' = kernel.err /\ UNCHANGED <<space, used>>
    /\ base_size' = [base_size EXCEPT ![pid] = break]
    /\ status' = [status EXCEPT ![pid] = "alive"]

(* add_initproc, and the programs file_search loads, before any runs. *)
AddInitproc ==
    /\ Running /\ Fresh = INITPROC
    /\ NewTask(INITPROC, UinitAreas, UinitBreak)
    /\ UNCHANGED <<strange, traps>>

Load ==
    /\ Running /\ Fresh \in 2..(LOADED + 1)
    /\ NewTask(Fresh, ElfAreas, ElfBreak)
    /\ UNCHANGED <<strange, traps>>

(* The memory of a task after an operation on it, or the panic. *)
Becomes(t, m) ==
    IF Good(m)
    THEN space' = [space EXCEPT ![t] = m.ms] /\ used' = m.used /\ UNCHANGED panicked
    ELSE panicked' = m.err /\ UNCHANGED <<space, used>>

(* fork: from_existed_user maps a page for each page of each area; the     *)
(* list of file mappings of the child starts empty.                        *)
Fork(t) ==
    /\ Trap(t)
    /\ NewTask(Fresh, space[t].areas, base_size[t])
    /\ strange' = IF t \in strange THEN strange \cup {Fresh} ELSE strange

(* An exit that gives back the frames of the file mappings too, and leaves *)
(* them mapped.                                                            *)
GivenBack_All(s) == Range(s.data)

(* ms_ma_free: the pages of the areas, not those of the file mappings. *)
GivenBack(s) == {s.data[p] : p \in Covered(s.areas)}

(* exit_current_and_run_next: the frames of the areas go back and their    *)
(* pages are unmapped; tables, file mappings and kernel stack stay, for    *)
(* waitpid gives none of them back either.                                 *)
Gone(t) ==
    LET keep(f) == Restrict(f, DOMAIN f \ Covered(space[t].areas))
    IN /\ space' = [space EXCEPT ![t].areas = <<>>,
                                 ![t].data = keep(@), ![t].pte = keep(@)]
       /\ used' = used \ GivenBack(space[t])
       /\ status' = [status EXCEPT ![t] = "zombie"]
       /\ UNCHANGED <<base_size, strange, panicked>>
Ends(t) ==
    IF t = INITPROC
    THEN panicked' = "initproc exit" /\ UNCHANGED <<space, base_size, status, used, strange>>
    ELSE Gone(t)
Exit(t) == Trap(t) /\ Ends(t)

(* A brk that rounds down to see whether the break stays in its page. *)
SamePage_Floor(old, new) == va_floor(old) = va_floor(new)

SamePage(old, new) == va_ceil(old) = va_ceil(new)

(* An area that takes in the page of the new break. *)
BreakArea_Inclusive(old, new) ==
    Area(va_floor(old), va_ceil(new) + 1, {"R", "W", "X", "U"})

BreakArea(old, new) == Area(va_floor(old), va_ceil(new), {"R", "W", "X", "U"})

(* sys_brk(addr) with addr not 0.  The difference is unsigned: moving down *)
(* takes the same branches, with an area that ends before it starts.       *)
Brk(t, addr) ==
    /\ Trap(t)
    /\ addr # base_size[t]
    /\ IF SamePage(base_size[t], addr)
       THEN UNCHANGED <<space, used, panicked>>
       ELSE Becomes(t, ms_push(Memory(t), BreakArea(base_size[t], addr)))
    /\ base_size' = [base_size EXCEPT ![t] = addr]
    /\ strange' = IF addr < base_size[t] \/ addr % PAGE_SIZE # 0
                  THEN strange \cup {t} ELSE strange
    /\ UNCHANGED status

(* sys_mmap: a place after the last mapping; nothing is mapped yet. *)
Mmap(t, length, prot) ==
    /\ Trap(t)
    /\ Len(space[t].vma) < MAX_VMAS
    /\ LET vma == space[t].vma
           first == IF vma = <<>> THEN VMA_START ELSE Last(vma).vm_end
       IN space' = [space EXCEPT ![t].vma = Append(vma,
                      Area(first, first + va_ceil(length), prot \cup {"U"}))]
    /\ strange' = IF "W" \in prot /\ "R" \notin prot THEN strange \cup {t}
                  ELSE strange
    /\ UNCHANGED <<base_size, status, used, panicked>>

(* External: what the hardware lets user code do.  An entry that permits   *)
(* writing but not reading is reserved and permits nothing.                *)
Permits(t, vpn, access) ==
    /\ vpn \in DOMAIN space[t].pte
    /\ LET perm == space[t].pte[vpn].perm
       IN {"U", access} \subseteq perm /\ ("W" \in perm => "R" \in perm)

(* exc_handler on a fault of user code.  A load or a store goes to         *)
(* mmap_handler, which maps a page of a file mapping that allows it; every *)
(* other fault ends the task.                                              *)
Fault(t, vpn, access) ==
    /\ Trap(t)
    /\ ~Permits(t, vpn, access)
    /\ LET vma == space[t].vma
           hits == {i \in DOMAIN vma : vpn \in PagesOf(vma[i])}
           perm == vma[Min(hits)].map_perm
       IN IF access = "X" \/ hits = {} THEN Ends(t)
          ELSE IF access \notin perm THEN Ends(t)
          ELSE /\ Becomes(t, ma_map_one(Memory(t), vpn, perm))
               /\ UNCHANGED <<base_size, status, strange>>

Next ==
    \/ AddInitproc
    \/ Load
    \/ \E t \in Pids :
        \/ Fork(t)
        \/ Exit(t)
        \/ \E addr \in Breaks : Brk(t, addr)
        \/ \E length \in Lengths, prot \in Prots : Mmap(t, length, prot)
        \/ \E vpn \in Covered(space[t].vma) \cup {TRAMPOLINE}, access \in {"R", "W", "X"} :
              Fault(t, vpn, access)

Spec == Init /\ [][Next]_vars

-----------------------------------------------------------------------------
(* What frames are used for: a node of a page table, or a page's data. *)
Uses == UNION {({t} \X {"tables"} \X DOMAIN space[t].tables)
               \cup ({t} \X {"data"} \X DOMAIN space[t].data) : t \in Owners}
FrameOf(use) == space[use[1]][use[2]][use[3]]

(***************************************************************************)
(* Every frame in use has exactly one use: as one node of one page table   *)
(* or behind one page of one space, over forks, faults and exits.  No task *)
(* sees another's memory, no exit gives away what somebody still maps, and *)
(* what nobody will give back is on record as the tables and file mappings *)
(* of the dead and the kernel stacks.                                      *)
(***************************************************************************)
FramesPartitioned ==
    /\ used = {FrameOf(u) : u \in Uses}
    /\ Cardinality(used) = Cardinality(Uses)

(***************************************************************************)
(* The page table of a task and the lists of its areas say the same: every *)
(* page of an area is mapped to the frame recorded for it and the areas    *)
(* and file mappings do not overlap, which from_existed_user, ma_unmap_one *)
(* and va2pa take for granted when they follow an entry unseen.            *)
(***************************************************************************)
TablesMatchAreas ==
    Running => \A t \in {u \in Pids : Alive(u)} :
        LET s == space[t] IN
        /\ DOMAIN s.pte = DOMAIN s.data
        /\ \A p \in DOMAIN s.pte : /\ s.pte[p].ppn = s.data[p]
                                   /\ TableNodes(p) \subseteq DOMAIN s.tables
        /\ Covered(s.areas) \subseteq DOMAIN s.pte
        /\ DOMAIN s.pte \subseteq Covered(s.areas) \cup Covered(s.vma)
        /\ \A i, j \in DOMAIN (s.areas \o s.vma) :
             i # j => PagesOf((s.areas \o s.vma)[i]) \cap PagesOf((s.areas \o s.vma)[j]) = {}

(***************************************************************************)
(* Below the break everything is mapped but the gap between the program    *)
(* and its stack: what copyout2's comparison with base_size stands for.    *)
(***************************************************************************)
BelowBreakMapped ==
    Running => \A t \in {u \in Pids : Alive(u)} :
        Cardinality({p \in Pages : p * PAGE_SIZE < base_size[t]}
                    \ DOMAIN space[t].pte) <= 1

(***************************************************************************)
(* map finds its entry taken, which halts the kernel, only for a task that *)
(* left its break inside a page, moved it down, or made a mapping that     *)
(* can be written and not read, or that descends from such a task.         *)
(***************************************************************************)
RemapHasCause == panicked = "map" => strange # {}
=============================================================================
