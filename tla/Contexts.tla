------------------------------ MODULE Contexts ------------------------------
(***************************************************************************)
(* The address spaces, src/src/kernel/mm/vmm.c: the page tables of the     *)
(* kernel and of the processes, how they grow, and who sees which frame.   *)
(* Pages and frames are numbers.  A table has Fan entries instead of 512   *)
(* and there are four levels, as on x86_64.  The kernel reaches a table    *)
(* through one page it maps it to, TMP_PAGEBUF, the window, which all      *)
(* address spaces have in common.                                          *)
(*                                                                         *)
(* vmm_map and virt_to_phys_unsafe run under vmm_lock, so an operation is  *)
(* one step.  The exception is make_guard_page.                            *)
(***************************************************************************)
EXTENDS FreeRanges, SequencesExt

CONSTANTS
    Fan,                \* entries of a table
    NFrame,             \* page frames
    Proc,               \* the processes: numbers from 1
    Program,            \* the pages of a program, [start, end]
    Length,             \* lengths that are asked for
    STDRD_STACKSIZ,     \* pages of a thread's stack, without the guard page
    LoopsPerPage,       \* PAGE_SIZE: how often shmat's loop runs for a page
    MaxEntry,           \* bound: entries of mm_stack the model keeps
    MaxSegment          \* bound: segments

Page == 0 .. Fan * Fan * Fan * Fan - 1
KERNEL_SPACE == Fan * Fan       \* the first entry of the second level
Startup == 0                    \* the kernel's own address space
Context == {Startup} \cup Proc
TMP_PAGEBUF == 1
FirstPage == 4                  \* behind the windows: startup_tables
Tables == [pml4 |-> 4, pdpt |-> 5, pd |-> 6, pt |-> 7]
FirstFree == 9                  \* behind them and the kernel's mm_stack

VARIABLES
    tables,         \* frame -> what it holds if it is a table
    pmm_stack,      \* the free frames, pmm_stack_ptr first
    spaces,         \* vmm_context of the kernel and of each process
    shmid_list,
    guard,          \* make_guard_page at work: between its walk and its write
    attached,       \* history: what shmat returned
    overlaid,       \* history: the pages shmat mapped without need
    raced           \* history: make_guard_page wrote to another table

vars == <<tables, pmm_stack, spaces, shmid_list, guard, attached, overlaid, raced>>

Absent == -1                    \* an entry without FLG_IN_MEM; its number reads as 0
EmptyTable == [i \in 0 .. Fan - 1 |-> Absent]
NoContext == [pml4 |-> 0, mm_stack |-> [i \in 0 .. MaxEntry |-> Blank], ptr |-> 0,
              highest_paging |-> 0, stack_page |-> 0]   \* where the kernel sees them
NoGuard == [proc |-> Startup, index |-> 0, table |-> 0]

paging_indexes(page) ==
    <<page \div (Fan * Fan * Fan), (page \div (Fan * Fan)) % Fan, (page \div Fan) % Fan, page % Fan>>

-----------------------------------------------------------------------------
(* The operations below take and return what they change.                  *)
now == [tables |-> tables, pmm_stack |-> pmm_stack, spaces |-> spaces]
Becomes(k) == tables' = k.tables /\ pmm_stack' = k.pmm_stack /\ spaces' = k.spaces

pmm_malloc_4k(k) == [k EXCEPT !.pmm_stack = Tail(@)]

(* A new table is cleared.  Slip: it is not. *)
DirtyTable(k, t, i) ==
    [pmm_malloc_4k(k) EXCEPT !.tables[t][i] = Head(k.pmm_stack)]
NewTable(k, t, i) ==
    LET f == Head(k.pmm_stack) IN
    [pmm_malloc_4k(k) EXCEPT !.tables = [k.tables EXCEPT ![t][i] = f, ![f] = EmptyTable]]
FindOrCreate(k, t, i) == IF k.tables[t][i] # Absent THEN k ELSE NewTable(k, t, i)

(* The loop of vmm_map through the hierarchy: the window is mapped to each *)
(* table in turn, and stays on the last one unless it is mapped itself.    *)
Down(w, i) ==
    LET k == FindOrCreate(w.k, w.table, i) IN
    [k |-> k, table |-> k.tables[w.table][i]]
WithWindow(w) == [w EXCEPT !.k.tables[Tables.pt][TMP_PAGEBUF] = w.table]
WalkDown(k, pml4, page) ==
    LET x == paging_indexes(page) IN
    WithWindow(Down(Down(Down([k |-> k, table |-> pml4], x[1]), x[2]), x[3]))
SetEntry(w, index, phys) == [w.k EXCEPT !.tables[w.table][index] = phys]
vmm_map(k, c, phys, virt) ==
    SetEntry(WalkDown(k, k.spaces[c].pml4, virt), paging_indexes(virt)[4], phys)

(* virt_to_phys_unsafe does not look at the flags.  The frame the MMU      *)
(* finds differs from it only where there is none.                         *)
Translate(k, c, virt) ==
    LET x == paging_indexes(virt)
        down[i \in 0 .. 4] ==
            IF i = 0 THEN k.spaces[c].pml4
            ELSE IF down[i - 1] \in {Absent, 0} THEN Absent ELSE k.tables[down[i - 1]][x[i]]
    IN down[4]
virt_to_phys(k, c, virt) == Max({0, Translate(k, c, virt)})

(* uvmm_find_freemem and uvmm_push_free, for the context c. *)
CanFind(k, c, pages) == Candidates(k.spaces[c].mm_stack, k.spaces[c].ptr, pages) # {}
FoundAt(k, c, pages) == Max(Candidates(k.spaces[c].mm_stack, k.spaces[c].ptr, pages))
FoundStart(k, c, pages) == k.spaces[c].mm_stack[FoundAt(k, c, pages)].start
uvmm_find_freemem(k, c, pages) ==
    LET s == k.spaces[c]
        e == FoundAt(k, c, pages) IN
    IF IsExact(s.mm_stack, e, pages)
    THEN [k EXCEPT !.spaces[c] = [s EXCEPT !.mm_stack = Closed(s.mm_stack, s.ptr, e), !.ptr = @ - 1]]
    ELSE [k EXCEPT !.spaces[c].mm_stack =
                       Shortened(s.mm_stack, e, s.mm_stack[e].start + pages)]
uvmm_push_free(k, c, page, length) ==
    LET given == Pushed(k.spaces[c].mm_stack, k.spaces[c].ptr, page, length) IN
    [k EXCEPT !.spaces[c].mm_stack = given.mm_stack, !.spaces[c].ptr = given.ptr]

(* New frames for the pages from start to end: vmm_map_range_glob, and the *)
(* loop of vmm_malloc.                                                     *)
MapNew(k, c, v) == vmm_map(pmm_malloc_4k(k), c, Head(k.pmm_stack), v)
vmm_map_range_glob(k, c, start, end) ==
    LET mapped[v \in start - 1 .. end - 1] ==
            IF v < start THEN k ELSE MapNew(mapped[v - 1], c, v)
    IN mapped[end - 1]
vmm_malloc(k, c, pages) ==
    LET virt == FoundStart(k, c, pages) IN
    vmm_map_range_glob(uvmm_find_freemem(k, c, pages), c, virt, virt + pages)

(* Bounds: three tables and the pages fit into the free frames.  The code  *)
(* does not test it (pmm.c:198).                                           *)
EnoughFrames(n) == Len(pmm_stack) >= n

-----------------------------------------------------------------------------
(* vmm_init: the tables of the kernel are four pages in a row, and every   *)
(* page used so far is mapped to itself.  A free frame holds anything: here*)
(* tables that lead to the kernel's mm_stack.                              *)
Init ==
    LET first == [f \in 1 .. NFrame |->
                    CASE f = Tables.pml4 -> [EmptyTable EXCEPT ![0] = Tables.pdpt]
                      [] f = Tables.pdpt -> [EmptyTable EXCEPT ![0] = Tables.pd]
                      [] f = Tables.pd -> [EmptyTable EXCEPT ![0] = Tables.pt]
                      [] f = Tables.pt -> EmptyTable
                      [] OTHER -> [i \in 0 .. Fan - 1 |-> FirstFree - 1]]
        kernel == [NoContext EXCEPT
                      !.pml4 = Tables.pml4, !.highest_paging = Tables.pml4,
                      !.mm_stack[0] = [start |-> FirstFree, end |-> KERNEL_SPACE], !.ptr = 1,
                      !.stack_page = FirstFree - 1]
        k == [tables |-> first,
              pmm_stack |-> [i \in 1 .. NFrame + 1 - FirstFree |-> FirstFree + i - 1],
              spaces |-> [c \in Context |-> IF c = Startup THEN kernel ELSE NoContext]]
        mapped[v \in FirstPage - 1 .. FirstFree - 1] ==
            IF v < FirstPage THEN k ELSE vmm_map(mapped[v - 1], Startup, v, v) IN
    /\ tables = mapped[FirstFree - 1].tables
    /\ pmm_stack = mapped[FirstFree - 1].pmm_stack
    /\ spaces = mapped[FirstFree - 1].spaces
    /\ shmid_list = <<>>
    /\ guard = NoGuard
    /\ attached = {}
    /\ overlaid = {}
    /\ raced = FALSE

(* vmm_crcontext: three pages of the kernel.  The first two become tables, *)
(* and the second leads to the kernel's page directory.                    *)
(* Slip: the second table is left empty. *)
LinkAlone(k, pml4, pdpt) ==
    [k EXCEPT !.tables = [@ EXCEPT ![pml4] = [EmptyTable EXCEPT ![0] = pdpt],
                                   ![pdpt] = EmptyTable]]
Link(k, pml4, pdpt) ==
    [k EXCEPT !.tables = [@ EXCEPT ![pml4] = [EmptyTable EXCEPT ![0] = pdpt],
                                   ![pdpt] = [EmptyTable EXCEPT ![0] = Tables.pd]]]
OneMorePage(w) ==
    [k |-> vmm_malloc(w.k, Startup, 1), at |-> Append(w.at, FoundStart(w.k, Startup, 1))]
Made(w, p) ==
    LET pml4 == virt_to_phys(w.k, Startup, w.at[1]) IN
    [Link(w.k, pml4, virt_to_phys(w.k, Startup, w.at[2])) EXCEPT
        !.spaces[p] = [NoContext EXCEPT !.pml4 = pml4, !.highest_paging = w.at[1],
                                        !.stack_page = w.at[3]]]
vmm_crcontext(k, p) ==
    Made(OneMorePage(OneMorePage(OneMorePage([k |-> k, at |-> <<>>]))), p)

(* create_proc: a context, the two ranges beside the program, and frames   *)
(* for the program.  Its parts take vmm_lock one by one; no other part of  *)
(* the system knows the context before it is complete.                     *)
create_proc(p) ==
    LET k1 == vmm_crcontext(now, p)
        k2 == uvmm_push_free(k1, p, KERNEL_SPACE, Program.start - KERNEL_SPACE)
        k3 == uvmm_push_free(k2, p, Program.end, Fan * Fan * Fan) IN
    /\ spaces[p].pml4 = 0
    /\ CanFind(now, Startup, 3)
    /\ EnoughFrames(8 + Program.end - Program.start)
    /\ Becomes(vmm_map_range_glob(k3, p, Program.start, Program.end))
    /\ UNCHANGED <<shmid_list, guard, attached, overlaid, raced>>

(* The system call for memory, and cpyout. *)
uvmm_malloc(p, pages) ==
    /\ spaces[p].pml4 # 0
    /\ CanFind(now, p, pages)
    /\ EnoughFrames(3 + pages)
    /\ Becomes(vmm_malloc(now, p, pages))
    /\ UNCHANGED <<shmid_list, guard, attached, overlaid, raced>>

(* create_thread: the stack, and the walk of make_guard_page to the table  *)
(* of the page above it.                                                   *)
create_thread(p) ==
    LET pages == STDRD_STACKSIZ + 1
        top == FoundStart(now, p, pages) + STDRD_STACKSIZ
        w == WalkDown(vmm_malloc(now, p, pages), spaces[p].pml4, top) IN
    /\ spaces[p].pml4 # 0
    /\ guard = NoGuard
    /\ CanFind(now, p, pages)
    /\ EnoughFrames(3 + pages)
    /\ Becomes(w.k)
    /\ guard' = [proc |-> p, index |-> paging_indexes(top)[4], table |-> w.table]
    /\ UNCHANGED <<shmid_list, attached, overlaid, raced>>

(* Its write to the window, without vmm_lock.  If another processor has    *)
(* moved the window, what is written to depends on what this one's TLB     *)
(* still holds.  (That the walk may mislead the other processor in the     *)
(* same way is left out.)                                                  *)
make_guard_page ==
    /\ guard # NoGuard
    /\ \E t \in {guard.table, tables[Tables.pt][TMP_PAGEBUF]} :
          /\ tables' = [tables EXCEPT ![t][guard.index] = Absent]
          /\ raced' = (t # guard.table)
    /\ guard' = NoGuard
    /\ UNCHANGED <<pmm_stack, spaces, shmid_list, attached, overlaid>>

shmget(pages) ==
    /\ Len(shmid_list) < MaxSegment
    /\ shmid_list' = Append(shmid_list, [virt_in_kernel |-> 0, size |-> pages])
    /\ UNCHANGED <<tables, pmm_stack, spaces, guard, attached, overlaid, raced>>

(* vmm_share_to_user: the loop counts bytes of pages, so it maps           *)
(* LoopsPerPage times as many pages as the segment has.                    *)
Loops(pages) == pages * LoopsPerPage
Share(k, p, from, to) == vmm_map(k, p, virt_to_phys(k, p, from), to)
vmm_share_to_user(k, p, in_kernel, pages) ==
    LET virt == FoundStart(k, p, pages)
        mapped[i \in 0 .. Loops(pages)] ==
            IF i = 0 THEN uvmm_find_freemem(k, p, pages)
            ELSE Share(mapped[i - 1], p, in_kernel + i - 1, virt + i - 1)
    IN mapped[Loops(pages)]

(* shmat: the first to attach a segment finds memory for it.               *)
(* Slip: every one does. *)
AlwaysInKernel(id) ==
    [k |-> vmm_malloc(now, Startup, id.size), virt |-> FoundStart(now, Startup, id.size)]
InKernel(id) ==
    IF id.virt_in_kernel = 0
    THEN [k |-> vmm_malloc(now, Startup, id.size), virt |-> FoundStart(now, Startup, id.size)]
    ELSE [k |-> now, virt |-> id.virt_in_kernel]
shmat(p, s) ==
    LET id == shmid_list[s]
        virt == FoundStart(now, p, id.size) IN
    /\ spaces[p].pml4 # 0
    /\ CanFind(now, p, id.size)
    /\ CanFind(now, Startup, id.size)
    /\ EnoughFrames(3 + id.size + 2)
    /\ Becomes(vmm_share_to_user(InKernel(id).k, p, InKernel(id).virt, id.size))
    /\ shmid_list' = [shmid_list EXCEPT ![s].virt_in_kernel = InKernel(id).virt]
    /\ attached' = attached \cup {[proc |-> p, id |-> s, virt |-> virt]}
    /\ overlaid' = overlaid \cup {<<p, v>> : v \in virt + id.size .. virt + Loops(id.size) - 1}
    /\ UNCHANGED <<guard, raced>>

(* After a race nothing is promised. *)
Next ==
    /\ ~raced
    /\ \/ \E p \in Proc :
             \/ create_proc(p)
             \/ \E pages \in Length : uvmm_malloc(p, pages)
             \/ create_thread(p)
             \/ \E s \in DOMAIN shmid_list : shmat(p, s)
       \/ \E pages \in Length : shmget(pages)
       \/ make_guard_page

Spec == Init /\ [][Next]_vars

-----------------------------------------------------------------------------
Live == {c \in Context : spaces[c].pml4 # 0}
FrameOf(c, v) == Translate(now, c, v)
KernelFrames == {FrameOf(Startup, v) : v \in FirstPage .. KERNEL_SPACE - 1} \ {Absent}
UserPages == KERNEL_SPACE .. Program.end + Loops(MaxSegment)
UserFrames(p) == {FrameOf(p, v) : v \in UserPages} \ {Absent}

(* Whatever the kernel maps, in whichever context and however late, every  *)
(* process sees it: their hierarchies meet in the kernel's page directory  *)
(* (vmm.c:150).                                                            *)
KernelIsCommon ==
    raced \/ \A p \in Live, v \in 0 .. KERNEL_SPACE - 1 : FrameOf(p, v) = FrameOf(Startup, v)

(* No frame serves two purposes: two processes have a frame in common only *)
(* if the kernel has it too (a segment, or what shmat maps behind it), and *)
(* what is mapped is not free.                                             *)
FramesAreSeparate ==
    \/ raced
    \/ /\ \A p, q \in Live \ {Startup} :
             p # q => UserFrames(p) \cap UserFrames(q) \subseteq KernelFrames \cup {0}
       /\ \A p \in Live \ {Startup} :
             (UserFrames(p) \cup KernelFrames) \cap ToSet(pmm_stack) = {}
       /\ \A p \in Live \ {Startup}, v \in Program.start .. Program.end - 1 :
             FrameOf(p, v) \in KernelFrames => <<p, v>> \in overlaid

(* Processes that attach a segment see the same frames in it, wherever it  *)
(* lies, until another shmat maps more than its segment over it            *)
(* (vmm.c:287).                                                            *)
SegmentsAreShared ==
    raced \/ \A a \in attached : \A i \in 0 .. shmid_list[a.id].size - 1 :
                \/ <<a.proc, a.virt + i>> \in overlaid
                \/ FrameOf(a.proc, a.virt + i)
                     = FrameOf(Startup, shmid_list[a.id].virt_in_kernel + i)
=============================================================================
