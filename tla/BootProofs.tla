----------------------------- MODULE BootProofs -----------------------------
(***************************************************************************)
(* Proofs about the start of the machine.  The processors: any set of      *)
(* them, any of them as the one that boots, and any MP tables.  Each one   *)
(* that starts works on what they all share, cpu_list, stack, cores_booted *)
(* and all_cores_mask, under a lock that the one before handed over.  The  *)
(* invariant says what of it is complete, given where that processor is.   *)
(* The memory: any map, modules and sizes.  The invariant says where the   *)
(* region that the loader and the kernel both find was cut, and where the  *)
(* modules are in it; the pages of each region are then told apart.        *)
(***************************************************************************)
EXTENDS Boot, Pmm, FiniteSetTheorems, WellFoundedInduction, NaturalsInduction, TLAPS

-----------------------------------------------------------------------------
(* The inductive invariant. *)

(* Where the bootstrap processor can be, and the others: those with a      *)
(* complete record, and those that hold TRAMPOLINE_LOCK.                   *)
BspLabels == {"apic", "caps", "startup", "wait", "stack", "loaded", "ready", "on"}
Registered == {"gdt_AP", "count", "write", "release", "ready", "on"}
Critical == {"stack_AP", "apic_AP", "caps_AP", "gdt_AP", "count", "write", "release"}
ApLabels == {"off", "trampoline", "lock", "ready", "on"} \cup Critical

TypeOK ==
    /\ bsp \in Processor
    /\ pc \in [Processor -> BspLabels \cup ApLabels]
    /\ pc[bsp] \in BspLabels
    /\ \A c \in AP : pc[c] \in ApLabels
    /\ TRAMPOLINE_LOCK \in BOOLEAN /\ all_APs_booted \in BOOLEAN
    /\ stack \in Nat /\ pages \in Nat /\ cores_booted \in Nat
    /\ cpu_list \in Seq(CpuInfo)
    /\ all_cores_mask \in SUBSET Processor
    /\ read \in [Processor -> [booted : Nat, mask : SUBSET Processor]]
    /\ tss \in [Processor -> Nat]

(* One processor at a time is between the two ends of TRAMPOLINE_LOCK,     *)
(* while the bootstrap processor waits.                                    *)
OneAtATime ==
    /\ \A c, d \in AP : pc[c] \in Critical /\ pc[d] \in Critical => c = d
    /\ \A c \in AP : pc[c] \in Critical => TRAMPOLINE_LOCK /\ all_APs_booted /\ pc[bsp] = "wait"

(* Nobody is awake before startup_APs, and nobody is at work on the        *)
(* records after the last one.                                             *)
Phases ==
    /\ pc[bsp] \in {"apic", "caps", "startup"} =>
           cores_booted = 1 /\ \A c \in AP : pc[c] = "off"
    /\ pc[bsp] # "wait" => TRAMPOLINE_LOCK /\ all_APs_booted
    /\ ~all_APs_booted => TRAMPOLINE_LOCK
    /\ ~all_APs_booted \/ pc[bsp] \in {"stack", "loaded", "ready", "on"} =>
           /\ cores_booted = cores_from_tables
           /\ \A c \in AP : pc[c] \notin Critical

(* The records are those of the bootstrap processor and of all that got so *)
(* far; the last one may still have to be filled in.                       *)
Uncounted == \E c \in AP : pc[c] \in {"caps_AP", "gdt_AP", "count", "write"}
HalfFilled == pc[bsp] = "caps" \/ \E c \in AP : pc[c] = "caps_AP"
Whole == 1 .. IF HalfFilled THEN Len(cpu_list) - 1 ELSE Len(cpu_list)
Records ==
    /\ IF pc[bsp] = "apic" THEN cpu_list = <<>>
       ELSE Len(cpu_list) = IF Uncounted THEN cores_booted + 1 ELSE cores_booted
    /\ \A i \in Whole : LET c == cpu_list[i].apic_id IN
           c \in Processor /\ (c = bsp \/ pc[c] \in Registered)
    /\ \A i, j \in Whole : i # j => cpu_list[i].apic_id # cpu_list[j].apic_id
    /\ pc[bsp] \notin {"apic", "caps"} => 1 \in Whole /\ cpu_list[1].apic_id = bsp
    /\ \A c \in AP : pc[c] \in Registered => \E i \in Whole : cpu_list[i].apic_id = c

(* A stack has one owner, and its record names it. *)
Stacks ==
    /\ \A c \in Processor : tss[c] <= pages
    /\ \A c, d \in Processor : tss[c] = tss[d] /\ tss[c] # NoStack => c = d
    /\ pc[bsp] \in {"apic", "caps"} => tss[bsp] = NoStack
    /\ pc[bsp] \in {"loaded", "ready", "on"} => tss[bsp] # NoStack
    /\ \A c \in AP : pc[c] \in Registered \ {"gdt_AP"} => tss[c] # NoStack
    /\ \A c \in AP : pc[c] \in {"apic_AP", "caps_AP", "gdt_AP"} =>
           /\ stack = pages /\ stack # NoStack
           /\ \A d \in Processor : tss[d] # stack
    /\ \A i \in Whole : LET c == cpu_list[i].apic_id IN
           cpu_list[i].stack = IF pc[c] = "gdt_AP" THEN stack ELSE tss[c]

(* The mask has the processors that have counted themselves. *)
Counted ==
    /\ all_cores_mask \ {bsp} = {c \in AP : pc[c] \in {"release", "ready", "on"}}
    /\ pc[bsp] \in {"ready", "on"} => bsp \in all_cores_mask
    /\ IsFiniteSet(all_cores_mask)
    /\ Cardinality(all_cores_mask \ {bsp}) = cores_booted - 1
    /\ \A c \in AP : pc[c] = "write" => read[c] = [booted |-> cores_booted, mask |-> all_cores_mask]

IInv == TypeOK /\ OneAtATime /\ Phases /\ Records /\ Stacks /\ Counted

-----------------------------------------------------------------------------
(* A step that is not about the ids leaves the records as they are, and    *)
(* with them who has one.                                                  *)
LEMMA SameRecords ==
    ASSUME TypeOK, Records, NEW c \in Processor, NEW from, NEW to, Go(c, from, to),
           UNCHANGED <<bsp, cores_booted>>, Len(cpu_list') = Len(cpu_list),
           cpu_list = <<>> => cpu_list' = <<>>,
           \A i \in 1 .. Len(cpu_list) : cpu_list'[i].apic_id = cpu_list[i].apic_id,
           from \notin {"apic", "caps", "caps_AP"}, to \notin {"apic", "caps", "caps_AP"},
           from \in {"gdt_AP", "count", "write"} <=> to \in {"gdt_AP", "count", "write"},
           from \in Registered <=> to \in Registered
    PROVE  Records' /\ Whole' = Whole
<1> USE DEF TypeOK, Go, AP
<1>1. HalfFilled' <=> HalfFilled
  BY DEF HalfFilled
<1>2. Uncounted' <=> Uncounted
  BY DEF Uncounted
<1>3. Whole' = Whole /\ \A i \in Whole : cpu_list'[i].apic_id = cpu_list[i].apic_id
  BY <1>1 DEF Whole
<1> HIDE DEF Registered
<1>4. \A d \in AP : pc'[d] \in Registered <=> pc[d] \in Registered
  OBVIOUS
<1>5. /\ pc'[bsp] = "apic" <=> pc[bsp] = "apic"
      /\ pc'[bsp] \in {"apic", "caps"} <=> pc[bsp] \in {"apic", "caps"}
  OBVIOUS
<1>6. IF pc'[bsp] = "apic" THEN cpu_list' = <<>>
      ELSE Len(cpu_list') = IF Uncounted' THEN cores_booted' + 1 ELSE cores_booted'
  BY <1>2, <1>5 DEF Records
<1>7. \A i \in Whole' : LET d == cpu_list'[i].apic_id IN
          d \in Processor /\ (d = bsp' \/ pc'[d] \in Registered)
  BY <1>3, <1>4 DEF Records
<1>8. \A i, j \in Whole' : i # j => cpu_list'[i].apic_id # cpu_list'[j].apic_id
  BY <1>3 DEF Records
<1>9. pc'[bsp] \notin {"apic", "caps"} => 1 \in Whole' /\ cpu_list'[1].apic_id = bsp'
  BY <1>3, <1>5 DEF Records
<1>10. \A d \in AP' : pc'[d] \in Registered => \E i \in Whole' : cpu_list'[i].apic_id = d
  <2>1. AP' = AP
    OBVIOUS
  <2> HIDE DEF AP
  <2>2. \A d \in AP : pc[d] \in Registered => \E i \in Whole : cpu_list[i].apic_id = d
    BY DEF Records
  <2> HIDE DEF TypeOK, Go
  <2>3. SUFFICES ASSUME NEW d \in AP, pc'[d] \in Registered
                 PROVE  \E i \in Whole' : cpu_list'[i].apic_id = d
    BY <2>1
  <2>4. PICK i \in Whole : cpu_list[i].apic_id = d
    BY <1>4, <2>2, <2>3
  <2>5. i \in Whole' /\ cpu_list'[i].apic_id = d
    BY <1>3, <2>4
  <2>6. QED
    BY <2>5
<1>11. QED
  BY <1>3, <1>6, <1>7, <1>8, <1>9, <1>10 DEF Records

(* Nor is it about stacks unless it moves past the point where one is set. *)
LEMMA SameStacks ==
    ASSUME TypeOK, Records, Stacks, NEW c \in Processor, NEW from, NEW to, Go(c, from, to),
           UNCHANGED <<bsp, cpu_list, stack, tss, pages>>, Whole' = Whole,
           from \notin {"apic", "caps", "apic_AP", "caps_AP", "gdt_AP"},
           to \notin {"apic", "caps", "apic_AP", "caps_AP", "gdt_AP"},
           c = bsp => from \in {"loaded", "ready"},
           c # bsp => (from \in Registered <=> to \in Registered)
    PROVE  Stacks'
<1> USE DEF TypeOK, Go, AP, Stacks
<1>1. \A d \in Processor : pc'[d] = "gdt_AP" <=> pc[d] = "gdt_AP"
  OBVIOUS
<1>2. \A i \in Whole' : LET d == cpu_list'[i].apic_id IN
          cpu_list'[i].stack = IF pc'[d] = "gdt_AP" THEN stack' ELSE tss'[d]
  BY <1>1 DEF Records
<1>3. \A d \in AP' : pc'[d] \in Registered \ {"gdt_AP"} => tss'[d] # NoStack
  BY DEF Registered
<1>4. \A d \in AP' : pc'[d] \in {"apic_AP", "caps_AP", "gdt_AP"} =>
           /\ stack' = pages' /\ stack' # NoStack
           /\ \A e \in Processor : tss'[e] # stack'
  OBVIOUS
<1>5. /\ pc'[bsp] \in {"apic", "caps"} => tss'[bsp] = NoStack
      /\ pc'[bsp] \in {"loaded", "ready", "on"} => tss'[bsp] # NoStack
  OBVIOUS
<1>6. QED
  BY <1>2, <1>3, <1>4, <1>5

-----------------------------------------------------------------------------
(* init starts alone, without a record. *)
LEMMA InitHolds == ASSUME BootInit PROVE IInv
<1> USE DEF BootInit, BspLabels, ApLabels, Critical, Registered, AP, NoStack
<1>1. TypeOK
  BY FS_EmptySet DEF TypeOK, Uncounted, HalfFilled, Whole
<1>2. OneAtATime
  BY FS_EmptySet DEF OneAtATime, Uncounted, HalfFilled, Whole
<1>3. Phases
  BY FS_EmptySet DEF Phases, Uncounted, HalfFilled, Whole
<1>4. Records
  BY FS_EmptySet DEF Records, Uncounted, HalfFilled, Whole
<1>5. Stacks
  BY FS_EmptySet DEF Stacks, Uncounted, HalfFilled, Whole
<1>6. Counted
  BY FS_EmptySet DEF Counted, Uncounted, HalfFilled, Whole
<1>7. QED
  BY <1>1, <1>2, <1>3, <1>4, <1>5, <1>6 DEF IInv

(* A sequence of which one entry is replaced. *)
LEMMA Replaced ==
    ASSUME NEW S, NEW s \in Seq(S), NEW k, NEW e \in S
    PROVE  /\ [s EXCEPT ![k] = e] \in Seq(S)
           /\ Len([s EXCEPT ![k] = e]) = Len(s)
           /\ \A i \in 1 .. Len(s) : [s EXCEPT ![k] = e][i] = IF i = k THEN e ELSE s[i]
<1>1. s \in [1 .. Len(s) -> S] /\ Len(s) \in Nat
  OBVIOUS
<1> DEFINE t == [s EXCEPT ![k] = e]
<1>2. /\ t \in [1 .. Len(s) -> S]
      /\ \A i \in 1 .. Len(s) : t[i] = IF i = k THEN e ELSE s[i]
  BY <1>1
<1> HIDE DEF t
<1>3. t \in Seq(S) /\ Len(t) = Len(s)
  BY <1>1, <1>2
<1>4. QED
  BY <1>2, <1>3 DEF t

(* The record of zeros. *)
LEMMA BlankRecord == [apic_id |-> 0, stack |-> NoStack] \in CpuInfo
BY DEF CpuInfo, NoStack

(* What get_cur_cpu finds, if there is no half filled record. *)
LEMMA OwnRecord ==
    ASSUME NEW c, NEW i \in get_cur_cpu(c)
    PROVE  i \in DOMAIN cpu_list /\ cpu_list[i].apic_id = c
BY DEF get_cur_cpu

(* What the bootstrap processor does before it wakes the others, and when  *)
(* the last one has released it.                                           *)
LEMMA BspKeeps == ASSUME IInv, BspStep PROVE IInv'
<1> USE IInv DEF IInv, BspLabels, ApLabels, Critical, Registered, AP, NoStack
<1>1. CASE Register(bsp, "apic", "caps")
  <2>1. TypeOK'
    BY <1>1, BlankRecord DEF Register, Go, TypeOK
  <2>2. OneAtATime'
    BY <1>1 DEF Register, Go, TypeOK, OneAtATime, Phases
  <2>3. Phases'
    BY <1>1 DEF Register, Go, TypeOK, OneAtATime, Phases
  <2>4. Records'
    BY <1>1 DEF Register, Go, TypeOK, OneAtATime, Phases, Records, Uncounted, HalfFilled, Whole
  <2>5. Stacks'
    BY <1>1 DEF Register, Go, TypeOK, OneAtATime, Phases, Records, Uncounted, HalfFilled, Whole, Stacks
  <2>6. Counted'
    BY <1>1 DEF Register, Go, TypeOK, OneAtATime, Phases, Counted
  <2>7. QED
    BY <2>1, <2>2, <2>3, <2>4, <2>5, <2>6
<1>2. CASE Identify(bsp, "caps", "startup", NoStack)
  <2>1. TypeOK'
    <3>1. [apic_id |-> bsp, stack |-> NoStack] \in CpuInfo
      BY DEF TypeOK, CpuInfo
    <3>2. cpu_list' \in Seq(CpuInfo)
      BY <1>2, <3>1, Replaced DEF Identify, TypeOK
    <3>3. QED
      BY <1>2, <3>2 DEF Identify, Go, TypeOK
  <2>2. OneAtATime'
    BY <1>2 DEF Identify, Go, TypeOK, OneAtATime, Phases
  <2>3. Phases'
    BY <1>2 DEF Identify, Go, TypeOK, OneAtATime, Phases
  <2>4. Records'
    BY <1>2 DEF Identify, Go, TypeOK, OneAtATime, Phases, Records, Uncounted, HalfFilled, Whole
  <2>5. Stacks'
    BY <1>2 DEF Identify, Go, TypeOK, OneAtATime, Phases, Records, Uncounted, HalfFilled, Whole, Stacks
  <2>6. Counted'
    BY <1>2 DEF Identify, Go, TypeOK, OneAtATime, Phases, Counted
  <2>7. QED
    BY <2>1, <2>2, <2>3, <2>4, <2>5, <2>6
<1>3. CASE StartupAPs
  <2>1. TypeOK'
    BY <1>3 DEF StartupAPs, TypeOK
  <2>2. OneAtATime'
    BY <1>3 DEF StartupAPs, TypeOK, OneAtATime, Phases
  <2>3. Phases'
    BY <1>3 DEF StartupAPs, TypeOK, OneAtATime, Phases
  <2>4. Records'
    BY <1>3 DEF StartupAPs, TypeOK, OneAtATime, Phases, Records, Uncounted, HalfFilled, Whole
  <2>5. Stacks'
    BY <1>3 DEF StartupAPs, TypeOK, OneAtATime, Phases, Records, Uncounted, HalfFilled, Whole, Stacks
  <2>6. Counted'
    BY <1>3 DEF StartupAPs, TypeOK, OneAtATime, Phases, Counted
  <2>7. QED
    BY <2>1, <2>2, <2>3, <2>4, <2>5, <2>6
<1>4. CASE WaitForAPs
  <2>1. TypeOK'
    BY <1>4 DEF WaitForAPs, Go, TypeOK
  <2>2. OneAtATime'
    BY <1>4 DEF WaitForAPs, Go, TypeOK, OneAtATime, Phases
  <2>3. Phases'
    BY <1>4 DEF WaitForAPs, Go, TypeOK, OneAtATime, Phases
  <2>4. Records'
    BY <1>4 DEF WaitForAPs, Go, TypeOK, OneAtATime, Phases, Records, Uncounted, HalfFilled, Whole
  <2>5. Stacks'
    BY <1>4 DEF WaitForAPs, Go, TypeOK, OneAtATime, Phases, Records, Uncounted, HalfFilled, Whole, Stacks
  <2>6. Counted'
    BY <1>4 DEF WaitForAPs, Go, TypeOK, OneAtATime, Phases, Counted
  <2>7. QED
    BY <2>1, <2>2, <2>3, <2>4, <2>5, <2>6
<1>5. CASE NoAPs
  <2>1. TypeOK'
    BY <1>5 DEF NoAPs, Go, TypeOK
  <2>2. OneAtATime'
    BY <1>5 DEF NoAPs, Go, TypeOK, OneAtATime, Phases
  <2>3. Phases'
    BY <1>5 DEF NoAPs, Go, TypeOK, OneAtATime, Phases
  <2>4. Records'
    BY <1>5 DEF NoAPs, Go, TypeOK, OneAtATime, Phases, Records, Uncounted, HalfFilled, Whole
  <2>5. Stacks'
    BY <1>5 DEF NoAPs, Go, TypeOK, OneAtATime, Phases, Records, Uncounted, HalfFilled, Whole, Stacks
  <2>6. Counted'
    BY <1>5 DEF NoAPs, Go, TypeOK, OneAtATime, Phases, Counted
  <2>7. QED
    BY <2>1, <2>2, <2>3, <2>4, <2>5, <2>6
<1>6. CASE LoadPrograms
  <2> DEFINE record == [apic_id |-> bsp, stack |-> pages + 1]
  <2>a. pc[bsp] = "stack" /\ 1 \in DOMAIN cpu_list /\ cpu_list[1].apic_id = bsp
    BY <1>6 DEF LoadPrograms, Go, Records, Whole, TypeOK
  <2>b. record \in CpuInfo /\ cpu_list[1] \in CpuInfo
    <3>1. record \in CpuInfo
      BY DEF TypeOK, CpuInfo
    <3>2. QED
      BY <2>a, <3>1 DEF TypeOK
  <2>c. cpu_list' = [cpu_list EXCEPT ![1] = record]
    <3>1. [cpu_list[1] EXCEPT !.stack = pages + 1] = record
      BY <2>a, <2>b DEF CpuInfo
    <3>2. cpu_list' = [cpu_list EXCEPT ![1] = [cpu_list[1] EXCEPT !.stack = pages + 1]]
      BY <1>6 DEF LoadPrograms
    <3>3. QED
      BY <3>1, <3>2
  <2> HIDE DEF record
  <2>d. /\ cpu_list' \in Seq(CpuInfo) /\ Len(cpu_list') = Len(cpu_list)
        /\ \A i \in 1 .. Len(cpu_list) : cpu_list'[i] = IF i = 1 THEN record ELSE cpu_list[i]
    BY <2>b, <2>c, Replaced DEF TypeOK
  <2>1. TypeOK'
    BY <1>6, <2>a, <2>d DEF LoadPrograms, Go, TypeOK
  <2>2. OneAtATime'
    BY <1>6 DEF LoadPrograms, Go, TypeOK, OneAtATime, Phases
  <2>3. Phases'
    BY <1>6 DEF LoadPrograms, Go, TypeOK, OneAtATime, Phases
  <2>4. Records'
    <3>1. \A i \in 1 .. Len(cpu_list) : cpu_list'[i].apic_id = cpu_list[i].apic_id
      BY <2>a, <2>d DEF record
    <3>2. Go(bsp, "stack", "loaded") /\ cpu_list # <<>>
      BY <1>6, <2>a DEF LoadPrograms
    <3>3. bsp \in Processor /\ UNCHANGED <<bsp, cores_booted>>
      BY <1>6 DEF LoadPrograms, TypeOK
    <3>4. QED
      BY <2>d, <3>1, <3>2, <3>3, SameRecords
  <2>5. Stacks'
    <3>1. Whole = 1 .. Len(cpu_list) /\ Whole' = Whole
      <4>1. pc' = [pc EXCEPT ![bsp] = "loaded"] /\ bsp' = bsp /\ bsp \in Processor
        BY <1>6 DEF LoadPrograms, Go, TypeOK
      <4>2. pc \in [Processor -> BspLabels \cup ApLabels]
        BY DEF TypeOK
      <4>3. \A d \in AP : pc[d] # "caps_AP" /\ pc'[d] = pc[d]
        BY <2>a, <4>1, <4>2 DEF Phases, AP, Critical
      <4>4. pc'[bsp] = "loaded" /\ AP' = AP
        BY <4>1, <4>2 DEF AP
      <4>5. ~ HalfFilled /\ ~ HalfFilled'
        BY <2>a, <4>1, <4>3, <4>4 DEF HalfFilled
      <4>6. QED
        BY <2>d, <4>5 DEF Whole
    <3>2. /\ pages' = pages + 1 /\ tss' = [tss EXCEPT ![bsp] = pages + 1]
          /\ bsp' = bsp /\ pc' = [pc EXCEPT ![bsp] = "loaded"]
      BY <1>6 DEF LoadPrograms, Go
    <3>3. \A d \in AP : pc'[d] = pc[d] /\ pc[d] \notin Critical
      BY <2>a, <3>2 DEF Phases, TypeOK
    <3>4. \A i \in Whole : i # 1 => /\ cpu_list[i].apic_id \in AP
                                    /\ cpu_list[i].stack = tss[cpu_list[i].apic_id]
      BY <2>a, <3>1, <3>3 DEF Records, Stacks
    <3>5. \A i \in Whole' : LET d == cpu_list'[i].apic_id IN
              cpu_list'[i].stack = IF pc'[d] = "gdt_AP" THEN stack' ELSE tss'[d]
      BY <2>a, <2>d, <3>1, <3>2, <3>3, <3>4 DEF record, TypeOK
    <3>6. /\ \A d \in Processor : tss'[d] <= pages'
          /\ \A d, e \in Processor : tss'[d] = tss'[e] /\ tss'[d] # NoStack => d = e
      BY <3>2 DEF Stacks, TypeOK
    <3>7. /\ pc'[bsp] = "loaded" /\ tss'[bsp] # NoStack
          /\ \A d \in AP : pc'[d] \in Registered \ {"gdt_AP"} => tss'[d] # NoStack
      BY <3>2, <3>3 DEF Stacks, TypeOK
    <3>8. QED
      BY <3>2, <3>3, <3>5, <3>6, <3>7 DEF Stacks
  <2>6. Counted'
    BY <1>6 DEF LoadPrograms, Go, TypeOK, OneAtATime, Phases, Counted
  <2>7. QED
    BY <2>1, <2>2, <2>3, <2>4, <2>5, <2>6
<1>7. CASE JoinMask
  <2>1. TypeOK'
    BY <1>7 DEF JoinMask, Go, get_cur_cpu, TypeOK
  <2>2. OneAtATime'
    BY <1>7 DEF JoinMask, Go, get_cur_cpu, TypeOK, OneAtATime, Phases
  <2>3. Phases'
    BY <1>7 DEF JoinMask, Go, get_cur_cpu, TypeOK, OneAtATime, Phases
  <2>4. Records'
    BY <1>7 DEF JoinMask, Go, get_cur_cpu, TypeOK, OneAtATime, Phases, Records, Uncounted, HalfFilled, Whole
  <2>5. Stacks'
    BY <1>7 DEF JoinMask, Go, get_cur_cpu, TypeOK, OneAtATime, Phases, Records, Uncounted, HalfFilled, Whole, Stacks
  <2>6. Counted'
    <3>1. all_cores_mask' = all_cores_mask \cup {bsp}
      BY <1>7, OwnRecord DEF JoinMask
    <3>2. all_cores_mask' \ {bsp} = all_cores_mask \ {bsp}
      BY <3>1
    <3>3. IsFiniteSet(all_cores_mask')
      BY <3>1, FS_AddElement DEF Counted
    <3>4. pc' = [pc EXCEPT ![bsp] = "ready"] /\ UNCHANGED <<bsp, cores_booted, read>>
      BY <1>7 DEF JoinMask, Go
    <3>5. \A d \in AP : pc[d] \notin Critical
      BY <1>7 DEF JoinMask, Go, OneAtATime
    <3>6. {d \in AP' : pc'[d] \in {"release", "ready", "on"}}
              = {d \in AP : pc[d] \in {"release", "ready", "on"}}
      BY <3>4 DEF TypeOK, AP
    <3>7. \A d \in AP' : pc'[d] # "write"
      BY <3>4, <3>5 DEF TypeOK, AP, Critical
    <3>8. QED
      BY <3>1, <3>2, <3>3, <3>4, <3>6, <3>7 DEF Counted
  <2>7. QED
    BY <2>1, <2>2, <2>3, <2>4, <2>5, <2>6
<1>8. QED
  BY <1>1, <1>2, <1>3, <1>4, <1>5, <1>6, <1>7 DEF BspStep, BspCpuCaps

(* What the others do, one after the other. *)
LEMMA ApKeeps == ASSUME IInv, NEW c \in Processor, ApStep(c) \/ EnableIntr(c) PROVE IInv'
<1> USE IInv DEF IInv, BspLabels, ApLabels, Critical, Registered, AP, NoStack
<1>1. CASE Trampoline(c)
  <2>1. TypeOK'
    BY <1>1 DEF Trampoline, Go, TypeOK
  <2>2. OneAtATime'
    BY <1>1 DEF Trampoline, Go, TypeOK, OneAtATime, Phases
  <2>3. Phases'
    BY <1>1 DEF Trampoline, Go, TypeOK, OneAtATime, Phases
  <2>a. Go(c, "trampoline", "lock")
    BY <1>1 DEF Trampoline
  <2>b. Records' /\ Whole' = Whole
    BY <1>1, <2>a, SameRecords DEF Trampoline
  <2>4. Records'
    BY <2>b
  <2>5. Stacks'
    <3>1. c # bsp
      BY <2>a DEF Go, TypeOK
    <3>2. QED
      BY <1>1, <2>a, <2>b, <3>1, SameStacks DEF Trampoline
  <2>6. Counted'
    BY <1>1 DEF Trampoline, Go, TypeOK, OneAtATime, Phases, Counted
  <2>7. QED
    BY <2>1, <2>2, <2>3, <2>4, <2>5, <2>6
<1>2. CASE AcquireTrampoline(c)
  <2>1. TypeOK'
    BY <1>2 DEF AcquireTrampoline, Go, TypeOK
  <2>2. OneAtATime'
    BY <1>2 DEF AcquireTrampoline, Go, TypeOK, OneAtATime, Phases
  <2>3. Phases'
    BY <1>2 DEF AcquireTrampoline, Go, TypeOK, OneAtATime, Phases
  <2>a. Go(c, "lock", "stack_AP")
    BY <1>2 DEF AcquireTrampoline
  <2>b. Records' /\ Whole' = Whole
    BY <1>2, <2>a, SameRecords DEF AcquireTrampoline
  <2>4. Records'
    BY <2>b
  <2>5. Stacks'
    <3>1. c # bsp
      BY <2>a DEF Go, TypeOK
    <3>2. QED
      BY <1>2, <2>a, <2>b, <3>1, SameStacks DEF AcquireTrampoline
  <2>6. Counted'
    BY <1>2 DEF AcquireTrampoline, Go, TypeOK, OneAtATime, Phases, Counted
  <2>7. QED
    BY <2>1, <2>2, <2>3, <2>4, <2>5, <2>6
<1>3. CASE AllocateStack(c)
  <2>1. TypeOK'
    BY <1>3 DEF AllocateStack, Go, TypeOK
  <2>2. OneAtATime'
    BY <1>3 DEF AllocateStack, Go, TypeOK, OneAtATime, Phases
  <2>3. Phases'
    BY <1>3 DEF AllocateStack, Go, TypeOK, OneAtATime, Phases
  <2>a. Go(c, "stack_AP", "apic_AP")
    BY <1>3 DEF AllocateStack
  <2>b. Records' /\ Whole' = Whole
    BY <1>3, <2>a, SameRecords DEF AllocateStack
  <2>4. Records'
    BY <2>b
  <2>5. Stacks'
    <3>1. /\ pages' = pages + 1 /\ stack' = pages + 1 /\ UNCHANGED <<tss, cpu_list, bsp>>
          /\ pc[c] = "stack_AP" /\ pc' = [pc EXCEPT ![c] = "apic_AP"] /\ c \in AP
      BY <1>3 DEF AllocateStack, Go, TypeOK
    <3>2. /\ pc[bsp] = "wait"
          /\ \A d \in Processor : pc[d] # "gdt_AP" /\ pc'[d] # "gdt_AP"
      BY <3>1 DEF OneAtATime, TypeOK
    <3>3. \A i \in Whole' : LET d == cpu_list'[i].apic_id IN
              cpu_list'[i].stack = IF pc'[d] = "gdt_AP" THEN stack' ELSE tss'[d]
      BY <2>b, <3>1, <3>2 DEF Stacks, Records
    <3>4. /\ \A d \in Processor : tss'[d] <= pages' /\ tss'[d] # stack'
          /\ \A d, e \in Processor : tss'[d] = tss'[e] /\ tss'[d] # NoStack => d = e
      BY <3>1 DEF Stacks, TypeOK
    <3>5. \A d \in AP' : pc'[d] \in Registered \ {"gdt_AP"} => tss'[d] # NoStack
      BY <3>1 DEF Stacks, TypeOK
    <3>6. pc'[bsp] = "wait" /\ stack' = pages' /\ stack' # NoStack
      BY <3>1, <3>2 DEF TypeOK
    <3>7. QED
      BY <3>1, <3>3, <3>4, <3>5, <3>6 DEF Stacks
  <2>6. Counted'
    BY <1>3 DEF AllocateStack, Go, TypeOK, OneAtATime, Phases, Counted
  <2>7. QED
    BY <2>1, <2>2, <2>3, <2>4, <2>5, <2>6
<1>4. CASE Register(c, "apic_AP", "caps_AP")
  <2>a. /\ cpu_list' = Append(cpu_list, [apic_id |-> 0, stack |-> NoStack])
        /\ UNCHANGED <<bsp, cores_booted, stack, tss, pages>>
        /\ pc[c] = "apic_AP" /\ pc' = [pc EXCEPT ![c] = "caps_AP"] /\ c \in AP
    BY <1>4 DEF Register, Go, TypeOK
  <2>b. /\ pc[bsp] = "wait" /\ pc'[bsp] = "wait"
        /\ \A d \in AP : d # c => pc[d] \notin Critical /\ pc'[d] = pc[d]
    BY <2>a DEF OneAtATime, TypeOK
  <2>c. Whole = 1 .. Len(cpu_list) /\ ~Uncounted
    BY <2>a, <2>b DEF Whole, HalfFilled, Uncounted, TypeOK
  <2>d. /\ Len(cpu_list') = Len(cpu_list) + 1
        /\ \A i \in 1 .. Len(cpu_list) : cpu_list'[i] = cpu_list[i]
    BY <2>a DEF TypeOK
  <2>e. Whole' = Whole /\ Uncounted' /\ AP' = AP
    BY <2>a, <2>b, <2>c, <2>d DEF Whole, HalfFilled, Uncounted, TypeOK
  <2>f. \A d \in Processor : /\ pc'[d] \in Registered <=> pc[d] \in Registered
                             /\ pc'[d] = "gdt_AP" <=> pc[d] = "gdt_AP"
    BY <2>a DEF TypeOK
  <2>1. TypeOK'
    BY <1>4, BlankRecord DEF Register, Go, TypeOK
  <2>2. OneAtATime'
    BY <1>4 DEF Register, Go, TypeOK, OneAtATime, Phases
  <2>3. Phases'
    BY <1>4 DEF Register, Go, TypeOK, OneAtATime, Phases
  <2>4. Records'
    <3> HIDE DEF AP, Registered
    <3>1. Len(cpu_list') = cores_booted' + 1
      BY <2>a, <2>b, <2>c, <2>d DEF Records
    <3>2. \A i \in Whole' : LET d == cpu_list'[i].apic_id IN
              d \in Processor /\ (d = bsp' \/ pc'[d] \in Registered)
      BY <2>a, <2>c, <2>d, <2>e, <2>f DEF Records
    <3>3. \A i, j \in Whole' : i # j => cpu_list'[i].apic_id # cpu_list'[j].apic_id
      BY <2>c, <2>d, <2>e DEF Records
    <3>4. 1 \in Whole' /\ cpu_list'[1].apic_id = bsp'
      BY <2>a, <2>b, <2>c, <2>d, <2>e DEF Records
    <3>5. \A d \in AP' : pc'[d] \in Registered => \E i \in Whole' : cpu_list'[i].apic_id = d
      BY <2>c, <2>d, <2>e, <2>f DEF Records, AP
    <3>6. QED
      BY <2>a, <2>b, <2>e, <3>1, <3>2, <3>3, <3>4, <3>5 DEF Records
  <2>5. Stacks'
    <3>1. \A i \in Whole' : LET d == cpu_list'[i].apic_id IN
              cpu_list'[i].stack = IF pc'[d] = "gdt_AP" THEN stack' ELSE tss'[d]
      BY <2>a, <2>c, <2>d, <2>e, <2>f DEF Stacks, Records
    <3>2. \A d \in AP' : pc'[d] \in Registered \ {"gdt_AP"} => tss'[d] # NoStack
      BY <2>a, <2>e, <2>f DEF Stacks
    <3>3. \A d \in AP' : pc'[d] \in {"apic_AP", "caps_AP", "gdt_AP"} =>
               /\ stack' = pages' /\ stack' # NoStack
               /\ \A e \in Processor : tss'[e] # stack'
      BY <2>a, <2>e DEF Stacks, TypeOK
    <3>4. QED
      BY <2>a, <2>b, <3>1, <3>2, <3>3 DEF Stacks
  <2>6. Counted'
    BY <1>4 DEF Register, Go, TypeOK, OneAtATime, Phases, Counted
  <2>7. QED
    BY <2>1, <2>2, <2>3, <2>4, <2>5, <2>6
<1>5. CASE Identify(c, "caps_AP", "gdt_AP", stack)
  <2> DEFINE record == [apic_id |-> c, stack |-> stack]
  <2>a. /\ cpu_list' = [cpu_list EXCEPT ![Len(cpu_list)] = record]
        /\ UNCHANGED <<bsp, cores_booted, stack, tss, pages>>
        /\ pc[c] = "caps_AP" /\ pc' = [pc EXCEPT ![c] = "gdt_AP"] /\ c \in AP
    BY <1>5 DEF Identify, Go, TypeOK
  <2>b. record \in CpuInfo /\ record.apic_id = c /\ record.stack = stack
    BY DEF TypeOK, CpuInfo
  <2> HIDE DEF record
  <2>c. /\ pc[bsp] = "wait" /\ pc'[bsp] = "wait" /\ pc'[c] = "gdt_AP"
        /\ \A d \in AP : d # c => pc[d] \notin Critical /\ pc'[d] = pc[d]
    BY <2>a DEF OneAtATime, TypeOK
  <2>d. /\ cpu_list' \in Seq(CpuInfo) /\ Len(cpu_list') = Len(cpu_list) /\ Len(cpu_list) \in Nat
        /\ \A i \in 1 .. Len(cpu_list) :
               cpu_list'[i] = IF i = Len(cpu_list) THEN record ELSE cpu_list[i]
    BY <2>a, <2>b, Replaced DEF TypeOK
  <2>e. /\ Whole = 1 .. Len(cpu_list) - 1 /\ Uncounted
        /\ Whole' = 1 .. Len(cpu_list) /\ Uncounted' /\ AP' = AP
    <3>1. AP' = AP /\ pc'[bsp] # "caps" /\ bsp' = bsp
      BY <2>a, <2>c DEF AP
    <3>2. HalfFilled /\ Uncounted /\ Uncounted'
      BY <2>a, <2>c, <3>1 DEF HalfFilled, Uncounted
    <3>3. ~ HalfFilled'
      BY <2>c, <3>1 DEF HalfFilled, Critical
    <3>4. QED
      BY <2>d, <3>1, <3>2, <3>3 DEF Whole
  <2>f. \A d \in AP : /\ pc'[d] \in Registered <=> pc[d] \in Registered \/ d = c
                      /\ pc'[d] = "gdt_AP" <=> d = c
    BY <2>a, <2>c DEF TypeOK
  <2>g. /\ c # bsp /\ pc[c] \notin Registered /\ pc'[c] \in Registered
        /\ \A i \in Whole : cpu_list[i].apic_id # c /\ cpu_list'[i] = cpu_list[i]
    <3>1. \A i \in Whole : i \in 1 .. Len(cpu_list) /\ i # Len(cpu_list)
      BY <2>d, <2>e
    <3>2. c # bsp /\ pc[c] \notin Registered /\ pc'[c] \in Registered
      BY <2>a, <2>c DEF TypeOK
    <3>3. \A i \in Whole : cpu_list[i].apic_id # c
      BY <3>2 DEF Records
    <3>4. QED
      BY <2>d, <3>1, <3>2, <3>3
  <2>1. TypeOK'
    <3>1. /\ pc' \in [Processor -> BspLabels \cup ApLabels] /\ pc'[bsp] \in BspLabels
          /\ \A d \in AP : pc'[d] \in ApLabels
      BY <2>a, <2>c DEF TypeOK, ApLabels, Critical
    <3>2. /\ UNCHANGED <<TRAMPOLINE_LOCK, all_APs_booted, all_cores_mask, read>>
          /\ AP' = AP
      BY <1>5, <2>a DEF Identify, AP
    <3>3. QED
      BY <2>a, <2>d, <3>1, <3>2 DEF TypeOK
  <2>2. OneAtATime'
    BY <1>5 DEF Identify, Go, TypeOK, OneAtATime, Phases
  <2>3. Phases'
    BY <1>5 DEF Identify, Go, TypeOK, OneAtATime, Phases
  <2>4. Records'
    <3> HIDE DEF AP, Registered
    <3>1. Len(cpu_list') = cores_booted' + 1
      BY <2>a, <2>c, <2>d, <2>e DEF Records
    <3>2. \A i \in Whole' : i = Len(cpu_list) \/ i \in Whole
      BY <2>d, <2>e
    <3>3. Len(cpu_list) \in Whole' /\ cpu_list'[Len(cpu_list)] = record /\ 1 \in Whole
      BY <2>c, <2>d, <2>e DEF Records
    <3>4. \A i \in Whole' : LET d == cpu_list'[i].apic_id IN
              d \in Processor /\ (d = bsp' \/ pc'[d] \in Registered)
      BY <2>a, <2>b, <2>f, <2>g, <3>2, <3>3 DEF Records, AP
    <3>5. \A i, j \in Whole' : i # j => cpu_list'[i].apic_id # cpu_list'[j].apic_id
      BY <2>b, <2>g, <3>2, <3>3 DEF Records
    <3>6. 1 \in Whole' /\ cpu_list'[1].apic_id = bsp'
      BY <2>a, <2>c, <2>d, <2>e, <2>g, <3>3 DEF Records
    <3>7. \A d \in AP' : pc'[d] \in Registered => \E i \in Whole' : cpu_list'[i].apic_id = d
      <4>1. SUFFICES ASSUME NEW d \in AP, pc'[d] \in Registered
                     PROVE  \E i \in Whole' : cpu_list'[i].apic_id = d
        BY <2>e
      <4>2. CASE d = c
        BY <4>2, <2>b, <3>3
      <4>3. CASE d # c
        <5>1. PICK i \in Whole : cpu_list[i].apic_id = d
          BY <4>1, <4>3, <2>f DEF Records
        <5>2. i \in Whole'
          BY <2>d, <2>e
        <5>3. QED
          BY <5>1, <5>2, <2>g
      <4>4. QED
        BY <4>2, <4>3
    <3>8. QED
      BY <2>a, <2>c, <2>e, <3>1, <3>4, <3>5, <3>6, <3>7 DEF Records
  <2>5. Stacks'
    <3>1. \A i \in Whole' : i = Len(cpu_list) \/ i \in Whole
      BY <2>d, <2>e
    <3>2. Len(cpu_list) \in Whole' => cpu_list'[Len(cpu_list)] = record
      BY <2>d, <2>e
    <3>3. \A i \in Whole' : LET d == cpu_list'[i].apic_id IN
              cpu_list'[i].stack = IF pc'[d] = "gdt_AP" THEN stack' ELSE tss'[d]
      <4> SUFFICES ASSUME NEW i \in Whole'
                   PROVE  cpu_list'[i].stack = IF pc'[cpu_list'[i].apic_id] = "gdt_AP" THEN stack'
                                               ELSE tss'[cpu_list'[i].apic_id]
        OBVIOUS
      <4>1. CASE i = Len(cpu_list)
        BY <4>1, <3>2, <2>a, <2>b, <2>c
      <4>2. CASE i \in Whole
        <5> DEFINE d == cpu_list[i].apic_id
        <5>1. d \in Processor /\ d # c /\ cpu_list'[i] = cpu_list[i]
          BY <4>2, <2>g DEF Records
        <5>2. pc'[d] = pc[d]
          BY <5>1, <2>a DEF TypeOK
        <5>3. cpu_list[i].stack = IF pc[d] = "gdt_AP" THEN stack ELSE tss[d]
          BY <4>2 DEF Stacks
        <5>4. QED
          BY <5>1, <5>2, <5>3, <2>a
      <4>3. QED
        BY <3>1, <4>1, <4>2
    <3>4. \A d \in AP' : pc'[d] \in Registered \ {"gdt_AP"} => tss'[d] # NoStack
      BY <2>a, <2>e, <2>f DEF Stacks
    <3>5. \A d \in AP' : pc'[d] \in {"apic_AP", "caps_AP", "gdt_AP"} =>
               /\ stack' = pages' /\ stack' # NoStack
               /\ \A e \in Processor : tss'[e] # stack'
      BY <2>a, <2>c, <2>e DEF Stacks, TypeOK
    <3>6. QED
      BY <2>a, <2>c, <3>3, <3>4, <3>5 DEF Stacks
  <2>6. Counted'
    BY <1>5 DEF Identify, Go, TypeOK, OneAtATime, Phases, Counted
  <2>7. QED
    BY <2>1, <2>2, <2>3, <2>4, <2>5, <2>6
<1>6. CASE init_gdt_AP(c)
  <2>a. /\ UNCHANGED <<bsp, cpu_list, cores_booted, stack, pages>>
        /\ Go(c, "gdt_AP", "count") /\ c \in AP
        /\ pc[c] = "gdt_AP" /\ pc' = [pc EXCEPT ![c] = "count"]
    BY <1>6 DEF init_gdt_AP, Go, TypeOK
  <2>b. /\ pc[bsp] = "wait" /\ pc'[bsp] = "wait" /\ pc'[c] = "count"
        /\ \A d \in AP : d # c => pc[d] \notin Critical /\ pc'[d] = pc[d]
    BY <2>a DEF OneAtATime, TypeOK
  <2>c. Whole = DOMAIN cpu_list
    BY <2>a, <2>b DEF Whole, HalfFilled, TypeOK
  <2>d. tss' = [tss EXCEPT ![c] = stack]
    <3>1. PICK i \in get_cur_cpu(c) : tss' = [tss EXCEPT ![c] = cpu_list[i].stack]
      BY <1>6 DEF init_gdt_AP
    <3>2. i \in Whole /\ cpu_list[i].apic_id = c
      BY <2>c, OwnRecord
    <3>3. QED
      BY <2>a, <3>1, <3>2 DEF Stacks
  <2>e. Records' /\ Whole' = Whole
    BY <2>a, SameRecords
  <2>1. TypeOK'
    BY <1>6, <2>d DEF init_gdt_AP, Go, TypeOK
  <2>2. OneAtATime'
    BY <1>6 DEF init_gdt_AP, Go, get_cur_cpu, TypeOK, OneAtATime, Phases
  <2>3. Phases'
    BY <1>6 DEF init_gdt_AP, Go, get_cur_cpu, TypeOK, OneAtATime, Phases
  <2>4. Records'
    BY <2>e
  <2>5. Stacks'
    <3>1. stack = pages /\ stack # NoStack /\ \A d \in Processor : tss[d] # stack
      BY <2>a DEF Stacks
    <3>2. \A d \in Processor : tss'[d] = IF d = c THEN stack ELSE tss[d]
      BY <2>d DEF TypeOK
    <3>3. \A i \in Whole' : LET d == cpu_list'[i].apic_id IN
              cpu_list'[i].stack = IF pc'[d] = "gdt_AP" THEN stack' ELSE tss'[d]
      <4> SUFFICES ASSUME NEW i \in Whole
                   PROVE  cpu_list[i].stack = IF pc'[cpu_list[i].apic_id] = "gdt_AP" THEN stack
                                              ELSE tss'[cpu_list[i].apic_id]
        BY <2>a, <2>e
      <4> DEFINE d == cpu_list[i].apic_id
      <4>1. d \in Processor /\ cpu_list[i].stack = IF pc[d] = "gdt_AP" THEN stack ELSE tss[d]
        BY DEF Records, Stacks
      <4>2. pc'[d] = IF d = c THEN "count" ELSE pc[d]
        BY <4>1, <2>a DEF TypeOK
      <4>3. d # c => pc[d] # "gdt_AP"
        BY <4>1, <2>b
      <4>4. QED
        BY <4>1, <4>2, <4>3, <3>2, <2>a
    <3>4. /\ \A d \in Processor : tss'[d] <= pages'
          /\ \A d, e \in Processor : tss'[d] = tss'[e] /\ tss'[d] # NoStack => d = e
      <4>1. \A d \in Processor : tss[d] <= pages /\ tss[d] # stack
        BY <3>1 DEF Stacks
      <4>2. \A d, e \in Processor : tss[d] = tss[e] /\ tss[d] # NoStack => d = e
        BY DEF Stacks
      <4>3. \A d \in Processor : tss'[d] <= pages'
        <5>1. stack <= pages /\ pages' = pages
          BY <2>a, <3>1 DEF TypeOK
        <5>2. QED
          BY <3>2, <4>1, <5>1
      <4>4. QED
        BY <3>2, <4>1, <4>2, <4>3
    <3>5. /\ \A d \in AP' : pc'[d] \in Registered \ {"gdt_AP"} => tss'[d] # NoStack
          /\ \A d \in AP' : pc'[d] \notin {"apic_AP", "caps_AP", "gdt_AP"}
      BY <2>a, <2>b, <3>1, <3>2 DEF Stacks
    <3>6. QED
      BY <2>a, <2>b, <3>3, <3>4, <3>5 DEF Stacks
  <2>6. Counted'
    <3>0. UNCHANGED <<all_cores_mask, cores_booted, read>>
      BY <1>6 DEF init_gdt_AP
    <3>1. /\ c \in AP /\ pc[c] = "gdt_AP" /\ pc' = [pc EXCEPT ![c] = "count"]
          /\ UNCHANGED <<bsp, all_cores_mask, cores_booted, read>>
      BY <2>a, <2>b, <3>0 DEF Go
    <3>2. {d \in AP' : pc'[d] \in {"release", "ready", "on"}}
              = {d \in AP : pc[d] \in {"release", "ready", "on"}}
      BY <3>1 DEF TypeOK, AP
    <3>3. QED
      BY <3>1, <3>2 DEF TypeOK, AP, Counted
  <2>7. QED
    BY <2>1, <2>2, <2>3, <2>4, <2>5, <2>6
<1>7. CASE ReadCount(c)
  <2>1. TypeOK'
    BY <1>7 DEF ReadCount, Go, TypeOK
  <2>2. OneAtATime'
    BY <1>7 DEF ReadCount, Go, TypeOK, OneAtATime, Phases
  <2>3. Phases'
    BY <1>7 DEF ReadCount, Go, TypeOK, OneAtATime, Phases
  <2>a. Go(c, "count", "write")
    BY <1>7 DEF ReadCount
  <2>b. Records' /\ Whole' = Whole
    BY <1>7, <2>a, SameRecords DEF ReadCount
  <2>4. Records'
    BY <2>b
  <2>5. Stacks'
    <3>1. c # bsp
      BY <2>a DEF Go, TypeOK
    <3>2. QED
      BY <1>7, <2>a, <2>b, <3>1, SameStacks DEF ReadCount
  <2>6. Counted'
    BY <1>7 DEF ReadCount, Go, TypeOK, OneAtATime, Phases, Counted
  <2>7. QED
    BY <2>1, <2>2, <2>3, <2>4, <2>5, <2>6
<1>8. CASE WriteCount(c)
  <2>a. /\ UNCHANGED <<bsp, cpu_list, stack, tss, pages>>
        /\ Go(c, "write", "release") /\ c \in AP
        /\ pc[c] = "write" /\ pc' = [pc EXCEPT ![c] = "release"]
    BY <1>8 DEF WriteCount, Go, TypeOK
  <2>b. /\ pc[bsp] = "wait" /\ pc'[bsp] = "wait" /\ pc'[c] = "release"
        /\ \A d \in AP : d # c => pc[d] \notin Critical /\ pc'[d] = pc[d]
    BY <2>a DEF OneAtATime, TypeOK
  <2>c. /\ Uncounted /\ ~Uncounted' /\ ~HalfFilled /\ ~HalfFilled' /\ AP' = AP
        /\ Whole' = Whole
    BY <2>a, <2>b DEF Uncounted, HalfFilled, Whole
  <2>d. /\ cores_booted' = cores_booted + 1
        /\ all_cores_mask' = all_cores_mask \cup {c}
    <3>1. read[c] = [booted |-> cores_booted, mask |-> all_cores_mask]
      BY <2>a DEF Counted
    <3>2. QED
      BY <1>8, <3>1, OwnRecord DEF WriteCount
  <2>1. TypeOK'
    BY <1>8 DEF WriteCount, Go, get_cur_cpu, TypeOK
  <2>2. OneAtATime'
    BY <1>8 DEF WriteCount, Go, get_cur_cpu, TypeOK, OneAtATime, Phases
  <2>3. Phases'
    BY <1>8 DEF WriteCount, Go, get_cur_cpu, TypeOK, OneAtATime, Phases
  <2>4. Records'
    <3>1. Len(cpu_list') = cores_booted'
      BY <2>a, <2>b, <2>c, <2>d DEF Records
    <3>2. \A d \in AP : pc'[d] \in Registered <=> pc[d] \in Registered
      BY <2>a, <2>b
    <3> HIDE DEF AP, Registered
    <3>3. \A i \in Whole' : LET d == cpu_list'[i].apic_id IN
              d \in Processor /\ (d = bsp' \/ pc'[d] \in Registered)
      BY <2>a, <2>c, <3>2 DEF Records, AP
    <3>4. \A d \in AP' : pc'[d] \in Registered => \E i \in Whole' : cpu_list'[i].apic_id = d
      BY <2>a, <2>c, <3>2 DEF Records
    <3>5. QED
      BY <2>a, <2>b, <2>c, <3>1, <3>3, <3>4 DEF Records
  <2>5. Stacks'
    <3>1. c # bsp
      BY <2>a DEF TypeOK
    <3>2. QED
      BY <2>a, <2>c, <3>1, SameStacks
  <2>6. Counted'
    <3>1. c \notin all_cores_mask /\ c # bsp
      BY <2>a DEF Counted, TypeOK
    <3>2. all_cores_mask' \ {bsp} = (all_cores_mask \ {bsp}) \cup {c}
      BY <2>d, <3>1
    <3>3. IsFiniteSet(all_cores_mask \ {bsp}) /\ IsFiniteSet(all_cores_mask')
      BY <2>d, FS_AddElement, FS_RemoveElement DEF Counted
    <3>4. Cardinality(all_cores_mask' \ {bsp}) = cores_booted' - 1
      <4> DEFINE others == all_cores_mask \ {bsp}
      <4>1. Cardinality(others) = cores_booted - 1 /\ c \notin others
        BY <3>1 DEF Counted
      <4> HIDE DEF others
      <4>2. Cardinality(others \cup {c}) = Cardinality(others) + 1
        <5>1. IsFiniteSet(others)
          BY <3>3 DEF others
        <5>2. QED
          BY <4>1, <5>1, FS_AddElement
      <4>3. Cardinality(others \cup {c}) = cores_booted /\ cores_booted' - 1 = cores_booted
        BY <2>d, <4>1, <4>2 DEF TypeOK
      <4>4. QED
        BY <3>2, <4>3 DEF others
    <3>5. all_cores_mask' \ {bsp} = {d \in AP : pc'[d] \in {"release", "ready", "on"}}
      BY <2>a, <2>b, <3>2 DEF Counted, TypeOK
    <3>6. \A d \in AP : pc'[d] # "write"
      BY <2>a, <2>b
    <3>7. QED
      BY <2>a, <2>b, <2>c, <3>3, <3>4, <3>5, <3>6 DEF Counted
  <2>7. QED
    BY <2>1, <2>2, <2>3, <2>4, <2>5, <2>6
<1>9. CASE Release(c)
  <2>1. TypeOK'
    BY <1>9 DEF Release, Go, IsLast, TypeOK
  <2>2. OneAtATime'
    BY <1>9 DEF Release, Go, IsLast, TypeOK, OneAtATime, Phases
  <2>3. Phases'
    BY <1>9 DEF Release, Go, IsLast, TypeOK, OneAtATime, Phases
  <2>a. Go(c, "release", "ready")
    BY <1>9 DEF Release
  <2>b. Records' /\ Whole' = Whole
    BY <1>9, <2>a, SameRecords DEF Release
  <2>4. Records'
    BY <2>b
  <2>5. Stacks'
    <3>1. c # bsp
      BY <2>a DEF Go, TypeOK
    <3>2. QED
      BY <1>9, <2>a, <2>b, <3>1, SameStacks DEF Release
  <2>6. Counted'
    BY <1>9 DEF Release, Go, IsLast, TypeOK, OneAtATime, Phases, Counted
  <2>7. QED
    BY <2>1, <2>2, <2>3, <2>4, <2>5, <2>6
<1>10. CASE EnableIntr(c)
  <2>1. TypeOK'
    BY <1>10 DEF EnableIntr, Go, TypeOK
  <2>2. OneAtATime'
    BY <1>10 DEF EnableIntr, Go, TypeOK, OneAtATime, Phases
  <2>3. Phases'
    BY <1>10 DEF EnableIntr, Go, TypeOK, OneAtATime, Phases
  <2>a. Go(c, "ready", "on")
    BY <1>10 DEF EnableIntr
  <2>b. Records' /\ Whole' = Whole
    BY <1>10, <2>a, SameRecords DEF EnableIntr
  <2>4. Records'
    BY <2>b
  <2>5. Stacks'
    <3>1. c = bsp => pc[bsp] = "ready"
      BY <2>a DEF Go, TypeOK
    <3>2. QED
      BY <1>10, <2>a, <2>b, <3>1, SameStacks DEF EnableIntr
  <2>6. Counted'
    BY <1>10 DEF EnableIntr, Go, TypeOK, OneAtATime, Phases, Counted
  <2>7. QED
    BY <2>1, <2>2, <2>3, <2>4, <2>5, <2>6
<1>11. QED
  BY <1>1, <1>2, <1>3, <1>4, <1>5, <1>6, <1>7, <1>8, <1>9, <1>10 DEF ApStep, ApCpuCaps

-----------------------------------------------------------------------------
(* The invariant holds in every behaviour. *)
LEMMA Invariant == BootSpec => []IInv
<1>1. IInv /\ [BootNext]_bootVars => IInv'
  <2> SUFFICES ASSUME IInv, [BootNext]_bootVars
               PROVE  IInv'
    OBVIOUS
  <2>1. CASE BspStep
    BY <2>1, BspKeeps
  <2>2. ASSUME NEW c \in Processor, ApStep(c) \/ EnableIntr(c)
        PROVE  IInv'
    BY <2>2, ApKeeps
  <2>3. CASE UNCHANGED bootVars
    BY <2>3 DEF bootVars, IInv, TypeOK, OneAtATime, Phases, Records, Stacks, Counted, Uncounted,
                HalfFilled, Whole, AP
  <2>4. QED
    BY <2>1, <2>2, <2>3 DEF BootNext
<1>2. QED
  BY <1>1, InitHolds, PTL DEF BootSpec

(* Every variable keeps its type; what a processor has in its registers    *)
(* between the read and the write of the counters is a count and a mask.   *)
THEOREM TypeCorrect == BootSpec => []TypeOK
<1>1. IInv => TypeOK
  BY DEF IInv
<1>2. QED
  BY <1>1, Invariant, PTL

(* startup_APs wakes all processors at once, but one at a time is between  *)
(* its stack and the release of TRAMPOLINE_LOCK (init.c:142-168), and the  *)
(* bootstrap processor waits until the last one is through.                *)
THEOREM OneProcessorStartsAtATime == BootSpec => []OneAtATime
<1>1. IInv => OneAtATime
  BY DEF IInv
<1>2. QED
  BY <1>1, Invariant, PTL

(* Whoever takes timer interrupts is in all_cores_mask, has a record that  *)
(* get_cur_cpu finds, and a stack nobody else has; and the programs are    *)
(* loaded when all processors of the tables have a record and are counted. *)
(* The counters are read and written without a lock of their own.          *)
THEOREM TheProcessorsStartInOrder == BootSpec => []ProcessorsStartInOrder
<1>1. IInv => TimerFindsItsProcessor
  <2> SUFFICES ASSUME IInv, NEW c \in Processor, pc[c] = "on"
               PROVE  /\ c \in all_cores_mask
                      /\ tss[c] # NoStack
                      /\ \E i \in get_cur_cpu(c) : cpu_list[i].stack = tss[c]
                      /\ \A d \in Processor : d # c => tss[d] # tss[c]
    BY DEF TimerFindsItsProcessor, On
  <2> USE DEF IInv, AP
  <2>1. c \in all_cores_mask
    BY DEF Counted
  <2>2. tss[c] # NoStack /\ \A d \in Processor : d # c => tss[d] # tss[c]
    BY DEF Stacks, Registered, TypeOK
  <2>3. PICK i \in Whole : cpu_list[i].apic_id = c
    BY DEF Records, Registered
  <2>4. i \in DOMAIN cpu_list /\ \A j \in 1 .. i - 1 : j \in Whole
    BY DEF Whole, TypeOK
  <2>5. i \in get_cur_cpu(c)
    BY <2>3, <2>4 DEF get_cur_cpu, Records, Whole
  <2>6. cpu_list[i].stack = tss[c]
    BY <2>3 DEF Stacks
  <2>7. QED
    BY <2>1, <2>2, <2>5, <2>6
<1>2. IInv => ProgramsComeLast
  <2> SUFFICES ASSUME IInv, pc[bsp] \in {"stack", "loaded", "ready", "on"}
               PROVE  /\ cores_from_tables = Len(cpu_list)
                      /\ \A i, j \in DOMAIN cpu_list :
                             i # j => cpu_list[i].apic_id # cpu_list[j].apic_id
                      /\ Cardinality(all_cores_mask \ {bsp}) = cores_from_tables - 1
    BY DEF ProgramsComeLast
  <2> USE DEF IInv
  <2>1. cores_booted = cores_from_tables /\ ~Uncounted /\ ~HalfFilled
    BY DEF Phases, Uncounted, HalfFilled, Critical
  <2>2. Len(cpu_list) = cores_booted /\ Whole = DOMAIN cpu_list
    BY <2>1 DEF Records, Whole, TypeOK
  <2>3. QED
    BY <2>1, <2>2 DEF Records, Counted
<1>3. IInv => ProcessorsStartInOrder
  BY <1>1, <1>2 DEF ProcessorsStartInOrder
<1>4. QED
  BY <1>3, Invariant, PTL

-----------------------------------------------------------------------------
(* Numbers of pages and addresses. *)
LEMMA PageSize == PAGE_SIZE \in Nat \ {0} /\ PAGE_SIZE \in Int /\ PAGE_SIZE > 0
  BY SizesAssumption

LEMMA InPages ==
    ASSUME NEW a \in Int
    PROVE  /\ a \div PAGE_SIZE \in Int
           /\ (a \div PAGE_SIZE) * PAGE_SIZE <= a
           /\ a < (a \div PAGE_SIZE) * PAGE_SIZE + PAGE_SIZE
           /\ (a \div PAGE_SIZE) * PAGE_SIZE \in Int
  BY PageSize

LEMMA PagesAdd ==
    ASSUME NEW m \in Int, NEW n \in Int
    PROVE  /\ m * PAGE_SIZE \in Int
           /\ (m + n) * PAGE_SIZE = m * PAGE_SIZE + n * PAGE_SIZE
           /\ (m - n) * PAGE_SIZE = m * PAGE_SIZE - n * PAGE_SIZE
           /\ (m + 1) * PAGE_SIZE = m * PAGE_SIZE + PAGE_SIZE
  BY PageSize

LEMMA PagesAscend ==
    ASSUME NEW m \in Int, NEW n \in Int
    PROVE  /\ m <= n => m * PAGE_SIZE <= n * PAGE_SIZE
           /\ m * PAGE_SIZE < n * PAGE_SIZE + PAGE_SIZE => m <= n
<1>1. PAGE_SIZE \in Nat /\ PAGE_SIZE > 0
  BY PageSize
<1>2. ASSUME NEW d \in Nat PROVE d * PAGE_SIZE >= 0 /\ d * PAGE_SIZE \in Int
  BY <1>1
<1>3. ASSUME m <= n PROVE m * PAGE_SIZE <= n * PAGE_SIZE
  <2>1. n - m \in Nat /\ (n - m) * PAGE_SIZE = n * PAGE_SIZE - m * PAGE_SIZE
    BY <1>3, PagesAdd
  <2>2. (n - m) * PAGE_SIZE >= 0 /\ n * PAGE_SIZE \in Int /\ m * PAGE_SIZE \in Int
    BY <2>1, <1>2, PagesAdd
  <2>3. QED
    BY <2>1, <2>2
<1>4. ASSUME m > n PROVE m * PAGE_SIZE >= n * PAGE_SIZE + PAGE_SIZE
  <2>1. m - (n + 1) \in Nat /\ n + 1 \in Int
    BY <1>4
  <2>2. (m - (n + 1)) * PAGE_SIZE = m * PAGE_SIZE - (n + 1) * PAGE_SIZE
    BY <2>1, PagesAdd
  <2>3. (m - (n + 1)) * PAGE_SIZE >= 0
    BY <2>1, <1>2
  <2>4. QED
    BY <2>1, <2>2, <2>3, <1>1, PagesAdd
<1>5. QED
  BY <1>1, <1>3, <1>4, PagesAdd

LEMMA PageIs ==
    ASSUME NEW a \in Int, NEW n \in Int,
           n * PAGE_SIZE <= a, a < n * PAGE_SIZE + PAGE_SIZE
    PROVE  a \div PAGE_SIZE = n
<1> DEFINE m == a \div PAGE_SIZE
<1>1. m \in Int /\ m * PAGE_SIZE <= a /\ a < m * PAGE_SIZE + PAGE_SIZE /\ m * PAGE_SIZE \in Int
  BY InPages
<1> HIDE DEF m
<1>2. n * PAGE_SIZE \in Int /\ PAGE_SIZE \in Int
  BY PagesAdd, PageSize
<1>3. m * PAGE_SIZE < n * PAGE_SIZE + PAGE_SIZE /\ n * PAGE_SIZE < m * PAGE_SIZE + PAGE_SIZE
  BY <1>1, <1>2
<1>4. m <= n /\ n <= m
  BY <1>1, <1>3, PagesAscend
<1>5. QED
  BY <1>1, <1>4 DEF m

LEMMA PagesOfPages ==
    ASSUME NEW n \in Int
    PROVE  (n * PAGE_SIZE) \div PAGE_SIZE = n /\ (n * PAGE_SIZE - 1) \div PAGE_SIZE = n - 1
<1>1. PAGE_SIZE \in Nat /\ PAGE_SIZE > 0 /\ n * PAGE_SIZE \in Int
  BY PagesAdd, PageSize
<1>2. n - 1 \in Int /\ (n - 1) * PAGE_SIZE = n * PAGE_SIZE - PAGE_SIZE
  BY <1>1, PagesAdd
<1>3. (n * PAGE_SIZE) \div PAGE_SIZE = n
  BY <1>1, PageIs
<1>4. (n * PAGE_SIZE - 1) \div PAGE_SIZE = n - 1
  BY <1>1, <1>2, PageIs
<1>5. QED
  BY <1>3, <1>4

(* Pages ascend with addresses. *)
LEMMA PageAscends ==
    ASSUME NEW a \in Int, NEW b \in Int, a <= b
    PROVE  a \div PAGE_SIZE <= b \div PAGE_SIZE
<1> DEFINE m == a \div PAGE_SIZE
           n == b \div PAGE_SIZE
<1>1. m \in Int /\ m * PAGE_SIZE <= a /\ n \in Int /\ b < n * PAGE_SIZE + PAGE_SIZE
  BY InPages
<1> HIDE DEF m, n
<1>2. m * PAGE_SIZE \in Int /\ n * PAGE_SIZE \in Int /\ PAGE_SIZE \in Int
  BY <1>1, PagesAdd, PageSize
<1>3. m * PAGE_SIZE < n * PAGE_SIZE + PAGE_SIZE
  BY <1>1, <1>2
<1>4. QED
  BY <1>1, <1>3, PagesAscend DEF m, n


-----------------------------------------------------------------------------
(* What the operators are in numbers of pages. *)
Room == Easymap + STDRD_STACKSIZ + PMM_STACK_SIZ
ModulePages(mods) == (mod_size(mods) + PAGE_SIZE - 1) \div PAGE_SIZE
CutPages(mods) == Room + ModulePages(mods) + PAGING_HIER_SIZE + 2
FirstPage(region) == region.base \div PAGE_SIZE
FirstWhole(region) == (region.base + PAGE_SIZE - 1) \div PAGE_SIZE
EndPage(region) == (region.base + region.length) \div PAGE_SIZE
LastPage(region) == (region.base + region.length - 1) \div PAGE_SIZE
WholePages(region) == region.length \div PAGE_SIZE

LEMMA CutInPages ==
    ASSUME NEW mods, mod_size(mods) \in Nat
    PROVE  /\ Room \in Nat \ {0} /\ ModulePages(mods) \in Nat /\ PAGING_HIER_SIZE \in {2, 4}
           /\ CutPages(mods) \in Nat /\ mod_size(mods) <= ModulePages(mods) * PAGE_SIZE
           /\ Before(mods) = (Room + ModulePages(mods)) * PAGE_SIZE
           /\ Cut(mods) = CutPages(mods) * PAGE_SIZE
           /\ Cut(mods) \in Nat /\ Before(mods) \in Nat
<1> DEFINE size == mod_size(mods)
           m == ModulePages(mods)
<1>1. PAGE_SIZE \in Nat /\ PAGE_SIZE > 0
  BY PageSize
<1>2. Room \in Nat \ {0} /\ PAGING_HIER_SIZE \in {2, 4}
  BY SizesAssumption DEF Room, Easymap, PAGING_HIER_SIZE
<1>3. /\ m \in Int /\ m * PAGE_SIZE \in Int /\ m * PAGE_SIZE <= size + PAGE_SIZE - 1
      /\ size + PAGE_SIZE - 1 < m * PAGE_SIZE + PAGE_SIZE
  <2>1. size + PAGE_SIZE - 1 \in Int
    BY <1>1
  <2>2. QED
    BY <2>1, InPages DEF ModulePages
<1>4. ALIGNED_BASE(size) = m * PAGE_SIZE
  BY DEF ALIGNED_BASE, AlignedDown, ModulePages
<1> HIDE DEF m
<1>5. size <= m * PAGE_SIZE
  BY <1>1, <1>3
<1>6. m \in Nat
  <2>1. 0 * PAGE_SIZE = 0
    BY <1>1
  <2>2. 0 * PAGE_SIZE < m * PAGE_SIZE + PAGE_SIZE
    BY <1>1, <1>3, <1>5, <2>1
  <2>3. 0 <= m
    BY <1>3, <2>2, PagesAscend
  <2>4. QED
    BY <1>3, <2>3
<1>7. Before(mods) = (Room + m) * PAGE_SIZE
  <2>1. Before(mods) = Room * PAGE_SIZE + m * PAGE_SIZE
    BY <1>4 DEF Before, Room
  <2>2. QED
    BY <1>2, <1>3, <2>1, PagesAdd
<1>8. Cut(mods) = CutPages(mods) * PAGE_SIZE
  <2>1. Cut(mods) = (Room + m) * PAGE_SIZE + (PAGING_HIER_SIZE + 2) * PAGE_SIZE
    BY <1>7 DEF Cut
  <2>2. Room + m \in Int /\ PAGING_HIER_SIZE + 2 \in Int
    BY <1>2, <1>3
  <2>3. CutPages(mods) = (Room + m) + (PAGING_HIER_SIZE + 2)
    BY <1>2, <1>3 DEF CutPages, m
  <2>4. QED
    BY <2>1, <2>2, <2>3, PagesAdd
<1>9. CutPages(mods) \in Nat /\ Room + m \in Nat
  BY <1>2, <1>6 DEF CutPages, m
<1>10. \A n \in Nat : n * PAGE_SIZE \in Nat
  BY <1>1
<1>11. QED
  BY <1>2, <1>5, <1>6, <1>7, <1>8, <1>9, <1>10 DEF m

(* Which pages of a region there are, and which of them are pushed. *)
LEMMA RegionPages ==
    ASSUME NEW region \in Region
    PROVE  /\ FirstPage(region) \in Int /\ FirstWhole(region) \in Int
           /\ EndPage(region) \in Int /\ WholePages(region) \in Nat
           /\ FirstPage(region) <= FirstWhole(region) /\ FirstWhole(region) <= FirstPage(region) + 1
           /\ EndPage(region) <= FirstWhole(region) + WholePages(region)
           /\ LastPage(region) \in Int /\ FirstWhole(region) + WholePages(region) <= LastPage(region) + 1
           /\ ALIGNED_BASE(region.base) = FirstWhole(region) * PAGE_SIZE
           /\ AlignedDown(region.base) = FirstPage(region) * PAGE_SIZE
           /\ AlignedDown(region.base + region.length) = EndPage(region) * PAGE_SIZE
<1> DEFINE b == region.base
           l == region.length
           lo == FirstPage(region)
           up == FirstWhole(region)
           top == EndPage(region)
           cnt == WholePages(region)
           last == LastPage(region)
           P == PAGE_SIZE
<1>1. b \in Nat /\ l \in Nat /\ P \in Nat /\ P > 0
  BY PageSize DEF Region
<1>2. b + P - 1 \in Int /\ b + l \in Int /\ b + l - 1 \in Int
  BY <1>1
<1>3. lo \in Int /\ lo * P \in Int /\ lo * P <= b /\ b < lo * P + P
  <2>1. b \in Int
    BY <1>1
  <2> HIDE DEF b
  <2>2. QED
    BY <2>1, InPages DEF FirstPage, b
<1>4. up \in Int /\ up * P \in Int /\ up * P <= b + P - 1 /\ b + P - 1 < up * P + P
  BY <1>2, InPages DEF FirstWhole
<1>5. top \in Int /\ top * P \in Int /\ top * P <= b + l /\ b + l < top * P + P
  BY <1>2, InPages DEF EndPage
<1>6. cnt \in Int /\ cnt * P \in Int /\ cnt * P <= l /\ l < cnt * P + P
  BY <1>1, InPages DEF WholePages
<1>7. last \in Int /\ last * P \in Int /\ last * P <= b + l - 1 /\ b + l - 1 < last * P + P
  BY <1>2, InPages DEF LastPage
<1>8. /\ ALIGNED_BASE(b) = up * P /\ AlignedDown(b) = lo * P /\ AlignedDown(b + l) = top * P
  BY DEF ALIGNED_BASE, AlignedDown, FirstPage, FirstWhole, EndPage
<1> HIDE DEF b, l, lo, up, top, cnt, last, P
<1>9. cnt \in Nat
  <2>1. 0 * P = 0
    BY <1>1
  <2>2. 0 * P < cnt * P + P
    BY <1>1, <1>6, <2>1
  <2>3. 0 <= cnt
    BY <1>6, <2>2, PagesAscend DEF P
  <2>4. QED
    BY <1>6, <2>3
<1>10. lo <= up
  <2>1. lo * P < up * P + P
    BY <1>1, <1>3, <1>4
  <2>2. QED
    BY <1>3, <1>4, <2>1, PagesAscend DEF P
<1>11. up <= lo + 1
  <2>1. lo + 1 \in Int /\ (lo + 1) * P = lo * P + P
    BY <1>3, PagesAdd DEF P
  <2>2. up * P < (lo + 1) * P + P
    BY <1>1, <1>3, <1>4, <2>1
  <2>3. QED
    BY <1>4, <2>1, <2>2, PagesAscend DEF P
<1>12. up + cnt \in Int /\ (up + cnt) * P = up * P + cnt * P
  BY <1>4, <1>6, PagesAdd DEF P
<1>13. top <= up + cnt
  <2>1. top * P < (up + cnt) * P + P
    BY <1>1, <1>4, <1>5, <1>6, <1>12
  <2>2. QED
    BY <1>5, <1>12, <2>1, PagesAscend DEF P
<1>14. up + cnt <= last + 1
  <2>1. last + 1 \in Int /\ (last + 1) * P = last * P + P
    BY <1>7, PagesAdd DEF P
  <2>2. (up + cnt) * P < (last + 1) * P + P
    BY <1>1, <1>4, <1>6, <1>7, <1>12, <2>1
  <2>3. QED
    BY <1>12, <2>1, <2>2, PagesAscend DEF P
<1>15. QED
  BY <1>3, <1>4, <1>5, <1>7, <1>8, <1>9, <1>10, <1>11, <1>13, <1>14 DEF b, l, lo, up, top, cnt, last, P

-----------------------------------------------------------------------------
(* The sizes of the modules.                                               *)
Ordered(mods) == \A i \in DOMAIN mods : mods[i].start <= mods[i].end
Sums(mods, n, f) == \A i \in 0 .. n : f[i] = IF i = 0 THEN 0 ELSE f[i - 1] + (mods[i].end - mods[i].start)

(* A set of numbers has a first element, which is what Min chooses. *)
LEMMA FirstOne ==
    ASSUME NEW S, S \subseteq Nat, S # {}
    PROVE  Min(S) \in S /\ \A y \in S : Min(S) <= y
<1> DEFINE less == OpToRel(<, Nat)
<1>1. \E x \in S : \A y \in S : ~ (<<y, x>> \in less)
  BY NatLessThanWellFounded, WFMin, Zenon
<1>2. \A x, y \in Nat : y < x => <<y, x>> \in less
  BY Zenon DEF OpToRel
<1> HIDE DEF less
<1>3. PICK x \in S : \A y \in S : ~ (<<y, x>> \in less)
  BY <1>1
<1>4. \A y \in S : ~ (y < x)
  BY <1>2, <1>3, Zenon
<1>5. \A y \in S : x <= y
  BY <1>4
<1>6. QED
  BY <1>5 DEF Min

LEMMA SumsExist ==
    ASSUME NEW mods \in Seq(Extent), Ordered(mods)
    PROVE  \A n \in 0 .. Len(mods) : \E f \in [0 .. n -> Nat] : Sums(mods, n, f)
<1> DEFINE Good(n) == \E f \in [0 .. n -> Nat] : Sums(mods, n, f)
           Bad == {n \in 0 .. Len(mods) : ~ Good(n)}
<1> SUFFICES ASSUME Bad # {} PROVE FALSE
  OBVIOUS
<1>0. Bad \subseteq Nat
  OBVIOUS
<1>1. PICK n \in Bad : \A k \in Bad : n <= k
  <2> HIDE DEF Bad
  <2>1. QED
    BY <1>0, FirstOne
<1>2. n \in 0 .. Len(mods) /\ ~ Good(n)
  OBVIOUS
<1>3. CASE n = 0
  <2> DEFINE g == [i \in 0 .. 0 |-> 0]
  <2>1. g \in [0 .. 0 -> Nat] /\ Sums(mods, 0, g)
    BY DEF Sums
  <2>2. QED
    BY <1>2, <1>3, <2>1
<1>4. CASE n # 0
  <2>1. n - 1 \in 0 .. Len(mods) /\ n \in 1 .. Len(mods) /\ n \in Nat
    BY <1>2, <1>4
  <2>2. Good(n - 1)
    <3>1. n - 1 \notin Bad
      <4> HIDE DEF Bad
      <4>1. QED
        BY <1>0, <1>1
    <3>2. QED
      BY <2>1, <3>1
  <2>3. PICK f \in [0 .. n - 1 -> Nat] : Sums(mods, n - 1, f)
    BY <2>2
  <2> DEFINE g == [i \in 0 .. n |-> IF i = n THEN f[n - 1] + (mods[n].end - mods[n].start) ELSE f[i]]
  <2>4. f[n - 1] + (mods[n].end - mods[n].start) \in Nat
    <3>1. mods[n] \in Extent /\ mods[n].start <= mods[n].end
      BY <2>1 DEF Ordered
    <3>2. n - 1 \in 0 .. n - 1
      BY <2>1
    <3>3. f[n - 1] \in Nat
      BY <2>3, <3>2
    <3>4. QED
      BY <3>1, <3>3 DEF Extent
  <2>5. g \in [0 .. n -> Nat]
    <3>1. \A i \in 0 .. n : i # n => i \in 0 .. n - 1
      BY <2>1
    <3>2. QED
      BY <2>3, <2>4, <3>1
  <2>6. Sums(mods, n, g)
    <3> SUFFICES ASSUME NEW i \in 0 .. n
                 PROVE  g[i] = IF i = 0 THEN 0 ELSE g[i - 1] + (mods[i].end - mods[i].start)
      BY DEF Sums
    <3>1. i # 0 => i - 1 \in 0 .. n /\ i - 1 # n
      BY <2>1
    <3>2. i # 0 => g[i - 1] = f[i - 1]
      BY <3>1
    <3>3. g[i] = IF i = 0 THEN 0 ELSE f[i - 1] + (mods[i].end - mods[i].start)
      <4>1. CASE i = n
        BY <4>1, <1>4
      <4>2. CASE i # n
        <5>1. i \in 0 .. n - 1
          BY <2>1, <4>2
        <5>2. QED
          BY <2>3, <4>2, <5>1 DEF Sums
      <4>3. QED
        BY <4>1, <4>2
    <3> HIDE DEF g
    <3>4. QED
      BY <3>2, <3>3
  <2>7. QED
    BY <1>2, <2>5, <2>6
<1>5. QED
  BY <1>3, <1>4

SameSizes(mods, other, n) == \A k \in 1 .. n : mods[k].end - mods[k].start = other[k].end - other[k].start

LEMMA SumsAgree ==
    ASSUME NEW mods, NEW other, NEW n \in Nat, SameSizes(mods, other, n),
           NEW f, NEW g, Sums(mods, n, f), Sums(other, n, g)
    PROVE  \A i \in 0 .. n : f[i] = g[i]
<1> DEFINE Bad == {i \in 0 .. n : f[i] # g[i]}
<1>1. Bad \subseteq Nat
  OBVIOUS
<1>2. ASSUME Bad # {} PROVE FALSE
  <2>1. PICK k \in Bad : \A q \in Bad : k <= q
    <3> HIDE DEF Bad
    <3>1. QED
      BY <1>1, <1>2, FirstOne
  <2>2. k \in 0 .. n /\ f[k] # g[k]
    OBVIOUS
  <2>3. k # 0 => k - 1 \in 0 .. n /\ k - 1 \notin Bad /\ k \in 1 .. n
    <3>1. k # 0 => k - 1 \in 0 .. n /\ k \in 1 .. n
      BY <2>2
    <3> HIDE DEF Bad
    <3>2. QED
      BY <1>1, <2>1, <2>2, <3>1
  <2>4. k # 0 => f[k - 1] = g[k - 1]
    BY <2>3
  <2>5. /\ f[k] = IF k = 0 THEN 0 ELSE f[k - 1] + (mods[k].end - mods[k].start)
        /\ g[k] = IF k = 0 THEN 0 ELSE g[k - 1] + (other[k].end - other[k].start)
    BY <2>2 DEF Sums
  <2>6. k # 0 => mods[k].end - mods[k].start = other[k].end - other[k].start
    BY <2>3 DEF SameSizes
  <2> HIDE DEF Bad
  <2>7. QED
    BY <2>2, <2>4, <2>5, <2>6
<1>3. QED
  BY <1>2

(* Sizes adds up, and does not decrease. *)
LEMMA SizesAdd ==
    ASSUME NEW mods \in Seq(Extent), Ordered(mods)
    PROVE  /\ Sizes(mods) \in [0 .. Len(mods) -> Nat] /\ Sums(mods, Len(mods), Sizes(mods))
           /\ mod_size(mods) \in Nat
           /\ \A i \in 1 .. Len(mods) :
                /\ Sizes(mods)[i] = Sizes(mods)[i - 1] + (mods[i].end - mods[i].start)
                /\ Sizes(mods)[i] <= mod_size(mods)
<1> DEFINE Adds(f) == [i \in 0 .. Len(mods) |-> IF i = 0 THEN 0 ELSE f[i - 1] + (mods[i].end - mods[i].start)]
           s == Sizes(mods)
           L == Len(mods)
<1>1. L \in Nat /\ L \in 0 .. L
  OBVIOUS
<1>2. PICK f \in [0 .. L -> Nat] : Sums(mods, L, f)
  BY <1>1, SumsExist
<1>3. f = Adds(f)
  BY <1>2 DEF Sums
<1>4. s = CHOOSE sum : sum = Adds(sum)
  BY DEF Sizes
<1>5. s = Adds(s)
  BY <1>3, <1>4
<1> HIDE DEF s, L
<1>6. Sums(mods, L, s) /\ DOMAIN s = 0 .. L
  BY <1>5 DEF Sums, L
<1>7. \A i \in 0 .. L : s[i] = f[i]
  <2>1. SameSizes(mods, mods, L)
    BY DEF SameSizes
  <2>2. QED
    BY <1>1, <1>2, <1>6, <2>1, SumsAgree
<1>8. s \in [0 .. L -> Nat]
  <2>1. s = [i \in 0 .. L |-> s[i]]
    BY <1>5 DEF L
  <2>2. QED
    BY <1>2, <1>7, <2>1
<1>9. ASSUME NEW i \in 1 .. L
      PROVE  s[i] = s[i - 1] + (mods[i].end - mods[i].start)
  BY <1>6 DEF Sums
<1>10. ASSUME NEW i \in 1 .. L
       PROVE  s[i - 1] <= s[i] /\ s[i - 1] \in Nat /\ s[i] \in Nat
  <2>1. mods[i] \in Extent /\ mods[i].start <= mods[i].end
    BY DEF Ordered, L
  <2>2. s[i - 1] \in Nat /\ s[i] \in Nat
    BY <1>1, <1>8
  <2>3. QED
    BY <2>1, <2>2, <1>9 DEF Extent
<1>11. \A i \in 0 .. L : s[i] <= s[L]
  <2> DEFINE Bad == {j \in 0 .. L : ~ (s[L - j] <= s[L])}
  <2>1. Bad \subseteq Nat
    OBVIOUS
  <2>2. ASSUME Bad # {} PROVE FALSE
    <3>1. PICK j \in Bad : \A q \in Bad : j <= q
      <4> HIDE DEF Bad
      <4>1. QED
        BY <2>1, <2>2, FirstOne
    <3>2. j \in 0 .. L /\ ~ (s[L - j] <= s[L])
      OBVIOUS
    <3>3. j # 0
      BY <1>1, <1>8, <3>2
    <3>4. j - 1 \in 0 .. L /\ j - 1 \notin Bad
      <4>1. j - 1 \in 0 .. L
        BY <1>1, <3>2, <3>3
      <4> HIDE DEF Bad
      <4>2. QED
        BY <2>1, <3>1, <3>2, <4>1
    <3>5. s[L - (j - 1)] <= s[L]
      BY <3>4
    <3>6. L - j + 1 \in 1 .. L /\ (L - j + 1) - 1 = L - j /\ L - (j - 1) = L - j + 1
      BY <1>1, <3>2, <3>3
    <3>7. s[L - j] <= s[L - j + 1] /\ s[L - j] \in Nat /\ s[L - j + 1] \in Nat
      BY <1>10, <3>6
    <3>8. s[L] \in Nat
      BY <1>1, <1>8
    <3>9. QED
      BY <3>2, <3>5, <3>6, <3>7, <3>8
  <2>3. ASSUME NEW i \in 0 .. L
        PROVE  s[i] <= s[L]
    <3>1. L - i \in 0 .. L /\ L - (L - i) = i
      BY <1>1
    <3>2. L - i \notin Bad
      BY <2>2
    <3>3. QED
      BY <3>1, <3>2
  <2>4. QED
    BY <2>3
<1>12. mod_size(mods) = s[L]
  BY DEF mod_size, s, L
<1>13. QED
  BY <1>1, <1>6, <1>8, <1>9, <1>11, <1>12 DEF s, L

(* The modules that were moved lie one behind the other, and are as large  *)
(* as they were.                                                           *)
InRow(mods, address) == \A i \in DOMAIN mods : mods[i].start = address + Sizes(mods)[i - 1]

LEMMA MovedModules ==
    ASSUME NEW mods \in Seq(Extent), Ordered(mods), NEW address \in Nat
    PROVE  /\ Moved(mods, address) \in Seq(Extent) /\ Ordered(Moved(mods, address))
           /\ mod_size(Moved(mods, address)) = mod_size(mods)
           /\ InRow(Moved(mods, address), address)
<1> DEFINE m == Moved(mods, address)
           L == Len(mods)
           s == Sizes(mods)
<1>1. L \in Nat /\ DOMAIN mods = 1 .. L
  OBVIOUS
<1>2. s \in [0 .. L -> Nat] /\ Sums(mods, L, s) /\ mod_size(mods) = s[L]
  BY SizesAdd DEF mod_size
<1> HIDE DEF L, s
<1>3. ASSUME NEW i \in 1 .. L
      PROVE  /\ m[i].start = address + s[i - 1]
             /\ m[i].end = m[i].start + mods[i].end - mods[i].start
             /\ m[i] \in Extent /\ m[i].start <= m[i].end
             /\ m[i].end - m[i].start = mods[i].end - mods[i].start
  <2>1. m[i] = [start |-> address + s[i - 1], end |-> address + s[i - 1] + mods[i].end - mods[i].start]
    BY <1>1 DEF Moved, s
  <2>2. mods[i] \in Extent /\ mods[i].start <= mods[i].end
    BY <1>1 DEF Ordered
  <2>3. i - 1 \in 0 .. L
    BY <1>1
  <2>4. address + s[i - 1] \in Nat
    BY <1>2, <2>3
  <2>5. mods[i].start \in Nat /\ mods[i].end \in Nat
    BY <2>2 DEF Extent
  <2> DEFINE at == address + s[i - 1]
             from == mods[i].start
             to == mods[i].end
  <2> HIDE DEF m, at, from, to
  <2>6. m[i] = [start |-> at, end |-> at + to - from]
    BY <2>1 DEF m, at, from, to
  <2>7. at \in Nat /\ from \in Nat /\ to \in Nat /\ from <= to
    BY <2>2, <2>4, <2>5 DEF at, from, to
  <2>8. at + to - from \in Nat /\ at <= at + to - from /\ (at + to - from) - at = to - from
    BY <2>7
  <2>9. m[i] \in Extent /\ m[i].start = at /\ m[i].end = at + to - from
    BY <2>6, <2>7, <2>8 DEF Extent
  <2>10. QED
    BY <2>8, <2>9 DEF at, from, to
<1>4. DOMAIN m = 1 .. L /\ Len(m) = L /\ m \in Seq(Extent)
  <2>1. m = [i \in 1 .. L |-> m[i]]
    BY <1>1 DEF Moved
  <2> HIDE DEF m
  <2>2. m \in [1 .. L -> Extent]
    BY <1>3, <2>1
  <2>3. QED
    BY <1>1, <2>2
<1>5. Ordered(m)
  BY <1>3, <1>4 DEF Ordered
<1> HIDE DEF m
<1>6. Sums(m, L, Sizes(m))
  BY <1>4, <1>5, SizesAdd
<1>7. \A i \in 0 .. L : Sizes(m)[i] = s[i]
  <2>1. SameSizes(m, mods, L)
    BY <1>3 DEF SameSizes
  <2>2. QED
    BY <1>1, <1>2, <1>6, <2>1, SumsAgree
<1>8. mod_size(m) = mod_size(mods)
  BY <1>1, <1>2, <1>4, <1>7 DEF mod_size
<1>9. InRow(m, address)
  <2>1. \A i \in 1 .. L : i - 1 \in 0 .. L
    BY <1>1
  <2>2. QED
    BY <1>3, <1>4, <1>7, <2>1 DEF InRow
<1>10. QED
  BY <1>4, <1>5, <1>8, <1>9 DEF m

-----------------------------------------------------------------------------
(* FlattenSeq: the pages of the regions one behind the other.  What is in  *)
(* the result is in a part, and what is twice in it is in the parts twice. *)
FlatTurn(parts, f, i) == IF i = 1 THEN parts[1] ELSE f[i - 1] \o parts[i]
FlatLoop(parts, f) == [i \in 1 .. Len(parts) |-> IF i = 1 THEN parts[i] ELSE f[i - 1] \o parts[i]]
Flattens(parts, n, f) == \A i \in 1 .. n : f[i] = FlatTurn(parts, f, i)

IsAt(parts, i, p, x) == p \in DOMAIN parts[i] /\ parts[i][p] = x
FromParts(parts, n, flat) ==
    /\ flat \in Seq(Int)
    /\ \A k \in DOMAIN flat : \E i \in 1 .. n : \E p \in Nat : IsAt(parts, i, p, flat[k])
    /\ \A j, k \in DOMAIN flat : j # k =>
          \E h, i \in 1 .. n : \E p, q \in Nat :
             <<h, p>> # <<i, q>> /\ IsAt(parts, h, p, flat[j]) /\ IsAt(parts, i, q, flat[k])

LEMMA OnePart ==
    ASSUME NEW parts, parts[1] \in Seq(Int)
    PROVE  FromParts(parts, 1, parts[1])
<1> DEFINE flat == parts[1]
<1>1. \A k \in DOMAIN flat : k \in Nat /\ IsAt(parts, 1, k, flat[k])
  BY DEF IsAt
<1>2. 1 \in 1 .. 1
  OBVIOUS
<1>3. ASSUME NEW j \in DOMAIN flat, NEW k \in DOMAIN flat, j # k
      PROVE  \E h, i \in 1 .. 1 : \E p, q \in Nat :
               <<h, p>> # <<i, q>> /\ IsAt(parts, h, p, flat[j]) /\ IsAt(parts, i, q, flat[k])
  <2>1. <<1, j>> # <<1, k>>
    BY <1>3
  <2>2. QED
    BY <1>1, <1>2, <2>1
<1>4. \A k \in DOMAIN flat : \E i \in 1 .. 1 : \E p \in Nat : IsAt(parts, i, p, flat[k])
  BY <1>1, <1>2
<1>5. QED
  BY <1>3, <1>4 DEF FromParts

LEMMA OneMorePart ==
    ASSUME NEW parts, NEW n \in Nat, n > 1, parts[n] \in Seq(Int),
           NEW flat, FromParts(parts, n - 1, flat)
    PROVE  FromParts(parts, n, flat \o parts[n])
<1> DEFINE more == parts[n]
           longer == flat \o more
           L == Len(flat)
<1>1. flat \in Seq(Int) /\ more \in Seq(Int) /\ L \in Nat
  BY DEF FromParts
<1> HIDE DEF more
<1>2. /\ longer \in Seq(Int) /\ DOMAIN longer = 1 .. L + Len(more) /\ Len(more) \in Nat
      /\ \A k \in 1 .. L : longer[k] = flat[k]
      /\ \A k \in DOMAIN longer : k > L => k - L \in 1 .. Len(more) /\ longer[k] = more[k - L]
      /\ DOMAIN more = 1 .. Len(more) /\ DOMAIN flat = 1 .. L
  <2>1. longer \in Seq(Int) /\ Len(longer) = L + Len(more) /\ Len(more) \in Nat
    BY <1>1
  <2>2. \A k \in 1 .. L + Len(more) : longer[k] = IF k <= L THEN flat[k] ELSE more[k - L]
    BY <1>1
  <2>3. /\ DOMAIN longer = 1 .. L + Len(more)
        /\ DOMAIN more = 1 .. Len(more) /\ DOMAIN flat = 1 .. L
    BY <1>1, <2>1
  <2> HIDE DEF longer, L
  <2>4. ASSUME NEW k \in 1 .. L
        PROVE  longer[k] = flat[k]
    <3>1. k \in 1 .. L + Len(more) /\ k <= L
      BY <1>1, <2>1
    <3>2. QED
      BY <2>2, <3>1
  <2>5. ASSUME NEW k \in DOMAIN longer, k > L
        PROVE  k - L \in 1 .. Len(more) /\ longer[k] = more[k - L]
    <3>1. k \in 1 .. L + Len(more) /\ ~ (k <= L)
      BY <1>1, <2>1, <2>3, <2>5
    <3>2. k - L \in 1 .. Len(more)
      <4> DEFINE M == Len(more)
      <4>1. k \in 1 .. L + M /\ L \in Nat /\ M \in Nat /\ ~ (k <= L)
        BY <1>1, <2>1, <3>1
      <4> HIDE DEF M
      <4>2. k - L \in 1 .. M
        BY <4>1
      <4>3. QED
        BY <4>2 DEF M
    <3>3. QED
      BY <2>2, <3>1, <3>2
  <2>6. QED
    BY <2>1, <2>3, <2>4, <2>5
<1> HIDE DEF longer, L
<1>3. \A k \in DOMAIN longer : k \in 1 .. L \/ k > L
  BY <1>1, <1>2
<1>4. ASSUME NEW k \in DOMAIN longer, k > L
      PROVE  k - L \in Nat /\ IsAt(parts, n, k - L, longer[k])
  BY <1>1, <1>2, <1>4 DEF IsAt, more
<1>5. /\ \A k \in 1 .. L : \E i \in 1 .. n - 1 : \E p \in Nat : IsAt(parts, i, p, longer[k])
      /\ \A j, k \in 1 .. L : j # k =>
            \E h, i \in 1 .. n - 1 : \E p, q \in Nat :
               <<h, p>> # <<i, q>> /\ IsAt(parts, h, p, longer[j]) /\ IsAt(parts, i, q, longer[k])
  <2>1. /\ \A k \in 1 .. L : \E i \in 1 .. n - 1 : \E p \in Nat : IsAt(parts, i, p, flat[k])
        /\ \A j, k \in 1 .. L : j # k =>
              \E h, i \in 1 .. n - 1 : \E p, q \in Nat :
                 <<h, p>> # <<i, q>> /\ IsAt(parts, h, p, flat[j]) /\ IsAt(parts, i, q, flat[k])
    BY <1>2, Zenon DEF FromParts
  <2>2. \A k \in 1 .. L : longer[k] = flat[k]
    BY <1>2
  <2>3. ASSUME NEW k \in 1 .. L
        PROVE  \E i \in 1 .. n - 1 : \E p \in Nat : IsAt(parts, i, p, longer[k])
    BY <2>1, <2>2
  <2>4. ASSUME NEW j \in 1 .. L, NEW k \in 1 .. L, j # k
        PROVE  \E h, i \in 1 .. n - 1 : \E p, q \in Nat :
                 <<h, p>> # <<i, q>> /\ IsAt(parts, h, p, longer[j]) /\ IsAt(parts, i, q, longer[k])
    <3>1. longer[j] = flat[j] /\ longer[k] = flat[k]
      BY <2>2
    <3>2. QED
      BY <2>1, <2>4, <3>1
  <2>5. QED
    BY <2>3, <2>4
<1>6. n \in 1 .. n /\ n \notin 1 .. n - 1 /\ \A i \in 1 .. n - 1 : i \in 1 .. n
  OBVIOUS
<1>7. ASSUME NEW k \in DOMAIN longer
      PROVE  \E i \in 1 .. n : \E p \in Nat : IsAt(parts, i, p, longer[k])
  BY <1>3, <1>4, <1>5, <1>6
<1>8. ASSUME NEW j \in DOMAIN longer, NEW k \in DOMAIN longer, j # k
      PROVE  \E h, i \in 1 .. n : \E p, q \in Nat :
               <<h, p>> # <<i, q>> /\ IsAt(parts, h, p, longer[j]) /\ IsAt(parts, i, q, longer[k])
  <2>1. CASE j \in 1 .. L /\ k \in 1 .. L
    <3>1. PICK h \in 1 .. n - 1, i \in 1 .. n - 1 : \E p, q \in Nat :
                 <<h, p>> # <<i, q>> /\ IsAt(parts, h, p, longer[j]) /\ IsAt(parts, i, q, longer[k])
      BY <1>5, <1>8, <2>1, Zenon
    <3>2. h \in 1 .. n /\ i \in 1 .. n
      BY <1>6
    <3>3. QED
      BY <2>1, <3>1, <3>2, Zenon
  <2>2. CASE j \in 1 .. L /\ k > L
    <3>1. PICK h \in 1 .. n - 1, p \in Nat : IsAt(parts, h, p, longer[j])
      BY <1>5, <2>2
    <3>2. h \in 1 .. n /\ <<h, p>> # <<n, k - L>>
      BY <1>6
    <3>3. QED
      BY <1>4, <1>6, <2>2, <3>1, <3>2
  <2>3. CASE j > L /\ k \in 1 .. L
    <3>1. PICK h \in 1 .. n - 1, p \in Nat : IsAt(parts, h, p, longer[k])
      BY <1>5, <2>3
    <3>2. h \in 1 .. n /\ <<n, j - L>> # <<h, p>>
      BY <1>6
    <3>3. QED
      BY <1>4, <1>6, <2>3, <3>1, <3>2
  <2>4. CASE j > L /\ k > L
    <3>1. <<n, j - L>> # <<n, k - L>>
      BY <1>1, <1>2, <1>8
    <3>2. QED
      BY <1>4, <1>6, <2>4, <3>1
  <2>5. QED
    BY <1>3, <2>1, <2>2, <2>3, <2>4
<1>9. FromParts(parts, n, longer)
  BY <1>2, <1>7, <1>8 DEF FromParts
<1>10. QED
  BY <1>9 DEF longer, more

LEMMA FlatExists ==
    ASSUME NEW parts \in Seq(Seq(Int))
    PROVE  \A n \in 0 .. Len(parts) : \E f \in [1 .. n -> Seq(Int)] :
              Flattens(parts, n, f) /\ \A i \in 1 .. n : FromParts(parts, i, f[i])
<1> DEFINE Good(n) == \E f \in [1 .. n -> Seq(Int)] :
                         Flattens(parts, n, f) /\ \A i \in 1 .. n : FromParts(parts, i, f[i])
           Bad == {n \in 0 .. Len(parts) : ~ Good(n)}
<1> SUFFICES ASSUME Bad # {} PROVE FALSE
  OBVIOUS
<1>0. Bad \subseteq Nat
  OBVIOUS
<1>1. PICK n \in Bad : \A k \in Bad : n <= k
  <2> HIDE DEF Bad
  <2>1. QED
    BY <1>0, FirstOne
<1>2. n \in 0 .. Len(parts) /\ ~ Good(n)
  OBVIOUS
<1>3. CASE n = 0
  <2> DEFINE g == [i \in 1 .. 0 |-> <<>>]
  <2>1. g \in [1 .. 0 -> Seq(Int)] /\ Flattens(parts, 0, g) /\ \A i \in 1 .. 0 : FromParts(parts, i, g[i])
    BY DEF Flattens
  <2>2. QED
    BY <1>2, <1>3, <2>1
<1>4. CASE n # 0
  <2>1. n - 1 \in 0 .. Len(parts) /\ n \in 1 .. Len(parts) /\ n \in Nat
    BY <1>2, <1>4
  <2>2. Good(n - 1)
    <3>1. n - 1 \notin Bad
      <4> HIDE DEF Bad
      <4>1. QED
        BY <1>0, <1>1
    <3>2. QED
      BY <2>1, <3>1
  <2>3. PICK f \in [1 .. n - 1 -> Seq(Int)] :
               Flattens(parts, n - 1, f) /\ \A i \in 1 .. n - 1 : FromParts(parts, i, f[i])
    BY <2>2
  <2> DEFINE g == [i \in 1 .. n |-> IF i = n THEN FlatTurn(parts, f, n) ELSE f[i]]
  <2>4. FromParts(parts, n, FlatTurn(parts, f, n))
    <3>1. parts[n] \in Seq(Int)
      BY <2>1
    <3>2. CASE n = 1
      BY <3>1, <3>2, OnePart DEF FlatTurn
    <3>3. CASE n # 1
      <4>1. n - 1 \in 1 .. n - 1 /\ n > 1
        BY <2>1, <3>3
      <4>2. FromParts(parts, n - 1, f[n - 1])
        BY <2>3, <4>1
      <4>3. FromParts(parts, n, f[n - 1] \o parts[n])
        BY <2>1, <3>1, <4>1, <4>2, OneMorePart
      <4>4. QED
        BY <3>3, <4>3 DEF FlatTurn
    <3>4. QED
      BY <3>2, <3>3
  <2>5. g \in [1 .. n -> Seq(Int)]
    <3>1. \A i \in 1 .. n : i # n => i \in 1 .. n - 1
      BY <2>1
    <3>2. FlatTurn(parts, f, n) \in Seq(Int)
      BY <2>4 DEF FromParts
    <3>3. QED
      BY <2>3, <3>1, <3>2
  <2>6. Flattens(parts, n, g)
    <3> SUFFICES ASSUME NEW i \in 1 .. n
                 PROVE  g[i] = FlatTurn(parts, g, i)
      BY DEF Flattens
    <3>1. i # 1 => i - 1 \in 1 .. n /\ i - 1 # n
      BY <2>1
    <3>2. i # 1 => g[i - 1] = f[i - 1]
      BY <3>1
    <3>3. g[i] = FlatTurn(parts, f, i)
      <4>1. CASE i = n
        BY <4>1
      <4>2. CASE i # n
        <5>1. i \in 1 .. n - 1
          BY <2>1, <4>2
        <5>2. QED
          BY <2>3, <4>2, <5>1 DEF Flattens
      <4>3. QED
        BY <4>1, <4>2
    <3> HIDE DEF g
    <3>4. QED
      BY <3>2, <3>3 DEF FlatTurn
  <2>7. ASSUME NEW i \in 1 .. n
        PROVE  FromParts(parts, i, g[i])
    <3>1. CASE i = n
      BY <2>4, <3>1
    <3>2. CASE i # n
      <4>1. i \in 1 .. n - 1
        BY <2>1, <3>2
      <4>2. QED
        BY <2>3, <3>2, <4>1
    <3>3. QED
      BY <3>1, <3>2
  <2>8. QED
    BY <1>2, <2>5, <2>6, <2>7
<1>5. QED
  BY <1>3, <1>4

LEMMA FlatsAgree ==
    ASSUME NEW parts, NEW n \in Nat, NEW f, NEW g, Flattens(parts, n, f), Flattens(parts, n, g)
    PROVE  \A i \in 1 .. n : f[i] = g[i]
<1> DEFINE Bad == {i \in 1 .. n : f[i] # g[i]}
<1>1. Bad \subseteq Nat
  OBVIOUS
<1>2. ASSUME Bad # {} PROVE FALSE
  <2>1. PICK k \in Bad : \A q \in Bad : k <= q
    <3> HIDE DEF Bad
    <3>1. QED
      BY <1>1, <1>2, FirstOne
  <2>2. k \in 1 .. n /\ f[k] # g[k]
    OBVIOUS
  <2>3. k # 1 => k - 1 \in 1 .. n /\ k - 1 \notin Bad
    <3>1. k # 1 => k - 1 \in 1 .. n
      BY <2>2
    <3> HIDE DEF Bad
    <3>2. QED
      BY <1>1, <2>1, <2>2, <3>1
  <2>4. k # 1 => f[k - 1] = g[k - 1]
    BY <2>3
  <2>5. f[k] = FlatTurn(parts, f, k) /\ g[k] = FlatTurn(parts, g, k)
    BY <2>2 DEF Flattens
  <2>6. QED
    BY <2>2, <2>4, <2>5 DEF FlatTurn
<1>3. QED
  BY <1>2

LEMMA FlatIsFromParts ==
    ASSUME NEW parts \in Seq(Seq(Int))
    PROVE  FromParts(parts, Len(parts), FlattenSeq(parts))
<1>1. CASE Len(parts) = 0
  <2>1. FlattenSeq(parts) = parts
    BY <1>1 DEF FlattenSeq
  <2>2. parts = <<>> /\ DOMAIN parts = {} /\ parts \in Seq(Int)
    BY <1>1
  <2>3. QED
    BY <2>1, <2>2 DEF FromParts
<1>2. CASE Len(parts) # 0
  <2> DEFINE L == Len(parts)
             c == CHOOSE f : f = FlatLoop(parts, f)
  <2>1. L \in Nat /\ L \in 0 .. L /\ L \in 1 .. L
    BY <1>2
  <2>2. PICK f \in [1 .. L -> Seq(Int)] :
               Flattens(parts, L, f) /\ \A i \in 1 .. L : FromParts(parts, i, f[i])
    BY <2>1, FlatExists
  <2>3. f = FlatLoop(parts, f)
    BY <2>2 DEF Flattens, FlatLoop, FlatTurn
  <2>4. c = FlatLoop(parts, c)
    BY <2>3
  <2>5. FlattenSeq(parts) = c[L]
    BY <1>2 DEF FlattenSeq, FlatLoop
  <2> HIDE DEF c, L
  <2>6. Flattens(parts, L, c)
    BY <2>4 DEF Flattens, FlatLoop, FlatTurn, L
  <2>7. c[L] = f[L]
    BY <2>1, <2>2, <2>6, FlatsAgree
  <2>8. FromParts(parts, L, f[L])
    BY <2>1, <2>2
  <2>9. QED
    BY <2>5, <2>7, <2>8 DEF L
<1>3. QED
  BY <1>1, <1>2

-----------------------------------------------------------------------------
(* The map. *)
EndOf(region) == region.base + region.length

LEMMA EndIsNumber == ASSUME NEW region \in Region PROVE EndOf(region) \in Nat
  BY DEF Region, EndOf

(* A page that begins in a region, as every whole page of it does. *)
StartsIn(x, region) == region.base <= x * PAGE_SIZE /\ x * PAGE_SIZE < EndOf(region)

LEMMA WholeStartsIn ==
    ASSUME NEW region \in Region, NEW x \in Int, FirstWhole(region) <= x,
           x < FirstWhole(region) + WholePages(region) \/ x < EndPage(region)
    PROVE  StartsIn(x, region)
<1> DEFINE b == region.base
           l == region.length
           up == FirstWhole(region)
           top == EndPage(region)
           cnt == WholePages(region)
           P == PAGE_SIZE
<1>1. b \in Int /\ l \in Int /\ P \in Int /\ P > 0 /\ b + P - 1 \in Int /\ b + l \in Int
  BY PageSize DEF Region
<1>2. up \in Int /\ up * P \in Int /\ up * P <= b + P - 1 /\ b + P - 1 < up * P + P
  BY <1>1, InPages DEF FirstWhole
<1>3. top \in Int /\ top * P \in Int /\ top * P <= b + l
  BY <1>1, InPages DEF EndPage
<1>4. cnt \in Int /\ cnt * P \in Int /\ cnt * P <= l
  <2>1. l \in Int
    BY <1>1
  <2> HIDE DEF l
  <2>2. QED
    BY <2>1, InPages DEF WholePages, l
<1> HIDE DEF b, l, up, top, cnt
<1>5. up * P <= x * P /\ x * P \in Int /\ x + 1 \in Int /\ (x + 1) * P = x * P + P
  BY <1>2, PagesAscend, PagesAdd DEF up
<1>6. x * P < b + l
  <2>1. CASE x < up + cnt
    <3>1. up + cnt \in Int /\ x + 1 <= up + cnt
      BY <1>2, <1>4, <2>1
    <3>2. (x + 1) * P <= (up + cnt) * P /\ (up + cnt) * P = up * P + cnt * P
      BY <1>2, <1>4, <1>5, <3>1, PagesAscend, PagesAdd
    <3> DEFINE d == x * P
               e == up * P
               f == cnt * P
    <3>3. d + P <= e + f /\ d \in Int /\ e \in Int /\ f \in Int /\ e <= b + P - 1 /\ f <= l
      BY <1>2, <1>4, <1>5, <3>2
    <3> HIDE DEF d, e, f
    <3>4. d < b + l
      BY <1>1, <3>3
    <3>5. QED
      BY <3>4 DEF d
  <2>2. CASE x < top
    <3>1. x + 1 <= top
      BY <1>3, <2>2
    <3>2. (x + 1) * P <= top * P
      BY <1>3, <1>5, <3>1, PagesAscend
    <3> DEFINE d == x * P
               e == top * P
    <3>3. d + P <= e /\ d \in Int /\ e \in Int /\ e <= b + l
      BY <1>3, <1>5, <3>2
    <3> HIDE DEF d, e
    <3>4. d < b + l
      BY <1>1, <3>3
    <3>5. QED
      BY <3>4 DEF d
  <2>3. QED
    BY <2>1, <2>2 DEF up, top, cnt
<1>7. b <= x * P
  <2> DEFINE d == x * P
             e == up * P
  <2>1. e <= d /\ d \in Int /\ e \in Int /\ b + P - 1 < e + P
    BY <1>2, <1>5
  <2> HIDE DEF d, e
  <2>2. b <= d
    BY <1>1, <2>1
  <2>3. QED
    BY <2>2 DEF d
<1>8. QED
  BY <1>6, <1>7 DEF StartsIn, EndOf, b, l

(* What the masks leave. *)
LEMMA MaskedIsLess ==
    ASSUME NEW n \in Nat
    PROVE  /\ Masked(n) \in Nat /\ Masked(n) <= n
           /\ n < 2 ^ Width => Masked(n) = AlignedDown(n)
           /\ Unsigned(n) \in Nat /\ (n < 2 ^ Width => Unsigned(n) = n)
<1> DEFINE N == 2 ^ Width
           a == AlignedDown(n)
<1>1. N \in Nat \ {0}
  BY SizesAssumption
<1> HIDE DEF N
<1>2. \A k \in Nat : k % N \in Nat /\ k % N < N /\ (k < N => k % N = k)
  BY <1>1
<1>3. a \in Nat /\ a <= n
  <2>1. a = (n \div PAGE_SIZE) * PAGE_SIZE /\ a \in Int /\ a <= n
    BY InPages DEF AlignedDown
  <2>2. a \in Nat
    BY PageSize DEF AlignedDown
  <2>3. QED
    BY <2>1, <2>2
<1> HIDE DEF a
<1>4. a % N <= a /\ (n < N => a % N = a)
  <2>1. CASE a < N
    BY <1>2, <1>3, <2>1
  <2>2. CASE a >= N
    BY <1>1, <1>2, <1>3, <2>2
  <2>3. QED
    BY <1>1, <1>3, <2>1, <2>2
<1>5. Masked(n) = a % N /\ Unsigned(n) = n % N
  BY DEF Masked, Unsigned, a, N
<1>6. a % N \in Nat /\ a % N <= n /\ (n < N => a % N = a)
  BY <1>1, <1>2, <1>3, <1>4
<1>7. QED
  BY <1>2, <1>5, <1>6 DEF a, N

(* Low is where a page begins. *)
LEMMA LowIsAPage ==
    /\ Low \in Nat /\ Low > 0 /\ Low \div PAGE_SIZE \in Int /\ Low = (Low \div PAGE_SIZE) * PAGE_SIZE
    /\ (Low + PAGE_SIZE - 1) \div PAGE_SIZE = Low \div PAGE_SIZE
<1> DEFINE q == Low \div PAGE_SIZE
<1>1. Low \in Nat /\ Low > 0 /\ Low % PAGE_SIZE = 0
  BY SizesAssumption
<1>2. q \in Int /\ Low = q * PAGE_SIZE
  BY <1>1, PageSize
<1> HIDE DEF q
<1>3. Low + PAGE_SIZE - 1 \in Int /\ q * PAGE_SIZE <= Low + PAGE_SIZE - 1
  BY <1>1, <1>2, PageSize
<1>4. Low + PAGE_SIZE - 1 < q * PAGE_SIZE + PAGE_SIZE
  BY <1>1, <1>2, PageSize
<1>5. (Low + PAGE_SIZE - 1) \div PAGE_SIZE = q
  BY <1>2, <1>3, <1>4, PageIs
<1>6. QED
  BY <1>1, <1>2, <1>5 DEF q

LEMMA ClippedRegion ==
    ASSUME NEW region \in Region
    PROVE  /\ Clipped(region) \in Region
           /\ Usable(Clipped(region)) =>
                /\ Usable(region) /\ EndOf(Clipped(region)) = EndOf(region)
                /\ Clipped(region).base >= Low /\ Clipped(region).base >= region.base
<1>1. region.base \in Nat /\ region.length \in Nat /\ region.type \in Nat /\ Low \in Nat
  BY SizesAssumption DEF Region
<1>2. CASE ~ Usable(region) \/ region.base >= Low
  <2>1. Clipped(region) = region
    BY <1>2 DEF Clipped
  <2>2. QED
    BY <1>1, <1>2, <2>1 DEF EndOf
<1>3. CASE Usable(region) /\ region.base < Low /\ EndOf(region) <= Low
  <2>1. Clipped(region) = [region EXCEPT !.type = 0]
    BY <1>1, <1>3 DEF Clipped, EndOf
  <2>2. Clipped(region) \in Region /\ Clipped(region).type = 0
    BY <2>1 DEF Region
  <2>3. QED
    BY <2>2 DEF Usable
<1>4. CASE Usable(region) /\ region.base < Low /\ EndOf(region) > Low
  <2>1. Clipped(region) = [region EXCEPT !.base = Low, !.length = region.base + region.length - Low]
    BY <1>1, <1>4 DEF Clipped, EndOf
  <2>2. region.base + region.length - Low \in Nat
    BY <1>1, <1>4 DEF EndOf
  <2>3. /\ Clipped(region) \in Region /\ Clipped(region).base = Low
        /\ Clipped(region).length = region.base + region.length - Low
    BY <1>1, <2>1, <2>2 DEF Region
  <2>4. QED
    BY <1>1, <1>4, <2>3 DEF EndOf
<1>5. QED
  BY <1>1, <1>2, <1>3, <1>4 DEF EndOf

LEMMA SeenMap ==
    ASSUME NEW map \in Seq(Region)
    PROVE  /\ Seen(map, TRUE) \in Seq(Region) /\ DOMAIN Seen(map, TRUE) = DOMAIN map
           /\ \A i \in DOMAIN map : map[i] \in Region /\ Seen(map, TRUE)[i] = Clipped(map[i])
           /\ Seen(map, FALSE) = map
<1>1. /\ Len(map) \in Nat /\ DOMAIN map = 1 .. Len(map)
      /\ map = [i \in DOMAIN map |-> map[i]] /\ \A i \in DOMAIN map : map[i] \in Region
  OBVIOUS
<1>2. Seen(map, TRUE) = [i \in DOMAIN map |-> Clipped(map[i])]
  BY DEF Seen
<1>3. Seen(map, FALSE) = map
  BY <1>1 DEF Seen
<1>4. Seen(map, TRUE) \in [1 .. Len(map) -> Region]
  BY <1>1, <1>2, ClippedRegion
<1>5. Seen(map, TRUE) \in Seq(Region)
  <2> DEFINE seen == Seen(map, TRUE)
             L == Len(map)
  <2> HIDE DEF seen, L
  <2>1. seen \in [1 .. L -> Region] /\ L \in Nat
    BY <1>1, <1>4 DEF seen, L
  <2>2. seen \in Seq(Region)
    BY <2>1
  <2>3. QED
    BY <2>2 DEF seen
<1>6. QED
  BY <1>1, <1>2, <1>3, <1>5

(* No page begins in two regions, also when they are clipped. *)
LEMMA SeenApart ==
    ASSUME NEW map \in Maps, NEW i \in DOMAIN map, NEW j \in DOMAIN map, i # j,
           Usable(Clipped(map[i])), Usable(Clipped(map[j])),
           NEW x \in Int, StartsIn(x, Clipped(map[i])), StartsIn(x, Clipped(map[j]))
    PROVE  FALSE
<1>1. map \in Seq(Region) /\ map[i] \in Region /\ map[j] \in Region
  BY SizesAssumption
<1>2. /\ Usable(map[i]) /\ Clipped(map[i]).base >= map[i].base /\ Clipped(map[i]) \in Region
      /\ EndOf(Clipped(map[i])) = EndOf(map[i])
      /\ Usable(map[j]) /\ Clipped(map[j]).base >= map[j].base /\ Clipped(map[j]) \in Region
      /\ EndOf(Clipped(map[j])) = EndOf(map[j])
  BY <1>1, ClippedRegion
<1>3. /\ map[i].base \in Int /\ map[j].base \in Int /\ Clipped(map[i]).base \in Int /\ Clipped(map[j]).base \in Int
      /\ EndOf(map[i]) \in Int /\ EndOf(map[j]) \in Int
  BY <1>1, <1>2, EndIsNumber DEF Region
<1>4. EndOf(map[i]) <= map[j].base \/ EndOf(map[j]) <= map[i].base
  BY <1>2, MapsAssumption DEF EndOf
<1> DEFINE a == x * PAGE_SIZE
<1>5. /\ a \in Int /\ Clipped(map[i]).base <= a /\ a < EndOf(map[i])
      /\ Clipped(map[j]).base <= a /\ a < EndOf(map[j])
  BY <1>2, PagesAdd DEF StartsIn
<1> HIDE DEF a
<1>6. QED
  BY <1>2, <1>3, <1>4, <1>5

-----------------------------------------------------------------------------
(* The region that was cut, and the pages in use.                          *)
IsCut(first) ==
    LET region == Clipped(given[first])
    IN  /\ first \in DOMAIN given /\ Usable(region) /\ first = Chosen /\ RoomIsThere
        /\ mmap = [Seen(given, TRUE) EXCEPT ![first].base = ALIGNED_BASE(@) + Cut(modules)]
        /\ bsp_stack = AlignedDown(region.base)
        /\ pmm_stack_ptr = bsp_stack + (Easymap + STDRD_STACKSIZ) * PAGE_SIZE
        /\ startup_tables = bsp_stack + Before(modules)
        /\ InRow(modules, ModulesAt(bsp_stack))

MemoryTypeOK == given \in Maps /\ modules \in Seq(Extent) /\ Ordered(modules)

(* The first page of the region that was cut, the first whole one, and the *)
(* first one that is left of it.                                           *)
CutFirst(first) == FirstPage(Clipped(given[first]))
CutWhole(first) == FirstWhole(Clipped(given[first]))
CutEnd(first) == CutWhole(first) + CutPages(modules)

LEMMA GivenRegion ==
    ASSUME given \in Maps, NEW i \in DOMAIN given
    PROVE  given \in Seq(Region) /\ given[i] \in Region /\ Clipped(given[i]) \in Region
<1>1. given \in Seq(Region)
  BY SizesAssumption
<1>2. given[i] \in Region
  BY <1>1
<1>3. QED
  BY <1>1, <1>2, ClippedRegion

LEMMA CutNumbers ==
    ASSUME MemoryTypeOK, NEW first, IsCut(first)
    PROVE  /\ CutFirst(first) \in Int /\ CutWhole(first) \in Int /\ CutEnd(first) \in Int
           /\ CutFirst(first) <= CutWhole(first) /\ CutWhole(first) <= CutFirst(first) + 1
           /\ CutEnd(first) = CutWhole(first) + CutPages(modules) /\ CutPages(modules) \in Nat
           /\ CutPages(modules) = Room + ModulePages(modules) + PAGING_HIER_SIZE + 2
           /\ Room \in Nat \ {0} /\ ModulePages(modules) \in Nat /\ PAGING_HIER_SIZE \in {2, 4}
           /\ mod_size(modules) \in Nat /\ mod_size(modules) <= ModulePages(modules) * PAGE_SIZE
           /\ Clipped(given[first]) \in Region /\ given[first] \in Region /\ given \in Seq(Region)
<1>1. Clipped(given[first]) \in Region /\ given[first] \in Region /\ given \in Seq(Region)
  BY GivenRegion DEF MemoryTypeOK, IsCut
<1>2. mod_size(modules) \in Nat
  BY SizesAdd DEF MemoryTypeOK
<1>3. /\ CutFirst(first) \in Int /\ CutWhole(first) \in Int
      /\ CutFirst(first) <= CutWhole(first) /\ CutWhole(first) <= CutFirst(first) + 1
  BY <1>1, RegionPages DEF CutFirst, CutWhole
<1>4. /\ Room \in Nat \ {0} /\ ModulePages(modules) \in Nat /\ PAGING_HIER_SIZE \in {2, 4}
      /\ CutPages(modules) \in Nat /\ mod_size(modules) <= ModulePages(modules) * PAGE_SIZE
  BY <1>2, CutInPages
<1>5. CutPages(modules) = Room + ModulePages(modules) + PAGING_HIER_SIZE + 2
  BY DEF CutPages
<1>6. CutEnd(first) \in Int /\ CutEnd(first) = CutWhole(first) + CutPages(modules)
  BY <1>3, <1>4 DEF CutEnd
<1>7. QED
  BY <1>1, <1>2, <1>3, <1>4, <1>5, <1>6

LEMMA CutAddresses ==
    ASSUME MemoryTypeOK, NEW first, IsCut(first)
    PROVE  /\ bsp_stack = CutFirst(first) * PAGE_SIZE
           /\ ModulesAt(bsp_stack) = (CutFirst(first) + Room) * PAGE_SIZE
           /\ pmm_stack_ptr + PMM_STACK_SIZ * PAGE_SIZE = (CutFirst(first) + Room) * PAGE_SIZE
           /\ startup_tables = (CutFirst(first) + Room + ModulePages(modules)) * PAGE_SIZE
           /\ bsp_stack + Cut(modules) = (CutFirst(first) + CutPages(modules)) * PAGE_SIZE
           /\ Cut(modules) = CutPages(modules) * PAGE_SIZE
<1> DEFINE lo == CutFirst(first)
           m == ModulePages(modules)
           C == CutPages(modules)
           E == Easymap + STDRD_STACKSIZ
<1>1. lo \in Int /\ Room \in Int /\ m \in Int /\ C \in Int /\ E \in Int /\ PMM_STACK_SIZ \in Int /\ Room = E + PMM_STACK_SIZ
  BY CutNumbers, SizesAssumption DEF Room, Easymap
<1>2. mod_size(modules) \in Nat
  BY CutNumbers
<1>3. Before(modules) = (Room + m) * PAGE_SIZE /\ Cut(modules) = C * PAGE_SIZE
  BY <1>2, CutInPages
<1>4. bsp_stack = lo * PAGE_SIZE
  BY CutNumbers, RegionPages DEF IsCut, CutFirst
<1>5. pmm_stack_ptr = lo * PAGE_SIZE + E * PAGE_SIZE /\ startup_tables = lo * PAGE_SIZE + (Room + m) * PAGE_SIZE
  BY <1>3, <1>4 DEF IsCut
<1>6. ModulesAt(bsp_stack) = lo * PAGE_SIZE + Room * PAGE_SIZE
  BY <1>4 DEF ModulesAt, Room
<1> HIDE DEF lo, m, C, E
<1>7. (lo + Room) * PAGE_SIZE = lo * PAGE_SIZE + Room * PAGE_SIZE
  BY <1>1, PagesAdd
<1>8. (lo + C) * PAGE_SIZE = lo * PAGE_SIZE + C * PAGE_SIZE
  BY <1>1, PagesAdd
<1>9. (lo + Room + m) * PAGE_SIZE = lo * PAGE_SIZE + (Room + m) * PAGE_SIZE
  <2>1. Room + m \in Int /\ lo + Room + m = lo + (Room + m)
    BY <1>1
  <2>2. QED
    BY <1>1, <2>1, PagesAdd
<1>10. Room * PAGE_SIZE = E * PAGE_SIZE + PMM_STACK_SIZ * PAGE_SIZE
  BY <1>1, PagesAdd
<1>11. pmm_stack_ptr + PMM_STACK_SIZ * PAGE_SIZE = (lo + Room) * PAGE_SIZE
  <2>1. /\ lo * PAGE_SIZE \in Int /\ E * PAGE_SIZE \in Int /\ PMM_STACK_SIZ * PAGE_SIZE \in Int
        /\ Room * PAGE_SIZE \in Int
    BY <1>1, PagesAdd
  <2>2. QED
    BY <2>1, <1>5, <1>7, <1>10
<1>12. QED
  BY <1>3, <1>4, <1>5, <1>6, <1>7, <1>8, <1>9, <1>11 DEF lo, m, C

(* The region that is large enough holds all that is cut off, but for one  *)
(* page when it has just the room that is asked for.                       *)
LEMMA RoomyRegion ==
    ASSUME MemoryTypeOK, NEW first, IsCut(first)
    PROVE  /\ CutWhole(first) + CutPages(modules) - 1 <= EndPage(Clipped(given[first]))
           /\ RoomAsked # EndOfWhole => CutWhole(first) + CutPages(modules) - 1 < EndPage(Clipped(given[first]))
           /\ CutFirst(first) # CutWhole(first) => ChosenRegion.base % PAGE_SIZE # 0
<1> DEFINE region == Clipped(given[first])
           up == CutWhole(first)
           top == EndPage(region)
           C == CutPages(modules)
           m == ModulePages(modules)
           b == region.base
<1>1. /\ region \in Region /\ up \in Int /\ C \in Int /\ m \in Int /\ Room \in Int /\ PAGING_HIER_SIZE \in Int
      /\ C = Room + m + PAGING_HIER_SIZE + 2
  BY CutNumbers
<1>2. top \in Int /\ ALIGNED_BASE(b) = up * PAGE_SIZE /\ AlignedDown(b + region.length) = top * PAGE_SIZE
  BY <1>1, RegionPages DEF CutWhole
<1>3. ChosenRegion = region
  <2>1. given \in Seq(Region) /\ first \in DOMAIN given /\ first = Chosen
    BY CutNumbers DEF IsCut
  <2>2. QED
    BY <2>1, SeenMap DEF ChosenRegion
<1>4. RoomAsked = (up + (C - 1)) * PAGE_SIZE
  <2>1. Before(modules) = (Room + m) * PAGE_SIZE
    BY CutNumbers, CutInPages
  <2>2. RoomAsked = up * PAGE_SIZE + (Room + m) * PAGE_SIZE + (PAGING_HIER_SIZE + 1) * PAGE_SIZE
    BY <1>2, <1>3, <2>1 DEF RoomAsked
  <2> HIDE DEF up, C, m
  <2>3. Room + m \in Int /\ PAGING_HIER_SIZE + 1 \in Int /\ C - 1 \in Int
        /\ C - 1 = (Room + m) + (PAGING_HIER_SIZE + 1)
    BY <1>1
  <2>4. (C - 1) * PAGE_SIZE = (Room + m) * PAGE_SIZE + (PAGING_HIER_SIZE + 1) * PAGE_SIZE
    BY <2>3, PagesAdd
  <2>5. (up + (C - 1)) * PAGE_SIZE = up * PAGE_SIZE + (C - 1) * PAGE_SIZE
    <3> DEFINE c == C - 1
    <3>1. c \in Int
      BY <2>3
    <3> HIDE DEF c
    <3>2. (up + c) * PAGE_SIZE = up * PAGE_SIZE + c * PAGE_SIZE
      BY <1>1, <3>1, PagesAdd
    <3>3. QED
      BY <3>2 DEF c
  <2>6. up * PAGE_SIZE \in Int /\ (Room + m) * PAGE_SIZE \in Int /\ (PAGING_HIER_SIZE + 1) * PAGE_SIZE \in Int
    BY <1>1, <2>3, PagesAdd
  <2>7. QED
    BY <2>2, <2>4, <2>5, <2>6
<1>5. EndOfWhole = top * PAGE_SIZE
  BY <1>2, <1>3 DEF EndOfWhole
<1>6. RoomAsked <= EndOfWhole
  BY DEF IsCut, RoomIsThere
<1> HIDE DEF up, top, C
<1>7. up + (C - 1) \in Int /\ up + (C - 1) = up + C - 1
  BY <1>1
<1>8. up + (C - 1) <= top
  <2> DEFINE c == up + (C - 1)
  <2>1. c \in Int /\ c * PAGE_SIZE <= top * PAGE_SIZE
    BY <1>4, <1>5, <1>6, <1>7
  <2> HIDE DEF c
  <2>2. c * PAGE_SIZE < top * PAGE_SIZE + PAGE_SIZE
    BY <1>2, <2>1, PagesAdd, PageSize
  <2>3. c <= top
    BY <1>2, <2>1, <2>2, PagesAscend
  <2>4. QED
    BY <2>3 DEF c
<1>9. RoomAsked # EndOfWhole => up + (C - 1) # top
  BY <1>4, <1>5
<1>10. CutFirst(first) # CutWhole(first) => b % PAGE_SIZE # 0
  <2>1. SUFFICES ASSUME b % PAGE_SIZE = 0
                 PROVE  CutFirst(first) = CutWhole(first)
    OBVIOUS
  <2>2. b \in Int
    BY <1>1 DEF Region
  <2> DEFINE q == b \div PAGE_SIZE
  <2> HIDE DEF b
  <2>3. q \in Int /\ b = q * PAGE_SIZE
    BY <2>1, <2>2, PageSize
  <2> HIDE DEF q
  <2>4. b + PAGE_SIZE - 1 \in Int /\ q * PAGE_SIZE <= b + PAGE_SIZE - 1 /\ b + PAGE_SIZE - 1 < q * PAGE_SIZE + PAGE_SIZE
    BY <2>2, <2>3, PageSize
  <2>5. (b + PAGE_SIZE - 1) \div PAGE_SIZE = q
    BY <2>3, <2>4, PageIs
  <2>6. QED
    BY <2>5 DEF CutFirst, CutWhole, FirstPage, FirstWhole, b, q
<1>11. QED
  BY <1>1, <1>2, <1>3, <1>7, <1>8, <1>9, <1>10 DEF up, top, C, b

(* The map when it is cut: only where that region begins is different.     *)
LEMMA CutMap ==
    ASSUME MemoryTypeOK, NEW first, IsCut(first)
    PROVE  /\ mmap \in Seq(Region) /\ DOMAIN mmap = DOMAIN given /\ first \in DOMAIN mmap
           /\ \A i \in DOMAIN mmap : i # first => mmap[i] = Clipped(given[i])
           /\ Usable(mmap[first]) /\ mmap[first].length = Clipped(given[first]).length
           /\ mmap[first].base = CutEnd(first) * PAGE_SIZE
<1> DEFINE seen == Seen(given, TRUE)
           region == Clipped(given[first])
           base == ALIGNED_BASE(region.base) + Cut(modules)
<1>1. given \in Seq(Region) /\ region \in Region
  BY CutNumbers
<1>2. /\ seen \in Seq(Region) /\ DOMAIN seen = DOMAIN given
      /\ \A i \in DOMAIN given : seen[i] = Clipped(given[i])
  BY <1>1, SeenMap
<1>3. first \in DOMAIN given /\ Usable(region)
  BY DEF IsCut
<1>4. mmap = [seen EXCEPT ![first].base = ALIGNED_BASE(@) + Cut(modules)]
  BY DEF IsCut
<1>5. mmap = [seen EXCEPT ![first] = [region EXCEPT !.base = base]]
  BY <1>2, <1>3, <1>4
<1>6. base = CutEnd(first) * PAGE_SIZE
  <2>1. mod_size(modules) \in Nat /\ CutWhole(first) \in Int
    BY CutNumbers
  <2>2. base = CutWhole(first) * PAGE_SIZE + CutPages(modules) * PAGE_SIZE /\ CutPages(modules) \in Int
    BY <1>1, <2>1, CutInPages, RegionPages DEF CutWhole
  <2>3. QED
    BY <2>1, <2>2, PagesAdd DEF CutEnd
<1>7. base \in Nat
  <2>1. CutEnd(first) \in Int /\ CutFirst(first) \in Int /\ CutFirst(first) <= CutEnd(first)
    <3>1. /\ CutFirst(first) \in Int /\ CutWhole(first) \in Int /\ CutPages(modules) \in Nat
          /\ CutFirst(first) <= CutWhole(first) /\ CutEnd(first) = CutWhole(first) + CutPages(modules)
      BY CutNumbers
    <3>2. QED
      BY <3>1
  <2>2. region.base \in Nat /\ region.base < CutFirst(first) * PAGE_SIZE + PAGE_SIZE
    <3>1. region.base \in Nat
      BY <1>1 DEF Region
    <3>2. region.base \in Int
      BY <3>1
    <3> HIDE DEF region
    <3>3. QED
      BY <3>1, <3>2, InPages DEF CutFirst, FirstPage, region
  <2>3. 0 * PAGE_SIZE = 0 /\ PAGE_SIZE \in Int
    BY PageSize
  <2>4. 0 * PAGE_SIZE < CutFirst(first) * PAGE_SIZE + PAGE_SIZE
    BY <2>1, <2>2, <2>3, PagesAdd
  <2>5. 0 <= CutFirst(first)
    BY <2>1, <2>4, PagesAscend
  <2>6. CutEnd(first) \in Nat
    BY <2>1, <2>5
  <2>7. QED
    BY <1>6, <2>6, PageSize
<1> HIDE DEF seen, base
<1>8. [region EXCEPT !.base = base] \in Region
  BY <1>1, <1>7 DEF Region
<1>9. mmap \in Seq(Region)
  BY <1>2, <1>3, <1>5, <1>8
<1>10. mmap[first] = [region EXCEPT !.base = base] /\ DOMAIN mmap = DOMAIN given
  BY <1>2, <1>3, <1>5
<1>11. mmap[first].base = base /\ mmap[first].length = region.length /\ mmap[first].type = region.type
  BY <1>1, <1>10 DEF Region
<1>12. \A i \in DOMAIN mmap : i # first => mmap[i] = Clipped(given[i])
  BY <1>2, <1>5, <1>10
<1>13. QED
  BY <1>3, <1>6, <1>9, <1>10, <1>11, <1>12 DEF Usable

(* The modules lie in the room that was made for them. *)
LEMMA ModulesInRoom ==
    ASSUME MemoryTypeOK, NEW first, IsCut(first), NEW i \in DOMAIN modules
    PROVE  PagesIn(modules[i].start, modules[i].end)
             \subseteq CutFirst(first) + Room .. CutFirst(first) + Room + ModulePages(modules) - 1
<1> DEFINE at == CutFirst(first) + Room
           m == ModulePages(modules)
           s == Sizes(modules)
           size == mod_size(modules)
           from == modules[i].start
           to == modules[i].end
<1>1. at \in Int /\ m \in Int /\ size \in Nat /\ size <= m * PAGE_SIZE
  BY CutNumbers
<1>2. i \in 1 .. Len(modules) /\ i - 1 \in 0 .. Len(modules)
  BY DEF MemoryTypeOK
<1>3. s[i - 1] \in Nat /\ s[i] \in Nat /\ s[i] = s[i - 1] + (to - from) /\ s[i] <= size
  <2>1. s \in [0 .. Len(modules) -> Nat]
    BY SizesAdd DEF MemoryTypeOK
  <2>2. s[i - 1] \in Nat /\ s[i] \in Nat
    BY <1>2, <2>1
  <2>3. QED
    BY <1>2, <2>2, SizesAdd DEF MemoryTypeOK
<1>4. from \in Int /\ to \in Int
  <2>1. modules[i] \in Extent
    BY DEF MemoryTypeOK
  <2>2. QED
    BY <2>1 DEF Extent
<1>5. from = at * PAGE_SIZE + s[i - 1]
  <2>1. ModulesAt(bsp_stack) = at * PAGE_SIZE
    BY CutAddresses
  <2>2. from = ModulesAt(bsp_stack) + s[i - 1]
    BY DEF IsCut, InRow
  <2>3. QED
    BY <2>1, <2>2
<1> HIDE DEF at, m, s, size, from, to
<1>6. /\ at * PAGE_SIZE \in Int /\ m * PAGE_SIZE \in Int /\ at + m \in Int
      /\ (at + m) * PAGE_SIZE = at * PAGE_SIZE + m * PAGE_SIZE
  <2>1. at \in Int /\ m \in Int
    BY <1>1
  <2>2. QED
    BY <2>1, PagesAdd
<1>7. at * PAGE_SIZE <= from /\ to - 1 <= (at + m) * PAGE_SIZE - 1
  BY <1>1, <1>3, <1>4, <1>5, <1>6
<1>8. at <= from \div PAGE_SIZE /\ from \div PAGE_SIZE \in Int
  <2>1. (at * PAGE_SIZE) \div PAGE_SIZE = at
    BY <1>1, PagesOfPages
  <2>2. QED
    BY <1>4, <1>6, <1>7, <2>1, PageAscends, InPages
<1>9. (to - 1) \div PAGE_SIZE <= at + m - 1 /\ (to - 1) \div PAGE_SIZE \in Int
  <2>1. ((at + m) * PAGE_SIZE - 1) \div PAGE_SIZE = at + m - 1
    <3>1. ((at + m) * PAGE_SIZE - 1) \div PAGE_SIZE = (at + m) - 1
      BY <1>6, PagesOfPages
    <3>2. QED
      BY <1>1, <3>1
  <2>2. to - 1 \in Int /\ (at + m) * PAGE_SIZE - 1 \in Int
    BY <1>4, <1>6
  <2>3. QED
    BY <1>7, <2>1, <2>2, PageAscends, InPages
<1>10. PagesIn(from, to) \subseteq at .. at + m - 1
  BY <1>1, <1>8, <1>9 DEF PagesIn
<1>11. QED
  BY <1>10 DEF at, m, from, to

(* What is in use is the image, or lies two pages before the end of what   *)
(* was cut off, or is the page of the ranges, the last of them on x86_64.  *)
LEMMA UsedPages ==
    ASSUME MemoryTypeOK, arch \in {"x86", "x86_64"}, NEW first, IsCut(first)
    PROVE  /\ InUse \subseteq Image \cup (CutFirst(first) .. CutFirst(first) + CutPages(modules) - 3)
                               \cup {RangesPage}
           /\ RangesPage \in Int
           /\ arch # "x86" => RangesPage = CutFirst(first) + CutPages(modules) - 1
           /\ CutPages(modules) >= 3
           /\ bsp_stack \div PAGE_SIZE = CutFirst(first)
<1> DEFINE lo == CutFirst(first)
           m == ModulePages(modules)
           H == PAGING_HIER_SIZE
           C == CutPages(modules)
<1>1. /\ lo \in Int /\ m \in Nat /\ H \in {2, 4} /\ C \in Nat /\ Room \in Nat /\ Room > 0
      /\ C = Room + m + H + 2
  BY CutNumbers
<1>2. (arch # "x86") => H = 4
  BY DEF PAGING_HIER_SIZE
<1>3. PagesIn(bsp_stack, pmm_stack_ptr + PMM_STACK_SIZ * PAGE_SIZE) = lo .. lo + Room - 1
  <2>1. bsp_stack = lo * PAGE_SIZE /\ pmm_stack_ptr + PMM_STACK_SIZ * PAGE_SIZE = (lo + Room) * PAGE_SIZE
    BY CutAddresses
  <2> HIDE DEF lo
  <2>2. lo + Room \in Int
    BY <1>1
  <2>3. /\ (lo * PAGE_SIZE) \div PAGE_SIZE = lo
        /\ ((lo + Room) * PAGE_SIZE - 1) \div PAGE_SIZE = (lo + Room) - 1
    BY <1>1, <2>2, PagesOfPages
  <2>4. (lo + Room) - 1 = lo + Room - 1
    BY <1>1
  <2>5. QED
    BY <2>1, <2>3, <2>4 DEF PagesIn
<1> DEFINE t == lo + Room + m
<1>4. t \in Int /\ startup_tables = t * PAGE_SIZE
  BY <1>1, CutAddresses
<1>5. startup_tables \div PAGE_SIZE = t
  <2> HIDE DEF t
  <2>1. QED
    BY <1>4, PagesOfPages
<1>6. Tables = t .. t + H - 1
  <2> HIDE DEF t, H
  <2>1. H \in Int /\ t + H \in Int
    BY <1>1, <1>4
  <2>2. startup_tables + H * PAGE_SIZE = (t + H) * PAGE_SIZE
    BY <1>4, <2>1, PagesAdd
  <2>3. ((t + H) * PAGE_SIZE - 1) \div PAGE_SIZE = (t + H) - 1
    BY <2>1, PagesOfPages
  <2>4. (t + H) - 1 = t + H - 1
    BY <1>4, <2>1
  <2>5. QED
    BY <1>5, <2>2, <2>3, <2>4 DEF Tables, PagesIn, H
<1>7. RangesPage = t + 5
  BY <1>5 DEF RangesPage
<1>8. \A i \in DOMAIN modules : PagesIn(modules[i].start, modules[i].end) \subseteq lo + Room .. t - 1
  <2>1. lo + Room + m - 1 = t - 1
    BY <1>1
  <2>2. QED
    BY <2>1, ModulesInRoom
<1> HIDE DEF lo, m, H, C
<1>9. lo .. lo + Room - 1 \subseteq lo .. lo + C - 3
  BY <1>1
<1>10. t .. t + H - 1 \subseteq lo .. lo + C - 3
  BY <1>1
<1>11. t + 5 \in Int /\ (arch # "x86" => t + 5 = lo + C - 1) /\ C >= 3
  BY <1>1, <1>2
<1>12. lo + Room .. t - 1 \subseteq lo .. lo + C - 3
  BY <1>1
<1>13. bsp_stack \div PAGE_SIZE = lo
  <2>1. bsp_stack = lo * PAGE_SIZE
    BY CutAddresses DEF lo
  <2>2. QED
    BY <1>1, <2>1, PagesOfPages
<1> HIDE DEF t
<1>14. UNION {PagesIn(modules[i].start, modules[i].end) : i \in DOMAIN modules} \subseteq lo .. lo + C - 3
  BY <1>8, <1>12
<1>15. InUse \subseteq Image \cup (lo .. lo + C - 3) \cup {RangesPage}
  BY <1>3, <1>6, <1>9, <1>10, <1>14 DEF InUse
<1>16. QED
  BY <1>7, <1>11, <1>13, <1>15 DEF lo, C

-----------------------------------------------------------------------------
(* The pages that are pushed. *)
LEMMA PushedPage ==
    ASSUME NEW region \in Region, NEW p \in Nat, NEW x,
           arch = "x86" /\ Usable(region) => ALIGNED_BASE(region.base) < 2 ^ Width,
           p \in DOMAIN Pushed(region), Pushed(region)[p] = x
    PROVE  /\ Usable(region) /\ p \in 1 .. WholePages(region) /\ x = FirstWhole(region) + p - 1 /\ x \in Int
<1> DEFINE up == FirstWhole(region)
           cnt == WholePages(region)
           kept == Masked(region.length) \div PAGE_SIZE
           base == ALIGNED_BASE(region.base)
           addr == IF arch = "x86" THEN Unsigned(base) ELSE base
<1>1. up \in Int /\ cnt \in Nat /\ base = up * PAGE_SIZE
  BY RegionPages
<1>2. base \div PAGE_SIZE = up
  <2> HIDE DEF up
  <2>1. QED
    BY <1>1, PagesOfPages
<1>3. Usable(region)
  BY DEF Pushed
<1>4. addr = base
  <2>1. base \in Nat
    <3>1. region.base + PAGE_SIZE - 1 \in Nat
      BY PageSize DEF Region
    <3> DEFINE c == region.base + PAGE_SIZE - 1
    <3> HIDE DEF c
    <3>2. (c \div PAGE_SIZE) * PAGE_SIZE \in Nat
      BY <3>1, PageSize DEF c
    <3>3. QED
      BY <3>2 DEF ALIGNED_BASE, AlignedDown, c
  <2> HIDE DEF base
  <2>2. arch = "x86" => base < 2 ^ Width
    BY <1>3 DEF base
  <2>3. QED
    BY <2>1, <2>2, MaskedIsLess
<1>5. kept \in Int /\ kept <= cnt
  <2>1. region.length \in Nat
    BY DEF Region
  <2> DEFINE l == region.length
             k == Masked(l)
  <2>2. l \in Nat /\ k \in Nat /\ k <= l
    BY <2>1, MaskedIsLess
  <2> HIDE DEF l, k
  <2>3. k \in Int /\ l \in Int
    BY <2>2
  <2>4. k \div PAGE_SIZE <= l \div PAGE_SIZE /\ k \div PAGE_SIZE \in Int
    BY <2>2, <2>3, PageAscends, InPages
  <2>5. QED
    BY <2>4 DEF l, k, WholePages
<1>6. Pushed(region) = [k \in 1 .. kept |-> up + k - 1]
  <2> HIDE DEF up, kept, base
  <2>1. addr \div PAGE_SIZE = up
    BY <1>2, <1>4
  <2>2. ~ (arch = "x86" /\ addr + Masked(region.length) >= 2 ^ Width)
    BY <1>3 DEF Pushed, base
  <2>3. QED
    BY <1>3, <2>1, <2>2 DEF Pushed, base, kept
<1> HIDE DEF up, cnt, kept
<1>7. p \in 1 .. kept /\ x = up + p - 1
  BY <1>6
<1>8. p \in 1 .. cnt /\ x \in Int
  BY <1>1, <1>5, <1>7
<1>9. QED
  BY <1>3, <1>7, <1>8 DEF up, cnt

LEMMA PushedIsRow ==
    ASSUME NEW region \in Region
    PROVE  Pushed(region) \in Seq(Int)
<1> DEFINE base == ALIGNED_BASE(region.base)
           addr == IF arch = "x86" THEN Unsigned(base) ELSE base
           kept == Masked(region.length) \div PAGE_SIZE
           up == addr \div PAGE_SIZE
           row == [k \in 1 .. kept |-> up + k - 1]
<1>1. base \in Nat
  <2>1. region.base + PAGE_SIZE - 1 \in Nat
    BY PageSize DEF Region
  <2> DEFINE c == region.base + PAGE_SIZE - 1
  <2> HIDE DEF c
  <2>2. (c \div PAGE_SIZE) * PAGE_SIZE \in Nat
    BY <2>1, PageSize DEF c
  <2>3. QED
    BY <2>2 DEF ALIGNED_BASE, AlignedDown, c
<1>2. addr \in Nat
  <2> HIDE DEF base
  <2>1. QED
    BY <1>1, MaskedIsLess
<1>3. up \in Int
  <2> HIDE DEF addr
  <2>1. addr \in Int
    BY <1>2
  <2>2. QED
    BY <2>1, InPages
<1>4. kept \in Nat
  <2> DEFINE l == Masked(region.length)
  <2>1. l \in Nat
    BY MaskedIsLess DEF Region
  <2> HIDE DEF l
  <2>2. l \div PAGE_SIZE \in Nat
    BY <2>1, PageSize
  <2>3. QED
    BY <2>2 DEF l
<1>5. Pushed(region) = <<>> \/ Pushed(region) = row
  BY DEF Pushed
<1>6. row \in Seq(Int)
  <2> HIDE DEF up, kept
  <2>1. QED
    BY <1>3, <1>4
<1>7. <<>> \in Seq(Int)
  OBVIOUS
<1> HIDE DEF row
<1>8. QED
  BY <1>5, <1>6, <1>7

Parts == [i \in DOMAIN mmap |-> Pushed(mmap[i])]

(* A page of another region begins in what that region was; one of the     *)
(* region that was cut, behind what was cut off, either in that region or  *)
(* among the pages behind it.                                              *)
LEMMA PageOfOther ==
    ASSUME MemoryTypeOK, AddressesFit, NEW first, IsCut(first), NEW i \in DOMAIN mmap, i # first,
           NEW p \in Nat, NEW x, IsAt(Parts, i, p, x)
    PROVE  x \in Int /\ Usable(Clipped(given[i])) /\ StartsIn(x, Clipped(given[i]))
<1> DEFINE region == Clipped(given[i])
<1>1. mmap[i] = region /\ i \in DOMAIN given
  BY CutMap
<1>2. region \in Region
  BY <1>1, GivenRegion DEF MemoryTypeOK
<1>3. p \in DOMAIN Pushed(region) /\ Pushed(region)[p] = x
  BY <1>1 DEF IsAt, Parts
<1>4. arch = "x86" /\ Usable(region) => ALIGNED_BASE(region.base) < 2 ^ Width
  BY <1>1 DEF AddressesFit
<1>5. Usable(region) /\ p \in 1 .. WholePages(region) /\ x = FirstWhole(region) + p - 1 /\ x \in Int
  BY <1>2, <1>3, <1>4, PushedPage
<1>6. FirstWhole(region) <= x /\ x < FirstWhole(region) + WholePages(region)
  BY <1>2, <1>5, RegionPages
<1>7. QED
  BY <1>2, <1>5, <1>6, WholeStartsIn

LEMMA PageOfCut ==
    ASSUME MemoryTypeOK, AddressesFit, NEW first, IsCut(first),
           NEW p \in Nat, NEW x, IsAt(Parts, first, p, x)
    PROVE  /\ x \in Int /\ p \in 1 .. WholePages(Clipped(given[first])) /\ x = CutEnd(first) + p - 1
           /\ x \in Overhang \/ StartsIn(x, Clipped(given[first]))
<1> DEFINE region == Clipped(given[first])
           cut == mmap[first]
           e == CutEnd(first)
           C == CutPages(modules)
           up == CutWhole(first)
           lo == CutFirst(first)
           cnt == WholePages(region)
<1>1. /\ mmap \in Seq(Region) /\ first \in DOMAIN mmap /\ Usable(cut)
      /\ cut.length = region.length /\ cut.base = e * PAGE_SIZE
  BY CutMap
<1>2. cut \in Region
  BY <1>1
<1>3. /\ region \in Region /\ e \in Int /\ C \in Nat /\ up \in Int /\ lo \in Int /\ lo <= up /\ up <= lo + 1
      /\ e = up + C
  BY CutNumbers
<1>4. p \in DOMAIN Pushed(cut) /\ Pushed(cut)[p] = x
  BY <1>1 DEF IsAt, Parts
<1>5. p \in 1 .. WholePages(cut) /\ x = FirstWhole(cut) + p - 1 /\ x \in Int
  <2>1. arch = "x86" /\ Usable(cut) => ALIGNED_BASE(cut.base) < 2 ^ Width
    BY <1>1 DEF AddressesFit
  <2>2. QED
    BY <1>2, <1>4, <2>1, PushedPage
<1>6. WholePages(cut) = cnt
  BY <1>1 DEF WholePages
<1>7. FirstWhole(cut) = e
  <2>1. PAGE_SIZE \in Int /\ PAGE_SIZE > 0 /\ e * PAGE_SIZE \in Int
    BY <1>3, PageSize, PagesAdd
  <2> HIDE DEF e, cut
  <2>2. (e * PAGE_SIZE + PAGE_SIZE - 1) \div PAGE_SIZE = e
    <3>1. /\ e \in Int /\ e * PAGE_SIZE + PAGE_SIZE - 1 \in Int
          /\ e * PAGE_SIZE <= e * PAGE_SIZE + PAGE_SIZE - 1
          /\ e * PAGE_SIZE + PAGE_SIZE - 1 < e * PAGE_SIZE + PAGE_SIZE
      BY <1>3, <2>1
    <3>2. QED
      BY <3>1, PageIs
  <2>3. QED
    BY <1>1, <2>2 DEF FirstWhole
<1>8. cnt \in Nat
  BY <1>3, RegionPages
<1>9. CASE x < up + cnt
  <2>1. up <= x
    BY <1>3, <1>5, <1>6, <1>7, <1>8
  <2>2. StartsIn(x, region)
    BY <1>3, <1>5, <1>9, <2>1, WholeStartsIn DEF CutWhole
  <2>3. QED
    BY <1>5, <1>6, <1>7, <2>2
<1>10. CASE x >= up + cnt
  <2> DEFINE from == cut.base + cut.length - Cut(modules)
             to == cut.base + cut.length
  <2>1. Cut(modules) = C * PAGE_SIZE /\ e * PAGE_SIZE = up * PAGE_SIZE + C * PAGE_SIZE
    BY <1>3, CutAddresses, PagesAdd
  <2>2. region.length \in Nat /\ region.length \in Int
    BY <1>3 DEF Region
  <2>3. /\ cnt * PAGE_SIZE <= region.length /\ region.length < cnt * PAGE_SIZE + PAGE_SIZE
    <3> DEFINE l == region.length
    <3> HIDE DEF l
    <3>1. l \in Int
      BY <2>2 DEF l
    <3>2. (l \div PAGE_SIZE) * PAGE_SIZE <= l /\ l < (l \div PAGE_SIZE) * PAGE_SIZE + PAGE_SIZE
      BY <3>1, InPages
    <3>3. QED
      BY <3>2 DEF l, WholePages
  <2> HIDE DEF e, C, up, lo, cnt, region, cut
  <2>4. /\ up * PAGE_SIZE \in Int /\ C * PAGE_SIZE \in Int /\ cnt * PAGE_SIZE \in Int /\ PAGE_SIZE \in Int
        /\ e * PAGE_SIZE \in Int
        /\ (up + cnt) * PAGE_SIZE = up * PAGE_SIZE + cnt * PAGE_SIZE
        /\ (e + cnt) * PAGE_SIZE = e * PAGE_SIZE + cnt * PAGE_SIZE
        /\ up + cnt \in Int /\ e + cnt \in Int
    <3>1. up \in Int /\ C \in Int /\ cnt \in Int /\ e \in Int
      BY <1>3, <1>8
    <3>2. QED
      BY <3>1, PageSize, PagesAdd
  <2>5. from = up * PAGE_SIZE + region.length /\ to = e * PAGE_SIZE + region.length
    <3> DEFINE a == up * PAGE_SIZE
               b == C * PAGE_SIZE
               d == e * PAGE_SIZE
               l == region.length
    <3>1. a \in Int /\ b \in Int /\ d \in Int /\ l \in Int /\ d = a + b
      BY <2>1, <2>2, <2>4
    <3>2. cut.base = d /\ cut.length = l /\ Cut(modules) = b
      BY <1>1, <2>1
    <3> HIDE DEF a, b, d, l
    <3>3. from = a + l /\ to = d + l
      BY <3>1, <3>2
    <3>4. QED
      BY <3>3 DEF a, d, l
  <2> HIDE DEF from, to
  <2>6. from \div PAGE_SIZE = up + cnt
    <3>1. /\ from \in Int /\ (up + cnt) * PAGE_SIZE <= from
          /\ from < (up + cnt) * PAGE_SIZE + PAGE_SIZE
      BY <2>2, <2>3, <2>4, <2>5
    <3>2. QED
      BY <2>4, <3>1, PageIs
  <2>7. e + cnt - 1 <= (to - 1) \div PAGE_SIZE /\ (to - 1) \div PAGE_SIZE \in Int
    <3>1. to - 1 \in Int /\ (e + cnt) * PAGE_SIZE - 1 \in Int /\ (e + cnt) * PAGE_SIZE - 1 <= to - 1
      BY <2>2, <2>3, <2>4, <2>5
    <3>2. ((e + cnt) * PAGE_SIZE - 1) \div PAGE_SIZE = (e + cnt) - 1
      BY <2>4, PagesOfPages
    <3>3. (e + cnt) - 1 <= (to - 1) \div PAGE_SIZE /\ (to - 1) \div PAGE_SIZE \in Int
      BY <3>1, <3>2, PageAscends, InPages
    <3>4. QED
      BY <1>3, <1>8, <3>3
  <2>8. x \in PagesIn(from, to)
    <3>1. x <= e + cnt - 1
      BY <1>3, <1>5, <1>6, <1>7, <1>8
    <3>2. up + cnt <= x /\ x <= (to - 1) \div PAGE_SIZE
      BY <1>3, <1>5, <1>8, <1>10, <2>7, <3>1
    <3>3. QED
      BY <1>5, <2>4, <2>6, <2>7, <3>2 DEF PagesIn
  <2>9. cut.base > startup_tables /\ cut.base <= startup_tables + Cut(modules)
    <3> DEFINE t == lo + Room + ModulePages(modules)
    <3>1. /\ startup_tables = t * PAGE_SIZE /\ Room \in Nat /\ Room > 0 /\ ModulePages(modules) \in Nat
          /\ C = Room + ModulePages(modules) + PAGING_HIER_SIZE + 2 /\ PAGING_HIER_SIZE \in {2, 4}
      BY CutNumbers, CutAddresses DEF C, lo
    <3>2. t \in Int /\ t + 1 \in Int /\ t + C \in Int /\ t + 1 <= e /\ e <= t + C /\ C \in Int /\ e \in Int
      BY <1>3, <3>1
    <3> HIDE DEF t
    <3>3. /\ (t + 1) * PAGE_SIZE = t * PAGE_SIZE + PAGE_SIZE
          /\ (t + C) * PAGE_SIZE = t * PAGE_SIZE + C * PAGE_SIZE
          /\ t * PAGE_SIZE \in Int
      BY <3>2, PagesAdd
    <3>4. (t + 1) * PAGE_SIZE <= e * PAGE_SIZE /\ e * PAGE_SIZE <= (t + C) * PAGE_SIZE
      BY <3>2, PagesAscend
    <3> DEFINE a == t * PAGE_SIZE
               b == C * PAGE_SIZE
               d == e * PAGE_SIZE
    <3>5. a \in Int /\ b \in Int /\ d \in Int /\ a + PAGE_SIZE <= d /\ d <= a + b
      BY <2>4, <3>3, <3>4
    <3>6. cut.base = d /\ startup_tables = a /\ Cut(modules) = b
      BY <1>1, <2>1, <3>1
    <3> HIDE DEF a, b, d
    <3>7. QED
      BY <3>5, <3>6, PageSize
  <2>10. x \in Overhang
    <3>1. first \in {j \in DOMAIN mmap : Usable(mmap[j]) /\ mmap[j].base > startup_tables
                                         /\ mmap[j].base <= startup_tables + Cut(modules)}
      BY <1>1, <2>9 DEF cut
    <3>2. x \in PagesIn(mmap[first].base + mmap[first].length - Cut(modules), mmap[first].base + mmap[first].length)
      BY <2>8 DEF from, to, cut
    <3>3. QED
      BY <3>1, <3>2 DEF Overhang
  <2>11. QED
    BY <1>5, <1>6, <1>7, <2>10 DEF e, cnt, region
<1>11. QED
  BY <1>3, <1>5, <1>8, <1>9, <1>10

LEMMA PartsAreRows ==
    ASSUME mmap \in Seq(Region)
    PROVE  Parts \in Seq(Seq(Int)) /\ DOMAIN Parts = DOMAIN mmap /\ 1 .. Len(Parts) = DOMAIN mmap
<1> DEFINE L == Len(mmap)
           rows == Parts
<1>1. L \in Nat /\ DOMAIN mmap = 1 .. L /\ \A i \in 1 .. L : mmap[i] \in Region
  OBVIOUS
<1> HIDE DEF L
<1>2. rows \in [1 .. L -> Seq(Int)]
  BY <1>1, PushedIsRow DEF Parts
<1> HIDE DEF rows
<1>3. rows \in Seq(Seq(Int)) /\ Len(rows) = L /\ DOMAIN rows = 1 .. L
  BY <1>1, <1>2
<1>4. QED
  BY <1>1, <1>3 DEF rows

(* What begins in a region that is seen is memory, and not below Low. *)
LEMMA InRam ==
    ASSUME given \in Maps, NEW i \in DOMAIN given, Usable(Clipped(given[i])), NEW x \in Int,
           StartsIn(x, Clipped(given[i]))
    PROVE  x \in Ram /\ x >= Low \div PAGE_SIZE
<1> DEFINE region == Clipped(given[i])
           a == x * PAGE_SIZE
           end == given[i].base + given[i].length
<1>1. given[i] \in Region /\ region \in Region
  BY GivenRegion
<1>2. /\ Usable(given[i]) /\ EndOf(region) = EndOf(given[i])
      /\ region.base >= Low /\ region.base >= given[i].base
  BY <1>1, ClippedRegion
<1>3. /\ region.base \in Int /\ given[i].base \in Int /\ Low \in Int /\ EndOf(given[i]) \in Int
      /\ end = EndOf(given[i]) /\ a \in Int
  <2>1. region.base \in Int /\ given[i].base \in Int /\ Low \in Int
    BY <1>1, LowIsAPage DEF Region
  <2>2. EndOf(given[i]) \in Int /\ end = EndOf(given[i])
    BY <1>1, EndIsNumber DEF EndOf
  <2>3. a \in Int
    BY PagesAdd
  <2>4. QED
    BY <2>1, <2>2, <2>3
<1>4. region.base <= a /\ a < end /\ a \div PAGE_SIZE = x
  BY <1>2, <1>3, PagesOfPages DEF StartsIn
<1> HIDE DEF a, end, region
<1>5. given[i].base <= a /\ Low <= a /\ a <= end - 1 /\ end - 1 \in Int
  BY <1>2, <1>3, <1>4
<1>6. given[i].base \div PAGE_SIZE <= x /\ Low \div PAGE_SIZE <= x /\ x <= (end - 1) \div PAGE_SIZE
  BY <1>3, <1>4, <1>5, PageAscends
<1>7. given[i].base \div PAGE_SIZE \in Int /\ Low \div PAGE_SIZE \in Int /\ (end - 1) \div PAGE_SIZE \in Int
  BY <1>3, <1>5, InPages
<1>8. x \in PagesIn(given[i].base, end) /\ x >= Low \div PAGE_SIZE
  BY <1>6, <1>7 DEF PagesIn
<1>9. QED
  BY <1>2, <1>8 DEF Ram, end

(* No page that is pushed is in use, but for the exposed ones, and each of *)
(* them is memory or behind the region that was cut.                       *)
LEMMA PushedIsFree ==
    ASSUME MemoryTypeOK, AddressesFit, arch \in {"x86", "x86_64"}, NEW first, IsCut(first),
           NEW i \in DOMAIN mmap, NEW p \in Nat, NEW x, IsAt(Parts, i, p, x)
    PROVE  (x \in InUse => x \in Exposed) /\ x \in Ram \cup Overhang
<1> DEFINE lo == CutFirst(first)
           up == CutWhole(first)
           C == CutPages(modules)
           region == Clipped(given[first])
           top == EndPage(region)
<1>1. /\ lo \in Int /\ up \in Int /\ C \in Nat /\ lo <= up /\ up <= lo + 1 /\ CutEnd(first) = up + C
      /\ region \in Region /\ given[first] \in Region /\ top \in Int
  BY CutNumbers, RegionPages
<1>2. /\ InUse \subseteq Image \cup (lo .. lo + C - 3) \cup {RangesPage} /\ RangesPage \in Int /\ C >= 3
      /\ arch # "x86" => RangesPage = lo + C - 1
      /\ bsp_stack \div PAGE_SIZE = lo
  BY UsedPages
<1>3. first \in DOMAIN given /\ i \in DOMAIN given /\ given \in Maps /\ Usable(region)
  BY CutMap DEF MemoryTypeOK, IsCut
<1>4. /\ up + C - 1 <= top /\ (RoomAsked # EndOfWhole => up + C - 1 < top)
      /\ lo # up => ChosenRegion.base % PAGE_SIZE # 0
  BY RoomyRegion
<1>5. \A y \in Int : y >= Low \div PAGE_SIZE => y \notin Image
  <2>1. Image \subseteq 0 .. Low \div PAGE_SIZE - 1 /\ Low \div PAGE_SIZE \in Int
    BY SizesAssumption, LowIsAPage
  <2>2. QED
    BY <2>1
<1>6. lo >= Low \div PAGE_SIZE
  <2>1. region.base >= Low /\ region.base \in Int /\ Low \in Int
    BY <1>1, <1>3, ClippedRegion, LowIsAPage DEF Region
  <2>2. QED
    BY <2>1, PageAscends, LowIsAPage, InPages DEF CutFirst, FirstPage
<1>7. lo # up => lo \in Exposed
  BY <1>2, <1>4 DEF Exposed
<1>8. RangesPage \notin Exposed => arch # "x86" /\ RoomAsked # EndOfWhole
  BY DEF Exposed
<1> HIDE DEF lo, up, C, top
<1>9. CASE i # first
  <2>1. x \in Int /\ Usable(Clipped(given[i])) /\ StartsIn(x, Clipped(given[i]))
    BY <1>9, PageOfOther
  <2>2. x \in Ram /\ x >= Low \div PAGE_SIZE
    BY <1>3, <2>1, InRam
  <2>3. ASSUME up <= x, x < top PROVE FALSE
    <3>1. StartsIn(x, region)
      BY <1>1, <2>1, <2>3, WholeStartsIn DEF up, top, CutWhole
    <3>2. QED
      BY <1>3, <1>9, <2>1, <3>1, SeenApart
  <2>4. ASSUME x \in InUse, x \notin Exposed PROVE FALSE
    <3>1. x \in lo .. lo + C - 3 \/ x = RangesPage
      BY <1>2, <1>5, <2>1, <2>2, <2>4
    <3>2. CASE x \in lo .. lo + C - 3
      <4>1. up <= x
        BY <1>1, <1>7, <2>1, <2>4, <3>2
      <4>2. x < top
        BY <1>1, <1>4, <2>1, <3>2
      <4>3. QED
        BY <2>3, <4>1, <4>2
    <3>3. CASE x = RangesPage
      <4>1. x = lo + C - 1 /\ up + C - 1 < top
        BY <1>2, <1>4, <1>8, <2>4, <3>3
      <4>2. up <= x /\ x < top
        BY <1>1, <1>2, <4>1
      <4>3. QED
        BY <2>3, <4>2
    <3>4. QED
      BY <3>1, <3>2, <3>3
  <2>5. QED
    BY <2>2, <2>4
<1>10. CASE i = first
  <2>1. /\ x \in Int /\ p \in Int /\ p >= 1 /\ x = up + C + p - 1
        /\ x \in Overhang \/ StartsIn(x, region)
    <3>1. IsAt(Parts, first, p, x)
      BY <1>10
    <3>2. p \in 1 .. WholePages(region) /\ WholePages(region) \in Nat
      BY <1>1, <3>1, PageOfCut, RegionPages
    <3>3. QED
      BY <1>1, <3>1, <3>2, PageOfCut
  <2>2. x \in Ram \cup Overhang
    BY <1>3, <2>1, InRam
  <2>3. x > lo + C - 1 /\ x >= lo
    BY <1>1, <2>1
  <2>4. x >= Low \div PAGE_SIZE /\ x \notin lo .. lo + C - 3
    BY <1>1, <1>6, <2>1, <2>3, LowIsAPage
  <2>5. ASSUME x \in InUse PROVE x \in Exposed
    <3>1. x = RangesPage
      BY <1>2, <1>5, <2>1, <2>4, <2>5
    <3>2. arch = "x86"
      BY <1>1, <1>2, <2>3, <3>1
    <3>3. QED
      BY <3>1, <3>2 DEF Exposed
  <2>6. QED
    BY <2>2, <2>5
<1>11. QED
  BY <1>9, <1>10

(* What is pushed twice lies behind the region that was cut. *)
LEMMA PushedTwice ==
    ASSUME MemoryTypeOK, AddressesFit, NEW first, IsCut(first),
           NEW h \in DOMAIN mmap, NEW i \in DOMAIN mmap, NEW p \in Nat, NEW q \in Nat, <<h, p>> # <<i, q>>,
           NEW x, IsAt(Parts, h, p, x), IsAt(Parts, i, q, x)
    PROVE  x \in Overhang
<1>1. mmap \in Seq(Region) /\ DOMAIN mmap = DOMAIN given /\ given \in Maps /\ first \in DOMAIN given
  BY CutMap DEF MemoryTypeOK
<1>2. Usable(Clipped(given[first]))
  BY DEF IsCut
<1>3. CASE h = i
  <2>1. mmap[h] \in Region
    BY <1>1
  <2>2. /\ p \in DOMAIN Pushed(mmap[h]) /\ Pushed(mmap[h])[p] = x
        /\ q \in DOMAIN Pushed(mmap[h]) /\ Pushed(mmap[h])[q] = x
    BY <1>3 DEF IsAt, Parts
  <2>0. arch = "x86" /\ Usable(mmap[h]) => ALIGNED_BASE(mmap[h].base) < 2 ^ Width
    BY DEF AddressesFit
  <2>3. x = FirstWhole(mmap[h]) + p - 1 /\ x = FirstWhole(mmap[h]) + q - 1 /\ FirstWhole(mmap[h]) \in Int
    BY <2>0, <2>1, <2>2, PushedPage, RegionPages
  <2>4. p = q
    BY <2>3
  <2>5. QED
    BY <1>3, <2>4
<1>4. ASSUME NEW j \in DOMAIN mmap, NEW r \in Nat, IsAt(Parts, j, r, x)
      PROVE  \/ x \in Overhang
             \/ x \in Int /\ Usable(Clipped(given[j])) /\ StartsIn(x, Clipped(given[j]))
  <2>1. CASE j = first
    <3>1. IsAt(Parts, first, r, x)
      BY <1>4, <2>1
    <3>2. QED
      BY <1>2, <2>1, <3>1, PageOfCut
  <2>2. CASE j # first
    BY <1>4, <2>2, PageOfOther
  <2>3. QED
    BY <2>1, <2>2
<1>5. CASE h # i
  <2>1. SUFFICES ASSUME x \notin Overhang
                 PROVE  FALSE
    OBVIOUS
  <2>2. x \in Int /\ Usable(Clipped(given[h])) /\ StartsIn(x, Clipped(given[h]))
    BY <1>4, <2>1
  <2>3. Usable(Clipped(given[i])) /\ StartsIn(x, Clipped(given[i]))
    BY <1>4, <2>1
  <2>4. h \in DOMAIN given /\ i \in DOMAIN given
    BY <1>1
  <2>5. QED
    BY <1>1, <1>5, <2>2, <2>3, <2>4, SeenApart
<1>6. QED
  BY <1>3, <1>5

LEMMA FreeAtFirst ==
    ASSUME MemoryTypeOK, AddressesFit, arch \in {"x86", "x86_64"}, NEW first, IsCut(first),
           NEW flat, flat = FlattenSeq(Parts)
    PROVE  /\ flat \in Seq(Int) /\ InUse \cap Range(flat) \subseteq Exposed /\ Range(flat) \subseteq Ram \cup Overhang
           /\ \A j, k \in DOMAIN flat : j # k /\ flat[j] = flat[k] => flat[j] \in Overhang
<1>1. Parts \in Seq(Seq(Int)) /\ 1 .. Len(Parts) = DOMAIN mmap
  BY CutMap, PartsAreRows
<1>2. FromParts(Parts, Len(Parts), flat)
  BY <1>1, FlatIsFromParts
<1>3. flat \in Seq(Int)
  BY <1>2 DEF FromParts
<1>4. ASSUME NEW k \in DOMAIN flat
      PROVE  (flat[k] \in InUse => flat[k] \in Exposed) /\ flat[k] \in Ram \cup Overhang
  <2>1. PICK i \in 1 .. Len(Parts), p \in Nat : IsAt(Parts, i, p, flat[k])
    BY <1>2 DEF FromParts
  <2>2. QED
    BY <1>1, <2>1, PushedIsFree
<1>5. ASSUME NEW j \in DOMAIN flat, NEW k \in DOMAIN flat, j # k, flat[j] = flat[k]
      PROVE  flat[j] \in Overhang
  <2>1. PICK h \in 1 .. Len(Parts), i \in 1 .. Len(Parts) : \E p, q \in Nat :
               <<h, p>> # <<i, q>> /\ IsAt(Parts, h, p, flat[j]) /\ IsAt(Parts, i, q, flat[k])
    BY <1>2, <1>5 DEF FromParts
  <2>2. PICK p \in Nat, q \in Nat :
               <<h, p>> # <<i, q>> /\ IsAt(Parts, h, p, flat[j]) /\ IsAt(Parts, i, q, flat[k])
    BY <2>1
  <2>3. h \in DOMAIN mmap /\ i \in DOMAIN mmap
    BY <1>1
  <2>4. IsAt(Parts, i, q, flat[j])
    BY <1>5, <2>2
  <2>5. QED
    BY <2>2, <2>3, <2>4, PushedTwice
<1>6. QED
  BY <1>3, <1>4, <1>5 DEF Range

(* What is in use is marked, but for the page of the ranges on x86. *)
LEMMA UsedIsMarked ==
    ASSUME MemoryTypeOK, arch \in {"x86", "x86_64"}, NEW first, IsCut(first)
    PROVE  InUse \ (IF arch = "x86" THEN {RangesPage} ELSE {})
             \subseteq Image \cup PagesIn(bsp_stack, bsp_stack + Cut(modules))
<1> DEFINE lo == CutFirst(first)
           C == CutPages(modules)
<1>1. lo \in Int /\ C \in Nat
  BY CutNumbers
<1>2. bsp_stack = lo * PAGE_SIZE /\ bsp_stack + Cut(modules) = (lo + C) * PAGE_SIZE
  BY CutAddresses
<1>0. /\ InUse \subseteq Image \cup (lo .. lo + C - 3) \cup {RangesPage} /\ C >= 3
      /\ arch # "x86" => RangesPage = lo + C - 1
  BY UsedPages
<1> HIDE DEF lo, C
<1>3. InUse \ (IF arch = "x86" THEN {RangesPage} ELSE {}) \subseteq Image \cup (lo .. lo + C - 1)
  <2>1. lo .. lo + C - 3 \subseteq lo .. lo + C - 1 /\ lo + C - 1 \in lo .. lo + C - 1
    BY <1>0, <1>1
  <2> DEFINE small == lo .. lo + C - 3
             large == lo .. lo + C - 1
             at == lo + C - 1
  <2>2. /\ InUse \subseteq Image \cup small \cup {RangesPage} /\ (arch # "x86" => RangesPage = at)
        /\ small \subseteq large /\ at \in large
    BY <1>0, <2>1
  <2> HIDE DEF small, large, at
  <2>3. InUse \ (IF arch = "x86" THEN {RangesPage} ELSE {}) \subseteq Image \cup large
    BY <2>2
  <2>4. QED
    BY <2>3 DEF large
<1>4. lo + C \in Int /\ (lo * PAGE_SIZE) \div PAGE_SIZE = lo /\ ((lo + C) * PAGE_SIZE - 1) \div PAGE_SIZE = (lo + C) - 1
  BY <1>1, PagesOfPages
<1>5. PagesIn(bsp_stack, bsp_stack + Cut(modules)) = lo .. (lo + C) - 1
  BY <1>2, <1>4 DEF PagesIn
<1>6. (lo + C) - 1 = lo + C - 1
  BY <1>1
<1>7. QED
  BY <1>3, <1>5, <1>6

-----------------------------------------------------------------------------
(* The inductive invariant: the loader's map, clipped, is what the kernel  *)
(* of x86_64 begins with, and the modules lie where the region the kernel  *)
(* will find again has room for them; then that region is cut; from        *)
(* pmm_init on the property itself is kept.                                *)
PmmTypeOK ==
    /\ arch \in {"x86", "x86_64"} /\ phase \in {"loader", "kernel", "init", "ready"}
    /\ MemoryTypeOK /\ mmap \in Seq(Region)
    /\ bsp_stack \in Nat /\ pmm_stack_ptr \in Nat /\ startup_tables \in Nat
    /\ physbitmap \subseteq Int /\ free \in Seq(Int) /\ taken \subseteq Int /\ calls_made \in Nat

IsPlaced ==
    Found(mmap, modules) # {} =>
        InRow(modules, ModulesAt(Masked(mmap[Max(Found(mmap, modules))].base)))

PmmInv ==
    /\ PmmTypeOK
    /\ phase # "ready" => free = <<>> /\ taken = {}
    /\ phase = "loader" => arch = "x86_64" /\ mmap = given
    /\ phase = "kernel" => IF arch = "x86" THEN mmap = given ELSE mmap = Seen(given, TRUE) /\ IsPlaced
    /\ phase = "init" /\ RoomIsThere => \E first \in DOMAIN given : IsCut(first)
    /\ TheKernelKeepsItsPages

LEMMA AlignedNumbers ==
    ASSUME NEW a \in Nat
    PROVE  AlignedDown(a) \in Nat /\ ALIGNED_BASE(a) \in Nat
<1>1. \A n \in Nat : AlignedDown(n) \in Nat
  BY PageSize DEF AlignedDown
<1>2. a + PAGE_SIZE - 1 \in Nat
  BY PageSize
<1>3. QED
  BY <1>1, <1>2 DEF ALIGNED_BASE

(* A set of numbers up to n has a last element, which is what Max chooses. *)
LEMMA LastOne ==
    ASSUME NEW n \in Nat, NEW S, S \subseteq 1 .. n, S # {}
    PROVE  Max(S) \in S
<1> DEFINE T == {n - i : i \in S}
<1>0. PICK one \in S : TRUE
  OBVIOUS
<1>1. T \subseteq Nat /\ T # {}
  <2>1. \A i \in 1 .. n : n - i \in Nat
    OBVIOUS
  <2>2. \A y \in T : \E i \in 1 .. n : y = n - i
    OBVIOUS
  <2>3. n - one \in T
    BY <1>0
  <2> HIDE DEF T
  <2>4. QED
    BY <2>1, <2>2, <2>3
<1>2. Min(T) \in T /\ \A y \in T : Min(T) <= y
  <2> HIDE DEF T
  <2>1. QED
    BY <1>1, FirstOne
<1>3. PICK i \in S : n - i = Min(T)
  BY <1>2
<1>4. \A j \in S : j <= i
  <2>1. SUFFICES ASSUME NEW j \in S PROVE j <= i
    OBVIOUS
  <2>2. n - j \in T
    OBVIOUS
  <2>3. Min(T) <= n - j
    BY <1>2, <2>2
  <2> HIDE DEF T
  <2>4. QED
    BY <1>3, <2>3
<1> HIDE DEF T
<1>5. QED
  BY <1>4 DEF Max

LEMMA FoundAreLarge ==
    ASSUME NEW map \in Seq(Region), NEW mods, Found(map, mods) # {}
    PROVE  /\ Max(Found(map, mods)) \in Found(map, mods)
           /\ Found(map, mods) \subseteq DOMAIN map
<1>1. DOMAIN map = 1 .. Len(map) /\ Len(map) \in Nat
  OBVIOUS
<1>2. Found(map, mods) \subseteq DOMAIN map
  BY DEF Found, Large
<1> HIDE DEF Found
<1>3. QED
  BY <1>1, <1>2, LastOne

(* When the first region that seems large enough is so, no other is taken. *)
LEMMA OneFound ==
    ASSUME MemoryTypeOK, RoomIsThere
    PROVE  /\ Chosen \in DOMAIN given /\ Usable(Clipped(given[Chosen])) /\ ChosenRegion = Clipped(given[Chosen])
           /\ Found(Seen(given, TRUE), modules) = {Chosen} /\ Max({Chosen}) = Chosen
           /\ Masked(ChosenRegion.base) = AlignedDown(ChosenRegion.base)
<1> DEFINE seen == Seen(given, TRUE)
           large == Large(seen, modules)
           base == ChosenRegion.base
<1>1. given \in Seq(Region) /\ large # {}
  BY SizesAssumption DEF MemoryTypeOK, RoomIsThere
<1>2. /\ seen \in Seq(Region) /\ DOMAIN seen = DOMAIN given
      /\ \A i \in DOMAIN given : seen[i] = Clipped(given[i]) /\ given[i] \in Region
  BY <1>1, SeenMap
<1>3. large \subseteq Nat /\ large \subseteq DOMAIN given /\ \A i \in large : Usable(seen[i])
  <2>1. DOMAIN seen \subseteq Nat
    <3> DEFINE L == Len(seen)
    <3> HIDE DEF seen
    <3>1. DOMAIN seen = 1 .. L /\ L \in Nat
      BY <1>2
    <3> HIDE DEF L
    <3>2. QED
      BY <3>1
  <2>2. QED
    BY <1>2, <2>1 DEF Large
<1> HIDE DEF seen, large
<1>4. Chosen = Min(large) /\ Chosen \in large /\ \A i \in large : Chosen <= i
  <2>1. Chosen = Min(large)
    BY DEF Chosen, large, seen
  <2>2. QED
    BY <1>1, <1>3, <2>1, FirstOne
<1>5. /\ Chosen \in DOMAIN given /\ Usable(Clipped(given[Chosen])) /\ given[Chosen] \in Region
      /\ ChosenRegion = Clipped(given[Chosen]) /\ ChosenRegion = seen[Chosen]
  BY <1>2, <1>3, <1>4 DEF ChosenRegion, seen
<1>6. ChosenRegion \in Region /\ base >= Low /\ base \in Nat
  BY <1>5, ClippedRegion DEF Region
<1>7. base < 2 ^ Width
  <2>1. base + ChosenRegion.length < 2 ^ Width /\ ChosenRegion.length \in Nat /\ 2 ^ Width \in Nat
    BY <1>6, SizesAssumption DEF RoomIsThere, Region
  <2> DEFINE b == base
             l == ChosenRegion.length
             N == 2 ^ Width
  <2>2. b + l < N /\ b \in Nat /\ l \in Nat /\ N \in Nat
    BY <1>6, <2>1
  <2> HIDE DEF b, l, N
  <2>3. b < N
    BY <2>2
  <2>4. QED
    BY <2>3 DEF b, N
<1>8. Masked(base) = AlignedDown(base)
  <2> HIDE DEF base
  <2>1. QED
    BY <1>6, <1>7, MaskedIsLess
<1>9. Masked(base) # 0
  <2>1. AlignedDown(base) >= Low
    <3> HIDE DEF base
    <3>1. base \in Int /\ Low \in Int /\ Low <= base
      BY <1>6, LowIsAPage
    <3>2. Low \div PAGE_SIZE <= base \div PAGE_SIZE /\ Low \div PAGE_SIZE \in Int /\ base \div PAGE_SIZE \in Int
      BY <3>1, PageAscends, InPages
    <3>3. (Low \div PAGE_SIZE) * PAGE_SIZE <= (base \div PAGE_SIZE) * PAGE_SIZE
      BY <3>2, PagesAscend
    <3>4. QED
      BY <3>3, LowIsAPage DEF AlignedDown
  <2>2. AlignedDown(base) \in Int
    BY <1>6, InPages DEF AlignedDown
  <2>3. QED
    BY <1>8, <2>1, <2>2, LowIsAPage
<1>10. Found(seen, modules) = {Chosen}
  <2>1. Masked(seen[Chosen].base) # 0
    BY <1>5, <1>9
  <2>2. Chosen \in Nat
    BY <1>3, <1>4
  <2>3. \A i \in large : i # Chosen => Chosen < i
    BY <1>3, <1>4, <2>2
  <2>4. \A j \in large : ~ (j < Chosen)
    BY <1>3, <1>4, <2>2
  <2>5. Found(seen, modules) = {i \in large : \A j \in large : j < i => Masked(seen[j].base) = 0}
    BY DEF Found, large
  <2>6. QED
    BY <1>4, <2>1, <2>3, <2>4, <2>5
<1>11. Max({Chosen}) = Chosen
  <2>1. Chosen \in Nat /\ Chosen >= Chosen
    BY <1>3, <1>4
  <2>2. QED
    BY <2>1 DEF Max
<1>12. QED
  BY <1>5, <1>8, <1>10, <1>11 DEF seen

LEMMA SameSizeIsAsLarge ==
    ASSUME NEW mods, NEW other, mod_size(mods) = mod_size(other)
    PROVE  /\ Before(mods) = Before(other) /\ Cut(mods) = Cut(other)
           /\ \A map : Large(map, mods) = Large(map, other)
           /\ \A map : Found(map, mods) = Found(map, other)
<1>1. Before(mods) = Before(other)
  BY DEF Before
<1>2. Cut(mods) = Cut(other)
  BY <1>1 DEF Cut
<1>3. \A region : Fits(region, mods) <=> Fits(region, other)
  BY <1>1 DEF Fits
<1>4. \A map : Large(map, mods) = Large(map, other)
  BY <1>3 DEF Large
<1>5. \A map : Found(map, mods) = Found(map, other)
  BY <1>4 DEF Found
<1>6. QED
  BY <1>1, <1>2, <1>4, <1>5

LEMMA PmmInitHolds == PmmInit => PmmInv
<1> SUFFICES ASSUME PmmInit PROVE PmmInv
  OBVIOUS
<1>1. PmmTypeOK
  <2>1. /\ arch \in {"x86", "x86_64"} /\ given \in Maps /\ mmap = given /\ modules \in Modules
        /\ phase = IF arch = "x86" THEN "kernel" ELSE "loader"
        /\ bsp_stack = 0 /\ pmm_stack_ptr = 0 /\ startup_tables = 0
        /\ physbitmap = {} /\ free = <<>> /\ taken = {} /\ calls_made = 0
    BY DEF PmmInit
  <2>2. mmap \in Seq(Region) /\ modules \in Seq(Extent) /\ Ordered(modules)
    BY <2>1, SizesAssumption DEF Ordered
  <2>3. phase \in {"loader", "kernel", "init", "ready"}
    BY <2>1
  <2>4. <<>> \in Seq(Int)
    OBVIOUS
  <2>5. QED
    BY <2>1, <2>2, <2>3, <2>4 DEF PmmTypeOK, MemoryTypeOK
<1>2. QED
  BY <1>1 DEF PmmInit, PmmInv, TheKernelKeepsItsPages

(* The way through the map: what it leaves. *)
LEMMA MapIsRead ==
    ASSUME PmmTypeOK, NEW clips \in BOOLEAN, NEW kernel \in BOOLEAN, Seen(mmap, clips) = Seen(given, TRUE),
           pmm_init_mmap(clips, kernel)
    PROVE  LET seen == Seen(given, TRUE)
               found == Found(seen, modules)
               bottom == Masked(seen[Max(found)].base)
           IN  /\ mmap' \in Seq(Region) /\ modules' \in Seq(Extent) /\ Ordered(modules')
               /\ mod_size(modules') = mod_size(modules)
               /\ bsp_stack' \in Nat /\ pmm_stack_ptr' \in Nat /\ startup_tables' \in Nat
               /\ ~ kernel => mmap' = seen
               /\ found # {} =>
                    /\ mmap' = [i \in DOMAIN seen |-> IF kernel /\ i \in found THEN CutOff(seen[i]) ELSE seen[i]]
                    /\ bsp_stack' = bottom /\ pmm_stack_ptr' = bottom + (Easymap + STDRD_STACKSIZ) * PAGE_SIZE
                    /\ startup_tables' = IF kernel THEN bottom + Before(modules) ELSE 0
                    /\ IF clips THEN InRow(modules', ModulesAt(bottom)) ELSE modules' = modules
<1> DEFINE seen == Seen(given, TRUE)
           found == Found(seen, modules)
           bottom == Masked(seen[Max(found)].base)
<1>1. given \in Seq(Region) /\ modules \in Seq(Extent) /\ Ordered(modules)
  BY SizesAssumption DEF PmmTypeOK, MemoryTypeOK
<1>2. seen \in Seq(Region) /\ DOMAIN seen = DOMAIN given
  BY <1>1, SeenMap
<1>3. mod_size(modules) \in Nat
  BY <1>1, SizesAdd
<1>4. /\ Before(modules) \in Nat /\ Cut(modules) \in Nat
  BY <1>3, CutInPages
<1>5. CASE found = {}
  <2>1. mmap' = seen /\ modules' = modules /\ bsp_stack' = 0 /\ pmm_stack_ptr' = 0 /\ startup_tables' = 0
    BY <1>5 DEF pmm_init_mmap
  <2>2. QED
    BY <1>1, <1>2, <1>5, <2>1
<1>6. CASE found # {}
  <2>1. Max(found) \in DOMAIN seen
    BY <1>2, <1>6, FoundAreLarge
  <2>2. /\ mmap' = [i \in DOMAIN seen |-> IF kernel /\ i \in found THEN CutOff(seen[i]) ELSE seen[i]]
        /\ modules' = IF clips THEN Moved(modules, ModulesAt(bottom)) ELSE modules
        /\ bsp_stack' = bottom
        /\ pmm_stack_ptr' = bottom + (Easymap + STDRD_STACKSIZ) * PAGE_SIZE
        /\ startup_tables' = IF kernel THEN bottom + Before(modules) ELSE 0
    BY <1>6 DEF pmm_init_mmap
  <2>3. seen[Max(found)] \in Region
    <3> HIDE DEF seen, found, bottom
    <3>1. QED
      BY <1>2, <2>1
  <2>4. bottom \in Nat
    <3> DEFINE b == seen[Max(found)].base
    <3>1. b \in Nat
      BY <2>3 DEF Region
    <3> HIDE DEF b
    <3>2. Masked(b) \in Nat
      BY <3>1, MaskedIsLess
    <3>3. QED
      BY <3>2 DEF b
  <2>5. \A n \in Nat : n * PAGE_SIZE \in Nat
    BY PageSize
  <2>6. Easymap + STDRD_STACKSIZ \in Nat /\ Easymap + STDRD_STACKSIZ + PMM_STACK_SIZ \in Nat
    BY SizesAssumption DEF Easymap
  <2>7. pmm_stack_ptr' \in Nat /\ startup_tables' \in Nat /\ ModulesAt(bottom) \in Nat
    <3> HIDE DEF bottom
    <3>1. (Easymap + STDRD_STACKSIZ) * PAGE_SIZE \in Nat /\ (Easymap + STDRD_STACKSIZ + PMM_STACK_SIZ) * PAGE_SIZE \in Nat
      BY <2>5, <2>6
    <3>2. QED
      BY <1>4, <2>2, <2>4, <3>1 DEF ModulesAt
  <2> HIDE DEF seen, found, bottom
  <2>8. mmap' \in Seq(Region) /\ (~ kernel => mmap' = seen)
    <3>1. ASSUME NEW i \in DOMAIN seen PROVE seen[i] \in Region /\ CutOff(seen[i]) \in Region
      <4>1. seen[i] \in Region
        BY <1>2
      <4>2. ALIGNED_BASE(seen[i].base) \in Nat
        BY <4>1, AlignedNumbers DEF Region
      <4> DEFINE base == ALIGNED_BASE(seen[i].base) + Cut(modules)
      <4>3. base \in Nat
        BY <1>4, <4>2
      <4>4. CutOff(seen[i]) = [seen[i] EXCEPT !.base = base]
        BY DEF CutOff
      <4> HIDE DEF base
      <4>5. [seen[i] EXCEPT !.base = base] \in Region
        BY <4>1, <4>3 DEF Region
      <4>6. QED
        BY <4>1, <4>4, <4>5
    <3> DEFINE L == Len(seen)
    <3>2. DOMAIN seen = 1 .. L /\ L \in Nat /\ seen = [i \in 1 .. L |-> seen[i]]
      BY <1>2
    <3> HIDE DEF L
    <3>3. mmap' \in [1 .. L -> Region]
      BY <2>2, <3>1, <3>2
    <3>4. mmap' \in Seq(Region)
      BY <3>2, <3>3
    <3>5. ~ kernel => mmap' = seen
      BY <2>2, <3>2
    <3>6. QED
      BY <3>4, <3>5
  <2>9. /\ modules' \in Seq(Extent) /\ Ordered(modules') /\ mod_size(modules') = mod_size(modules)
        /\ IF clips THEN InRow(modules', ModulesAt(bottom)) ELSE modules' = modules
    BY <1>1, <2>2, <2>7, MovedModules
  <2>10. QED
    BY <1>2, <1>6, <2>2, <2>4, <2>7, <2>8, <2>9 DEF seen, found, bottom
<1>7. QED
  BY <1>5, <1>6

(* Moving the modules changes nothing of what the map is read by. *)
LEMMA SameArch ==
    ASSUME arch' = arch, mod_size(modules') = mod_size(modules)
    PROVE  /\ Cut(modules)' = Cut(modules) /\ Before(modules)' = Before(modules)
           /\ \A region : Fits(region, modules)' <=> Fits(region, modules)
           /\ ModulesAt(bsp_stack)' = ModulesAt(bsp_stack')
           /\ Easymap' = Easymap /\ PAGING_HIER_SIZE' = PAGING_HIER_SIZE
<1>1. Easymap' = Easymap /\ PAGING_HIER_SIZE' = PAGING_HIER_SIZE
  BY DEF Easymap, PAGING_HIER_SIZE
<1>2. Before(modules)' = Before(modules') /\ Before(modules') = Before(modules) /\ Cut(modules') = Cut(modules)
  BY <1>1, SameSizeIsAsLarge DEF Before
<1>3. Cut(modules)' = Cut(modules')
  BY <1>1, <1>2 DEF Cut
<1>4. Cut(modules)' = Cut(modules) /\ Before(modules)' = Before(modules)
  BY <1>2, <1>3
<1>5. \A region : Fits(region, modules)' <=> Fits(region, modules)
  BY <1>1, <1>4 DEF Fits
<1>6. ModulesAt(bsp_stack)' = ModulesAt(bsp_stack')
  BY <1>1 DEF ModulesAt
<1>7. QED
  BY <1>1, <1>4, <1>5, <1>6

LEMMA SameFound ==
    ASSUME arch' = arch, mod_size(modules') = mod_size(modules), NEW map, mmap' = map
    PROVE  Found(mmap, modules)' = Found(map, modules)
<1>1. \A region : Fits(region, modules)' <=> Fits(region, modules)
  BY SameArch
<1>2. Large(mmap, modules)' = Large(map, modules)
  BY <1>1 DEF Large
<1>3. QED
  BY <1>2 DEF Found

LEMMA SameRegion ==
    ASSUME arch' = arch, given' = given, mod_size(modules') = mod_size(modules)
    PROVE  /\ Chosen' = Chosen /\ ChosenRegion' = ChosenRegion /\ RoomIsThere' = RoomIsThere
           /\ RoomAsked' = RoomAsked /\ EndOfWhole' = EndOfWhole
<1>1. Large(Seen(given, TRUE), modules)' = Large(Seen(given, TRUE), modules)
  <2>1. \A region : Fits(region, modules)' <=> Fits(region, modules)
    BY SameArch
  <2>2. Seen(given, TRUE)' = Seen(given, TRUE)
    BY DEF Seen
  <2>3. QED
    BY <2>1, <2>2 DEF Large
<1>2. Before(modules)' = Before(modules) /\ PAGING_HIER_SIZE' = PAGING_HIER_SIZE
  BY SameArch
<1>3. Chosen' = Chosen
  BY <1>1 DEF Chosen, Min
<1>4. Seen(given, TRUE)' = Seen(given, TRUE)
  BY DEF Seen
<1>5. ChosenRegion' = ChosenRegion
  BY <1>3, <1>4 DEF ChosenRegion
<1>6. RoomAsked' = RoomAsked /\ EndOfWhole' = EndOfWhole
  BY <1>2, <1>5 DEF RoomAsked, EndOfWhole
<1>7. RoomIsThere' = RoomIsThere
  BY <1>1, <1>5, <1>6 DEF RoomIsThere
<1>8. QED
  BY <1>3, <1>5, <1>6, <1>7

(* The loader has clipped the map, and put the modules where the kernel    *)
(* will have its region again.                                             *)
LEMMA LoaderKeeps == ASSUME PmmInv, init_LM PROVE PmmInv'
<1>1. /\ phase = "loader" /\ phase' = "kernel"
      /\ arch' = arch /\ given' = given /\ physbitmap' = physbitmap /\ free' = free /\ taken' = taken
      /\ calls_made' = calls_made
  BY DEF init_LM
<1>0. pmm_init_mmap(TRUE, FALSE)
  BY Zenon DEF init_LM
<1>2. PmmTypeOK /\ arch = "x86_64" /\ mmap = given /\ free = <<>> /\ taken = {}
  BY <1>1 DEF PmmInv
<1> DEFINE seen == Seen(given, TRUE)
           found == Found(seen, modules)
           bottom == Masked(seen[Max(found)].base)
<1>3. /\ mmap' \in Seq(Region) /\ modules' \in Seq(Extent) /\ Ordered(modules')
      /\ mod_size(modules') = mod_size(modules)
      /\ bsp_stack' \in Nat /\ pmm_stack_ptr' \in Nat /\ startup_tables' \in Nat
      /\ mmap' = seen
      /\ found # {} => InRow(modules', ModulesAt(bottom))
  <2>1. Seen(mmap, TRUE) = seen
    BY <1>2
  <2> HIDE DEF seen, found, bottom
  <2>2. QED
    BY <1>0, <1>2, <2>1, MapIsRead DEF seen, found, bottom
<1>4. PmmTypeOK'
  BY <1>1, <1>2, <1>3 DEF PmmTypeOK, MemoryTypeOK
<1>5. Found(mmap, modules)' = found
  <2> HIDE DEF seen
  <2>1. QED
    BY <1>1, <1>3, SameFound DEF found
<1>6. IsPlaced'
  <2>1. ModulesAt(bottom) = (ModulesAt(Masked(mmap[Max(Found(mmap, modules))].base)))'
    BY <1>1, <1>3, <1>5 DEF ModulesAt, Easymap
  <2>2. QED
    BY <1>3, <1>5, <2>1 DEF IsPlaced
<1>7. mmap' = Seen(given, TRUE)'
  BY <1>1, <1>3
<1>8. QED
  BY <1>1, <1>2, <1>4, <1>6, <1>7 DEF PmmInv, TheKernelKeepsItsPages

(* The kernel cuts the region: the first one that is large enough, and on  *)
(* x86_64 the one the loader had found.                                    *)
LEMMA KernelKeeps == ASSUME PmmInv, KernelMap PROVE PmmInv'
<1> DEFINE clips == arch = "x86"
<1>1. /\ phase = "kernel" /\ phase' = "init"
      /\ arch' = arch /\ given' = given /\ physbitmap' = physbitmap /\ free' = free /\ taken' = taken
      /\ calls_made' = calls_made
  BY DEF KernelMap
<1>0. pmm_init_mmap(clips, TRUE)
  BY Zenon DEF KernelMap
<1>2. /\ PmmTypeOK /\ free = <<>> /\ taken = {}
      /\ IF clips THEN mmap = given ELSE mmap = Seen(given, TRUE) /\ IsPlaced
  BY <1>1 DEF PmmInv
<1> DEFINE seen == Seen(given, TRUE)
           found == Found(seen, modules)
           bottom == Masked(seen[Max(found)].base)
<1>3. given \in Seq(Region) /\ mmap \in Seq(Region)
  BY <1>2, SizesAssumption DEF PmmTypeOK, MemoryTypeOK
<1>4. Seen(mmap, clips) = seen /\ clips \in BOOLEAN
  <2>1. clips \in BOOLEAN
    BY Zenon
  <2> HIDE DEF clips, seen
  <2>2. CASE clips = TRUE
    <3>1. Seen(mmap, clips) = Seen(mmap, TRUE)
      BY <2>2, Zenon
    <3>2. Seen(mmap, TRUE) = seen
      BY <1>2, <2>2 DEF seen
    <3>3. QED
      BY <2>1, <3>1, <3>2, Zenon
  <2>3. CASE clips = FALSE
    <3>1. mmap = seen /\ Seen(mmap, FALSE) = mmap
      BY <1>2, <1>3, <2>3, SeenMap DEF seen
    <3>2. Seen(mmap, clips) = Seen(mmap, FALSE)
      BY <2>3, Zenon
    <3>3. QED
      BY <2>1, <3>1, <3>2, Zenon
  <2>4. QED
    BY <2>1, <2>2, <2>3
<1> HIDE DEF clips
<1>5. /\ mmap' \in Seq(Region) /\ modules' \in Seq(Extent) /\ Ordered(modules')
      /\ mod_size(modules') = mod_size(modules)
      /\ bsp_stack' \in Nat /\ pmm_stack_ptr' \in Nat /\ startup_tables' \in Nat
      /\ found # {} =>
           /\ mmap' = [i \in DOMAIN seen |-> IF i \in found THEN CutOff(seen[i]) ELSE seen[i]]
           /\ bsp_stack' = bottom /\ pmm_stack_ptr' = bottom + (Easymap + STDRD_STACKSIZ) * PAGE_SIZE
           /\ startup_tables' = bottom + Before(modules)
           /\ IF clips THEN InRow(modules', ModulesAt(bottom)) ELSE modules' = modules
  BY <1>0, <1>2, <1>4, MapIsRead
<1>6. PmmTypeOK'
  BY <1>1, <1>2, <1>5 DEF PmmTypeOK, MemoryTypeOK
<1>7. ASSUME RoomIsThere' PROVE \E f \in DOMAIN given' : IsCut(f)'
  <2>1. /\ Cut(modules)' = Cut(modules) /\ Before(modules)' = Before(modules)
        /\ Easymap' = Easymap /\ PAGING_HIER_SIZE' = PAGING_HIER_SIZE
        /\ Chosen' = Chosen /\ RoomIsThere
    BY <1>1, <1>5, <1>7, SameArch, SameRegion
  <2>2. /\ Chosen \in DOMAIN given /\ Usable(Clipped(given[Chosen])) /\ ChosenRegion = Clipped(given[Chosen])
        /\ found = {Chosen} /\ Max(found) = Chosen
        /\ Masked(ChosenRegion.base) = AlignedDown(ChosenRegion.base)
    BY <1>2, <2>1, OneFound DEF PmmTypeOK
  <2>3. PICK f0 \in DOMAIN given : f0 = Chosen
    BY <2>2
  <2>4. bottom = AlignedDown(Clipped(given[f0]).base)
    <3>1. seen[f0] = Clipped(given[f0])
      BY <1>3, SeenMap
    <3>2. QED
      BY <2>2, <2>3, <3>1
  <2>5. InRow(modules', ModulesAt(bottom))
    <3>1. CASE clips
      BY <1>5, <2>2, <3>1
    <3>2. CASE ~ clips
      <4>1. modules' = modules /\ mmap = seen /\ IsPlaced
        BY <1>2, <1>5, <2>2, <3>2
      <4>2. InRow(modules, ModulesAt(bottom))
        BY <2>2, <4>1 DEF IsPlaced
      <4>3. QED
        BY <4>1, <4>2
    <3>3. QED
      BY <3>1, <3>2
  <2>6. mmap' = [seen EXCEPT ![f0].base = ALIGNED_BASE(@) + Cut(modules)]
    <3>1. seen \in Seq(Region) /\ DOMAIN seen = DOMAIN given
      BY <1>3, SeenMap
    <3>2. mmap' = [i \in DOMAIN seen |-> IF i = f0 THEN CutOff(seen[i]) ELSE seen[i]]
      BY <1>5, <2>2, <2>3
    <3> HIDE DEF seen
    <3>3. seen = [i \in DOMAIN seen |-> seen[i]]
      BY <3>1
    <3>4. mmap' = [seen EXCEPT ![f0] = CutOff(seen[f0])]
      BY <3>2, <3>3
    <3>5. CutOff(seen[f0]) = [seen[f0] EXCEPT !.base = ALIGNED_BASE(@) + Cut(modules)]
      BY DEF CutOff
    <3>6. QED
      BY <3>4, <3>5
  <2>7. /\ bsp_stack' = AlignedDown(Clipped(given[f0]).base)
        /\ pmm_stack_ptr' = bsp_stack' + (Easymap + STDRD_STACKSIZ) * PAGE_SIZE
        /\ startup_tables' = bsp_stack' + Before(modules)
        /\ InRow(modules', ModulesAt(bsp_stack'))
    BY <1>5, <2>2, <2>4, <2>5
  <2>8. given' = given /\ arch' = arch
    BY <1>1
  <2>9. mmap' = [Seen(given', TRUE) EXCEPT ![f0].base = ALIGNED_BASE(@) + Cut(modules)']
    BY <2>1, <2>6, <2>8
  <2>10. startup_tables' = bsp_stack' + Before(modules)'
    BY <2>1, <2>7
  <2>11. pmm_stack_ptr' = bsp_stack' + (Easymap' + STDRD_STACKSIZ) * PAGE_SIZE
    BY <2>1, <2>7
  <2>12. InRow(modules, ModulesAt(bsp_stack))'
    <3>1. \A i \in DOMAIN modules' :
            modules'[i].start = bsp_stack' + (Easymap + STDRD_STACKSIZ + PMM_STACK_SIZ) * PAGE_SIZE
                                  + Sizes(modules')[i - 1]
      BY <2>7 DEF InRow, ModulesAt
    <3>2. \A i \in DOMAIN modules' :
            modules'[i].start = bsp_stack' + (Easymap' + STDRD_STACKSIZ + PMM_STACK_SIZ) * PAGE_SIZE
                                  + Sizes(modules')[i - 1]
      BY <2>1, <3>1
    <3>3. QED
      BY <3>2 DEF InRow, ModulesAt
  <2>13. /\ f0 \in DOMAIN given' /\ Usable(Clipped(given'[f0])) /\ bsp_stack' = AlignedDown(Clipped(given'[f0]).base)
         /\ f0 = Chosen'
    BY <2>1, <2>2, <2>3, <2>7, <2>8
  <2>14. IsCut(f0)'
    BY <1>7, <2>9, <2>10, <2>11, <2>12, <2>13 DEF IsCut
  <2>15. QED
    BY <2>13, <2>14
<1>8. QED
  BY <1>1, <1>2, <1>6, <1>7 DEF PmmInv, TheKernelKeepsItsPages

(* The pages are marked and pushed. *)
LEMMA SamePages ==
    ASSUME UNCHANGED <<arch, given, mmap, modules, bsp_stack, pmm_stack_ptr, startup_tables>>
    PROVE  /\ InUse' = InUse /\ Overhang' = Overhang /\ Ram' = Ram /\ Exposed' = Exposed
           /\ RoomIsThere' = RoomIsThere /\ AddressesFit' = AddressesFit /\ RangesPage' = RangesPage
<1>1. /\ arch' = arch /\ given' = given /\ mmap' = mmap /\ modules' = modules /\ bsp_stack' = bsp_stack
      /\ pmm_stack_ptr' = pmm_stack_ptr /\ startup_tables' = startup_tables
  OBVIOUS
<1>2. Tables' = Tables /\ RangesPage' = RangesPage
  BY <1>1 DEF Tables, RangesPage, PAGING_HIER_SIZE
<1>3. InUse' = InUse
  BY <1>1, <1>2 DEF InUse
<1>4. Cut(modules)' = Cut(modules)
  BY <1>1 DEF Cut, Before, Easymap, PAGING_HIER_SIZE
<1>5. Overhang' = Overhang
  BY <1>1, <1>4 DEF Overhang
<1>6. Ram' = Ram
  BY <1>1 DEF Ram
<1>7. mod_size(modules') = mod_size(modules)
  BY <1>1
<1>8. /\ ChosenRegion' = ChosenRegion /\ RoomIsThere' = RoomIsThere
      /\ RoomAsked' = RoomAsked /\ EndOfWhole' = EndOfWhole
  BY <1>1, <1>7, SameRegion
<1>9. Exposed' = Exposed
  BY <1>1, <1>2, <1>8 DEF Exposed
<1>10. AddressesFit' = AddressesFit
  BY <1>1 DEF AddressesFit
<1>11. QED
  BY <1>2, <1>3, <1>5, <1>6, <1>8, <1>9, <1>10

LEMMA MarkedAreNumbers ==
    ASSUME PmmTypeOK
    PROVE  /\ Image \subseteq Int /\ 0 .. Low \div (2 * PAGE_SIZE) - 1 \subseteq Int
           /\ UNION {MarkedOf(modules[i]) : i \in DOMAIN modules} \subseteq Int
           /\ PagesIn(bsp_stack, bsp_stack + Cut(modules)) \subseteq Int
<1>1. Image \subseteq Int
  BY SizesAssumption, LowIsAPage
<1>2. 0 .. Low \div (2 * PAGE_SIZE) - 1 \subseteq Int
  <2>1. 2 * PAGE_SIZE \in Nat /\ 2 * PAGE_SIZE > 0 /\ Low \in Nat
    BY PageSize, LowIsAPage
  <2>2. Low \div (2 * PAGE_SIZE) \in Int
    BY <2>1
  <2>3. QED
    BY <2>2
<1>3. ASSUME NEW i \in DOMAIN modules PROVE MarkedOf(modules[i]) \subseteq Int
  <2>1. modules[i] \in Extent
    BY DEF PmmTypeOK, MemoryTypeOK
  <2>2. modules[i].start \in Int /\ modules[i].end \in Int
    BY <2>1 DEF Extent
  <2>3. (modules[i].end - modules[i].start - 1) \div PAGE_SIZE \in Int
    <3>1. modules[i].end - modules[i].start - 1 \in Int
      BY <2>2
    <3>2. QED
      BY <3>1, InPages
  <2>4. ASSUME NEW k \in 0 .. (modules[i].end - modules[i].start - 1) \div PAGE_SIZE
        PROVE  (modules[i].start + k * PAGE_SIZE) \div PAGE_SIZE \in Int
    <3>1. k \in Int /\ k * PAGE_SIZE \in Int
      BY <2>3, PageSize
    <3>2. modules[i].start + k * PAGE_SIZE \in Int
      BY <2>2, <3>1
    <3>3. QED
      BY <3>2, InPages
  <2>5. QED
    BY <2>4 DEF MarkedOf
<1>4. PagesIn(bsp_stack, bsp_stack + Cut(modules)) \subseteq Int
  <2>1. bsp_stack \in Int /\ Cut(modules) \in Int
    BY SizesAdd, CutInPages DEF PmmTypeOK, MemoryTypeOK
  <2>2. bsp_stack + Cut(modules) - 1 \in Int /\ (bsp_stack + Cut(modules)) - 1 \in Int
    BY <2>1
  <2>3. bsp_stack \div PAGE_SIZE \in Int /\ ((bsp_stack + Cut(modules)) - 1) \div PAGE_SIZE \in Int
    BY <2>1, <2>2, InPages
  <2>4. QED
    BY <2>3 DEF PagesIn
<1>5. QED
  BY <1>1, <1>2, <1>3, <1>4

LEMMA PmmInitKeeps == ASSUME PmmInv, pmm_init PROVE PmmInv'
<1>1. /\ phase = "init" /\ phase' = "ready" /\ taken' = taken /\ calls_made' = calls_made
      /\ UNCHANGED <<arch, given, mmap, modules, bsp_stack, pmm_stack_ptr, startup_tables>>
      /\ physbitmap' = Image \cup (0 .. Low \div (2 * PAGE_SIZE) - 1)
                         \cup (UNION {MarkedOf(modules[i]) : i \in DOMAIN modules})
                         \cup PagesIn(bsp_stack, bsp_stack + Cut(modules))
      /\ free' = FlattenSeq(Parts)
  BY DEF pmm_init, Parts
<1>2. /\ PmmTypeOK /\ taken = {} /\ MemoryTypeOK /\ mmap \in Seq(Region) /\ arch \in {"x86", "x86_64"}
      /\ RoomIsThere => \E first \in DOMAIN given : IsCut(first)
  BY <1>1 DEF PmmInv, PmmTypeOK
<1>3. FlattenSeq(Parts) \in Seq(Int)
  <2>1. Parts \in Seq(Seq(Int))
    BY <1>2, PartsAreRows
  <2>2. QED
    BY <2>1, FlatIsFromParts DEF FromParts
<1>4. physbitmap' \subseteq Int
  BY <1>1, <1>2, MarkedAreNumbers
<1>5. PmmTypeOK'
  BY <1>1, <1>2, <1>3, <1>4 DEF PmmTypeOK, MemoryTypeOK
<1>6. /\ InUse' = InUse /\ Overhang' = Overhang /\ Ram' = Ram /\ Exposed' = Exposed
      /\ RoomIsThere' = RoomIsThere /\ AddressesFit' = AddressesFit /\ RangesPage' = RangesPage
  BY <1>1, SamePages
<1>7. ASSUME RoomIsThere, AddressesFit
      PROVE  /\ InUse \ (IF arch = "x86" THEN {RangesPage} ELSE {}) \subseteq physbitmap'
             /\ InUse \cap Range(free') \subseteq Exposed
             /\ Range(free') \subseteq Ram \cup Overhang
             /\ \A j, k \in DOMAIN free' : j # k /\ free'[j] = free'[k] => free'[j] \in Overhang
  <2>1. PICK first \in DOMAIN given : IsCut(first)
    BY <1>2, <1>7
  <2>2. InUse \ (IF arch = "x86" THEN {RangesPage} ELSE {}) \subseteq physbitmap'
    BY <1>1, <1>2, <2>1, UsedIsMarked
  <2>3. /\ InUse \cap Range(free') \subseteq Exposed /\ Range(free') \subseteq Ram \cup Overhang
        /\ \A j, k \in DOMAIN free' : j # k /\ free'[j] = free'[k] => free'[j] \in Overhang
    BY <1>1, <1>2, <1>7, <2>1, FreeAtFirst
  <2>4. QED
    BY <2>2, <2>3
<1>8. TheKernelKeepsItsPages'
  <2>1. arch' = arch /\ taken' = {} /\ Range(free)' = Range(free')
    BY <1>1, <1>2
  <2>2. QED
    BY <1>6, <1>7, <2>1 DEF TheKernelKeepsItsPages
<1>9. QED
  BY <1>1, <1>5, <1>8 DEF PmmInv

(* A page changes sides. *)
LEMMA MallocKeeps == ASSUME PmmInv, pmm_malloc_4k PROVE PmmInv'
<1>1. /\ phase = "ready" /\ phase' = "ready" /\ free # <<>> /\ calls_made' = calls_made + 1
      /\ free' = Tail(free) /\ taken' = taken \cup {Head(free)} /\ physbitmap' = physbitmap
      /\ UNCHANGED <<arch, given, mmap, modules, bsp_stack, pmm_stack_ptr, startup_tables>>
  BY DEF pmm_malloc_4k
<1>2. PmmTypeOK /\ TheKernelKeepsItsPages /\ free \in Seq(Int)
  BY DEF PmmInv, PmmTypeOK
<1>3. /\ Head(free) = free[1] /\ 1 \in DOMAIN free /\ Head(free) \in Int
      /\ Tail(free) \in Seq(Int)
      /\ \A k \in DOMAIN Tail(free) : k + 1 \in DOMAIN free /\ k + 1 # 1 /\ Tail(free)[k] = free[k + 1]
  BY <1>1, <1>2, SMTT(60)
<1>4. PmmTypeOK'
  <2>1. taken' \subseteq Int /\ calls_made' \in Nat
    <3>1. taken \subseteq Int /\ calls_made \in Nat
      BY <1>2 DEF PmmTypeOK
    <3>2. Head(free) \in Int /\ taken' = taken \cup {Head(free)} /\ calls_made' = calls_made + 1
      BY <1>1, <1>3
    <3>3. calls_made' \in Nat
      BY <3>1, <3>2
    <3>4. taken' \subseteq Int
      BY <3>1, <3>2, Zenon
    <3>5. QED
      BY <3>3, <3>4
  <2>4. free' \in Seq(Int) /\ phase' = phase
    BY <1>1, <1>3
  <2>2. MemoryTypeOK'
    BY <1>1, <1>2 DEF PmmTypeOK, MemoryTypeOK
  <2>3. QED
    BY <1>1, <1>2, <2>1, <2>2, <2>4 DEF PmmTypeOK
<1>5. /\ InUse' = InUse /\ Overhang' = Overhang /\ Ram' = Ram /\ Exposed' = Exposed
      /\ RoomIsThere' = RoomIsThere /\ AddressesFit' = AddressesFit /\ RangesPage' = RangesPage
  BY <1>1, SamePages
<1>6. ASSUME RoomIsThere, AddressesFit
      PROVE  /\ InUse \cap (Range(free') \cup taken') \subseteq Exposed
             /\ \A i, j \in DOMAIN free' : i # j /\ free'[i] = free'[j] => free'[i] \in Overhang
             /\ Range(free') \cap taken' \subseteq Overhang
             /\ Range(free') \cup taken' \subseteq Ram \cup Overhang
  <2>1. /\ InUse \cap (Range(free) \cup taken) \subseteq Exposed
        /\ \A i, j \in DOMAIN free : i # j /\ free[i] = free[j] => free[i] \in Overhang
        /\ Range(free) \cap taken \subseteq Overhang
        /\ Range(free) \cup taken \subseteq Ram \cup Overhang
    BY <1>1, <1>2, <1>6 DEF TheKernelKeepsItsPages
  <2>2. Range(free') \subseteq Range(free) /\ Head(free) \in Range(free)
    BY <1>1, <1>3 DEF Range
  <2>3. ASSUME Head(free) \in Range(free') PROVE Head(free) \in Overhang
    <3>1. PICK k \in DOMAIN Tail(free) : Head(free) = Tail(free)[k]
      BY <1>1, <2>3 DEF Range
    <3>2. k + 1 \in DOMAIN free /\ k + 1 # 1 /\ free[1] = free[k + 1]
      BY <1>3, <3>1
    <3>3. QED
      BY <1>3, <2>1, <3>2
  <2>4. ASSUME NEW i \in DOMAIN free', NEW j \in DOMAIN free', i # j, free'[i] = free'[j]
        PROVE  free'[i] \in Overhang
    <3>1. i \in Int /\ j \in Int
      BY <1>1, <1>3
    <3>2. i + 1 \in DOMAIN free /\ j + 1 \in DOMAIN free /\ i + 1 # j + 1 /\ free[i + 1] = free[j + 1]
          /\ free'[i] = free[i + 1]
      BY <1>1, <1>3, <2>4, <3>1
    <3>3. QED
      BY <2>1, <3>2
  <2>5. QED
    BY <1>1, <2>1, <2>2, <2>3, <2>4
<1>7. TheKernelKeepsItsPages'
  <2>1. arch' = arch /\ Range(free)' = Range(free')
    BY <1>1
  <2>2. RoomIsThere /\ AddressesFit => InUse \ (IF arch = "x86" THEN {RangesPage} ELSE {}) \subseteq physbitmap
    BY <1>1, <1>2 DEF TheKernelKeepsItsPages
  <2>3. QED
    BY <1>1, <1>5, <1>6, <2>1, <2>2 DEF TheKernelKeepsItsPages
<1>8. QED
  BY <1>1, <1>4, <1>7 DEF PmmInv

LEMMA FreeKeeps == ASSUME PmmInv, NEW page \in taken, pmm_free_4k_glob(page) PROVE PmmInv'
<1>1. /\ phase = "ready" /\ phase' = "ready" /\ calls_made' = calls_made + 1
      /\ free' = <<page>> \o free /\ taken' = taken \ {page} /\ physbitmap' = physbitmap
      /\ UNCHANGED <<arch, given, mmap, modules, bsp_stack, pmm_stack_ptr, startup_tables>>
  BY DEF pmm_free_4k_glob
<1>2. PmmTypeOK /\ TheKernelKeepsItsPages /\ free \in Seq(Int) /\ page \in Int
  BY DEF PmmInv, PmmTypeOK
<1>3. /\ <<page>> \o free \in Seq(Int) /\ 1 \in DOMAIN (<<page>> \o free) /\ (<<page>> \o free)[1] = page
      /\ \A k \in DOMAIN (<<page>> \o free) :
            k = 1 \/ (k - 1 \in DOMAIN free /\ k \in Int /\ (<<page>> \o free)[k] = free[k - 1])
  BY <1>2
<1>4. PmmTypeOK'
  BY <1>1, <1>2, <1>3 DEF PmmTypeOK, MemoryTypeOK
<1>5. /\ InUse' = InUse /\ Overhang' = Overhang /\ Ram' = Ram /\ Exposed' = Exposed
      /\ RoomIsThere' = RoomIsThere /\ AddressesFit' = AddressesFit /\ RangesPage' = RangesPage
  BY <1>1, SamePages
<1>6. ASSUME RoomIsThere, AddressesFit
      PROVE  /\ InUse \cap (Range(free') \cup taken') \subseteq Exposed
             /\ \A i, j \in DOMAIN free' : i # j /\ free'[i] = free'[j] => free'[i] \in Overhang
             /\ Range(free') \cap taken' \subseteq Overhang
             /\ Range(free') \cup taken' \subseteq Ram \cup Overhang
  <2>1. /\ InUse \cap (Range(free) \cup taken) \subseteq Exposed
        /\ \A i, j \in DOMAIN free : i # j /\ free[i] = free[j] => free[i] \in Overhang
        /\ Range(free) \cap taken \subseteq Overhang
        /\ Range(free) \cup taken \subseteq Ram \cup Overhang
    BY <1>1, <1>2, <1>6 DEF TheKernelKeepsItsPages
  <2>2. Range(free') \subseteq Range(free) \cup {page}
    BY <1>1, <1>3 DEF Range
  <2>3. ASSUME NEW i \in DOMAIN free', NEW j \in DOMAIN free', i # j, free'[i] = free'[j]
        PROVE  free'[i] \in Overhang
    <3>1. CASE i # 1 /\ j # 1
      <4>1. /\ i - 1 \in DOMAIN free /\ i \in Int /\ free'[i] = free[i - 1]
            /\ j - 1 \in DOMAIN free /\ j \in Int /\ free'[j] = free[j - 1]
        BY <1>1, <1>3, <3>1
      <4>2. i - 1 # j - 1
        BY <2>3, <4>1
      <4>3. QED
        BY <2>1, <2>3, <4>1, <4>2
    <3>2. CASE i = 1 \/ j = 1
      <4>1. free'[i] = page
        BY <1>1, <1>3, <2>3, <3>2
      <4>2. page \in Range(free)
        <5>1. PICK k \in {i, j} : k # 1
          BY <2>3
        <5>2. k \in DOMAIN free' /\ free'[k] = page
          BY <2>3, <4>1, <5>1
        <5>3. k - 1 \in DOMAIN free /\ free[k - 1] = page
          BY <1>1, <1>3, <5>1, <5>2
        <5>4. QED
          BY <5>3 DEF Range
      <4>3. QED
        BY <2>1, <4>1, <4>2
    <3>3. QED
      BY <3>1, <3>2
  <2>4. QED
    BY <1>1, <2>1, <2>2, <2>3
<1>7. TheKernelKeepsItsPages'
  <2>1. arch' = arch /\ Range(free)' = Range(free')
    BY <1>1
  <2>2. RoomIsThere /\ AddressesFit => InUse \ (IF arch = "x86" THEN {RangesPage} ELSE {}) \subseteq physbitmap
    BY <1>1, <1>2 DEF TheKernelKeepsItsPages
  <2>3. QED
    BY <1>1, <1>5, <1>6, <2>1, <2>2 DEF TheKernelKeepsItsPages
<1>8. QED
  BY <1>1, <1>4, <1>7 DEF PmmInv

LEMMA PmmNextKeeps == PmmInv /\ [PmmNext]_pmmVars => PmmInv'
<1> SUFFICES ASSUME PmmInv, [PmmNext]_pmmVars PROVE PmmInv'
  OBVIOUS
<1>1. CASE init_LM
  BY <1>1, LoaderKeeps
<1>2. CASE KernelMap
  BY <1>2, KernelKeeps
<1>3. CASE pmm_init
  BY <1>3, PmmInitKeeps
<1>4. CASE pmm_malloc_4k
  BY <1>4, MallocKeeps
<1>5. CASE \E page \in taken : pmm_free_4k_glob(page)
  BY <1>5, FreeKeeps
<1>6. CASE UNCHANGED pmmVars
  <2>1. /\ UNCHANGED <<arch, given, mmap, modules, bsp_stack, pmm_stack_ptr, startup_tables>>
        /\ UNCHANGED <<phase, physbitmap, free, taken, calls_made>>
    BY <1>6 DEF pmmVars
  <2>2. /\ InUse' = InUse /\ Overhang' = Overhang /\ Ram' = Ram /\ Exposed' = Exposed
        /\ RoomIsThere' = RoomIsThere /\ AddressesFit' = AddressesFit /\ RangesPage' = RangesPage
    BY <2>1, SamePages
  <2>3. TheKernelKeepsItsPages'
    BY <2>1, <2>2 DEF PmmInv, TheKernelKeepsItsPages
  <2>4. PmmTypeOK'
    BY <2>1 DEF PmmInv, PmmTypeOK, MemoryTypeOK
  <2>5. Cut(modules)' = Cut(modules) /\ Before(modules)' = Before(modules)
    BY <2>1 DEF Cut, Before, Easymap, PAGING_HIER_SIZE
  <2>6. IsPlaced' = IsPlaced
    <3>1. mmap' = mmap /\ modules' = modules /\ arch' = arch /\ mod_size(modules') = mod_size(modules)
      BY <2>1
    <3>2. Found(mmap, modules)' = Found(mmap, modules)
      BY <3>1, SameFound
    <3>3. QED
      BY <3>1, <3>2 DEF IsPlaced, ModulesAt, Easymap
  <2>7. \A first : IsCut(first)' <=> IsCut(first)
    <3>1. Chosen' = Chosen
      BY <2>1, SameRegion
    <3>2. QED
      BY <2>1, <2>2, <2>5, <3>1 DEF IsCut, ModulesAt, Easymap
  <2>8. QED
    BY <2>1, <2>2, <2>3, <2>4, <2>6, <2>7 DEF PmmInv
<1>7. QED
  BY <1>1, <1>2, <1>3, <1>4, <1>5, <1>6 DEF PmmNext

(* The variables of Pmm have their types. *)
THEOREM PmmTypeCorrect == PmmSpec => []PmmTypeOK
<1>1. PmmInv => PmmTypeOK
  BY DEF PmmInv
<1>2. QED
  BY <1>1, PmmInitHolds, PmmNextKeeps, PTL DEF PmmSpec

(* Of the pages that the kernel, its tables, its boot stack, the stack of  *)
(* free pages or a module occupies pmm_malloc_4k hands none out but those  *)
(* that are named, where pmm_init_mmap cuts off too little, and all but    *)
(* the page of the ranges on x86 are marked for vmm_init: whatever map and *)
(* modules the boot loader passes, as long as the first region that seems  *)
(* large enough is, and however often pages are taken and given back.      *)
THEOREM KernelPagesAreKept == PmmSpec => []TheKernelKeepsItsPages
<1>1. PmmInv => TheKernelKeepsItsPages
  BY DEF PmmInv
<1>2. QED
  BY <1>1, PmmInitHolds, PmmNextKeeps, PTL DEF PmmSpec
=============================================================================
