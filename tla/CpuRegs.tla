------------------------------ MODULE CpuRegs ------------------------------
(* The registers and the memory of the virtual processor as the backends   *)
(* keep them.  KVM and HAXM copy the registers of the hypervisor: the copy *)
(* is stale after a run (m_regsDirty), is fetched at the first access and  *)
(* written back before the next run if something changed it                *)
(* (m_regsChanged).  WHVP asks the hypervisor each time.  Memory is reached *)
(* through page tables walked in cpu.cpp, a page at a time, and the        *)
(* operations of cpu.cpp (stack, flags, copies) combine those accesses.    *)
EXTENDS Integers, Sequences, FiniteSetsExt

CONSTANTS
    Width, PageSize, LargeSize, RamSize, Tables, Reserved,   \* see PlainCpu
    Backends,       \* the cpu modules to choose from
    GetMayFail,     \* whether the hypervisor may refuse to give its registers
    Powerup,        \* register files before the first access
    GuestSteps,     \* registers a run of the guest may change
    GuestStores,    \* addresses it may write
    ClientRequests, \* operations the emulator asks for
    MaxRequests     \* bound on their number
ASSUME PageAssumption ==
    /\ {Width, PageSize, LargeSize, RamSize} \subseteq Nat \ {0}
    /\ LargeSize % PageSize = 0 /\ Width % LargeSize = 0 /\ RamSize % PageSize = 0

VARIABLES
    cpu,      \* the backend, the hypervisor's registers, the copy, its flags
    mem,      \* guest RAM
    ret,      \* the last request and its answer
    requests  \* requests served
cpuVars == <<cpu, mem, ret, requests>>

Names == {"eip", "esp", "eflags", "cr3", "gdt", "cs", "desc"}
WordBytes == 2
Min2(a, b) == IF a < b THEN a ELSE b
Outcome(c, s) == [cpu |-> c, status |-> s]

\* HaxmCpu starts with a copy to be fetched, and so do the two flags of a
\* KvmCpu, which its constructor leaves as the allocator gave them, when they
\* are that way.  The WHVP processor starts at the reset vector.
Init ==
    /\ \E b \in Backends, rf \in Powerup :
        cpu = [backend |-> b, vcpu |-> rf, cache |-> rf, dirty |-> TRUE, changed |-> FALSE]
    /\ mem = [a \in 0 .. RamSize - 1 |-> 0]
    /\ ret = [request |-> [op |-> "none"], status |-> "ok", value |-> <<>>, from |-> <<>>]
    /\ requests = 0

----------------------------------------------------------------------------
(* The copies of KVM and HAXM. *)

KvmRefresh(c) ==
    IF ~c.dirty THEN {Outcome(c, "ok")}
    ELSE {Outcome([c EXCEPT !.cache = c.vcpu, !.dirty = FALSE], "ok")}
         \cup (IF GetMayFail
               THEN {Outcome([c EXCEPT !.cache = [c.cache EXCEPT !.eip = c.vcpu.eip, !.esp = c.vcpu.esp]],
                             "failed"),
                     Outcome(c, "failed")}
               ELSE {})

HaxmRefresh(c) ==
    IF ~c.dirty THEN {Outcome(c, "ok")}
    ELSE {Outcome([c EXCEPT !.cache = c.vcpu, !.dirty = FALSE], "ok")}
         \cup (IF GetMayFail THEN {Outcome(c, "failed")} ELSE {})

WhvpRefresh(c) == {Outcome(c, "ok")} \cup (IF GetMayFail THEN {Outcome(c, "failed")} ELSE {})

Refresh(c) == CASE c.backend = "kvm" -> KvmRefresh(c)
                [] c.backend = "haxm" -> HaxmRefresh(c)
                [] c.backend = "whvp" -> WhvpRefresh(c)

\* The registers an access sees after the refresh.
File(c) == IF c.backend = "whvp" THEN c.vcpu ELSE c.cache

\* What a batch of reads returns.
CachedValues(c, rs) == [i \in DOMAIN rs |-> c.cache[rs[i]]]
WhvpValues(c, rs) == [i \in DOMAIN rs |-> c.vcpu[rs[i]]]

----------------------------------------------------------------------------
(* Virtual memory, cpu.cpp. *)

VirtualToPhysical(c, v) ==
    LET pde == Tables[File(c).cr3][v \div LargeSize]
        pte == pde.ptes[(v % LargeSize) \div PageSize]
    IN  IF pde.large THEN {pde.frame * PageSize + (v % LargeSize)}
        ELSE IF ~pde.valid \/ ~pte.valid THEN {}
        ELSE {pte.frame * PageSize + (v % PageSize)}

\* MemRead and MemWrite: the range is inside the RAM.
InRam(addr, size) == addr + size - 1 <= RamSize - 1

\* Mutant of Walk: every chunk is a page long, also the first.
WholePages(v, n) ==
    [k \in 0..n |-> [from |-> (v + k * PageSize) % Width, to |-> v + (k + 1) * PageSize - 1,
                     pos |-> k * PageSize, size |-> Min2(PageSize, n - k * PageSize)]]

\* The state of the loop of VMemRead and VMemWrite at its k-th chunk.
Walk(v, n) ==
    LET last(a) == ((a + PageSize) \div PageSize) * PageSize - 1
        walk[k \in 0..n] ==
            IF k = 0
            THEN [from |-> v, to |-> last(v), pos |-> 0, size |-> Min2(n, last(v) - v + 1)]
            ELSE LET w == walk[k - 1]
                 IN  [from |-> (w.to + 1) % Width, to |-> ((w.to + 1) % Width) + PageSize - 1,
                      pos |-> w.pos + w.size, size |-> Min2(n - w.pos - w.size, PageSize)]
    IN  walk

Reaches(c, w) == \E p \in VirtualToPhysical(c, w.from) : InRam(p, w.size)
Physical(c, w) == CHOOSE p \in VirtualToPhysical(c, w.from) : TRUE

\* The chunks that are copied before the loop ends or returns.
Chunks(c, v, n) ==
    LET walk == Walk(v, n)
        end == Min({k \in 0..n : walk[k].pos >= n \/ ~Reaches(c, walk[k])})
    IN  [k \in 1..end |-> walk[k - 1]]

Copied(chunks) == IF chunks = <<>> THEN 0 ELSE chunks[Len(chunks)].pos + chunks[Len(chunks)].size
MemStatus(chunks, n) == IF Copied(chunks) = n THEN "ok" ELSE "invalid address"

ReadBytes(c, m, chunks) ==
    [i \in 1 .. Copied(chunks) |->
        LET w == CHOOSE x \in {chunks[k] : k \in DOMAIN chunks} : i - 1 \in x.pos .. x.pos + x.size - 1
        IN  m[Physical(c, w) + i - 1 - w.pos]]

WriteBytes(c, m, chunks, b) ==
    LET after[k \in 0 .. Len(chunks)] ==
            IF k = 0 THEN m
            ELSE LET w == chunks[k]  p == Physical(c, w)
                 IN  [a \in DOMAIN m |-> IF a \in p .. p + w.size - 1
                                         THEN b[w.pos + a - p + 1] ELSE after[k - 1][a]]
    IN  after[Len(chunks)]

----------------------------------------------------------------------------
(* Writing registers. *)

\* A descriptor that cannot be read leaves the local variable as it was.
LoadSegmentSelector(c, rf, m, sel) ==
    LET v == (rf.gdt + sel) % Width
        chunks == Chunks(c, v, 1)
    IN  IF chunks = <<>> THEN 0..3 ELSE {ReadBytes(c, m, chunks)[1]}

\* Register file rf after the first k registers of a batch were written to it.
Assigned(rf, rs, xs, k) ==
    [r \in DOMAIN rf |->
        LET at == {i \in 1..k : rs[i] = r} IN IF at = {} THEN rf[r] ELSE xs[Max(at)]]

\* HAXM keeps the reserved bits of EFLAGS as the processor wants them.
HaxmFlags(r, x) == IF r = "eflags" THEN (x \ Reserved) \cup ({"one"} \cap Reserved) ELSE x

\* The caching backends write a batch one register after the other into the
\* copy and flag it at the end: a bad register leaves what was written before,
\* flagged only if a selector was.
CachedBatch(c, m, rs, ys) ==
    LET xs == [i \in DOMAIN rs |-> IF c.backend = "haxm" THEN HaxmFlags(rs[i], ys[i]) ELSE ys[i]]
        good == Max({k \in 0 .. Len(rs) : \A i \in 1..k : rs[i] \in Names})
        selectors == {i \in 1..good : rs[i] = "cs"}
        descs == IF selectors = {} THEN {c.cache.desc}
                 ELSE LET i == Max(selectors)
                          seen == [c EXCEPT !.cache = Assigned(c.cache, rs, xs, i - 1)]
                      IN  LoadSegmentSelector(seen, seen.cache, m, xs[i])
    IN  {Outcome([c EXCEPT !.cache = [Assigned(c.cache, rs, xs, good) EXCEPT !.desc = d],
                           !.changed = c.changed \/ good = Len(rs) \/ selectors # {}],
                 IF good = Len(rs) THEN "ok" ELSE "invalid register") : d \in descs}

\* WHVP looks a descriptor up in the old tables and writes all at once.
WhvpBatch(c, m, rs, xs) ==
    IF \E k \in DOMAIN rs : rs[k] \notin Names THEN {Outcome(c, "invalid register")}
    ELSE LET selectors == {i \in DOMAIN rs : rs[i] = "cs"}
             descs == IF selectors = {} THEN {c.vcpu.desc}
                      ELSE LoadSegmentSelector(c, c.vcpu, m, xs[Max(selectors)])
         IN  {Outcome([c EXCEPT !.vcpu = [Assigned(c.vcpu, rs, xs, Len(rs)) EXCEPT !.desc = d]], "ok") :
                d \in descs}

RegWriteBatch(c, m, rs, xs) ==
    IF c.backend = "whvp" THEN WhvpBatch(c, m, rs, xs) ELSE CachedBatch(c, m, rs, xs)

\* A single register is a batch of one.
RegWrite(c, m, r, x) == RegWriteBatch(c, m, <<r>>, <<x>>)

----------------------------------------------------------------------------
(* The operations of the interface.  Each is one call on the CPU thread,   *)
(* which is the only one that makes them.                                  *)

Served(q) == /\ requests < MaxRequests
             /\ requests' = requests + 1

Answer(q, status, value) ==
    ret' = [request |-> q, status |-> status, value |-> value, from |-> <<>>]

Failed(q, o) ==
    /\ o.status # "ok"
    /\ Answer(q, o.status, <<>>)
    /\ cpu' = o.cpu
    /\ UNCHANGED mem

RegRead(q) ==
    \E o \in Refresh(cpu) :
        \/ Failed(q, o)
        \/ /\ o.status = "ok"
           /\ cpu' = o.cpu
           /\ IF \A i \in DOMAIN q.regs : q.regs[i] \in Names
              THEN Answer(q, "ok", IF cpu.backend = "whvp" THEN WhvpValues(o.cpu, q.regs)
                                   ELSE CachedValues(o.cpu, q.regs))
              ELSE Answer(q, "invalid register", <<>>)
           /\ UNCHANGED mem

WriteRegisters(q) ==
    \E o \in Refresh(cpu) :
        \/ Failed(q, o)
        \/ /\ o.status = "ok"
           /\ \E p \in RegWriteBatch(o.cpu, mem, q.regs, q.values) :
                  cpu' = p.cpu /\ Answer(q, p.status, <<>>)
           /\ UNCHANGED mem

\* The table registers are written like the others, without a lookup.
SetGDT(q) ==
    \E o \in Refresh(cpu) :
        \/ Failed(q, o)
        \/ /\ o.status = "ok"
           /\ cpu' = IF cpu.backend = "whvp" THEN [o.cpu EXCEPT !.vcpu.gdt = q.values[1]]
                     ELSE [o.cpu EXCEPT !.cache.gdt = q.values[1], !.changed = TRUE]
           /\ Answer(q, "ok", <<>>)
           /\ UNCHANGED mem

\* RegCopy, CreateStackSpace and the flag operations: read, compute, write.  One of set and
\* clear is empty.
Computed(q, x) == IF q.op = "flags" THEN (x \cup q.set) \ q.clear ELSE x
Modify(q, src, dst) ==
    \E o \in Refresh(cpu) :
        \/ Failed(q, o)
        \/ /\ o.status = "ok"
           /\ \E p \in RegWrite(o.cpu, mem, dst, Computed(q, File(o.cpu)[src])) :
                  cpu' = p.cpu /\ Answer(q, p.status, <<>>)
           /\ UNCHANGED mem

RegCopy(q) == Modify(q, q.src, q.dst)
SetFlags(q) == q.clear = {} /\ Modify(q, "eflags", "eflags")
ClearFlags(q) == q.set = {} /\ Modify(q, "eflags", "eflags")

\* The walk reads CR3 first: that refresh succeeds, see the README.
VMemRead(q) ==
    \E o \in Refresh(cpu) :
        /\ o.status = "ok"
        /\ LET chunks == Chunks(o.cpu, q.at, q.size)
           IN  Answer(q, MemStatus(chunks, q.size), ReadBytes(o.cpu, mem, chunks))
        /\ cpu' = o.cpu
        /\ UNCHANGED mem

VMemWrite(q) ==
    \E o \in Refresh(cpu) :
        /\ o.status = "ok"
        /\ LET chunks == Chunks(o.cpu, q.at, Len(q.bytes))
           IN  /\ Answer(q, MemStatus(chunks, Len(q.bytes)), <<>>)
               /\ mem' = WriteBytes(o.cpu, mem, chunks, q.bytes)
        /\ cpu' = o.cpu

BytesOf(x) == <<x % 4, (x \div 4) % 4>>

\* PushReg: the memory is written first; ESP moves if that succeeded.
Push(q) ==
    \E o \in Refresh(cpu) :
        \/ Failed(q, o)
        \/ /\ o.status = "ok"
           /\ LET esp == (File(o.cpu).esp - WordBytes) % Width
                  chunks == Chunks(o.cpu, esp, WordBytes)
                  status == MemStatus(chunks, WordBytes)
              IN  /\ mem' = WriteBytes(o.cpu, mem, chunks, BytesOf(File(o.cpu)[q.reg]))
                  /\ Answer(q, status, <<>>)
                  /\ IF status = "ok"
                     THEN \E p \in RegWrite(o.cpu, mem, "esp", esp) : cpu' = p.cpu
                     ELSE cpu' = o.cpu

\* PopReg, PopFlags and Ret: Pop writes ESP, then the value goes to its register.
Pop(q) ==
    \E o \in Refresh(cpu) :
        \/ Failed(q, o)
        \/ /\ o.status = "ok"
           /\ LET esp == File(o.cpu).esp
                  chunks == Chunks(o.cpu, esp, WordBytes)
                  status == MemStatus(chunks, WordBytes)
                  b == ReadBytes(o.cpu, mem, chunks)
              IN  /\ Answer(q, status, <<>>)
                  /\ IF status = "ok"
                     THEN \E p \in RegWrite(o.cpu, mem, "esp", (esp + WordBytes) % Width) :
                          \E r \in RegWrite(p.cpu, mem, q.reg, b[1] + 4 * b[2]) : cpu' = r.cpu
                     ELSE cpu' = o.cpu
           /\ UNCHANGED mem

\* Mutant of UpdateRegisters: the flag is not cleared after the write-back.
StaysChanged(c) == IF c.changed THEN [c EXCEPT !.vcpu = c.cache] ELSE c

\* UpdateRegisters: what was changed in the copy reaches the hypervisor.
UpdateRegisters(c) ==
    IF c.changed THEN [c EXCEPT !.vcpu = c.cache, !.changed = FALSE] ELSE c

\* HandleExecResult: every copy is stale after a run, also after a failed one.
HandleExecResult(c) == IF c.backend = "whvp" THEN c ELSE [c EXCEPT !.dirty = TRUE]

Run(q) ==
    LET c == UpdateRegisters(cpu)
    IN  /\ \E step \in GuestSteps :
            /\ cpu' = HandleExecResult([c EXCEPT !.vcpu =
                          [r \in Names |-> IF r \in DOMAIN step THEN step[r] ELSE c.vcpu[r]]])
            /\ \E status \in {"ok", "failed"} :
                 ret' = [request |-> q, status |-> status, value |-> <<>>, from |-> c.vcpu]
        /\ mem' \in {mem} \cup {[mem EXCEPT ![a] = 3] : a \in GuestStores}

Serve(q) ==
    \/ q.op = "run" /\ Run(q)
    \/ q.op = "read" /\ RegRead(q)
    \/ q.op = "write" /\ q.regs # <<"gdt">> /\ WriteRegisters(q)
    \/ q.op = "write" /\ q.regs = <<"gdt">> /\ SetGDT(q)
    \/ q.op = "copy" /\ RegCopy(q)
    \/ q.op = "flags" /\ SetFlags(q)
    \/ q.op = "flags" /\ ClearFlags(q)
    \/ q.op = "load" /\ VMemRead(q)
    \/ q.op = "store" /\ VMemWrite(q)
    \/ q.op = "push" /\ Push(q)
    \/ q.op = "pop" /\ Pop(q)

Next == \E q \in ClientRequests : Served(q) /\ Serve(q)

Spec == Init /\ [][Next]_cpuVars

----------------------------------------------------------------------------
(* Properties. *)

\* What the emulator and the guest must see as the registers.
Registers == IF cpu.dirty /\ ~cpu.changed THEN cpu.vcpu ELSE cpu.cache

\* A fetched copy that nothing changed is the hypervisor's, and a changed one
\* is not also stale: nothing is written to a copy that was not fetched, and
\* no run starts before the changes are written back (cpu_kvm.cpp:56-104).
Coherent ==
    /\ cpu.changed => ~cpu.dirty
    /\ (~cpu.dirty /\ ~cpu.changed) => cpu.cache = cpu.vcpu

Plain == INSTANCE PlainCpu WITH regs <- Registers

\* The copies, the flags and the loops over pages are not to be seen: every
\* operation reads and writes one register file and, byte for byte, the memory
\* the page tables define, and the guest runs from those registers.
PlainProcessor == Plain!Spec
=============================================================================
