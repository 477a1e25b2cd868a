----------------------------- MODULE PlainCpu -----------------------------
(* What the interface Cpu promises to the emulator and to the debugger,    *)
(* whatever the backend does with its copies: one register file, one       *)
(* memory, and operations that act on both at once.  Virtual memory is     *)
(* defined byte by byte from the page tables; the loops of cpu.cpp and the *)
(* register caches of the backends are checked against this module.        *)
EXTENDS Integers, Sequences, FiniteSetsExt

CONSTANTS
    Width,          \* number of virtual addresses; registers are modulo Width
    PageSize,       \* bytes of a page
    LargeSize,      \* bytes of a large page
    RamSize,        \* bytes of guest RAM, a multiple of PageSize
    Tables,         \* page directory of each value of CR3
    Reserved        \* flags a backend may force in EFLAGS

VARIABLES regs, mem, ret

NoAddress == -1
Byte == 0..3
WordBytes == 2

\* Where the processor finds byte v: a missing directory or table entry has
\* no address, a large entry maps the whole of its range.
PhysicalOf(cr3, v) ==
    LET pde == Tables[cr3][v \div LargeSize]
        pte == pde.ptes[(v % LargeSize) \div PageSize]
    IN  IF ~pde.valid THEN NoAddress
        ELSE IF pde.large THEN pde.frame * PageSize + (v % LargeSize)
        ELSE IF pte.valid THEN pte.frame * PageSize + (v % PageSize) ELSE NoAddress

Backed(cr3, v) == PhysicalOf(cr3, v) \in 0 .. RamSize - 1

\* How many of n bytes from v can be reached before the first that cannot.
Reach(cr3, v, n) ==
    Max({k \in 0..n : \A i \in 0 .. k - 1 : Backed(cr3, (v + i) % Width)})

Loaded(cr3, m, v, n) == [i \in 1..n |-> m[PhysicalOf(cr3, (v + i - 1) % Width)]]

\* The memory after the first n of bytes b went to v in their order.
Stored(cr3, m, v, b, n) ==
    [a \in DOMAIN m |->
        LET at == {i \in 1..n : PhysicalOf(cr3, (v + i - 1) % Width) = a}
        IN  IF at = {} THEN m[a] ELSE b[Max(at)]]

\* A selector loads the byte its entry of the descriptor table holds; when
\* the table is not mapped, the descriptor is whatever was there.
Descriptors(rf, m, sel) ==
    LET v == (rf.gdt + sel) % Width
    IN  IF Backed(rf.cr3, v) THEN {m[PhysicalOf(rf.cr3, v)]} ELSE Byte

\* The register files after value x was written to register r.
Written(rf, m, r, x) ==
    CASE r = "cs" -> {[rf EXCEPT !.cs = x, !.desc = d] : d \in Descriptors(rf, m, x)}
      [] r = "eflags" -> {[rf EXCEPT !.eflags = (x \ c) \cup s] :
                            s \in SUBSET Reserved, c \in SUBSET Reserved}
      [] OTHER -> {[rf EXCEPT ![r] = x]}

Word(b) == b[1] + 4 * b[2]
BytesOf(x) == <<x % 4, (x \div 4) % 4>>

\* The register files after the registers rs were written in their order.
WrittenAll(rs, xs) ==
    LET after[k \in 0 .. Len(rs)] ==
            IF k = 0 THEN {regs}
            ELSE UNION {Written(rf, mem, rs[k], xs[k]) : rf \in after[k - 1]}
    IN  after[Len(rs)]

Status(n, all) == IF n = all THEN "ok" ELSE "invalid address"

Read(q) ==
    /\ ret'.status = "ok"
    /\ ret'.value = [i \in DOMAIN q.regs |-> regs[q.regs[i]]]
    /\ UNCHANGED <<regs, mem>>

Write(q) ==
    /\ ret'.status = "ok"
    /\ regs' \in WrittenAll(q.regs, q.values)
    /\ UNCHANGED mem

Copy(q) ==
    /\ ret'.status = "ok"
    /\ regs' \in Written(regs, mem, q.dst, regs[q.src])
    /\ UNCHANGED mem

Flags(q) ==
    /\ ret'.status = "ok"
    /\ regs' \in Written(regs, mem, "eflags", (regs.eflags \ q.clear) \cup q.set)
    /\ UNCHANGED mem

Load(q) ==
    LET n == Reach(regs.cr3, q.at, q.size)
    IN  /\ ret'.status = Status(n, q.size)
        /\ n = q.size => ret'.value = Loaded(regs.cr3, mem, q.at, n)
        /\ UNCHANGED <<regs, mem>>

\* A write that meets a missing page has stored the bytes before it.
Store(q) ==
    LET n == Reach(regs.cr3, q.at, Len(q.bytes))
    IN  /\ ret'.status = Status(n, Len(q.bytes))
        /\ mem' = Stored(regs.cr3, mem, q.at, q.bytes, n)
        /\ UNCHANGED regs

Push(q) ==
    LET esp == (regs.esp - WordBytes) % Width
        n == Reach(regs.cr3, esp, WordBytes)
    IN  /\ ret'.status = Status(n, WordBytes)
        /\ mem' = Stored(regs.cr3, mem, esp, BytesOf(regs[q.reg]), n)
        /\ regs' = IF n = WordBytes THEN [regs EXCEPT !.esp = esp] ELSE regs

\* The stack pointer moves before the popped value is written, so that a pop
\* to ESP leaves what was popped.
Pop(q) ==
    LET n == Reach(regs.cr3, regs.esp, WordBytes)
        up == [regs EXCEPT !.esp = (regs.esp + WordBytes) % Width]
    IN  /\ ret'.status = Status(n, WordBytes)
        /\ IF n = WordBytes
           THEN regs' \in Written(up, mem, q.reg, Word(Loaded(regs.cr3, mem, regs.esp, n)))
           ELSE UNCHANGED regs
        /\ UNCHANGED mem

\* The guest runs from the registers the emulator sees, and from no others.
Run == ret'.from = regs

Refuse == ret'.status \in {"failed", "invalid register"} /\ UNCHANGED <<regs, mem>>

\* Each step serves the request its answer names.
Next ==
    LET q == ret'.request
    IN  \/ q.op = "run" /\ Run
        \/ q.op = "read" /\ Read(q)
        \/ q.op = "write" /\ Write(q)
        \/ q.op = "copy" /\ Copy(q)
        \/ q.op = "flags" /\ Flags(q)
        \/ q.op = "load" /\ Load(q)
        \/ q.op = "store" /\ Store(q)
        \/ q.op = "push" /\ Push(q)
        \/ q.op = "pop" /\ Pop(q)
        \/ q.op # "run" /\ Refuse

Spec == [][Next]_<<regs, mem, ret>>
=============================================================================
