----------------------------- MODULE MCDebugger -----------------------------
EXTENDS GdbServer
Pte(v, f) == [valid |-> v, frame |-> f]
Pde(l, v, f, ptes) == [large |-> l, valid |-> v, frame |-> f, ptes |-> ptes]
\* CR3 = 0: nothing mapped.  1: two small pages, swapped, and a large one.
\* 2: an alias, a hole, and a frame after the RAM.
MCTables == [c \in 0..2 |-> [d \in 0..1 |->
    CASE c = 0 -> Pde(FALSE, FALSE, 0, [i \in 0..1 |-> Pte(FALSE, 0)])
      [] c = 1 /\ d = 0 -> Pde(FALSE, TRUE, 0, [i \in 0..1 |-> Pte(TRUE, 1 - i)])
      [] c = 1 /\ d = 1 -> Pde(TRUE, TRUE, 0, [i \in 0..1 |-> Pte(FALSE, 0)])
      [] c = 2 /\ d = 0 -> Pde(FALSE, TRUE, 0, [i \in 0..1 |-> Pte(i = 0, 2)])
      [] c = 2 /\ d = 1 -> Pde(FALSE, TRUE, 0, [i \in 0..1 |-> Pte(TRUE, IF i = 0 THEN 1 ELSE 3)])]]
PowerupFile(cr3, esp) ==
    [eip |-> 15, esp |-> esp, eflags |-> {"one"}, cr3 |-> cr3, gdt |-> 4, cs |-> 0, desc |-> 0]
MCPowerup == {PowerupFile(c, 8) : c \in 0..2}
MCSteps == {[eip |-> 1], [eip |-> 2, esp |-> 5], [cr3 |-> 1]}
Batch(rs, xs) == [op |-> "write", regs |-> rs, values |-> xs]
MCRequests ==
    {[op |-> "run"],
     [op |-> "read", regs |-> <<"eip", "esp", "eflags", "cr3", "cs">>], [op |-> "read", regs |-> <<"none">>],
     Batch(<<"eip">>, <<9>>), Batch(<<"esp">>, <<1>>), Batch(<<"cr3">>, <<1>>), Batch(<<"cs">>, <<2>>),
     Batch(<<"gdt">>, <<0>>), Batch(<<"eip", "eflags">>, <<3, {"TF"}>>), Batch(<<"none", "eip">>, <<0, 7>>),
     [op |-> "copy", src |-> "eip", dst |-> "esp"],
     [op |-> "flags", set |-> {"IF"}, clear |-> {}], [op |-> "flags", set |-> {}, clear |-> {"one", "IF"}],
     [op |-> "push", reg |-> "eip"], [op |-> "pop", reg |-> "eip"], [op |-> "pop", reg |-> "esp"]}
    \cup {[op |-> "load", at |-> a, size |-> n] : a \in {2, 7, 13}, n \in {0, 6, 13}}
    \cup {[op |-> "store", at |-> a, bytes |-> SubSeq(<<1, 2, 3, 0, 1, 2, 3, 1, 1>>, 1, n)] :
            a \in {3, 6, 10}, n \in {2, 9}}
Defect(values, digits) == [name |-> "malformed", values |-> values, digits |-> digits]
\* The file of a G; a P and a G with junk in the second byte of EIP, a P with junk in its first.
MCFile == [esp |-> 6, eip |-> 3, eflags |-> {"one", "IF"}, cs |-> 2]
MCCommands ==
    {[name |-> n] : n \in {"g", "?", "unsupported", "c", "s"}}
    \cup {[name |-> "P", values |-> [eip |-> 5]], [name |-> "G", values |-> MCFile],
          Defect(<<>>, <<>>), Defect([eip |-> 10], [eip |-> 3]), Defect([eip |-> 12], [eip |-> 1]),
          Defect([esp |-> 6, eip |-> 3], [esp |-> 4, eip |-> 2]),
          [name |-> "p", reg |-> "eip"],
          [name |-> "m", at |-> 3, bytes |-> <<0, 0>>], [name |-> "M", at |-> 4, bytes |-> <<1, 2>>]}
=============================================================================
