----------------------------- MODULE GdbServer -----------------------------
(* The one session of the GDB server: Xbox::InitDebugger waits for a client *)
(* and serves it before the processor runs.  The server copies the          *)
(* registers at the start, lets the client read and write the copy and the  *)
(* guest's virtual memory, and writes the copy back when the client lets    *)
(* the processor go.  Packets and their acknowledgements travel over TCP,   *)
(* in order; the client is external and follows the remote protocol.        *)
EXTENDS CpuRegs

CONSTANTS
    Commands,      \* what the client may ask
    MaxCommands,   \* bound on the commands of a session
    MaxTimeouts,   \* how often the client loses patience and asks again
    Digit,         \* how many values a hex digit has
    RegisterBytes  \* of two digits each
ASSUME DigitAssumption ==
    Digit \in Nat \ {0, 1} /\ RegisterBytes \in Nat \ {0} /\ Width = (Digit * Digit) ^ RegisterBytes

VARIABLES
    driver,    \* who uses the processor: a debugger, or the emulator's own code
    server,    \* where the server's thread is, its copy of the registers
    client,    \* what the client does, and what it was told
    toServer,  \* characters on their way, a packet as one token
    toClient
gdbVars == <<driver, server, client, toServer, toClient>>
vars == <<cpuVars, gdbVars>>

SessionRegs == {"eip", "esp", "eflags", "cs"}
\* Mutant of WrittenBack: the list ends one short of the registers it needs.
WithoutEip == <<"esp", "eflags">>
WrittenBack == <<"esp", "eip", "eflags">>
\* What the local array of a failed read may hold.
Blank == [r \in SessionRegs |-> IF r = "eflags" THEN {} ELSE 0]

Ack == [t |-> "+"]
Nack == [t |-> "-"]
Headless == [t |-> "headless"]   \* a packet whose first character was taken
Packet(id, body) == [t |-> "$", id |-> id, body |-> body]

SessionInit ==
    /\ Init
    /\ driver \in {"emulator", "debugger"}
    /\ driver = "debugger" => cpu.vcpu.cr3 = 0   \* paging was not set up yet
    /\ server = [pc |-> "accept", regs |-> Blank,
                 job |-> [id |-> 0, at |-> 0, done |-> <<>>, bytes |-> <<>>], restored |-> FALSE]
    /\ client = [pc |-> "away", asked |-> 0, command |-> <<>>, told |-> <<>>, timeouts |-> 0]
    /\ toServer = <<>> /\ toClient = <<>>

Gone == client.pc = "gone"

----------------------------------------------------------------------------
(* The client. *)

\* GDB acknowledges nothing in particular when it connects.
Connect ==
    /\ client.pc = "away"
    /\ client' = [client EXCEPT !.pc = "ready"]
    /\ toServer' = <<Ack>>
    /\ UNCHANGED toClient

Ask ==
    /\ client.pc = "ready" /\ client.asked < MaxCommands
    /\ \E c \in Commands :
        /\ client' = [client EXCEPT !.pc = "sent", !.asked = @ + 1, !.command = c]
        /\ toServer' = Append(toServer, Packet(client.asked + 1, c))
    /\ UNCHANGED toClient

AskAgain ==
    /\ client.pc = "sent" /\ client.timeouts < MaxTimeouts
    /\ client' = [client EXCEPT !.timeouts = @ + 1]
    /\ toServer' = Append(toServer, Packet(client.asked, client.command))
    /\ UNCHANGED toClient

\* A packet where an acknowledgement is due is an old one: the client drops
\* and acknowledges it.
ReadAck ==
    /\ client.pc = "sent" /\ toClient # <<>>
    /\ toClient' = Tail(toClient)
    /\ \/ /\ Head(toClient) = Ack
          /\ client' = [client EXCEPT !.pc = "waits"]
          /\ UNCHANGED toServer
       \/ /\ Head(toClient) = Nack
          /\ toServer' = Append(toServer, Packet(client.asked, client.command))
          /\ UNCHANGED client
       \/ /\ Head(toClient).t = "$"
          /\ toServer' = Append(toServer, Ack)
          /\ UNCHANGED client

ReadReply ==
    /\ client.pc = "waits" /\ toClient # <<>>
    /\ toClient' = Tail(toClient)
    /\ \/ /\ Head(toClient).t = "$"
          /\ client' = [client EXCEPT !.pc = "ready",
                            !.told = Append(@, [command |-> client.command, asked |-> client.asked,
                                                id |-> Head(toClient).id, body |-> Head(toClient).body])]
          /\ toServer' = Append(toServer, Ack)
       \/ /\ Head(toClient).t # "$"
          /\ UNCHANGED <<client, toServer>>

\* The client may leave, or its host may, at any time.
Leave ==
    /\ client.pc \notin {"away", "gone"}
    /\ client' = [client EXCEPT !.pc = "gone"]
    /\ toClient' = <<>>
    /\ UNCHANGED toServer

ClientStep == Connect \/ Ask \/ AskAgain \/ ReadAck \/ ReadReply \/ Leave

----------------------------------------------------------------------------
(* The server. *)

\* dbg_write and dbg_sys_putchar: what is sent to a client that left is lost; the socket
\* may or may not say so.
SendOutcomes == IF Gone THEN {"ok", "EOF"} ELSE {"ok"}
Send(tokens) == toClient' = IF Gone THEN <<>> ELSE toClient \o tokens

\* Debug reads its copy of the registers, in the order of its arrays; a failed
\* read leaves what the local array held, here zero.  The session opens with a
\* signal packet.
Debug ==
    /\ server.pc = "accept" /\ client.pc # "away"
    /\ LET order == <<"esp", "eip", "eflags", "cs">>
       IN  /\ RegRead([op |-> "read", regs |-> order])
           /\ \E sent \in SendOutcomes :
                server' = [server EXCEPT
                    !.pc = IF sent = "ok" THEN "greeted" ELSE "over",
                    !.regs = IF ret'.status = "ok"
                             THEN [r \in SessionRegs |->
                                      ret'.value[CHOOSE i \in 1..4 : order[i] = r]]
                             ELSE Blank]
    /\ Send(<<Packet(0, "signal")>>)
    /\ UNCHANGED toServer

\* dbg_recv_ack takes one character.  Anything but + and - is the end of the
\* input for its caller, and a packet it came from has lost its first one.
AckOrNack == toServer # <<>> /\ Head(toServer) \in {Ack, Nack}
AfterAck == IF toServer = <<>> THEN <<>>
            ELSE IF AckOrNack THEN Tail(toServer) ELSE <<Headless>> \o Tail(toServer)

\* After a reply the end of the input ends the session without the write-back;
\* after an error reply it is not looked at.
AwaitAck ==
    /\ server.pc \in {"greeted", "replied", "refused"}
    /\ toServer # <<>> \/ Gone
    /\ toServer' = AfterAck
    /\ server' = [server EXCEPT !.pc =
                      IF AckOrNack \/ server.pc = "refused" THEN "receive" ELSE "over"]
    /\ UNCHANGED <<cpu, mem, ret, toClient>>

\* dbg_recv_packet skips what is not the start of a packet.
Skip ==
    /\ server.pc = "receive" /\ toServer # <<>> /\ Head(toServer).t # "$"
    /\ toServer' = Tail(toServer)
    /\ UNCHANGED <<cpu, mem, ret, server, toClient>>

\* With nothing more to receive the loop ends and the copy is written back.
Hangup ==
    /\ server.pc = "receive" /\ toServer = <<>> /\ Gone
    /\ server' = [server EXCEPT !.pc = "restore"]
    /\ UNCHANGED <<cpu, mem, ret, toServer, toClient>>

\* dbg_send_packet with the acknowledgement of the request, if that is due.
Reply(s, tokens) ==
    /\ \E sent \in SendOutcomes :
         server' = IF sent = "ok" THEN s
                   ELSE [s EXCEPT !.pc = IF s.pc = "refused" THEN "receive" ELSE "over"]
    /\ Send(tokens)

Received == server.pc = "receive" /\ toServer # <<>> /\ Head(toServer).t = "$"
Command == Head(toServer).body

\* Mutant of Report: the command stays in the buffer and is served twice.
RepliesTwice(c) ==
    /\ c.name \in {"g", "p", "?", "unsupported"}
    /\ Reply([server EXCEPT !.pc = "replied"],
             <<Ack, Packet(Head(toServer).id, ""), Ack, Packet(Head(toServer).id, "")>>)
    /\ UNCHANGED <<cpu, mem, ret>>

\* g, p, ?, and what the server does not support.
Report(c) ==
    /\ c.name \in {"g", "p", "?", "unsupported"}
    /\ Reply([server EXCEPT !.pc = "replied"],
             <<Ack, Packet(Head(toServer).id,
                           CASE c.name = "g" -> server.regs [] c.name = "p" -> server.regs[c.reg]
                             [] c.name = "?" -> "signal" [] c.name = "unsupported" -> "")>>)
    /\ UNCHANGED <<cpu, mem, ret>>

\* P names one register, G all of them, with their values.
SetRegisters(c) ==
    /\ c.name \in {"P", "G"}
    /\ Reply([server EXCEPT !.pc = "replied",
                 !.regs = [r \in SessionRegs |-> IF r \in DOMAIN c.values THEN c.values[r] ELSE @[r]]],
             <<Ack, Packet(Head(toServer).id, "OK")>>)
    /\ UNCHANGED <<cpu, mem, ret>>

\* dbg_dec_hex writes as it reads, low bytes first and the high digit of each
\* before the low one, and stops at what is no digit: n digits of a word were good.
DecodedWord(old, new, n) ==
    LET odd   == n % 2 = 1
        low   == (Digit * Digit) ^ (n \div 2)                 \* weight of the byte at the junk
        above == IF odd THEN low * Digit * Digit ELSE low      \* of the first byte not written
        high  == (new \div (low * Digit)) % Digit
    IN  (new % low) + (IF odd THEN high * Digit * low ELSE 0) + (old \div above) * above

\* The same for the flags: bit 1, always one, and TF and IF, bits 8 and 9, are
\* each in the low digit of a byte.
FlagByte(f) == IF f = "one" THEN 0 ELSE 1
DecodedFlags(old, new, n) ==
    {f \in new : 2 * FlagByte(f) + 1 < n} \cup {f \in old : n <= 2 * FlagByte(f)}

Decoded(r, old, new, n) ==
    IF r = "eflags" THEN DecodedFlags(old, new, n) ELSE DecodedWord(old, new, n)

\* A P or a G with junk among its digits has written the registers `values`, as
\* far as `digits` says, when it is refused; other refused commands name none.
Refused(c) ==
    [server EXCEPT !.pc = "refused",
        !.regs = [r \in SessionRegs |-> IF r \in DOMAIN c.values
                                         THEN Decoded(r, @[r], c.values[r], c.digits[r]) ELSE @[r]]]

\* Mutant of Error: an error is not answered.
Silent(c) ==
    /\ c.name = "malformed"
    /\ Reply(Refused(c), <<Ack>>)
    /\ UNCHANGED <<cpu, mem, ret>>

\* A command that does not parse, or asks for too much, is answered E00.
Error(c) ==
    /\ c.name = "malformed"
    /\ Reply(Refused(c), <<Ack, Packet(Head(toServer).id, "error")>>)
    /\ UNCHANGED <<cpu, mem, ret>>

\* dbg_sys_continue and dbg_sys_step
TrapFlag(name, flags) == IF name = "s" THEN flags \cup {"TF"} ELSE flags \ {"TF"}

\* c and s clear and set the trap flag and end the session.
Resume(c) ==
    /\ c.name \in {"c", "s"}
    /\ server' = [server EXCEPT !.pc = "restore",
                      !.regs.eflags = TrapFlag(c.name, @)]
    /\ Send(<<Ack>>)
    /\ UNCHANGED <<cpu, mem, ret>>

\* m, M and X go through the memory a byte at a time.
Begin(c) ==
    /\ c.name \in {"m", "M"}
    /\ server' = [server EXCEPT !.pc = IF c.name = "m" THEN "reading" ELSE "writing",
                      !.job = [id |-> Head(toServer).id, at |-> c.at, done |-> <<>>,
                               bytes |-> c.bytes]]
    /\ Send(<<Ack>>)
    /\ UNCHANGED <<cpu, mem, ret>>

Execute ==
    /\ Received
    /\ toServer' = Tail(toServer)
    /\ \/ Report(Command) \/ SetRegisters(Command) \/ Error(Command)
       \/ Resume(Command) \/ Begin(Command)

Finished(j) == Len(j.done) = Len(j.bytes)
Here(j) == (j.at + Len(j.done)) % Width

\* dbg_sys_mem_readb and dbg_sys_mem_writeb ignore whether the byte is mapped:
\* an unmapped one reads as what the buffer held, here zero.
ReadByte ==
    /\ server.pc = "reading" /\ ~Finished(server.job)
    /\ VMemRead([op |-> "load", at |-> Here(server.job), size |-> 1])
    /\ server' = [server EXCEPT !.job.done = Append(@, IF ret'.status = "ok" THEN ret'.value[1] ELSE 0)]
    /\ UNCHANGED <<toServer, toClient>>

WriteByte ==
    /\ server.pc = "writing" /\ ~Finished(server.job)
    /\ LET b == server.job.bytes[Len(server.job.done) + 1]
       IN  /\ VMemWrite([op |-> "store", at |-> Here(server.job), bytes |-> <<b>>])
           /\ server' = [server EXCEPT !.job.done = Append(@, b)]
    /\ UNCHANGED <<toServer, toClient>>

FinishMemory ==
    /\ server.pc \in {"reading", "writing"} /\ Finished(server.job)
    /\ Reply([server EXCEPT !.pc = "replied"],
             <<Packet(server.job.id, IF server.pc = "reading" THEN server.job.done ELSE "OK")>>)
    /\ UNCHANGED <<cpu, mem, ret, toServer>>

\* Ten of the sixteen registers are written back, in one batch; the selectors
\* are not, and the status is not looked at (`restored` records it).
Restore ==
    /\ server.pc = "restore"
    /\ WriteRegisters([op |-> "write", regs |-> WrittenBack,
                       values |-> [i \in DOMAIN WrittenBack |-> server.regs[WrittenBack[i]]]])
    /\ server' = [server EXCEPT !.pc = "over", !.restored = ret'.status = "ok"]
    /\ UNCHANGED <<toServer, toClient>>

ServerStep == \/ Debug \/ AwaitAck \/ Skip \/ Hangup \/ Execute
              \/ ReadByte \/ WriteByte \/ FinishMemory \/ Restore

----------------------------------------------------------------------------
\* With the session over the processor runs; the emulator's own accesses are
\* those of CpuRegs.
Runs == /\ driver = "debugger" /\ server.pc = "over" /\ requests = 0
        /\ Served([op |-> "run"]) /\ Run([op |-> "run"])
        /\ UNCHANGED gdbVars

SessionNext ==
    \/ driver = "emulator" /\ Next /\ UNCHANGED gdbVars
    \/ driver = "debugger" /\ ClientStep /\ UNCHANGED <<cpuVars, driver, server>>
    \/ driver = "debugger" /\ ServerStep /\ UNCHANGED <<requests, driver, client>>
    \/ Runs

\* The server's thread keeps running, and so does a client that is there.
SessionSpec ==
    /\ SessionInit /\ [][SessionNext]_vars
    /\ WF_vars(ServerStep /\ driver = "debugger" /\ UNCHANGED <<requests, driver, client>>)
    /\ WF_vars((ReadAck \/ ReadReply) /\ driver = "debugger" /\ UNCHANGED <<cpuVars, driver, server>>)

----------------------------------------------------------------------------
(* Properties. *)

\* The client never takes one command's reply for another's, although the
\* acknowledgements run one behind: the client acknowledges its connection, and
\* dbg_recv_ack takes any + for that of the packet just sent
\* (gdbserver.cpp:503-524, 985-1000).
RepliesMatch == \A i \in DOMAIN client.told : client.told[i].id = client.told[i].asked

Writes(c, r) == c.name \in {"P", "G"} /\ r \in DOMAIN c.values
Spoils(c, r) == c.name = "malformed" /\ r \in DOMAIN c.values
Told(r) == {i \in DOMAIN client.told : /\ Writes(client.told[i].command, r)
                                       /\ client.told[i].body = "OK"}
Spoiled(r) ==
    \/ Spoils(client.command, r)
    \/ \E i \in DOMAIN client.told : i > Max(Told(r)) /\ Spoils(client.told[i].command, r)

\* After a session whose write-back succeeded the processor runs with the
\* registers whose writes the client was told were done, whether it let the
\* processor go or hung up, however the packets and the copies interleaved;
\* unless the client sent a later write of the register with junk among its
\* digits, of which the server refuses the whole and keeps the part before the
\* junk (gdbserver.cpp:222-253, 264-292, 722-753).
WritesReachProcessor ==
    [][(driver = "debugger" /\ ret'.request.op = "run" /\ requests = 0 /\ server.restored) =>
          \A r \in {"eip", "esp"} : Told(r) # {} /\ ~Spoiled(r) =>
              ret'.from[r] = client.told[Max(Told(r))].command.values[r]]_vars

\* A command is answered, or the session ends (gdbserver.cpp:985-1233).
CommandAnswered ==
    client.pc \in {"sent", "waits"} ~> (client.pc \in {"ready", "gone"} \/ server.pc = "over")
=============================================================================
