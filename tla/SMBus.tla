-------------------------------- MODULE SMBus --------------------------------
(* The SMBus controller behind its I/O window, and the devices on it: the   *)
(* system management controller, the EEPROM and the video encoder.  A byte  *)
(* is the set of its bits that are one.                                     *)
EXTENDS PciBus, Sequences

CONSTANT BlockSize   \* bytes of the block buffer (32)

VARIABLES
    smb,      \* the registers of the controller
    slaves    \* the registers of the devices
smbVars == <<smb, slaves>>

\* Addresses as the guest writes them: bit 0 says "read".
SMC == {5}   EEPROM == {3, 5, 7}   TVEncoder == {1, 3, 7}
\* Registers of the SMC.
Version == {0}   ResetPower == {1}   AVPack == {2}   LEDMode == 0..2   LEDSequence == {3}
ErrorCode == 1..3   ReadErrorCode == 0..3   Scratch == {0, 1, 3, 4}
Clearable == {0, 1, 2, 4, 5}   \* GS_CLEAR_STS
HCYC == 4   PRERR == 2   ABRT == 0
EnableHCYC == 4   Start == 3   Abort == 5

SmbInit ==
    /\ smb = [status |-> {}, control |-> {}, command |-> {}, address |-> {}, data0 |-> {},
              data1 |-> {}, block |-> [i \in 0..(BlockSize - 1) |-> {}], index |-> 0]
    /\ slaves = [reg |-> [d \in {SMC, EEPROM, TVEncoder} |->
                    IF d = SMC THEN [c \in {AVPack, LEDSequence} |-> IF c = AVPack THEN {0} ELSE 0..3]
                    ELSE [c \in {} |-> {}]], version |-> 0]

----------------------------------------------------------------------------
(* The devices.  A register that was never written is read as it was left by *)
(* the image (EEPROM) or by Init: zero stands for that.                      *)

Reg(d, c) == IF c \in DOMAIN slaves.reg[d] THEN slaves.reg[d][c] ELSE {}
Next1(c) == BitsOf(Number(c) + 1)
SetReg(regs, c, v) == [x \in DOMAIN regs \cup {c} |-> IF x = c THEN v ELSE regs[x]]

\* The SMC answers by register: the version one character at a time, the error code under
\* another number than it is written to, the challenge with constants.
VersionString == <<{4, 6}, {4, 5}, {0, 4, 5}>>   \* "P01"
Challenge == [c \in {{2, 3, 4}, {0, 2, 3, 4}, {1, 2, 3, 4}, 0..4} |->
    CASE c = {2, 3, 4} -> {1, 4, 6}             [] c = {0, 2, 3, 4} -> {1, 4, 5, 6}
      [] c = {1, 2, 3, 4} -> {1, 3, 5, 6, 7}    [] OTHER -> {1, 2, 6}]
SmcRead(c) ==
    CASE c = Version -> VersionString[slaves.version + 1]
      [] c = ReadErrorCode -> Reg(SMC, ErrorCode)
      [] c \in DOMAIN Challenge -> Challenge[c]
      [] OTHER -> Reg(SMC, c)
\* A write to the version register starts the string again; the power register falls through
\* to the LED mode, and neither keeps a value; nor does a known scratch value.
SmcKeeps(c, v) ==
    c \notin {Version, ResetPower, LEDMode} /\ ~(c = Scratch /\ v \in {{0}, {1}, {2}, {3}})

ReadByte(d, c) == IF d = SMC THEN SmcRead(c) ELSE Reg(d, c)
AfterReadByte(d, c) ==
    IF d = SMC /\ c = Version THEN [slaves EXCEPT !.version = (@ + 1) % 3] ELSE slaves
AfterWriteByte(d, c, v) ==
    IF d # SMC \/ SmcKeeps(c, v) THEN [slaves EXCEPT !.reg[d] = SetReg(@, c, v)]
    ELSE IF c = Version /\ v = {} THEN [slaves EXCEPT !.version = 0]
    ELSE slaves
\* Words and blocks reach the EEPROM and the encoder only; the SMC answers zero.
AfterWriteWord(d, c, lo, hi) ==
    IF d = SMC THEN slaves
    ELSE [slaves EXCEPT !.reg[d] = SetReg(SetReg(@, c, lo), Next1(c), hi)]
AfterWriteBlock(d, c, bytes, length) ==
    IF d = SMC THEN slaves
    ELSE [slaves EXCEPT !.reg[d] =
            [x \in DOMAIN @ \cup {BitsOf(Number(c) + n) : n \in 0..(length - 1)} |->
                IF Number(x) - Number(c) \in 0..(length - 1) THEN bytes[Number(x) - Number(c)]
                ELSE @[x]]]

----------------------------------------------------------------------------
(* SMBus::ExecuteTransaction, on the registers s after the write that starts it. *)

Protocol(s) == Number(s.control \cap 0..2)
Reads(s) == 0 \in s.address
Target(s) == s.address \ {0}

Transact(s) ==
    LET d == Target(s)   c == s.command   p == Protocol(s)
        done == [s EXCEPT !.status = @ \cup {HCYC}]
        failed == [s EXCEPT !.status = @ \cup {PRERR}]
    IN  IF d \notin DOMAIN slaves.reg \/ p \notin {0, 1, 2, 3, 5} THEN <<failed, slaves>>
        ELSE CASE p = 0 -> <<done, slaves>>
               [] p = 1 -> <<IF Reads(s) THEN [done EXCEPT !.data0 = {}] ELSE done, slaves>>
               [] p = 2 /\ Reads(s) -> <<[done EXCEPT !.data0 = ReadByte(d, c)], AfterReadByte(d, c)>>
               [] p = 2 /\ ~Reads(s) -> <<done, AfterWriteByte(d, c, s.data0)>>
               [] p = 3 /\ Reads(s) ->
                     <<[done EXCEPT !.data0 = IF d = SMC THEN {} ELSE Reg(d, c),
                                    !.data1 = IF d = SMC THEN {} ELSE Reg(d, Next1(c))], slaves>>
               [] p = 3 /\ ~Reads(s) -> <<done, AfterWriteWord(d, c, s.data0, s.data1)>>
               [] p = 5 /\ Reads(s) -> <<[done EXCEPT !.data0 = {}], slaves>>
               [] p = 5 /\ ~Reads(s) -> <<done, AfterWriteBlock(d, c, s.block, Number(s.data0))>>

\* The driver's block lengths stay within the buffer (the code does not check).
Bounded(s) == Protocol(s) = 5 /\ ~Reads(s) => Number(s.data0) <= BlockSize

----------------------------------------------------------------------------
(* The registers, at their offsets in the first window; the second answers zero. *)

Advance(s) == [s EXCEPT !.index = IF @ + 1 > BlockSize - 1 THEN 0 ELSE @ + 1]

\* SMB_GLOBAL_STATUS: the line goes up when a bit is written that is not set and interrupts are
\* enabled, else down.  The status is cleared by a write of one of its bits and set to "cycle
\* done" by a write of none.
\* Mutants of WriteStatus: the index is not reset; the line is raised, never lowered.
StaleIndex(value) ==
    /\ HandleIRQ(1, EnableHCYC \in smb.control /\ (value \cap Clearable) \ smb.status # {})
    /\ smb' = [smb EXCEPT !.status = IF value \cap Clearable # {} THEN {} ELSE {HCYC}]
    /\ UNCHANGED <<slaves, pci>>
NeverLowers(value) ==
    /\ IF EnableHCYC \in smb.control /\ (value \cap Clearable) \ smb.status # {}
       THEN HandleIRQ(1, TRUE) ELSE UNCHANGED gsi
    /\ smb' = [smb EXCEPT !.status = IF value \cap Clearable # {} THEN {} ELSE {HCYC},
                          !.index = 0]
    /\ UNCHANGED <<slaves, pci>>
WriteStatus(value) ==
    /\ HandleIRQ(1, EnableHCYC \in smb.control /\ (value \cap Clearable) \ smb.status # {})
    /\ smb' = [smb EXCEPT !.status = IF value \cap Clearable # {} THEN {} ELSE {HCYC},
                          !.index = 0]
    /\ UNCHANGED <<slaves, pci>>

\* SMB_GLOBAL_ENABLE starts a transaction, which is over when the write returns.
WriteEnable(value) ==
    LET s == [smb EXCEPT !.control = value,
                         !.status = IF Abort \in value THEN @ \cup {ABRT} ELSE @]
        r == IF Start \in value THEN Transact(s) ELSE <<s, slaves>>
    IN  /\ Bounded(s)
        /\ smb' = r[1] /\ slaves' = r[2]
        /\ IF Start \in value /\ EnableHCYC \in value /\ r[1].status \cap Clearable # {}
           THEN HandleIRQ(1, TRUE) ELSE UNCHANGED gsi
        /\ UNCHANGED pci

Register8(name, value) == [smb EXCEPT ![name] = value \cap 0..7]
WriteRegister(offset, value, size) ==
    /\ smb' = CASE offset = 4 -> Register8("address", value)
                [] offset = 6 /\ size = 2 -> [smb EXCEPT !.data0 = value \cap 0..7,
                                                         !.data1 = Take(value, 1, 1)]
                [] offset = 6 /\ size # 2 -> Register8("data0", value)
                [] offset = 7 -> Register8("data1", value)
                [] offset = 8 -> Register8("command", value)
                [] offset = 9 -> Advance([smb EXCEPT !.block[smb.index] = value \cap 0..7])
                [] OTHER -> smb
    /\ UNCHANGED <<slaves, gsi, pci>>

SmbWrite(offset, value, size) ==
    CASE offset = 0 -> WriteStatus(value)
      [] offset = 2 -> WriteEnable(value)
      [] OTHER -> WriteRegister(offset, value, size)

SmbValue(offset, size) ==
    CASE offset = 0 -> smb.status
      [] offset = 2 -> smb.control \cap 0..4
      [] offset = 4 -> smb.address
      [] offset = 6 -> smb.data0 \cup (IF size = 2 THEN Place(smb.data1, 1) ELSE {})
      [] offset = 7 -> smb.data1
      [] offset = 8 -> smb.command
      [] offset = 9 -> smb.block[smb.index]
      [] OTHER -> {}
SmbRead(offset) ==
    /\ smb' = IF offset = 9 THEN Advance(smb) ELSE smb
    /\ UNCHANGED <<slaves, gsi, pci>>
=============================================================================
