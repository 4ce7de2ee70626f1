--------------------------------- MODULE Boot ---------------------------------
(***************************************************************************)
(* The second-stage bootloader, bl_s2/main.c: it starts the application    *)
(* only in the memory split CODE-224KB + RAM-96KB, which it selects by     *)
(* rewriting the option bytes (FLASH_ProgramOptionByteData of the SDK) and *)
(* rebooting.  Power may fail at every step, and the flash may refuse.     *)
(*                                                                         *)
(* Of the eight halfwords, USER has its value; those before it (RDPR) and  *)
(* behind it (data, WRPR) are only intact or not.                          *)
(***************************************************************************)
EXTENDS Naturals

CONSTANT MaxFaults  \* bound: power failures and flash errors

ASSUME BootAssumption == MaxFaults \in Nat

Blank == 256    \* an erased halfword, which is no byte with its complement

VARIABLES
    rdpr, user, data,   \* the option bytes in flash
    obr,        \* the USER byte in FLASH_OBR, loaded by a reset
    buf,        \* pbuf, with the new USER halfword
    pc,         \* "reset", "check", "program", "rdpr", "user", "data",
                \* "delay", "app"
    faults,     \* faults so far
    lost,       \* history: one of them hit the option bytes
    factory,    \* history: USER as it was
    erases      \* history: erases of the option bytes, up to MaxFaults + 2

vars == <<rdpr, user, data, obr, buf, pc, faults, lost, factory, erases>>

Empty == [rdpr |-> FALSE, user |-> Blank, data |-> FALSE]

\* Any chip, at its first power-up.
Init ==
    /\ rdpr = TRUE /\ data = TRUE /\ user \in 0 .. 255 /\ factory = user
    /\ obr = 255 /\ buf = Empty
    /\ pc = "reset" /\ faults = 0 /\ lost = FALSE /\ erases = 0

------------------------------------------------------------------------------

\* External: the option bytes are loaded; bl_s1.S jumps to bl_s2.
Reset ==
    /\ pc = "reset"
    /\ obr' = IF user = Blank THEN 255 ELSE user
    /\ pc' = "check"
    /\ UNCHANGED <<rdpr, user, data, buf, faults, lost, factory, erases>>

\* RAM_CODE_MOD, USER[7:5]
Mode(u) == u \div 32

\* Mutant of SplitOk: only one bit is tested.
SplitOkBit(m) == (m \div 2) % 2 = 1

\* (mode & 0x6) == 0x2
SplitOk(m) == m \in {2, 3}

\* Mutant of NewUser: the field's position is wrong by one.
NewUserShifted(u) == (u % 32) + 32

\* (user & 0x1F) | 0x40
NewUser(u) == (u % 32) + 64

\* main: the split is right, and 2 s later the application starts.
JumpToApp ==
    /\ pc = "check" /\ SplitOk(Mode(obr))
    /\ pc' = "app"
    /\ UNCHANGED <<rdpr, user, data, obr, buf, faults, lost, factory, erases>>

\* ensure_ram_code_mode
Reprogram ==
    /\ pc = "check" /\ ~SplitOk(Mode(obr))
    /\ pc' = "program"
    /\ UNCHANGED <<rdpr, user, data, obr, buf, faults, lost, factory, erases>>

\* Mutant of PBuf: the halfwords are read after the erase.
PBufErased == [Empty EXCEPT !.user = NewUser(obr)]

\* The halfwords in flash with USER replaced.
PBuf == [rdpr |-> rdpr, user |-> NewUser(obr), data |-> data]

\* FLASH_ProgramOptionByteData: read, erase, then one halfword after the other.
Erase ==
    /\ pc = "program"
    /\ buf' = PBuf
    /\ rdpr' = FALSE /\ user' = Blank /\ data' = FALSE
    /\ erases' = IF erases < MaxFaults + 2 THEN erases + 1 ELSE erases
    /\ pc' = "rdpr"
    /\ UNCHANGED <<obr, faults, lost, factory>>

WriteRdpr ==
    /\ pc = "rdpr"
    /\ rdpr' = buf.rdpr /\ pc' = "user"
    /\ UNCHANGED <<user, data, obr, buf, faults, lost, factory, erases>>

WriteUser ==
    /\ pc = "user"
    /\ user' = buf.user /\ pc' = "data"
    /\ UNCHANGED <<rdpr, data, obr, buf, faults, lost, factory, erases>>

WriteData ==
    /\ pc = "data"
    /\ data' = buf.data /\ buf' = Empty /\ pc' = "delay"
    /\ UNCHANGED <<rdpr, user, obr, faults, lost, factory, erases>>

\* Mutant of Reboot: without a reset, so that OBR is not loaded.
RebootNoReset ==
    /\ pc = "delay"
    /\ pc' = "check"
    /\ UNCHANGED <<rdpr, user, data, obr, buf, faults, lost, factory, erases>>

\* 5 s later NVIC_SystemReset, whether or not the update was found good.
Reboot ==
    /\ pc = "delay"
    /\ pc' = "reset"
    /\ UNCHANGED <<rdpr, user, data, obr, buf, faults, lost, factory, erases>>

------------------------------------------------------------------------------
(* Faults *)

Writing == pc \in {"rdpr", "user", "data"}

\* FLASH_WaitForLastOperation times out.
FlashBusy ==
    /\ pc = "program" /\ faults < MaxFaults
    /\ faults' = faults + 1 /\ pc' = "delay"
    /\ UNCHANGED <<rdpr, user, data, obr, buf, lost, factory, erases>>

\* A halfword is not programmed: no status is read in the write loop.
WriteFails ==
    /\ Writing /\ faults < MaxFaults
    /\ faults' = faults + 1 /\ lost' = TRUE
    /\ pc' = CASE pc = "rdpr" -> "user" [] pc = "user" -> "data" [] OTHER -> "delay"
    /\ buf' = IF pc = "data" THEN Empty ELSE buf
    /\ UNCHANGED <<rdpr, user, data, obr, factory, erases>>

PowerFails ==
    /\ pc # "reset" /\ faults < MaxFaults
    /\ faults' = faults + 1 /\ pc' = "reset" /\ buf' = Empty
    /\ lost' = (lost \/ Writing)
    /\ UNCHANGED <<rdpr, user, data, obr, factory, erases>>

Step == Reset \/ JumpToApp \/ Reprogram \/ Erase \/ WriteRdpr \/ WriteUser
          \/ WriteData \/ Reboot

Next == Step \/ FlashBusy \/ WriteFails \/ PowerFails

Spec == Init /\ [][Next]_vars

\* The processor runs, and no faults come for ever.
FairSpec == Spec /\ WF_vars(Step)

------------------------------------------------------------------------------
(* Properties *)

TypeOK ==
    /\ rdpr \in BOOLEAN /\ data \in BOOLEAN /\ user \in 0 .. 256
    /\ obr \in 0 .. 255 /\ factory \in 0 .. 255
    /\ buf \in [rdpr : BOOLEAN, user : 0 .. 256, data : BOOLEAN]
    /\ pc \in {"reset", "check", "program", "rdpr", "user", "data", "delay", "app"}
    /\ faults \in 0 .. MaxFaults /\ lost \in BOOLEAN /\ erases \in 0 .. MaxFaults + 2

\* The application, linked for 96 KB of RAM, never runs in another split, also
\* when the reset that loaded OBR was not the one the bootloader asked for.
AppHasItsRam == pc = "app" => user = obr /\ user \in 64 .. 127

\* "keep [4:0]" (bl_s2/main.c:73) and the other seven halfwords: the rewrite
\* changes nothing but the split, unless a fault hits the write itself.
SettingsKept ==
    pc = "app" /\ ~lost => rdpr /\ data /\ user % 32 = factory % 32

\* The flash is not worn out by a boot loop: one erase, and one more per fault.
OneRewrite == erases <= 1 + faults

\* However often power or flash fails, and wherever, the chip starts the
\* application in the end.
AppStarts == (pc = "reset") ~> (pc = "app")
==============================================================================
