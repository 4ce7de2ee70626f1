------------------------------ MODULE BootProofs ------------------------------
(***************************************************************************)
(* Proofs about Boot for any number of power failures and flash errors:    *)
(* the application runs only in its memory split, the rewrite keeps the    *)
(* other settings, and the option bytes are erased at most once per fault  *)
(* and once more.                                                          *)
(***************************************************************************)
EXTENDS Boot, TLAPS

\* FLASH_OBR holds what the last reset loaded, and no step between the reset
\* and the erase changes the flash.
LoadedInv ==
    pc \in {"check", "program", "app"} =>
        IF user = Blank THEN obr = 255 ELSE obr = user

\* What is on its way into the flash selects the right split.
BufInv == pc \in {"rdpr", "user"} => buf.user \in 64 .. 95

\* The right split is the one the application starts in.
SplitInv == pc = "app" => SplitOk(Mode(obr))

\* Without a fault in the write, each halfword is in flash or still in pbuf.
KeptInv ==
    ~lost =>
        /\ pc \in {"reset", "check", "program", "delay", "app"} =>
             rdpr /\ data /\ user # Blank /\ user % 32 = factory % 32
        /\ pc = "rdpr" => buf.rdpr /\ buf.data /\ buf.user % 32 = factory % 32
        /\ pc = "user" => rdpr /\ buf.data /\ buf.user % 32 = factory % 32
        /\ pc = "data" => rdpr /\ buf.data /\ user # Blank /\ user % 32 = factory % 32

\* An erase that no fault explains was followed by a good USER, so that it is
\* the last one.
EraseInv ==
    \/ erases <= faults
    \/ /\ erases = faults + 1
       /\ pc # "program"
       /\ pc \in {"data", "delay", "reset", "check", "app"} => user \in 64 .. 95
       /\ pc \in {"check", "app"} => obr = user

BootInv == TypeOK /\ LoadedInv /\ BufInv /\ SplitInv /\ KeptInv /\ EraseInv

\* The arithmetic of the USER byte.
LEMMA NewUserIs ==
    ASSUME NEW u \in 0 .. 255
    PROVE  NewUser(u) \in 64 .. 95 /\ NewUser(u) % 32 = u % 32
  BY DEF NewUser

LEMMA SplitIs ==
    ASSUME NEW u \in 0 .. 255
    PROVE  SplitOk(Mode(u)) <=> u \in 64 .. 127
  BY DEF SplitOk, Mode

LEMMA BootInit == Init => BootInv
<1> SUFFICES ASSUME Init PROVE BootInv
  OBVIOUS
<1>1. TypeOK
  <2>1. buf \in [rdpr : BOOLEAN, user : 0 .. 256, data : BOOLEAN]
    <3>1. 256 \in 0 .. 256
      OBVIOUS
    <3> QED
      BY <3>1, Zenon DEF Init, Empty, Blank
  <2>2. /\ user \in 0 .. 256 /\ obr \in 0 .. 255 /\ factory \in 0 .. 255
        /\ faults \in 0 .. MaxFaults /\ erases \in 0 .. MaxFaults + 2
    BY BootAssumption DEF Init
  <2> QED
    BY <2>1, <2>2 DEF Init, TypeOK
<1>2. LoadedInv /\ BufInv /\ SplitInv /\ KeptInv /\ EraseInv
  BY DEF Init, LoadedInv, BufInv, SplitInv, KeptInv, EraseInv, Blank
<1> QED
  BY <1>1, <1>2 DEF BootInv

LEMMA BootStep == BootInv /\ [Next]_vars => BootInv'
<1> SUFFICES ASSUME BootInv, [Next]_vars PROVE BootInv'
  OBVIOUS
<1> USE BootAssumption
    DEF BootInv, TypeOK, LoadedInv, BufInv, SplitInv, KeptInv, EraseInv, Blank, Empty
<1>1. CASE Reset
  BY <1>1 DEF Reset
<1>2. CASE JumpToApp
  BY <1>2 DEF JumpToApp
<1>3. CASE Reprogram
  <2>1. obr \notin 64 .. 127
    BY <1>3, SplitIs DEF Reprogram
  <2> QED
    BY <1>3, <2>1 DEF Reprogram
<1>4. CASE Erase
  <2>1. NewUser(obr) \in 64 .. 95 /\ NewUser(obr) % 32 = obr % 32
    BY NewUserIs
  <2>2. /\ pc = "program" /\ pc' = "rdpr"
        /\ rdpr' = FALSE /\ user' = 256 /\ data' = FALSE
        /\ buf' = [rdpr |-> rdpr, user |-> NewUser(obr), data |-> data]
        /\ UNCHANGED <<obr, faults, lost, factory>>
        /\ erases' = IF erases < MaxFaults + 2 THEN erases + 1 ELSE erases
    BY <1>4 DEF Erase, PBuf
  <2>3. /\ buf'.rdpr = rdpr /\ buf'.user = NewUser(obr) /\ buf'.data = data
        /\ buf' \in [rdpr : BOOLEAN, user : 0 .. 256, data : BOOLEAN]
    <3>1. NewUser(obr) \in 0 .. 256
      BY <2>1
    <3> QED
      BY <2>2, <3>1, Zenon
  <2>4. TypeOK'
    <3>1. user' \in 0 .. 256 /\ erases' \in 0 .. MaxFaults + 2
      BY <2>2
    <3>2. /\ obr' \in 0 .. 255 /\ factory' \in 0 .. 255
          /\ faults' \in 0 .. MaxFaults /\ lost' \in BOOLEAN
      BY <2>2
    <3> QED
      BY <2>2, <2>3, <3>1, <3>2, Zenon
  <2>5. KeptInv'
    BY <2>1, <2>2, <2>3
  <2>6. (LoadedInv /\ BufInv /\ SplitInv /\ EraseInv)'
    BY <2>1, <2>2, <2>3
  <2> QED
    BY <2>4, <2>5, <2>6
<1>5. CASE WriteRdpr
  BY <1>5 DEF WriteRdpr
<1>6. CASE WriteUser
  BY <1>6 DEF WriteUser
<1>7. CASE WriteData
  BY <1>7 DEF WriteData
<1>8. CASE Reboot
  BY <1>8 DEF Reboot
<1>9. CASE FlashBusy
  BY <1>9 DEF FlashBusy
<1>10. CASE WriteFails
  BY <1>10 DEF WriteFails, Writing
<1>11. CASE PowerFails
  BY <1>11 DEF PowerFails, Writing
<1>12. CASE UNCHANGED vars
  BY <1>12 DEF vars
<1> QED
  BY <1>1, <1>2, <1>3, <1>4, <1>5, <1>6, <1>7, <1>8, <1>9, <1>10, <1>11, <1>12
  DEF Next, Step

LEMMA BootInvariant == Spec => []BootInv
  BY BootInit, BootStep, PTL DEF Spec

\* Flash, registers and buffer keep to their types; USER is a byte or blank.
THEOREM BootTypeCorrect == Spec => []TypeOK
<1>1. BootInv => TypeOK
  BY DEF BootInv
<1> QED
  BY <1>1, BootInvariant, PTL

\* The application never runs in a memory split other than its own, whatever
\* resets and faults came before (main jumps only after SplitOk).
THEOREM BootAppHasItsRam == Spec => []AppHasItsRam
<1>1. BootInv => AppHasItsRam
  BY SplitIs DEF BootInv, TypeOK, LoadedInv, SplitInv, AppHasItsRam, Blank
<1> QED
  BY <1>1, BootInvariant, PTL

\* The read-erase-write of FLASH_ProgramOptionByteData changes only the split,
\* unless a fault hits the write itself.
THEOREM BootSettingsKept == Spec => []SettingsKept
<1>1. BootInv => SettingsKept
  BY DEF BootInv, KeptInv, SettingsKept
<1> QED
  BY <1>1, BootInvariant, PTL

\* No boot loop wears out the flash: one erase, and one more per fault.
THEOREM BootOneRewrite == Spec => []OneRewrite
<1>1. BootInv => OneRewrite
  BY DEF BootInv, TypeOK, EraseInv, OneRewrite
<1> QED
  BY <1>1, BootInvariant, PTL
==============================================================================
