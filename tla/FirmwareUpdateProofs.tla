------------------------ MODULE FirmwareUpdateProofs ------------------------
(***************************************************************************)
(* Theorems about FirmwareUpdate, for every length of the image and any    *)
(* number of downloads, power failures, resets, damaged packets and races. *)
(*                                                                         *)
(* The proofs follow the two processors: what the display's registers say  *)
(* of its flash (DisplayInv) does not depend on the ESP, and what the      *)
(* state file says of the card and of OTA_1 (CardInv) does not depend on   *)
(* the display.  The types need the second.  That the display comes first  *)
(* needs the line between them as well (LineInv): which orders, answers    *)
(* and statuses can be on their way, whatever was reset in between.        *)
(***************************************************************************)
EXTENDS FirmwareUpdate, TLAPS

-----------------------------------------------------------------------------
(* The display's flash and its registers                                   *)

Requesting == {"requestSize", "tell"}
Copying == {"erase", "copy"}

\* The command register is set only over a whole update area: the program that
\* sets it has checked the area, and resets before it could write to it again.
DisplayInv ==
  /\ bootcmd \in {"run", "update"}
  /\ spc \in StmPCs
  /\ bootcmd = "update" => update = WholeUpdate
  /\ spc \in {"request"} \cup Requesting \cup Copying => update = WholeUpdate
  /\ spc \in AppPCs \ Requesting => bootcmd = "run"
  /\ spc \in Requesting \cup Copying => bootcmd = "update"

LEMMA DisplayInit == Init => DisplayInv
BY DEF Init, DisplayInv, StmPCs, AppPCs, Requesting, Copying

\* The ESP and the wire leave the display's flash and registers alone.
LEMMA EspLeavesDisplay == Esp \/ StartFetch => UNCHANGED <<app, update, bootcmd, size, spc>>
BY DEF Esp, StartFetch, EspBoot, Truncate, Put, Hello, Running, Fetch, Checksums, Reset,
       Cancel, HearInit, HearEntered, Prepare, HearNoise, HearReady, Serve, HearCopied,
       Flash, Flashed, Switch, Cleanup, stmFlash, rtc, stmRun

LEMMA DisplayStep == DisplayInv /\ [Next]_vars => DisplayInv'
<1> SUFFICES ASSUME DisplayInv, [Next]_vars PROVE DisplayInv'
  OBVIOUS
<1> USE DEF DisplayInv, StmPCs, AppPCs, Requesting, Copying, stmFlash, rtc
<1>1. CASE Esp \/ StartFetch
  BY <1>1, EspLeavesDisplay DEF WholeUpdate
<1>2. CASE StmBoot
  BY <1>2 DEF StmBoot
<1>3. CASE Erase \/ Copy \/ Service
  BY <1>3 DEF Erase, Copy, Service
<1>4. CASE StmStart \/ Retry \/ Shake \/ ShakeOk \/ EnterUpdate \/ Overlook
  BY <1>4 DEF StmStart, Retry, Shake, ShakeOk, EnterUpdate, UpdateRate, Overlook, stmRun
<1>5. CASE StmRunning \/ LeaveUpdate \/ ImgStart \/ Progress
  BY <1>5 DEF StmRunning, LeaveUpdate, ImgStart, Progress, stmRun
<1>6. CASE BeginUpdate
  BY <1>6 DEF BeginUpdate, StmHears, stmRun
<1>7. CASE ImgData
  BY <1>7 DEF ImgData, SumOk
<1>8. CASE RequestUpdate
  BY <1>8 DEF RequestUpdate
<1>9. CASE PowerFail \/ EspReset \/ StmReset \/ Unplug
  BY <1>9 DEF PowerFail, EspReset, StmReset, Unplug, PowerOff, stmRun
<1>10. CASE UNCHANGED vars
  BY <1>10 DEF vars, stmRun, WholeUpdate
<1> QED
  BY <1>1, <1>2, <1>3, <1>4, <1>5, <1>6, <1>7, <1>8, <1>9, <1>10 DEF Next, Stm

\* The bootloader copies the update area only when it holds the whole image.
THEOREM CopiesWholeTheorem == Spec => []CopiesWhole
<1>1. DisplayInv => CopiesWhole
  BY DEF DisplayInv, CopiesWhole
<1> QED
  BY <1>1, DisplayInit, DisplayStep, PTL DEF Spec

\* A program that is being replaced is replaced to the end, provided the size
\* register holds what it held for the last image or nothing.
TornInv ==
  /\ size \in {0, Chunks}
  /\ app = "torn" => bootcmd = "update" /\ size = Chunks
  /\ spc \in AppPCs \cup {"service"} => app # "torn"

LEMMA TornStep ==
  Chunks # 0 /\ DisplayInv /\ TornInv /\ [Next]_vars => TornInv'
<1> SUFFICES ASSUME Chunks # 0, DisplayInv, TornInv, [Next]_vars PROVE TornInv'
  OBVIOUS
<1> USE DEF DisplayInv, TornInv, StmPCs, AppPCs, Requesting, Copying, stmFlash, rtc
<1>1. CASE Esp \/ StartFetch
  BY <1>1, EspLeavesDisplay
<1>2. CASE StmBoot
  BY <1>2 DEF StmBoot
<1>3. CASE Erase
  BY <1>3 DEF Erase
<1>4. CASE Copy
  BY <1>4 DEF Copy, Copied
<1>5. CASE Service
  BY <1>5 DEF Service
<1>6. CASE StmStart \/ Retry \/ Shake \/ ShakeOk \/ EnterUpdate \/ Overlook
  BY <1>6 DEF StmStart, Retry, Shake, ShakeOk, EnterUpdate, UpdateRate, Overlook, stmRun
<1>7. CASE StmRunning \/ LeaveUpdate \/ BeginUpdate \/ ImgStart \/ ImgData \/ Progress
  BY <1>7 DEF StmRunning, LeaveUpdate, BeginUpdate, ImgStart, ImgData, Progress, stmRun
<1>8. CASE RequestUpdate
  BY <1>8 DEF RequestUpdate
<1>9. CASE PowerFail \/ EspReset \/ StmReset \/ Unplug
  BY <1>9 DEF PowerFail, EspReset, StmReset, Unplug, PowerOff, stmRun
<1>10. CASE UNCHANGED vars
  BY <1>10 DEF vars, stmRun
<1> QED
  BY <1>1, <1>2, <1>3, <1>4, <1>5, <1>6, <1>7, <1>8, <1>9, <1>10 DEF Next, Stm

\* Whatever is interrupted, the display runs only whole programs, if the image has
\* the size of the last one or is the first (with any other, see the size register at bootcmd.c:42).
THEOREM WholeProgramRunsTheorem ==
  ASSUME OldSize \in {0, Chunks} PROVE Spec => []WholeProgramRuns
<1>1. Chunks # 0
  BY FirmwareUpdateAssumption DEF FirmwareUpdateAssumption
<1>2. Init => TornInv
  BY DEF Init, TornInv, AppPCs
<1>3. TornInv => WholeProgramRuns
  BY DEF TornInv, WholeProgramRuns
<1> QED
  BY <1>1, <1>2, <1>3, DisplayInit, DisplayStep, TornStep, PTL DEF Spec
-----------------------------------------------------------------------------
(* The card and OTA_1                                                      *)

States == {"none", "empty", "ready", "sending", "doEsp", "didEsp"}
NoPart == "part" \notin {stmBin, espBin}
Complete == NoPart /\ sum = "new" /\ "new" \in {stmBin, espBin}

\* Where the state file has just been rewritten, or is about to be.
Updating == {"cancel", "cancelled", "init", "entered", "begin", "prepare", "awaitReady", "serve",
             "awaitCopy", "stmDone", "flash", "flashing", "espDone", "fetched", "reset"}

\* The state file names an update only while the card holds all of it, and a step of
\* updating that is about to write that file has found it complete.  OTA_1 becomes the
\* boot partition only after the last write to it, and is copied before the next.
CardInv ==
  /\ state \in States /\ stmBin \in Files /\ espBin \in Files /\ sum \in Files
  /\ state \in {"sending", "doEsp"} => Complete
  /\ state = "ready" /\ (sum # "none" \/ epc # "boot") => Complete
  /\ state = "doEsp" => espBin = "new"
  /\ epc \in {"hello", "running", "pullEsp", "pullStm", "webStm", "webEsp", "checksums"} =>
       state \in {"none", "empty"}
  /\ epc \in Updating => Complete
  /\ epc = "pullStm" => espBin = "new"
  /\ epc = "webStm" => espBin = "none"
  /\ epc = "webEsp" => stmBin = "new"
  /\ epc = "checksums" => NoPart /\ stmBin = "new"
  /\ epc \in {"flash", "flashing", "espDone"} => espBin = "new"
  /\ epc \in {"espDone", "switch"} => ota = "new"
  /\ boot \in {"main", "ota"}
  /\ boot = "ota" => ota = "new" /\ epc = "boot"

LEMMA CardInit == Init => CardInv
BY DEF Init, CardInv, States, Files, NoPart, Complete, Updating

\* The display leaves the card, the ESP's flash and its program counter alone.
LEMMA StmLeavesCard ==
  Stm \/ Overlook \/ StmReset => UNCHANGED <<state, stmBin, espBin, sum, ota, boot, epc>>
BY DEF Stm, Overlook, StmReset, StmBoot, Erase, Copy, Service, StmStart, Retry, Shake, ShakeOk,
       EnterUpdate, StmRunning, LeaveUpdate, BeginUpdate, ImgStart, ImgData, RequestUpdate,
       Progress, card, espFlash, espRun

LEMMA CardStep == CardInv /\ [Next]_vars => CardInv'
<1> SUFFICES ASSUME CardInv, [Next]_vars PROVE CardInv'
  OBVIOUS
<1> USE DEF CardInv, States, Files, NoPart, Complete, Updating, card, espFlash
<1>1. CASE Stm \/ Overlook \/ StmReset
  BY <1>1, StmLeavesCard
<1>2. CASE EspBoot
  BY <1>2 DEF EspBoot, WithoutSums
<1>3. CASE Truncate
  BY <1>3 DEF Truncate, Mark, espRun
<1>4. CASE Put
  BY <1>4 DEF Put, Mark
<1>5. CASE Hello \/ Running \/ Reset
  BY <1>5 DEF Hello, Running, Reset, Fetching
<1>6. CASE StartFetch
  BY <1>6 DEF StartFetch
<1>7. CASE Fetch
  BY <1>7 DEF Fetch, AfterFailure
<1>8. CASE Checksums
  BY <1>8 DEF Checksums
<1>9. CASE Cancel \/ HearInit \/ HearEntered \/ Prepare
  BY <1>9 DEF Cancel, HearInit, HearEntered, Prepare
<1>10. CASE HearNoise \/ HearReady \/ HearCopied
  BY <1>10 DEF HearNoise, HearReady, HearCopied, espRun
<1>11. CASE Serve
  BY <1>11 DEF Serve, AfterAbort
<1>12. CASE Flash \/ Flashed \/ Switch
  BY <1>12 DEF Flash, Flashed, Switch
<1>13. CASE Cleanup
  BY <1>13 DEF Cleanup
<1>14. CASE PowerFail \/ EspReset \/ Unplug
  BY <1>14 DEF PowerFail, EspReset, Unplug, PowerOff
<1>15. CASE UNCHANGED vars
  BY <1>15 DEF vars, espRun
<1> QED
  BY <1>1, <1>2, <1>3, <1>4, <1>5, <1>6, <1>7, <1>8, <1>9, <1>10, <1>11, <1>12, <1>13, <1>14,
     <1>15 DEF Next, Esp

\* Whatever is interrupted, an update that the state file announces is on the card
\* in full, with its checksums.
THEOREM CardTrustedTheorem == Spec => []CardTrusted
<1>1. CardInv => CardTrusted
  BY DEF CardInv, CardTrusted, Complete, NoPart
<1> QED
  BY <1>1, CardInit, CardStep, PTL DEF Spec

\* Whatever is interrupted, the ESP boots from OTA_1 only a program flashed to the end.
THEOREM BootsWholeTheorem == Spec => []BootsWhole
<1>1. CardInv => BootsWhole
  BY DEF CardInv, BootsWhole
<1> QED
  BY <1>1, CardInit, CardStep, PTL DEF Spec

-----------------------------------------------------------------------------
(* Types                                                                   *)

Kinds == Statuses \cup {"init", "resp", "ok", "uok", "reset", "cancel", "skip", "prepare",
                         "start", "sector", "copying", "completed"}
Packet == [k : Kinds, fast : BOOLEAN]
Chunk == [k : {"data"}, fast : BOOLEAN, chunk : 0..Chunks]

Wires == toStm \in Seq(Packet \cup Chunk) /\ toEsp \in Seq(Packet)
Types == TypeOK /\ Wires

LEMMA StmPacket ==
  ASSUME TypeOK, Wires, NEW k \in Kinds, SendStm(k)
  PROVE  toStm' \in Seq(Packet \cup Chunk)
BY DEF TypeOK, Wires, SendStm, Packet

LEMMA EspPacket ==
  ASSUME TypeOK, Wires, NEW k \in Kinds, SendEsp(k)
  PROVE  toEsp' \in Seq(Packet)
BY DEF TypeOK, Wires, SendEsp, Packet

LEMMA Empties == <<>> \in Seq(Packet \cup Chunk) /\ <<>> \in Seq(Packet) /\ <<>> \in Seq(0..Chunks)
OBVIOUS

\* What is next on either wire, and what is left of it.
LEMMA Next1 ==
  /\ Wires /\ EspNext => Head(toEsp) \in Packet /\ toEsp' \in Seq(Packet)
  /\ Wires /\ StmNext => Head(toStm) \in Packet \cup Chunk /\ toStm' \in Seq(Packet \cup Chunk)
<1>1. ASSUME NEW S, NEW s \in Seq(S), s # <<>>
      PROVE  Head(s) \in S /\ Tail(s) \in Seq(S)
  BY <1>1
<1> QED
  BY <1>1 DEF Wires, EspNext, StmNext

LEMMA TypesInit == Init => Types
<1>1. 0 < Width
  BY DEF Width
<1>2. Init => Wires /\ update \in Seq(0..Chunks)
  BY Empties DEF Init, Wires
<1>3. Init => efast \in BOOLEAN /\ hs \in BOOLEAN /\ sfast \in BOOLEAN /\ didUpdate \in BOOLEAN
  BY Zenon DEF Init
<1>4. Init => stmBin \in Files /\ espBin \in Files /\ sum \in Files
  BY DEF Init, Files
<1>5. Init => read \in 0..Chunks /\ size \in 0..Chunks /\ remaining \in Nat /\ remaining < Width
  BY <1>1, FirmwareUpdateAssumption DEF FirmwareUpdateAssumption, Init
<1> QED
  BY <1>2, <1>3, <1>4, <1>5 DEF Init, Types, TypeOK, EspPCs, StmPCs, AppPCs

Rates == efast \in BOOLEAN /\ hs \in BOOLEAN /\ sfast \in BOOLEAN /\ didUpdate \in BOOLEAN

LEMMA RatesStep == Rates /\ [Next]_vars => Rates'
<1> SUFFICES ASSUME Rates, [Next]_vars PROVE Rates'
  OBVIOUS
<1> USE DEF Rates, espRun, stmRun, rtc
<1>1. CASE EspBoot
  BY <1>1, Zenon DEF EspBoot
<1>2. CASE Truncate \/ Put
  BY <1>2, Zenon DEF Truncate, Put
<1>3. CASE Hello
  BY <1>3, Zenon DEF Hello
<1>4. CASE Running \/ StartFetch \/ Fetch \/ Checksums \/ Reset \/ Cancel
  BY <1>4, Zenon DEF Running, StartFetch, Fetch, Checksums, Reset, Cancel
<1>5. CASE HearInit \/ HearEntered \/ Prepare \/ HearNoise \/ HearReady \/ Serve \/ HearCopied
  BY <1>5, Zenon DEF HearInit, HearEntered, Prepare, HearNoise, HearReady, Serve, HearCopied
<1>6. CASE Flash \/ Flashed \/ Switch \/ Cleanup
  BY <1>6, Zenon DEF Flash, Flashed, Switch, Cleanup
<1>7. CASE StmBoot \/ Erase \/ Copy \/ Service \/ StmStart \/ Retry \/ Shake \/ Overlook
  BY <1>7, Zenon DEF StmBoot, Erase, Copy, Service, StmStart, UpdateRate, Retry, Shake,
                     Overlook
<1>8. CASE ShakeOk \/ EnterUpdate \/ StmRunning \/ LeaveUpdate \/ BeginUpdate \/ ImgStart
  BY <1>8, Zenon DEF ShakeOk, EnterUpdate, UpdateRate, StmRunning, LeaveUpdate, BeginUpdate, ImgStart
<1>9. CASE ImgData \/ RequestUpdate \/ Progress
  BY <1>9, Zenon DEF ImgData, RequestUpdate, Progress
<1>10. CASE PowerFail \/ EspReset \/ StmReset \/ Unplug
  BY <1>10, Zenon DEF PowerFail, EspReset, StmReset, Unplug, PowerOff
<1>11. CASE UNCHANGED vars
  BY <1>11, Zenon DEF vars
<1> QED
  BY <1>1, <1>2, <1>3, <1>4, <1>5, <1>6, <1>7, <1>8, <1>9, <1>10, <1>11 DEF Next, Esp, Stm

LEMMA TypesStep == CardInv /\ Types /\ [Next]_vars => Types'
<1> SUFFICES ASSUME CardInv, TypeOK, Wires, [Next]_vars PROVE TypeOK' /\ Wires'
  BY DEF Types
<1>a. Rates'
  BY RatesStep DEF TypeOK, Rates
<1>b. 0 < Width
  BY DEF Width
<1> USE <1>a, <1>b DEF Rates
<1> USE FirmwareUpdateAssumption
    DEF FirmwareUpdateAssumption, Files, EspPCs, StmPCs, AppPCs, Fetching, Kinds, Statuses
<1> USE DEF card, espFlash, espRun, stmFlash, rtc, stmRun
<1>1. CASE EspBoot
  <2>1. Installed \in {"old", "new"}
    BY DEF TypeOK, Installed, CardInv
  <2>2. toEsp' \in Seq(Packet)
    BY <1>1, Empties DEF EspBoot, Wires
  <2>3. epc' \in EspPCs /\ state' \in States
    BY <1>1 DEF EspBoot, WithoutSums, States, TypeOK
  <2> QED
    BY <1>1, <2>1, <2>2, <2>3 DEF EspBoot, WithoutSums, TypeOK, Wires, States
<1>2. CASE Truncate \/ Put
  BY <1>2 DEF Truncate, Put, Mark, TypeOK, Wires
<1>3. CASE Hello \/ Running \/ HearNoise \/ HearCopied
  <2>1. toEsp' \in Seq(Packet)
    BY <1>3, Next1 DEF Hello, Running, HearNoise, HearCopied, EspHears
  <2>2. toStm' \in Seq(Packet \cup Chunk)
    <3>1. CASE SendStm("resp")
      BY <3>1, StmPacket
    <3>2. CASE toStm' = toStm
      BY <3>2 DEF Wires
    <3> QED
      BY <1>3, <3>1, <3>2 DEF Hello, Running, HearNoise, HearCopied
  <2>3. CASE Hello
    BY <2>1, <2>2, <2>3 DEF Hello, TypeOK, Wires
  <2>4. CASE Running
    BY <2>1, <2>2, <2>4 DEF Running, TypeOK, Wires
  <2>5. CASE HearNoise
    BY <2>1, <2>2, <2>5 DEF HearNoise, TypeOK, Wires
  <2>6. CASE HearCopied
    BY <2>1, <2>2, <2>6 DEF HearCopied, TypeOK, Wires
  <2> QED
    BY <1>3, <2>3, <2>4, <2>5, <2>6
<1>4. CASE StartFetch \/ Fetch \/ Checksums
  BY <1>4 DEF StartFetch, Fetch, AfterFailure, Checksums, TypeOK, Wires
<1>5. CASE Reset \/ Cancel \/ Prepare
  <2>1. toStm' \in Seq(Packet \cup Chunk)
    BY <1>5, StmPacket DEF Reset, Cancel, Prepare
  <2> QED
    BY <1>5, <2>1 DEF Reset, Cancel, Prepare, TypeOK, Wires
<1>6. CASE HearInit \/ HearEntered \/ HearReady
  <2>1. toEsp' \in Seq(Packet)
    BY <1>6, Next1 DEF HearInit, HearEntered, HearReady, EspHears
  <2>2. toStm' \in Seq(Packet \cup Chunk)
    <3>1. CASE SendStm("uok") \/ SendStm("skip") \/ SendStm("start")
      BY <3>1, StmPacket
    <3>2. CASE toStm' = toStm
      BY <3>2 DEF Wires
    <3> QED
      BY <1>6, <3>1, <3>2 DEF HearInit, HearEntered, HearReady
  <2> QED
    BY <1>6, <2>1, <2>2 DEF HearInit, HearEntered, HearReady, TypeOK, Wires
<1>7. CASE Serve
  <2>1. toEsp' \in Seq(Packet)
    BY <1>7, Next1 DEF Serve, EspHears
  <2>2. ASSUME NEW n \in 0..Chunks, toStm' = Append(toStm, Data(n))
        PROVE  toStm' \in Seq(Packet \cup Chunk)
    <3>1. Data(n) \in Chunk
      BY DEF Data, Chunk, TypeOK
    <3> QED
      BY <2>2, <3>1 DEF Wires
  <2>3. read \in 0..Chunks /\ (read < Chunks => read + 1 \in 0..Chunks)
    BY DEF TypeOK
  <2>4. toStm' \in Seq(Packet \cup Chunk)
    <3>1. \/ read < Chunks /\ toStm' = Append(toStm, Data(read + 1))
          \/ toStm' = Append(toStm, Data(read)) \/ toStm' = toStm
      BY <1>7 DEF Serve, Again
    <3>2. CASE toStm' = toStm
      BY <3>2 DEF Wires
    <3> QED
      BY <2>2, <2>3, <3>1, <3>2
  <2> QED
    BY <1>7, <2>1, <2>3, <2>4 DEF Serve, AfterAbort, TypeOK, Wires
<1>8. CASE Flash \/ Flashed \/ Switch
  <2>1. toStm' \in Seq(Packet \cup Chunk)
    <3>1. CASE SendStm("sector") \/ SendStm("copying")
      BY <3>1, StmPacket
    <3>2. CASE toStm' = toStm
      BY <3>2 DEF Wires
    <3> QED
      BY <1>8, <3>1, <3>2 DEF Flash, Flashed, Switch
  <2> QED
    BY <1>8, <2>1 DEF Flash, Flashed, Switch, CardInv, TypeOK, Wires
<1>9. CASE Cleanup
  <2>1. [i \in 1..3 |-> [k |-> "completed", fast |-> efast]] \in Seq(Packet \cup Chunk)
    BY DEF TypeOK, Packet
  <2>2. toStm' \in Seq(Packet \cup Chunk)
    <3>1. ASSUME NEW S, NEW s \in Seq(S), NEW t \in Seq(S) PROVE s \o t \in Seq(S)
      OBVIOUS
    <3> QED
      BY <1>9, <2>1, <3>1 DEF Cleanup, Wires
  <2> QED
    BY <1>9, <2>2 DEF Cleanup, TypeOK, Wires
<1>10. CASE StmBoot \/ Erase \/ Copy \/ Service
  BY <1>10 DEF StmBoot, Erase, Copy, Copied, Service, TypeOK, Wires
<1>11. CASE StmStart \/ EnterUpdate
  <2>1. toEsp' \in Seq(Packet)
    <3>1. CASE SendEsp("init")
      BY <3>1, EspPacket
    <3>2. ASSUME NEW k \in Kinds, toEsp' = Append(toEsp, [k |-> k, fast |-> TRUE])
          PROVE  toEsp' \in Seq(Packet)
      BY <3>2 DEF Wires, Packet
    <3> QED
      BY <1>11, <3>1, <3>2 DEF StmStart, EnterUpdate, UpdateRate
  <2> QED
    BY <1>11, <2>1 DEF StmStart, EnterUpdate, UpdateRate, TypeOK, Wires
<1>12. CASE Retry \/ ShakeOk \/ Overlook
  <2>1. toEsp' \in Seq(Packet)
    BY <1>12, EspPacket DEF Retry, ShakeOk, Overlook
  <2> QED
    BY <1>12, <2>1 DEF Retry, ShakeOk, Overlook, TypeOK, Wires
<1>13. CASE Shake \/ StmRunning \/ LeaveUpdate \/ Progress
  <2>1. toStm' \in Seq(Packet \cup Chunk)
    BY <1>13, Next1 DEF Shake, StmRunning, LeaveUpdate, Progress, StmHears, Wires
  <2> QED
    BY <1>13, <2>1 DEF Shake, StmRunning, LeaveUpdate, Progress, TypeOK, Wires
<1>14. CASE BeginUpdate \/ ImgStart
  <2>1. toStm' \in Seq(Packet \cup Chunk)
    BY <1>14, Next1 DEF BeginUpdate, ImgStart, StmHears
  <2>2. toEsp' \in Seq(Packet)
    BY <1>14, EspPacket DEF BeginUpdate, ImgStart
  <2>3. update' \in Seq(0..Chunks)
    BY <1>14, Empties DEF BeginUpdate, ImgStart, TypeOK
  <2>4. remaining' \in Nat /\ remaining' < Width
    BY <1>14 DEF BeginUpdate, ImgStart, TypeOK
  <2>5. spc' = spc /\ UNCHANGED <<card, espFlash, espRun, app, rtc, sfast>>
    BY <1>14 DEF BeginUpdate, ImgStart
  <2> QED
    BY <2>1, <2>2, <2>3, <2>4, <2>5 DEF TypeOK, Wires
<1>15. CASE ImgData
  <2>1. toStm' \in Seq(Packet \cup Chunk) /\ Head(toStm) \in Chunk
    BY <1>15, Next1 DEF ImgData, StmHears, Packet, Chunk
  <2>2. toEsp' \in Seq(Packet)
    <3>1. CASE SendEsp("resend") \/ SendEsp("readyChunk") \/ SendEsp("abort")
      BY <3>1, EspPacket
    <3>2. CASE toEsp' = toEsp
      BY <3>2 DEF Wires
    <3> QED
      BY <1>15, <3>1, <3>2 DEF ImgData
  <2>3. update' \in Seq(0..Chunks)
    <3>1. Head(toStm).chunk \in 0..Chunks
      BY <2>1 DEF Chunk
    <3>2. ASSUME NEW c \in 0..Chunks PROVE Append(update, c) \in Seq(0..Chunks)
      BY DEF TypeOK
    <3>3. 0 \in 0..Chunks
      OBVIOUS
    <3>4. \/ update' = update \/ update' = Append(update, 0)
          \/ update' = Append(update, Head(toStm).chunk)
      BY <1>15 DEF ImgData, Written
    <3> QED
      BY <3>1, <3>2, <3>3, <3>4 DEF TypeOK
  <2>4. remaining' \in Nat /\ remaining' < Width
    <3>1. Width \in Nat \ {0}
      BY DEF Width
    <3> QED
      BY <1>15, <3>1 DEF ImgData, TypeOK
  <2> QED
    BY <1>15, <2>1, <2>2, <2>3, <2>4 DEF ImgData, TypeOK, Wires
<1>16. CASE RequestUpdate
  <2>1. toEsp' \in Seq(Packet)
    <3>1. CASE SendEsp("beginning")
      BY <3>1, EspPacket
    <3>2. CASE toEsp' = toEsp
      BY <3>2 DEF Wires
    <3> QED
      BY <1>16, <3>1, <3>2 DEF RequestUpdate
  <2> QED
    BY <1>16, <2>1 DEF RequestUpdate, TypeOK, Wires
<1>17. CASE PowerFail \/ EspReset \/ StmReset \/ Unplug
  <2>1. toStm' \in Seq(Packet \cup Chunk) /\ toEsp' \in Seq(Packet)
    BY <1>17, Empties DEF PowerFail, EspReset, StmReset, Unplug, PowerOff, Wires
  <2> QED
    BY <1>17, <2>1 DEF PowerFail, EspReset, StmReset, Unplug, PowerOff, TypeOK, Wires
<1>18. CASE UNCHANGED vars
  BY <1>18 DEF vars, TypeOK, Wires
<1> QED
  BY <1>1, <1>2, <1>3, <1>4, <1>5, <1>6, <1>7, <1>8, <1>9, <1>10, <1>11, <1>12, <1>13, <1>14,
     <1>15, <1>16, <1>17, <1>18 DEF Next, Esp, Stm

\* Every variable keeps its type: no chunk that was never sent is written, and
\* what is copied over the ESP's program is a whole program.
THEOREM TypeCorrect == Spec => []TypeOK
<1>1. Types => TypeOK
  BY DEF Types
<1> QED
  BY <1>1, CardInit, CardStep, TypesInit, TypesStep, PTL DEF Spec

-----------------------------------------------------------------------------
(* What a packet on a wire follows and is followed by                      *)

\* Something of K is on the wire q.
Has(q, K) == \E i \in 1..Len(q) : q[i].k \in K

\* Nothing of L after something of K.
After(q, K, L) == \A i, j \in 1..Len(q) : i < j /\ q[i].k \in K => q[j].k \notin L

OnlyInits(q) == \A i \in 1..Len(q) : q[i].k = "init"
Slow(q) == \A i \in 1..Len(q) : q[i].k = "init" => ~q[i].fast

\* A status is the announcement of the update mode, with nothing behind it (Last), or
\* nothing but the display starting again (Fresh); or one that follows an init is.
LastNow(q) == \A j \in 1..Len(q) : q[j].k \in Statuses => j = Len(q)
Last(q) == \A i, j \in 1..Len(q) :
             i < j /\ q[i].k = "init" /\ q[j].k \in Statuses => j = Len(q)
FreshNow(q) == \A j \in 1..Len(q) : q[j].k \in Statuses =>
                 q[j].k = "entered" /\ \A l \in 1..Len(q) : j < l => q[l].k = "init"
Fresh(q) == \A i, j \in 1..Len(q) : i < j /\ q[i].k = "init" /\ q[j].k \in Statuses =>
              q[j].k = "entered" /\ \A l \in 1..Len(q) : j < l => q[l].k = "init"

Fast(k) == [k |-> k, fast |-> TRUE]
\* A status, and nothing behind it but the display starting again.
Then(k, q) == q # <<>> /\ Head(q) = Fast(k) /\ OnlyInits(Tail(q))
\* The order to prepare, behind answers that are no longer wanted.
Ordered(q) ==
  /\ q # <<>> /\ q[Len(q)] = Fast("prepare")
  /\ \A i \in 1..Len(q) : i # Len(q) => q[i].k = "uok"

\* What the prover knows of Tail and Append, in one place.
LEMMA TailIs ==
  ASSUME NEW S, NEW q \in Seq(S), q # <<>>
  PROVE  /\ Len(q) \in Nat \ {0} /\ Len(Tail(q)) = Len(q) - 1 /\ Tail(q) \in Seq(S)
         /\ Head(q) = q[1] /\ Head(q) \in S
         /\ \A i \in 1..Len(q) - 1 : Tail(q)[i] = q[i + 1]
OBVIOUS

LEMMA AppendIs ==
  ASSUME NEW S, NEW q \in Seq(S), NEW m
  PROVE  /\ Len(q) \in Nat /\ Len(Append(q, m)) = Len(q) + 1
         /\ \A i \in 1..Len(q) : Append(q, m)[i] = q[i]
         /\ Append(q, m)[Len(q) + 1] = m
OBVIOUS

\* What is on a wire is next or behind it; what is added comes last.
LEMMA HasTail ==
  ASSUME NEW S, NEW q \in Seq(S), q # <<>>, NEW K
  PROVE  Has(q, K) <=> Head(q).k \in K \/ Has(Tail(q), K)
<1> PICK n, r : n \in Nat \ {0} /\ n = Len(q) /\ r = Tail(q)
  BY TailIs
<1>1. Len(r) = n - 1 /\ Head(q) = q[1] /\ \A i \in 1..n - 1 : r[i] = q[i + 1]
  BY TailIs
<1>2. ASSUME NEW i \in 1..n, q[i].k \in K PROVE Head(q).k \in K \/ Has(r, K)
  <2>1. CASE i = 1
    BY <1>1, <1>2, <2>1
  <2>2. CASE i # 1
    <3>1. i - 1 \in 1..n - 1 /\ r[i - 1] = q[i]
      BY <1>1, <2>2
    <3> QED
      BY <1>1, <1>2, <3>1 DEF Has
  <2> QED
    BY <2>1, <2>2
<1>3. ASSUME Head(q).k \in K PROVE Has(q, K)
  BY <1>1, <1>3 DEF Has
<1>4. ASSUME NEW i \in 1..n - 1, r[i].k \in K PROVE Has(q, K)
  <2>1. i + 1 \in 1..n /\ q[i + 1].k \in K
    BY <1>1, <1>4
  <2> QED
    BY <2>1 DEF Has
<1> QED
  BY <1>1, <1>2, <1>3, <1>4 DEF Has

LEMMA HasAppend ==
  ASSUME NEW S, NEW q \in Seq(S), NEW m, NEW K
  PROVE  Has(Append(q, m), K) <=> Has(q, K) \/ m.k \in K
<1> PICK n, r : n \in Nat /\ n = Len(q) /\ r = Append(q, m)
  BY AppendIs
<1>1. Len(r) = n + 1 /\ r[n + 1] = m /\ \A i \in 1..n : r[i] = q[i]
  BY AppendIs
<1>2. ASSUME NEW i \in 1..n + 1, r[i].k \in K PROVE Has(q, K) \/ m.k \in K
  BY <1>1, <1>2 DEF Has
<1>3. ASSUME m.k \in K PROVE Has(r, K)
  <2>1. n + 1 \in 1..n + 1
    OBVIOUS
  <2> QED
    BY <1>1, <1>3, <2>1 DEF Has
<1>4. ASSUME NEW i \in 1..n, q[i].k \in K PROVE Has(r, K)
  <2>1. i \in 1..n + 1
    OBVIOUS
  <2> QED
    BY <1>1, <1>4, <2>1 DEF Has
<1> QED
  BY <1>1, <1>2, <1>3, <1>4 DEF Has

\* The order of what is on a wire outlives what is taken from it and added to it.
LEMMA AfterTail ==
  ASSUME NEW S, NEW q \in Seq(S), q # <<>>, NEW K, NEW L, After(q, K, L)
  PROVE  After(Tail(q), K, L) /\ (Head(q).k \in K => ~Has(Tail(q), L))
<1> PICK n, r : n \in Nat \ {0} /\ n = Len(q) /\ r = Tail(q)
  BY TailIs
<1>1. Len(r) = n - 1 /\ Head(q) = q[1] /\ \A i \in 1..n - 1 : r[i] = q[i + 1]
  BY TailIs
<1>2. \A i, j \in 1..n : i < j /\ q[i].k \in K => q[j].k \notin L
  BY DEF After
<1>3. ASSUME NEW i \in 1..n - 1, NEW j \in 1..n - 1, i < j, r[i].k \in K PROVE r[j].k \notin L
  <2>1. i + 1 \in 1..n /\ j + 1 \in 1..n /\ i + 1 < j + 1
    BY <1>3
  <2> QED
    BY <1>1, <1>2, <1>3, <2>1
<1>4. ASSUME NEW j \in 1..n - 1, Head(q).k \in K PROVE r[j].k \notin L
  <2>1. 1 \in 1..n /\ j + 1 \in 1..n /\ 1 < j + 1
    OBVIOUS
  <2> QED
    BY <1>1, <1>2, <1>4, <2>1
<1> QED
  BY <1>1, <1>3, <1>4 DEF After, Has

LEMMA AfterAppend ==
  ASSUME NEW S, NEW q \in Seq(S), NEW m, NEW K, NEW L, After(q, K, L), m.k \in L => ~Has(q, K)
  PROVE  After(Append(q, m), K, L)
<1> PICK n, r : n \in Nat /\ n = Len(q) /\ r = Append(q, m)
  BY AppendIs
<1>1. Len(r) = n + 1 /\ r[n + 1] = m /\ \A i \in 1..n : r[i] = q[i]
  BY AppendIs
<1>2. ASSUME NEW i \in 1..n + 1, NEW j \in 1..n + 1, i < j, r[i].k \in K PROVE r[j].k \notin L
  <2>1. i \in 1..n /\ r[i] = q[i]
    BY <1>1, <1>2
  <2>2. CASE j = n + 1
    BY <1>1, <1>2, <2>1, <2>2 DEF Has
  <2>3. CASE j \in 1..n
    BY <1>1, <1>2, <2>1, <2>3 DEF After
  <2> QED
    BY <2>2, <2>3
<1> QED
  BY <1>1, <1>2 DEF After

\* All of this holds of a wire with nothing on it.
LEMMA EmptyWire ==
  ASSUME NEW K, NEW L
  PROVE  /\ ~Has(<<>>, K) /\ After(<<>>, K, L) /\ OnlyInits(<<>>) /\ Slow(<<>>)
         /\ Last(<<>>) /\ LastNow(<<>>) /\ Fresh(<<>>) /\ FreshNow(<<>>)
BY DEF Has, After, OnlyInits, Slow, Last, LastNow, Fresh, FreshNow

LEMMA InitsTail ==
  ASSUME NEW S, NEW q \in Seq(S), q # <<>>
  PROVE  /\ OnlyInits(q) => Head(q).k = "init" /\ OnlyInits(Tail(q))
         /\ Slow(q) => Slow(Tail(q)) /\ (Head(q).k = "init" => ~Head(q).fast)
<1> PICK n, r : n \in Nat \ {0} /\ n = Len(q) /\ r = Tail(q)
  BY TailIs
<1>1. Len(r) = n - 1 /\ Head(q) = q[1] /\ \A i \in 1..n - 1 : r[i] = q[i + 1]
  BY TailIs
<1>2. 1 \in 1..n /\ \A i \in 1..n - 1 : i + 1 \in 1..n
  OBVIOUS
<1> QED
  BY <1>1, <1>2 DEF OnlyInits, Slow

LEMMA InitsAppend ==
  ASSUME NEW S, NEW q \in Seq(S), NEW m
  PROVE  /\ OnlyInits(q) /\ m.k = "init" => OnlyInits(Append(q, m))
         /\ Slow(q) /\ (m.k = "init" => ~m.fast) => Slow(Append(q, m))
<1> PICK n, r : n \in Nat /\ n = Len(q) /\ r = Append(q, m)
  BY AppendIs
<1>1. Len(r) = n + 1 /\ r[n + 1] = m /\ \A i \in 1..n : r[i] = q[i]
  BY AppendIs
<1>2. \A i \in 1..n + 1 : i \in 1..n \/ i = n + 1
  OBVIOUS
<1> QED
  BY <1>1, <1>2 DEF OnlyInits, Slow

LEMMA FreshTail ==
  ASSUME NEW S, NEW q \in Seq(S), q # <<>>
  PROVE  /\ Last(q) => Last(Tail(q)) /\ (Head(q).k = "init" => LastNow(Tail(q)))
         /\ LastNow(q) => LastNow(Tail(q)) /\ (Head(q).k \in Statuses => Tail(q) = <<>>)
         /\ Fresh(q) => Fresh(Tail(q)) /\ (Head(q).k = "init" => FreshNow(Tail(q)))
         /\ FreshNow(q) => /\ FreshNow(Tail(q))
                           /\ Head(q).k \in Statuses => Head(q).k = "entered" /\ OnlyInits(Tail(q))
<1> PICK n \in Nat \ {0}, r \in Seq(S) : n = Len(q) /\ r = Tail(q)
  BY TailIs
<1>1. Len(r) = n - 1 /\ Head(q) = q[1] /\ \A i \in 1..n - 1 : r[i] = q[i + 1]
  BY TailIs
<1>2. \A i \in 1..n - 1 : i + 1 \in 1..n /\ 1 < i + 1
  OBVIOUS
<1>3. \A i, j \in 1..n - 1 : i < j => i + 1 < j + 1
  OBVIOUS
<1>4. \A j \in 1..n - 1 : j + 1 = n => j = n - 1
  OBVIOUS
<1>5. 1 \in 1..n
  OBVIOUS
<1>6. ASSUME Last(q) PROVE Last(r) /\ (Head(q).k = "init" => LastNow(r))
  BY <1>1, <1>2, <1>3, <1>4, <1>5, <1>6 DEF Last, LastNow
<1>7. ASSUME LastNow(q) PROVE LastNow(r) /\ (Head(q).k \in Statuses => r = <<>>)
  <2>1. LastNow(r)
    BY <1>1, <1>2, <1>4, <1>7 DEF LastNow
  <2>2. ASSUME Head(q).k \in Statuses PROVE r = <<>>
    <3>1. n = 1
      BY <1>1, <1>5, <1>7, <2>2 DEF LastNow
    <3>2. Len(r) = 0
      BY <1>1, <3>1
    <3> QED
      BY <3>2
  <2> QED
    BY <2>1, <2>2
<1>8. ASSUME Fresh(q) PROVE Fresh(r) /\ (Head(q).k = "init" => FreshNow(r))
  <2>1. ASSUME NEW i \in 1..n, NEW j \in 1..n, i < j, q[i].k = "init", q[j].k \in Statuses
        PROVE  q[j].k = "entered" /\ \A l \in 1..n : j < l => q[l].k = "init"
    BY <1>8, <2>1 DEF Fresh
  <2>2. ASSUME NEW j \in 1..n - 1, r[j].k \in Statuses,
               NEW i \in 1..n, i < j + 1, q[i].k = "init"
        PROVE  r[j].k = "entered" /\ \A l \in 1..n - 1 : j < l => r[l].k = "init"
    <3>1. j + 1 \in 1..n /\ q[j + 1] = r[j]
      BY <1>1, <1>2
    <3>2. q[j + 1].k = "entered" /\ \A l \in 1..n : j + 1 < l => q[l].k = "init"
      BY <2>1, <2>2, <3>1
    <3> QED
      BY <1>1, <1>2, <1>3, <3>1, <3>2
  <2>3. Fresh(r)
    <3> SUFFICES ASSUME NEW i \in 1..n - 1, NEW j \in 1..n - 1, i < j, r[i].k = "init",
                        r[j].k \in Statuses
                 PROVE  r[j].k = "entered" /\ \A l \in 1..n - 1 : j < l => r[l].k = "init"
      BY <1>1 DEF Fresh
    <3>1. i + 1 \in 1..n /\ i + 1 < j + 1 /\ q[i + 1].k = "init"
      BY <1>1, <1>2, <1>3
    <3> QED
      BY <2>2, <3>1
  <2>4. ASSUME Head(q).k = "init" PROVE FreshNow(r)
    <3> SUFFICES ASSUME NEW j \in 1..n - 1, r[j].k \in Statuses
                 PROVE  r[j].k = "entered" /\ \A l \in 1..n - 1 : j < l => r[l].k = "init"
      BY <1>1 DEF FreshNow
    <3>1. 1 \in 1..n /\ 1 < j + 1 /\ q[1].k = "init"
      BY <1>1, <1>2, <1>5, <2>4
    <3> QED
      BY <2>2, <3>1
  <2> QED
    BY <2>3, <2>4
<1>9. ASSUME FreshNow(q)
      PROVE  FreshNow(r) /\ (Head(q).k \in Statuses => Head(q).k = "entered" /\ OnlyInits(r))
  <2>1. ASSUME NEW j \in 1..n, q[j].k \in Statuses
        PROVE  q[j].k = "entered" /\ \A l \in 1..n : j < l => q[l].k = "init"
    BY <1>9, <2>1 DEF FreshNow
  <2>2. FreshNow(r)
    <3> SUFFICES ASSUME NEW j \in 1..n - 1, r[j].k \in Statuses
                 PROVE  r[j].k = "entered" /\ \A l \in 1..n - 1 : j < l => r[l].k = "init"
      BY <1>1 DEF FreshNow
    <3>1. q[j + 1].k = "entered" /\ \A l \in 1..n : j + 1 < l => q[l].k = "init"
      BY <1>1, <1>2, <2>1
    <3> QED
      BY <1>1, <1>2, <1>3, <3>1
  <2>3. ASSUME Head(q).k \in Statuses PROVE Head(q).k = "entered" /\ OnlyInits(r)
    <3>1. q[1].k = "entered" /\ \A l \in 1..n : 1 < l => q[l].k = "init"
      BY <1>1, <1>5, <2>1, <2>3
    <3> QED
      BY <1>1, <1>2, <3>1 DEF OnlyInits
  <2> QED
    BY <2>2, <2>3
<1> QED
  BY <1>6, <1>7, <1>8, <1>9

LEMMA FreshAppend ==
  ASSUME NEW S, NEW q \in Seq(S), NEW m
  PROVE  /\ m.k = "init" => /\ Fresh(q) => Fresh(Append(q, m))
                            /\ FreshNow(q) => FreshNow(Append(q, m))
         /\ /\ After(q, {"init"}, Statuses) \/ ~Has(q, {"init"})
            /\ m.k \in Statuses /\ Has(q, {"init"}) => m.k = "entered"
            => Fresh(Append(q, m)) /\ Last(Append(q, m))
         /\ ~Has(q, Statuses) /\ (m.k \in Statuses => m.k = "entered") =>
              FreshNow(Append(q, m)) /\ LastNow(Append(q, m))
<1> PICK n, r : n \in Nat /\ n = Len(q) /\ r = Append(q, m)
  BY AppendIs
<1>1. Len(r) = n + 1 /\ r[n + 1] = m /\ \A i \in 1..n : r[i] = q[i]
  BY AppendIs
<1>2. \A i \in 1..n + 1 : i \in 1..n \/ i = n + 1
  OBVIOUS
<1>3. \A i, j \in 1..n + 1 : i < j => i \in 1..n
  OBVIOUS
<1>4. "init" \notin Statuses
  BY DEF Statuses
<1>5. ASSUME m.k = "init", FreshNow(q) PROVE FreshNow(r)
  <2> SUFFICES ASSUME NEW j \in 1..n + 1, r[j].k \in Statuses
               PROVE  r[j].k = "entered" /\ \A l \in 1..n + 1 : j < l => r[l].k = "init"
    BY <1>1 DEF FreshNow
  <2>1. j \in 1..n
    BY <1>1, <1>2, <1>4, <1>5
  <2>2. q[j].k = "entered" /\ \A l \in 1..n : j < l => q[l].k = "init"
    BY <1>1, <1>5, <2>1 DEF FreshNow
  <2> QED
    BY <1>1, <1>2, <1>5, <2>1, <2>2
<1>6. ASSUME m.k = "init", Fresh(q) PROVE Fresh(r)
  <2> SUFFICES ASSUME NEW i \in 1..n + 1, NEW j \in 1..n + 1, i < j, r[i].k = "init",
                      r[j].k \in Statuses
               PROVE  r[j].k = "entered" /\ \A l \in 1..n + 1 : j < l => r[l].k = "init"
    BY <1>1 DEF Fresh
  <2>1. j \in 1..n /\ i \in 1..n
    BY <1>1, <1>2, <1>3, <1>4, <1>6
  <2>2. q[j].k = "entered" /\ \A l \in 1..n : j < l => q[l].k = "init"
    BY <1>1, <1>6, <2>1 DEF Fresh
  <2> QED
    BY <1>1, <1>2, <1>6, <2>1, <2>2
<1>7. ASSUME After(q, {"init"}, Statuses) \/ ~Has(q, {"init"}),
             m.k \in Statuses /\ Has(q, {"init"}) => m.k = "entered"
      PROVE  Fresh(r) /\ Last(r)
  <2> SUFFICES ASSUME NEW i \in 1..n + 1, NEW j \in 1..n + 1, i < j, r[i].k = "init",
                      r[j].k \in Statuses
               PROVE  j = n + 1 /\ r[j].k = "entered"
    BY <1>1 DEF Fresh, Last
  <2>1. i \in 1..n /\ q[i].k = "init"
    BY <1>1, <1>3
  <2>2. Has(q, {"init"})
    BY <2>1 DEF Has
  <2>3. j \notin 1..n
    <3> SUFFICES ASSUME j \in 1..n PROVE FALSE
      OBVIOUS
    <3>1. q[j].k \in Statuses
      BY <1>1
    <3> QED
      BY <1>7, <2>1, <2>2, <3>1 DEF After
  <2> QED
    BY <1>1, <1>2, <1>7, <2>2, <2>3
<1>8. ASSUME ~Has(q, Statuses), m.k \in Statuses => m.k = "entered"
      PROVE  FreshNow(r) /\ LastNow(r)
  <2> SUFFICES ASSUME NEW j \in 1..n + 1, r[j].k \in Statuses
               PROVE  j = n + 1 /\ r[j].k = "entered"
    BY <1>1 DEF FreshNow, LastNow
  <2>1. j \notin 1..n
    BY <1>1, <1>8 DEF Has
  <2> QED
    BY <1>1, <1>2, <1>8, <2>1
<1> QED
  BY <1>5, <1>6, <1>7, <1>8

\* Where only inits are, nothing else is.
LEMMA NothingElse ==
  ASSUME NEW S, NEW q \in Seq(S), OnlyInits(q)
  PROVE  /\ \A K : "init" \notin K => ~Has(q, K)
         /\ ~Has(q, {"init"}) => q = <<>>
<1> PICK n \in Nat : n = Len(q)
  OBVIOUS
<1>1. ASSUME NEW K, "init" \notin K PROVE ~Has(q, K)
  BY <1>1 DEF Has, OnlyInits
<1>2. ASSUME ~Has(q, {"init"}) PROVE n = 0
  <2> SUFFICES ASSUME n # 0 PROVE FALSE
    OBVIOUS
  <2>1. 1 \in 1..n
    OBVIOUS
  <2> QED
    BY <1>2, <2>1 DEF Has, OnlyInits
<1> QED
  BY <1>1, <1>2

LEMMA HasMore == ASSUME NEW q, NEW K, NEW L, K \subseteq L, Has(q, K) PROVE Has(q, L)
BY DEF Has

LEMMA ThenAlone == ASSUME NEW k PROVE Then(k, Append(<<>>, Fast(k))) /\ Append(<<>>, Fast(k)) # <<>>
<1>1. Head(Append(<<>>, Fast(k))) = Fast(k) /\ Tail(Append(<<>>, Fast(k))) = <<>>
  OBVIOUS
<1> QED
  BY <1>1 DEF Then, OnlyInits

LEMMA HeadAppend ==
  ASSUME NEW S, NEW q \in Seq(S), q # <<>>, NEW m \in S
  PROVE  /\ Append(q, m) # <<>> /\ Head(Append(q, m)) = Head(q)
         /\ Tail(Append(q, m)) = Append(Tail(q), m)
<1> DEFINE r == Append(q, m)
           t == Tail(q)
<1>1. r \in Seq(S) /\ t \in Seq(S) /\ Append(t, m) \in Seq(S)
  BY TailIs
<1>2. PICK n \in Nat \ {0} : n = Len(q)
  BY TailIs
<1>3. Len(r) = n + 1 /\ r[n + 1] = m /\ \A i \in 1..n : r[i] = q[i]
  BY <1>2, AppendIs
<1>4. Len(t) = n - 1 /\ (\A i \in 1..n - 1 : t[i] = q[i + 1]) /\ Head(q) = q[1]
  BY <1>2, TailIs
<1> HIDE DEF r, t
<1>5. r # <<>>
  <2>1. Len(r) # 0
    BY <1>3
  <2> QED
    BY <2>1
<1>6. /\ Tail(r) \in Seq(S) /\ Len(Tail(r)) = n /\ Head(r) = r[1]
      /\ \A i \in 1..n : Tail(r)[i] = r[i + 1]
  BY <1>1, <1>3, <1>5, TailIs
<1>7. /\ Len(Append(t, m)) = n /\ Append(t, m)[n] = m
      /\ \A i \in 1..n - 1 : Append(t, m)[i] = t[i]
  BY <1>1, <1>4, AppendIs
<1>8. PICK u \in Seq(S), v \in Seq(S) : u = Tail(r) /\ v = Append(t, m)
  BY <1>1, <1>6
<1>9. ASSUME NEW i \in 1..n PROVE u[i] = v[i]
  <2>1. CASE i = n
    BY <1>3, <1>6, <1>7, <1>8, <2>1
  <2>2. CASE i \in 1..n - 1
    <3>1. i + 1 \in 1..n
      BY <2>2
    <3> QED
      BY <1>3, <1>4, <1>6, <1>7, <1>8, <2>2, <3>1
  <2> QED
    BY <2>1, <2>2
<1>10. Len(u) = n /\ Len(v) = n
  BY <1>6, <1>7, <1>8
<1>11. u = v
  BY <1>9, <1>10
<1>12. 1 \in 1..n
  OBVIOUS
<1>13. Head(r) = Head(q)
  BY <1>3, <1>4, <1>6, <1>12
<1> QED
  BY <1>5, <1>8, <1>11, <1>13 DEF r, t

LEMMA ThenAppend ==
  ASSUME NEW S, NEW q \in Seq(S), NEW m \in S, m.k = "init", NEW k, Then(k, q)
  PROVE  Then(k, Append(q, m))
<1>1. q # <<>> /\ Head(q) = Fast(k) /\ OnlyInits(Tail(q)) /\ Tail(q) \in Seq(S)
  BY TailIs DEF Then
<1>2. OnlyInits(Append(Tail(q), m))
  BY <1>1, InitsAppend
<1> QED
  BY <1>1, <1>2, HeadAppend DEF Then

LEMMA ThenNoInit ==
  ASSUME NEW S, NEW q \in Seq(S), NEW k, Then(k, q), ~Has(q, {"init"})
  PROVE  Tail(q) = <<>>
<1>1. q # <<>> /\ OnlyInits(Tail(q)) /\ Tail(q) \in Seq(S)
  BY TailIs DEF Then
<1>2. ~Has(Tail(q), {"init"})
  BY <1>1, HasTail
<1> QED
  BY <1>1, <1>2, NothingElse

\* An order sent behind answers, and what is left of it as they are read.
LEMMA OrderedAppend ==
  ASSUME NEW S, NEW q \in Seq(S), \A i \in 1..Len(q) : q[i].k = "uok"
  PROVE  Ordered(Append(q, Fast("prepare")))
<1> PICK n, r : n \in Nat /\ n = Len(q) /\ r = Append(q, Fast("prepare"))
  BY AppendIs
<1>1. Len(r) = n + 1 /\ r[n + 1] = Fast("prepare") /\ \A i \in 1..n : r[i] = q[i]
  BY AppendIs
<1>2. r # <<>>
  OBVIOUS
<1>3. \A i \in 1..n + 1 : i # n + 1 => i \in 1..n
  OBVIOUS
<1> QED
  BY <1>1, <1>2, <1>3 DEF Ordered

LEMMA OrderedTail ==
  ASSUME NEW S, NEW q \in Seq(S), Ordered(q)
  PROVE  /\ q # <<>>
         /\ \/ Head(q).k = "uok" /\ Ordered(Tail(q))
            \/ Head(q) = Fast("prepare") /\ Tail(q) = <<>>
<1>1. q # <<>>
  BY DEF Ordered
<1> PICK n \in Nat \ {0}, r \in Seq(S) : n = Len(q) /\ r = Tail(q)
  BY <1>1, TailIs
<1>2. Len(r) = n - 1 /\ Head(q) = q[1] /\ \A i \in 1..n - 1 : r[i] = q[i + 1]
  BY <1>1, TailIs
<1>3. CASE n = 1
  <2>1. r = <<>>
    BY <1>2, <1>3
  <2> QED
    BY <1>1, <1>2, <1>3, <2>1 DEF Ordered
<1>4. CASE n # 1
  <2>1. 1 \in 1..n /\ n - 1 \in 1..n - 1 /\ 1 # n
    BY <1>4
  <2>4. r # <<>>
    <3>1. Len(r) # 0
      BY <1>2, <1>4
    <3> QED
      BY <3>1
  <2>2. Head(q).k = "uok" /\ r[n - 1] = Fast("prepare")
    BY <1>2, <1>4, <2>1 DEF Ordered
  <2>3. \A i \in 1..n - 1 : i # n - 1 => r[i].k = "uok"
    <3>1. \A i \in 1..n - 1 : i # n - 1 => i + 1 \in 1..n /\ i + 1 # n
      OBVIOUS
    <3> QED
      BY <1>2, <3>1 DEF Ordered
  <2> QED
    BY <1>1, <1>2, <2>1, <2>2, <2>3, <2>4 DEF Ordered
<1> QED
  BY <1>3, <1>4

\* One that has no answer in it is the order alone.
LEMMA OrderedAlone ==
  ASSUME NEW S, NEW q \in Seq(S), Ordered(q), ~Has(q, {"uok"})
  PROVE  Head(q) = Fast("prepare") /\ Tail(q) = <<>>
<1>1. q # <<>>
  BY OrderedTail
<1>2. Head(q).k # "uok"
  BY <1>1, HasTail
<1> QED
  BY <1>2, OrderedTail

-----------------------------------------------------------------------------
(* The line during an update                                               *)

Orders == {"prepare", "start", "data"}
Leave == {"cancel", "completed", "reset"}
Others == (Kinds \cup {"data"}) \ {"uok"}
Session == {"begin", "prepare", "awaitReady", "serve", "awaitCopy"}

\* The display is copying, or has copied and not yet said so.
Redoing == \/ spc \in Copying \cup {"service"}
           \/ spc \in {"boot", "start"} /\ (bootcmd = "update" \/ didUpdate)
Engaged == spc \in {"update", "failed", "request"} \cup Requesting \/ Redoing

\* It was reset during an update and starts over.
Lost == "stm" \in Alone /\ ~Engaged /\ spc \in {"boot", "start", "shake"}
Here == spc = "update" \/ Lost

Answered == ~Has(toStm, Others)
Waits == state = "ready" /\ sum = "new" /\ epc \in {"boot", "init", "entered"}

\* The ESP listens at the rate of an update for a display that starts over.
Over == "stm" \in Alone /\ epc = "init" /\ efast

\* Where the two processors are, each on its own.
PlaceInv ==
  /\ spc \in AppPCs \ {"start"} => ~didUpdate
  /\ bootcmd = "update" => ~didUpdate
  /\ spc \in {"update", "failed", "request"} \cup Requesting => sfast
  /\ spc \in {"start", "shake", "sent", "starting"} => ~sfast
  /\ Slow(toEsp)
  /\ epc \in {"entered"} \cup Session => efast
  /\ epc \in {"init", "entered", "begin", "prepare", "awaitReady"} => read = 0
  /\ epc \in {"init", "entered"} => state = "ready"
  /\ state = "doEsp" => epc \in {"boot", "flash", "flashing", "espDone"}

\* The display is not in update mode: no order is on its way to it, and the answer to a
\* handshake only while the ESP waits for it.
Free ==
  /\ ~Has(toStm, Orders)
  /\ After(toStm, {"uok"}, Others)
  /\ spc = "starting" => Answered
  /\ spc = "starting" \/ Has(toStm, {"uok"}) => Waits
  /\ After(toEsp, {"init"}, Statuses)
  /\ epc = "entered" => ~Has(toEsp, Statuses)

\* A display that has left its update mode, and one that lost a session.
ApartInv ==
  ~Engaged => \/ Free
              \/ Lost /\ epc \in Session
              \/ Lost /\ epc = "entered" /\ toStm = <<>>

\* In update mode: the ESP that waits for a status finds the announcement of that mode, if
\* anything, and what makes the display leave is behind every order.
EngagedInv ==
  Engaged =>
    /\ epc = "entered" \/ Has(toEsp, {"init"}) => spc = "update" /\ Answered /\ Waits
    /\ After(toStm, Leave, Orders \cup {"uok"})
    /\ Has(toStm, Leave) => ~Has(toEsp, {"init"})
    /\ Last(toEsp) /\ (epc = "entered" => LastNow(toEsp))

\* A status behind an init announces the update mode, and only inits are behind it.
FreshInv == Fresh(toEsp) /\ (epc = "entered" => FreshNow(toEsp))

\* An ESP that is never reset alone answers one handshake at a time.
SoleInv == "stm" \in Alone =>
  /\ epc \notin Session => ~Has(toStm, Orders)
  /\ \/ Has(toStm, {"uok"}) \/ spc = "starting" \/ Has(toEsp, {"entered"})
     \/ Engaged /\ Has(toEsp, {"init"})
     => epc = "entered"
  /\ epc = "entered" =>
       /\ After(toStm, {"uok"}, Others \cup {"uok"})
       /\ Engaged \/ spc = "starting" \/ Has(toEsp, {"entered"}) => toStm = <<>>
       /\ Has(toEsp, {"entered"}) => Engaged \/ Lost

\* The bootloader is replacing the program, with the size that was asked for, or has.
Copies ==
  \/ spc \in {"boot"} \cup Copying /\ bootcmd = "update" /\ size = Chunks
  \/ spc = "service" /\ bootcmd = "update" /\ size = Chunks /\ app = "new"
  \/ spc = "service" /\ bootcmd = "run" /\ app = "new"
  \/ spc \in {"boot", "start"} /\ bootcmd = "run" /\ didUpdate /\ app = "new"

\* From the announcement of the update mode to the first chunk.
ReadyInv ==
  /\ epc \in {"begin", "prepare"} =>
        /\ (spc = "update" /\ Answered) \/ (Lost /\ toStm = <<>>)
        /\ OnlyInits(toEsp)
  /\ epc = "awaitReady" =>
        \/ OnlyInits(toEsp) /\ spc = "update" /\ Ordered(toStm)
        \/ OnlyInits(toEsp) /\ toStm = <<Fast("prepare")>> /\ Lost
        \/ Then("readyImage", toEsp) /\ toStm = <<>> /\ Here
        \/ OnlyInits(toEsp) /\ toStm = <<>> /\ Lost

Adrift == "stm" \in Alone /\ (Redoing \/ Here)
Piece(n) == [k |-> "data", fast |-> TRUE, chunk |-> n]

\* A chunk is on its way to the display, or the word that chunks will follow.
Asking ==
  \/ toStm = <<Fast("start")>> /\ OnlyInits(toEsp) /\ Here /\ read = 0
  \/ /\ toStm = <<Piece(read)>> /\ OnlyInits(toEsp) /\ Here /\ read > 0
     /\ Engaged => remaining = Chunks - read + 1
\* The display has answered, has nothing to answer, or will answer once it has copied.
Answering ==
  /\ toStm = <<>>
  /\ \/ /\ Then("readyChunk", toEsp) /\ Here /\ read < Chunks
        /\ Engaged => remaining = Chunks - read
     \/ /\ Then("resend", toEsp) /\ Here /\ read > 0
        /\ Engaged => remaining = Chunks - read + 1
     \/ Then("abort", toEsp) /\ (spc = "failed" \/ Lost)
     \/ /\ OnlyInits(toEsp)
        /\ spc \in {"request", "requestSize"} \/ (spc = "tell" /\ size = Chunks) \/ Adrift
     \/ Then("copied", toEsp) /\ Adrift /\ Here
     \/ Then("beginning", toEsp) /\ (Copies \/ Lost)
     \/ /\ toEsp # <<>> /\ Head(toEsp) = Fast("beginning") /\ Then("copied", Tail(toEsp))
        /\ app = "new" /\ Here
\* COPY_COMPLETED is to come, or has come over a whole new program.
Awaiting ==
  /\ toStm = <<>>
  /\ \/ OnlyInits(toEsp) /\ (Copies \/ Lost)
     \/ Then("copied", toEsp) /\ Here /\ app = "new"
ServeInv == (epc = "serve" => Asking \/ Answering) /\ (epc = "awaitCopy" => Awaiting)

\* All of the line.
Line == ApartInv /\ EngagedInv /\ FreshInv /\ SoleInv /\ ReadyInv /\ ServeInv
LineInv == Over \/ Line

\* The ESP believes the display to be done.
Installing == epc \in {"stmDone", "flash", "flashing", "espDone", "switch"} \/ state = "doEsp"
\* Then it is: it runs the new program, and nothing is on its way that could replace it.
DoneInv ==
  Installing /\ stmBin = "new" =>
    app = "new" /\ bootcmd = "run" /\ spc # "request" /\ ~Has(toStm, Orders)

-----------------------------------------------------------------------------
(* What the steps do to the wires                                          *)

\* Nothing of K, nothing after it.
LEMMA NoneAfter == ASSUME NEW q, NEW K, NEW L, ~Has(q, K) PROVE After(q, K, L)
BY DEF Has, After

LEMMA Wiring == Types => toStm \in Seq(Packet \cup Chunk) /\ toEsp \in Seq(Packet)
BY DEF Types, Wires

\* What r carries of what the two sides go by, q carried before.
Fewer(q, r) ==
  /\ Has(r, {"init"}) => Has(q, {"init"})
  /\ Has(r, {"entered"}) => Has(q, {"entered"})
  /\ After(q, {"init"}, Statuses) => After(r, {"init"}, Statuses)
  /\ Fresh(q) => Fresh(r)
  /\ Last(q) => Last(r)

LEMMA FewerSame == ASSUME NEW q PROVE Fewer(q, q)
BY DEF Fewer

LEMMA FewerNone == ASSUME NEW q PROVE Fewer(q, <<>>)
BY EmptyWire DEF Fewer

LEMMA FewerTail == ASSUME NEW S, NEW q \in Seq(S), q # <<>> PROVE Fewer(q, Tail(q))
<1>1. \A K : Has(Tail(q), K) => Has(q, K)
  BY HasTail
<1>2. After(q, {"init"}, Statuses) => After(Tail(q), {"init"}, Statuses)
  BY AfterTail
<1> QED
  BY <1>1, <1>2, FreshTail DEF Fewer

\* r is q and perhaps more, but neither an order nor the answer to a handshake.
More(q, r) ==
  /\ Has(r, Orders) => Has(q, Orders)
  /\ Has(r, {"uok"}) => Has(q, {"uok"})
  /\ After(q, Leave, Orders \cup {"uok"}) => After(r, Leave, Orders \cup {"uok"})

LEMMA MoreAppend ==
  ASSUME NEW S, NEW q \in Seq(S), NEW m, m.k \notin Orders \cup {"uok"}
  PROVE  More(q, Append(q, m))
<1>1. Has(Append(q, m), Orders) => Has(q, Orders)
  BY HasAppend
<1>2. Has(Append(q, m), {"uok"}) => Has(q, {"uok"})
  BY HasAppend
<1>3. After(q, Leave, Orders \cup {"uok"}) => After(Append(q, m), Leave, Orders \cup {"uok"})
  BY AfterAppend
<1> QED
  BY <1>1, <1>2, <1>3 DEF More

\* In a session the display takes part, or has lost it.
LEMMA SessionPlace == Line /\ epc \in Session => Engaged \/ Lost
BY DEF Line, ReadyInv, ServeInv, Asking, Answering, Awaiting, Copies, Here, Adrift, Engaged,
       Redoing, Session, Copying, Requesting

\* In a session with a display in update mode nothing starts over.
LEMMA SessionQuiet == Line /\ epc \in Session /\ Engaged => ~Has(toEsp, {"init"})
BY DEF Line, EngagedInv, Waits, Session

\* A step of the ESP outside the handshake and the session.
LEMMA EspAway ==
  ASSUME Types, Line, UNCHANGED <<bootcmd, size, didUpdate, spc>>,
         epc \notin {"entered"} \cup Session, epc' \notin {"entered"} \cup Session,
         Waits => Waits',
         toStm' = toStm \/ (~Waits /\ More(toStm, toStm')),
         Fewer(toEsp, toEsp')
  PROVE  Line'
<1>1. Engaged' = Engaged
  BY DEF Engaged, Redoing
<1>2. ApartInv'
  <2> SUFFICES ASSUME ~Engaged PROVE Free'
    BY <1>1 DEF ApartInv
  <2>1. Free
    BY DEF Line, ApartInv
  <2>2. CASE toStm' = toStm
    BY <2>1, <2>2 DEF Free, Fewer, Answered
  <2>3. CASE ~Waits /\ More(toStm, toStm')
    <3>1. ~Has(toStm', {"uok"}) /\ ~Has(toStm', Orders) /\ spc # "starting"
      BY <2>1, <2>3 DEF Free, More
    <3>2. After(toStm', {"uok"}, Others)
      BY <3>1, NoneAfter
    <3> QED
      BY <2>1, <3>1, <3>2 DEF Free, Fewer
  <2> QED
    BY <2>2, <2>3
<1>3. EngagedInv'
  <2> SUFFICES ASSUME Engaged PROVE EngagedInv'
    BY <1>1 DEF EngagedInv
  <2>1. CASE toStm' = toStm
    BY <2>1 DEF Line, EngagedInv, Fewer, Answered
  <2>2. CASE ~Waits /\ More(toStm, toStm')
    BY <2>2 DEF Line, EngagedInv, Fewer, More
  <2> QED
    BY <2>1, <2>2
<1>4. FreshInv'
  BY DEF Line, FreshInv, Fewer
<1>5. SoleInv'
  BY <1>1 DEF Line, SoleInv, Fewer, More
<1>6. ReadyInv' /\ ServeInv'
  BY DEF ReadyInv, ServeInv, Session
<1> QED
  BY <1>2, <1>3, <1>4, <1>5, <1>6 DEF Line

LEMMA SentMore ==
  ASSUME Types, NEW k, k \notin Orders \cup {"uok"}, SendStm(k)
  PROVE  More(toStm, toStm')
<1>1. toStm' = Append(toStm, [k |-> k, fast |-> efast])
  BY DEF SendStm
<1>2. [k |-> k, fast |-> efast].k = k
  OBVIOUS
<1> QED
  BY <1>1, <1>2, Wiring, MoreAppend

LEMMA HeardFewer == Types /\ EspNext => Fewer(toEsp, toEsp')
BY Wiring, FewerTail DEF EspNext

LEMMA Thrice ==
  ASSUME NEW S, NEW q \in Seq(S), NEW m \in S
  PROVE  q \o [i \in 1..3 |-> m] = Append(Append(Append(q, m), m), m)
<1>1. <<m, m, m>> = [i \in 1..3 |-> m]
  OBVIOUS
<1>2. q \o <<m, m, m>> = Append(Append(Append(q, m), m), m)
  OBVIOUS
<1> QED
  BY <1>1, <1>2

\* Outside a session the ESP gives no order and answers no handshake of an update.
LEMMA AwaySends ==
  ASSUME Types,
         \/ EspBoot \/ Hello \/ Running \/ StartFetch \/ Fetch \/ Checksums \/ Reset \/ Cancel
         \/ Flash \/ Flashed \/ Switch \/ Cleanup \/ Truncate \/ Put
  PROVE  toStm' = toStm \/ More(toStm, toStm')
<1>1. CASE Hello
  BY <1>1, SentMore DEF Hello, Orders
<1>2. CASE Reset \/ Cancel \/ Flash \/ Flashed
  BY <1>2, SentMore DEF Reset, Cancel, Flash, Flashed, Orders
<1>3. CASE EspBoot \/ Running \/ StartFetch \/ Fetch \/ Checksums \/ Switch \/ Truncate \/ Put
  BY <1>3 DEF EspBoot, Running, StartFetch, Fetch, Checksums, Switch, Truncate, Put
<1>4. CASE Cleanup
  <2>1. CASE toStm' = toStm
    BY <2>1
  <2>2. CASE toStm' = toStm \o [i \in 1..3 |-> [k |-> "completed", fast |-> efast]]
    <3> DEFINE m == [k |-> "completed", fast |-> efast]
               S == Packet \cup Chunk
               q1 == Append(toStm, m)
               q2 == Append(q1, m)
    <3>1. m \in S /\ m.k \notin Orders \cup {"uok"}
      BY DEF Types, TypeOK, Packet, Kinds, Orders
    <3>2. toStm \in Seq(S) /\ q1 \in Seq(S) /\ q2 \in Seq(S)
      BY <3>1, Wiring
    <3>3. toStm' = Append(q2, m)
      BY <2>2, <3>1, <3>2, Thrice
    <3>4. More(toStm, q1)
      BY <3>1, <3>2, MoreAppend
    <3>5. More(q1, q2)
      BY <3>1, <3>2, MoreAppend
    <3>6. More(q2, toStm')
      BY <3>1, <3>2, <3>3, MoreAppend
    <3> QED
      BY <3>4, <3>5, <3>6 DEF More
  <2> QED
    BY <1>4, <2>1, <2>2 DEF Cleanup
<1> QED
  BY <1>1, <1>2, <1>3, <1>4

\* The ESP starts, answers a normal handshake, fetches an update and flashes itself.
LEMMA AwayStep ==
  ASSUME Types, CardInv, PlaceInv, Line,
         \/ EspBoot \/ Hello \/ Running \/ StartFetch \/ Fetch \/ Checksums \/ Reset \/ Cancel
         \/ Flash \/ Flashed \/ Switch \/ Cleanup
         \/ epc # "begin" /\ (Truncate \/ Put)
         \/ HearInit /\ epc' = "init"
  PROVE  Line'
<1> USE DEF rtc, stmRun, Session
<1>1. CASE EspBoot
  <2>1. epc \notin {"entered"} \cup Session /\ epc' \notin {"entered"} \cup Session
    BY <1>1 DEF EspBoot, CardInv, States
  <2>2. Waits => Waits'
    BY <1>1 DEF EspBoot, Waits
  <2>3. Fewer(toEsp, toEsp')
    BY <1>1, FewerSame, FewerNone DEF EspBoot
  <2> QED
    BY <1>1, <2>1, <2>2, <2>3, EspAway DEF EspBoot
<1>2. CASE StartFetch \/ Fetch \/ Checksums \/ Switch
  <2>1. epc \notin {"entered"} \cup Session /\ epc' \notin {"entered"} \cup Session /\ ~Waits
    BY <1>2 DEF StartFetch, Fetch, Checksums, Switch, AfterFailure, Waits
  <2>2. Fewer(toEsp, toEsp') /\ toStm' = toStm /\ UNCHANGED <<bootcmd, size, didUpdate, spc>>
    BY <1>2, FewerSame DEF StartFetch, Fetch, Checksums, Switch
  <2> QED
    BY <2>1, <2>2, EspAway
<1>3. CASE epc # "begin" /\ (Truncate \/ Put)
  <2>1. epc \notin {"entered"} \cup Session /\ epc' \notin {"entered"} \cup Session /\ ~Waits
    BY <1>3 DEF Truncate, Put, Mark, Waits, espRun
  <2>2. Fewer(toEsp, toEsp') /\ toStm' = toStm /\ UNCHANGED <<bootcmd, size, didUpdate, spc>>
    BY <1>3, FewerSame DEF Truncate, Put
  <2> QED
    BY <2>1, <2>2, EspAway
<1>4. CASE Hello
  <2>1. epc \notin {"entered"} \cup Session /\ epc' \notin {"entered"} \cup Session /\ ~Waits
    BY <1>4 DEF Hello, Waits
  <2>2. Fewer(toEsp, toEsp') /\ UNCHANGED <<bootcmd, size, didUpdate, spc>>
    BY <1>4, HeardFewer DEF Hello
  <2>3. toStm' = toStm \/ More(toStm, toStm')
    BY <1>4, AwaySends
  <2> QED
    BY <2>1, <2>2, <2>3, EspAway
<1>5. CASE Running
  <2>1. epc \notin {"entered"} \cup Session /\ epc' \notin {"entered"} \cup Session /\ ~Waits
    BY <1>5 DEF Running, Fetching, Waits
  <2>2. Fewer(toEsp, toEsp') /\ toStm' = toStm /\ UNCHANGED <<bootcmd, size, didUpdate, spc>>
    BY <1>5, HeardFewer DEF Running
  <2> QED
    BY <2>1, <2>2, EspAway
<1>6. CASE Reset \/ Cancel \/ Flash \/ Flashed
  <2>1. epc \notin {"entered"} \cup Session /\ epc' \notin {"entered"} \cup Session /\ ~Waits
    BY <1>6 DEF Reset, Cancel, Flash, Flashed, Waits
  <2>2. Fewer(toEsp, toEsp') /\ UNCHANGED <<bootcmd, size, didUpdate, spc>>
    BY <1>6, FewerSame DEF Reset, Cancel, Flash, Flashed
  <2>3. toStm' = toStm \/ More(toStm, toStm')
    BY <1>6, AwaySends
  <2> QED
    BY <2>1, <2>2, <2>3, EspAway
<1>7. CASE Cleanup
  <2>1. epc \notin {"entered"} \cup Session /\ epc' \notin {"entered"} \cup Session /\ ~Waits
    BY <1>7 DEF Cleanup, Waits
  <2>2. Fewer(toEsp, toEsp') /\ UNCHANGED <<bootcmd, size, didUpdate, spc>>
    BY <1>7, FewerSame DEF Cleanup
  <2>3. toStm' = toStm \/ More(toStm, toStm')
    BY <1>7, AwaySends
  <2> QED
    BY <2>1, <2>2, <2>3, EspAway
<1>8. CASE HearInit /\ epc' = "init"
  <2>1. epc \notin {"entered"} \cup Session /\ epc' \notin {"entered"} \cup Session
    BY <1>8 DEF HearInit
  <2>2. Fewer(toEsp, toEsp') /\ toStm' = toStm /\ UNCHANGED <<bootcmd, size, didUpdate, spc>>
    BY <1>8, HeardFewer DEF HearInit
  <2>3. Waits => Waits'
    BY <1>8 DEF HearInit, Waits, card
  <2> QED
    BY <2>1, <2>2, <2>3, EspAway
<1> QED
  BY <1>1, <1>2, <1>3, <1>4, <1>5, <1>6, <1>7, <1>8

-----------------------------------------------------------------------------
(* Sessions, and the display's steps                                       *)

LEMMA NothingLeft ==
  ASSUME NEW q \in Seq(Packet \cup Chunk), ~Has(q, Others), ~Has(q, {"uok"})
  PROVE  q = <<>>
<1> SUFFICES ASSUME q # <<>> PROVE FALSE
  OBVIOUS
<1>1. Head(q) \in Packet \cup Chunk
  BY TailIs
<1>2. Head(q).k \in Others \cup {"uok"}
  BY <1>1 DEF Packet, Chunk, Others
<1> QED
  BY <1>2, HasTail

LEMMA AnsweredWith ==
  ASSUME Types, Answered
  PROVE  /\ ~Has(toStm, Orders) /\ ~Has(toStm, Leave)
         /\ ~Has(toStm, {"uok"}) => toStm = <<>>
         /\ After(toStm, Leave, Orders \cup {"uok"})
         /\ \A i \in 1..Len(toStm) : toStm[i].k = "uok"
<1>1. Orders \subseteq Others /\ Leave \subseteq Others
  BY DEF Orders, Leave, Others, Kinds
<1>2. ~Has(toStm, Orders) /\ ~Has(toStm, Leave)
  BY <1>1, HasMore DEF Answered
<1>3. ASSUME NEW i \in 1..Len(toStm) PROVE toStm[i].k = "uok"
  <2>1. toStm[i] \in Packet \cup Chunk
    BY Wiring
  <2>2. toStm[i].k \in Others \cup {"uok"}
    BY <2>1 DEF Packet, Chunk, Others
  <2> QED
    BY <2>2 DEF Answered, Has
<1> QED
  BY <1>2, <1>3, Wiring, NothingLeft, NoneAfter DEF Answered

LEMMA OneMore == ASSUME NEW n \in Nat, NEW r, Len(r) = n - 1, r = <<>> PROVE n = 1
OBVIOUS

LEMMA SingleIs ==
  ASSUME NEW S, NEW q \in Seq(S)
  PROVE  q # <<>> /\ Tail(q) = <<>> => q = <<Head(q)>>
<1>1. ASSUME q # <<>>, Tail(q) = <<>> PROVE q = <<Head(q)>>
  <2>1. PICK r : r = Tail(q)
    OBVIOUS
  <2>2. PICK n \in Nat \ {0} : n = Len(q) /\ Len(r) = n - 1 /\ Head(q) = q[1]
    BY <1>1, <2>1, TailIs
  <2>3. r = <<>>
    BY <1>1, <2>1
  <2>4. Len(r) = n - 1
    BY <2>2
  <2>5. n = 1
    BY <2>3, <2>4, OneMore
  <2>6. Len(q) = 1
    BY <2>2, <2>5
  <2> QED
    BY <2>2, <2>6
<1> QED
  BY <1>1

\* What the ESP is about to hear, it is still about to hear.
Grown(q, r) ==
  /\ OnlyInits(q) => OnlyInits(r)
  /\ \A k \in Statuses : Then(k, q) => Then(k, r)
  /\ q # <<>> /\ Then("copied", Tail(q)) =>
       r # <<>> /\ Head(r) = Head(q) /\ Then("copied", Tail(r))

LEMMA GrownSame == ASSUME NEW q PROVE Grown(q, q)
BY DEF Grown

LEMMA GrownInit ==
  ASSUME NEW S, NEW q \in Seq(S), NEW m \in S, m.k = "init"
  PROVE  Grown(q, Append(q, m))
<1>1. OnlyInits(q) => OnlyInits(Append(q, m))
  BY InitsAppend
<1>2. ASSUME NEW k \in Statuses, Then(k, q) PROVE Then(k, Append(q, m))
  BY <1>2, ThenAppend
<1>3. ASSUME q # <<>>, Then("copied", Tail(q))
      PROVE  /\ Append(q, m) # <<>> /\ Head(Append(q, m)) = Head(q)
             /\ Then("copied", Tail(Append(q, m)))
  <2>1. Tail(q) \in Seq(S)
    BY <1>3, TailIs
  <2>2. Then("copied", Append(Tail(q), m))
    BY <1>3, <2>1, ThenAppend
  <2> QED
    BY <1>3, <2>2, HeadAppend
<1> QED
  BY <1>1, <1>2, <1>3 DEF Grown

LEMMA CopiesEngaged == Copies => Engaged
BY DEF Copies, Engaged, Redoing, Copying

\* A session goes on with a display that starts over.
LEMMA SessionKept ==
  ASSUME Types, Line, UNCHANGED <<epc, read, toStm>>, Grown(toEsp, toEsp'),
         epc \in Session,
         Here => Lost' /\ app' = app,
         spc = "update" => ~Has(toStm, {"uok"}),
         spc = "failed" => Lost',
         spc \in {"request"} \cup Requesting \/ Adrift => Adrift',
         Copies => Copies' \/ Lost'
  PROVE  ReadyInv' /\ ServeInv'
<1>1. Lost' => ~Engaged'
  BY DEF Lost
<1>2. Lost => Here
  BY DEF Here
<1>3. ASSUME OnlyInits(toEsp) PROVE OnlyInits(toEsp')
  BY <1>3 DEF Grown
<1>4. \A k \in Statuses : Then(k, toEsp) => Then(k, toEsp')
  BY DEF Grown
<1>5. Lost' => Here'
  BY DEF Here
<1>6. CASE epc \in {"begin", "prepare"}
  <2>1. OnlyInits(toEsp') /\ toStm' = <<>> /\ Lost'
    BY <1>2, <1>3, <1>6, AnsweredWith DEF Line, ReadyInv, Here
  <2> QED
    BY <1>6, <2>1 DEF ReadyInv, ServeInv
<1>7. CASE epc = "awaitReady"
  <2>1. CASE OnlyInits(toEsp) /\ spc = "update" /\ Ordered(toStm)
    <3>1. toStm # <<>> /\ Head(toStm) = Fast("prepare") /\ Tail(toStm) = <<>>
      BY <2>1, Wiring, OrderedAlone, OrderedTail
    <3>2. toStm = <<Fast("prepare")>>
      BY <3>1, Wiring, SingleIs
    <3> QED
      BY <1>3, <1>7, <2>1, <3>2 DEF ReadyInv, ServeInv, Here
  <2>2. CASE OnlyInits(toEsp) /\ toStm = <<Fast("prepare")>> /\ Lost
    BY <1>2, <1>3, <1>7, <2>2 DEF ReadyInv, ServeInv
  <2>3. CASE Then("readyImage", toEsp) /\ toStm = <<>> /\ Here
    BY <1>4, <1>5, <1>7, <2>3 DEF ReadyInv, ServeInv, Statuses
  <2>4. CASE OnlyInits(toEsp) /\ toStm = <<>> /\ Lost
    BY <1>2, <1>3, <1>7, <2>4 DEF ReadyInv, ServeInv
  <2> QED
    BY <1>7, <2>1, <2>2, <2>3, <2>4 DEF Line, ReadyInv
<1>8. CASE epc = "serve"
  <2>1. CASE Asking
    <3>1. Asking'
      BY <1>1, <1>3, <1>5, <2>1 DEF Asking
    <3> QED
      BY <1>8, <3>1 DEF ReadyInv, ServeInv
  <2>2. CASE Answering
    <3>1. toStm' = <<>>
      BY <2>2 DEF Answering
    <3>2. /\ Then("readyChunk", toEsp) => Then("readyChunk", toEsp')
          /\ Then("resend", toEsp) => Then("resend", toEsp')
          /\ Then("abort", toEsp) => Then("abort", toEsp')
          /\ Then("copied", toEsp) => Then("copied", toEsp')
          /\ Then("beginning", toEsp) => Then("beginning", toEsp')
      BY <1>4 DEF Statuses
    <3>3. CASE Then("readyChunk", toEsp) /\ Here /\ read < Chunks
      BY <1>1, <1>5, <3>1, <3>2, <3>3, <1>8 DEF Answering, ReadyInv, ServeInv
    <3>4. CASE Then("resend", toEsp) /\ Here /\ read > 0
      BY <1>1, <1>5, <3>1, <3>2, <3>4, <1>8 DEF Answering, ReadyInv, ServeInv
    <3>5. CASE Then("abort", toEsp) /\ (spc = "failed" \/ Lost)
      BY <1>2, <3>1, <3>2, <3>5, <1>8 DEF Answering, ReadyInv, ServeInv
    <3>6. CASE OnlyInits(toEsp) /\ (spc \in {"request", "requestSize", "tell"} \/ Adrift)
      BY <1>3, <3>1, <3>6, <1>8 DEF Answering, ReadyInv, ServeInv, Requesting
    <3>7. CASE Then("copied", toEsp) /\ Adrift /\ Here
      BY <1>5, <3>1, <3>2, <3>7, <1>8 DEF Answering, ReadyInv, ServeInv
    <3>8. CASE Then("beginning", toEsp) /\ (Copies \/ Lost)
      BY <1>2, <3>1, <3>2, <3>8, <1>8 DEF Answering, ReadyInv, ServeInv
    <3>9. CASE /\ toEsp # <<>> /\ Head(toEsp) = Fast("beginning") /\ Then("copied", Tail(toEsp))
               /\ app = "new" /\ Here
      <4>1. toEsp' # <<>> /\ Head(toEsp') = Fast("beginning") /\ Then("copied", Tail(toEsp'))
        BY <3>9 DEF Grown
      <4> QED
        BY <1>5, <3>1, <3>9, <4>1, <1>8 DEF Answering, ReadyInv, ServeInv
    <3> QED
      BY <2>2, <3>3, <3>4, <3>5, <3>6, <3>7, <3>8, <3>9 DEF Answering
  <2> QED
    BY <1>8, <2>1, <2>2 DEF Line, ServeInv
<1>9. CASE epc = "awaitCopy"
  <2>1. Then("copied", toEsp) => Then("copied", toEsp')
    BY <1>4 DEF Statuses
  <2>2. Awaiting'
    BY <1>2, <1>3, <1>5, <1>9, <2>1 DEF Line, ServeInv, Awaiting
  <2> QED
    BY <1>9, <2>2 DEF ReadyInv, ServeInv
<1> QED
  BY <1>6, <1>7, <1>8, <1>9 DEF Session

\* Where a display is that is neither in update mode nor on its way into it.
Idle == {"boot", "erase", "copy", "service", "start", "shake"}

\* It goes on towards its handshake, and nothing is sent.
LEMMA IdleMove ==
  ASSUME Types, Line, UNCHANGED <<toStm, toEsp, state, sum, epc, read>>,
         spc \in Idle, spc' \in Idle,
         Engaged' = Engaged, Lost => Lost' /\ app' = app, Copies => Copies', Redoing => Redoing'
  PROVE  Line'
<1> USE DEF Idle
<1>1. ApartInv'
  BY DEF Line, ApartInv, Free, Answered, Waits
<1>2. EngagedInv'
  BY DEF Line, EngagedInv, Answered, Waits
<1>3. FreshInv'
  BY DEF Line, FreshInv
<1>4. SoleInv'
  BY DEF Line, SoleInv
<1>5. ReadyInv' /\ ServeInv'
  <2>1. CASE epc \in Session
    BY <2>1, GrownSame, SessionKept DEF Here, Adrift, Requesting
  <2>2. CASE epc \notin Session
    BY <2>2 DEF Session, ReadyInv, ServeInv
  <2> QED
    BY <2>1, <2>2
<1> QED
  BY <1>1, <1>2, <1>3, <1>4, <1>5 DEF Line

\* The bootloader does what its command says.
LEMMA BootStep ==
  ASSUME Types, DisplayInv, PlaceInv, Line, StmBoot \/ Erase \/ Copy \/ Service
  PROVE  Line'
<1>1. UNCHANGED <<toStm, toEsp, state, sum, epc, read>>
  BY DEF StmBoot, Erase, Copy, Service, card, espRun
<1>2. spc \in Idle /\ spc' \in Idle
  BY DEF StmBoot, Erase, Copy, Service, Idle
<1>3. Redoing' = Redoing /\ Engaged' = Engaged
  BY DEF StmBoot, Erase, Copy, Service, Engaged, Redoing, Copying, Requesting, DisplayInv, rtc
<1>4. Lost => Lost' /\ app' = app
  BY <1>3 DEF Lost, StmBoot, Erase, Copy, Service, Engaged, Redoing, Copying, stmFlash
<1>5. Copies => Copies'
  <2> USE DEF Copies, DisplayInv, Copying, rtc, stmFlash
  <2>1. CASE StmBoot \/ Erase
    BY <2>1 DEF StmBoot, Erase
  <2>2. CASE Copy
    <3>1. Chunks # 0
      BY FirmwareUpdateAssumption DEF FirmwareUpdateAssumption
    <3> QED
      BY <2>2, <3>1 DEF Copy, Copied
  <2>3. CASE Service
    BY <2>3 DEF Service
  <2> QED
    BY <2>1, <2>2, <2>3
<1> QED
  BY <1>1, <1>2, <1>3, <1>4, <1>5, IdleMove

\* It asks for a handshake.
Init1 == [k |-> "init", fast |-> FALSE]

LEMMA InitSent ==
  ASSUME Types, Line, ~Engaged, ~Engaged', UNCHANGED <<toStm, state, sum, epc, read, app>>,
         toEsp' = Append(toEsp, Init1),
         spc \in {"start", "shake", "sent", "starting"}, spc' = "shake"
  PROVE  Line'
<1>1. Init1 \in Packet /\ Init1.k = "init" /\ Init1.k \notin Statuses
  BY DEF Init1, Packet, Kinds, Statuses
<1>2. Lost => Lost'
  BY DEF Lost
<1>3. /\ After(toEsp, {"init"}, Statuses) => After(toEsp', {"init"}, Statuses)
      /\ Has(toEsp', Statuses) => Has(toEsp, Statuses)
      /\ Has(toEsp', {"entered"}) => Has(toEsp, {"entered"})
  <2>1. After(toEsp, {"init"}, Statuses) => After(toEsp', {"init"}, Statuses)
    BY <1>1, Wiring, AfterAppend
  <2>2. Has(toEsp', Statuses) => Has(toEsp, Statuses)
    BY <1>1, Wiring, HasAppend
  <2>3. Has(toEsp', {"entered"}) => Has(toEsp, {"entered"})
    BY <1>1, Wiring, HasAppend
  <2> QED
    BY <2>1, <2>2, <2>3
<1>4. ApartInv'
  BY <1>2, <1>3 DEF Line, ApartInv, Free, Answered, Waits
<1>5. EngagedInv'
  BY DEF EngagedInv
<1>6. FreshInv'
  BY <1>1, Wiring, FreshAppend DEF Line, FreshInv
<1>7. SoleInv'
  BY <1>2, <1>3 DEF Line, SoleInv
<1>8. ReadyInv' /\ ServeInv'
  <2>1. CASE epc \in Session
    <3>1. Lost
      BY <2>1, SessionPlace
    <3>2. Grown(toEsp, toEsp')
      BY <1>1, Wiring, GrownInit
    <3>3. Lost' /\ Adrift'
      BY <1>2, <3>1 DEF Adrift, Here, Lost
    <3>4. ~Copies /\ spc # "update"
      BY CopiesEngaged
    <3> QED
      BY <2>1, <3>1, <3>2, <3>3, <3>4, SessionKept
  <2>2. CASE epc \notin Session
    BY <2>2 DEF Session, ReadyInv, ServeInv
  <2> QED
    BY <2>1, <2>2
<1> QED
  BY <1>4, <1>5, <1>6, <1>7, <1>8 DEF Line

\* It asks for a handshake, again after a while.
LEMMA AskStep ==
  ASSUME Types, DisplayInv, PlaceInv, Line, (StmStart /\ ~didUpdate) \/ Retry \/ Overlook
  PROVE  Line'
<1>1. UNCHANGED <<toStm, state, sum, epc, read, app>> /\ spc' = "shake"
      /\ spc \in {"start", "shake", "sent", "starting"}
  BY DEF StmStart, Retry, Overlook, card, espRun, stmFlash, stmRun
<1>2. ~Engaged /\ ~Engaged'
  <2>1. spc = "start" => bootcmd = "run" /\ ~didUpdate
    BY DEF StmStart, Retry, Overlook, DisplayInv, AppPCs, Requesting
  <2> QED
    BY <1>1, <2>1 DEF Engaged, Redoing, Copying, Requesting
<1>3. toEsp' = Append(toEsp, Init1)
  BY DEF StmStart, Retry, Overlook, SendEsp, PlaceInv, Init1, Types, TypeOK
<1> QED
  BY <1>1, <1>2, <1>3, InitSent

-----------------------------------------------------------------------------
(* The display's handshake and its resets                                  *)

\* What the display takes from its wire, and what is left.
LEMMA StmHeard ==
  ASSUME Types, StmNext
  PROVE  /\ toStm # <<>> /\ toStm' = Tail(toStm) /\ Head(toStm) \in Packet \cup Chunk
         /\ \A K : Has(toStm, K) <=> Head(toStm).k \in K \/ Has(toStm', K)
         /\ \A K, L : After(toStm, K, L) =>
                        After(toStm', K, L) /\ (Head(toStm).k \in K => ~Has(toStm', L))
<1>1. toStm # <<>> /\ toStm' = Tail(toStm) /\ toStm \in Seq(Packet \cup Chunk)
  BY Wiring DEF StmNext
<1>2. Head(toStm) \in Packet \cup Chunk
  BY <1>1, TailIs
<1>3. \A K : Has(toStm, K) <=> Head(toStm).k \in K \/ Has(Tail(toStm), K)
  BY <1>1, HasTail
<1>4. \A K, L : After(toStm, K, L) =>
        After(Tail(toStm), K, L) /\ (Head(toStm).k \in K => ~Has(Tail(toStm), L))
  BY <1>1, AfterTail
<1> QED
  BY <1>1, <1>2, <1>3, <1>4

LEMMA OneIs == ASSUME NEW m PROVE <<m>> # <<>> /\ Head(<<m>>) = m /\ Tail(<<m>>) = <<>>
OBVIOUS

\* A display that leaves its handshake has no command for the bootloader.
LEMMA RunsApart ==
  ASSUME DisplayInv, PlaceInv, UNCHANGED <<bootcmd, didUpdate>>,
         spc \in AppPCs \ (Requesting \cup {"start"}),
         spc' \in {"boot", "start", "shake", "sent", "starting", "running"}
  PROVE  ~Engaged'
<1>1. bootcmd' # "update" /\ ~didUpdate'
  BY DEF DisplayInv, PlaceInv
<1> QED
  BY <1>1 DEF Engaged, Redoing, Copying, Requesting

\* Outside a session, a display that is not engaged reads on.
LEMMA FreeRead ==
  ASSUME Types, Line, Free, ~Engaged, ~Engaged', epc \notin Session,
         UNCHANGED <<toEsp, state, sum, epc>>,
         toStm' = toStm \/ StmNext,
         spc' = "starting" => StmNext /\ Head(toStm).k = "uok",
         Lost => Lost' \/ toStm # <<>>
  PROVE  Line'
<1>1. /\ ~Has(toStm', Orders)
      /\ After(toStm', {"uok"}, Others)
      /\ Has(toStm', {"uok"}) => Has(toStm, {"uok"})
      /\ After(toStm, {"uok"}, Others \cup {"uok"}) => After(toStm', {"uok"}, Others \cup {"uok"})
  <2>1. CASE toStm' = toStm
    BY <2>1 DEF Free
  <2>2. CASE StmNext
    BY <2>2, StmHeard DEF Free
  <2> QED
    BY <2>1, <2>2
<1>2. ASSUME spc' = "starting"
      PROVE  /\ Answered' /\ Has(toStm, {"uok"}) /\ toStm # <<>>
             /\ After(toStm, {"uok"}, Others \cup {"uok"}) => toStm' = <<>>
  <2>1. StmNext /\ Head(toStm).k = "uok"
    BY <1>2
  <2>2. Has(toStm, {"uok"}) /\ ~Has(toStm', Others) /\ toStm # <<>>
    BY <2>1, StmHeard DEF Free
  <2>3. ASSUME After(toStm, {"uok"}, Others \cup {"uok"}) PROVE toStm' = <<>>
    <3>1. ~Has(toStm', Others \cup {"uok"})
      BY <2>1, <2>3, StmHeard
    <3>2. ~Has(toStm', {"uok"})
      BY <3>1, HasMore
    <3>3. toStm' \in Seq(Packet \cup Chunk)
      BY <2>1, Next1 DEF Types
    <3> QED
      BY <2>2, <3>2, <3>3, NothingLeft
  <2> QED
    BY <2>2, <2>3 DEF Answered
<1>3. Free'
  BY <1>1, <1>2 DEF Free, Waits
<1>4. ApartInv' /\ EngagedInv'
  BY <1>3 DEF ApartInv, EngagedInv
<1>5. FreshInv'
  BY DEF Line, FreshInv
<1>6. toStm = <<>> => toStm' = <<>>
  BY DEF StmNext
<1>7. SoleInv'
  BY <1>1, <1>2, <1>6 DEF Line, SoleInv
<1>8. ReadyInv' /\ ServeInv'
  BY DEF Session, ReadyInv, ServeInv
<1> QED
  BY <1>4, <1>5, <1>7, <1>8 DEF Line

\* It reads an answer to its handshake, or noise.
LEMMA ShakeStep ==
  ASSUME Types, DisplayInv, PlaceInv, Line, Shake
  PROVE  Line'
<1>1. UNCHANGED <<toEsp, state, sum, epc, read, app, bootcmd, didUpdate>> /\ StmNext
      /\ spc = "shake" /\ spc' \in {"boot", "shake", "sent", "starting"}
  BY DEF Shake, card, espRun, stmFlash, rtc
<1>2. ~Engaged
  BY <1>1 DEF Engaged, Redoing, Copying, Requesting
<1>3. ~Engaged'
  BY <1>1, RunsApart DEF AppPCs, Requesting
<1>4. CASE epc \in Session
  <2>1. Lost
    BY <1>2, <1>4, SessionPlace
  <2>2. ~Copies
    BY <1>2, CopiesEngaged
  <2>3. toStm # <<>> /\ spc # "update" /\ epc \notin {"begin", "prepare", "awaitCopy"}
    BY <1>1, <2>2 DEF StmNext, Line, ReadyInv, ServeInv, Awaiting
  <2>4. /\ OnlyInits(toEsp)
        /\ \/ toStm = <<Fast("prepare")>> \/ toStm = <<Fast("start")>>
           \/ toStm = <<Piece(read)>>
    BY <1>4, <2>3 DEF Line, ReadyInv, ServeInv, Asking, Answering, Session
  <2>5. Head(toStm).fast /\ Head(toStm).k \in {"prepare", "start", "data"} /\ Tail(toStm) = <<>>
    <3>1. PICK m \in {Fast("prepare"), Fast("start"), Piece(read)} : toStm = <<m>>
      BY <2>4
    <3>2. m.fast /\ m.k \in {"prepare", "start", "data"}
      BY DEF Fast, Piece
    <3> QED
      BY <3>1, <3>2, OneIs
  <2>6. spc' \in {"boot", "shake"} /\ toStm' = <<>>
    BY <1>1, <2>5 DEF Shake, PlaceInv, StmNext
  <2>7. Lost' /\ Adrift'
    BY <1>3, <2>1, <2>6 DEF Lost, Adrift, Here
  <2>8. ApartInv' /\ EngagedInv' /\ FreshInv'
    BY <1>1, <1>3, <1>4, <2>7 DEF ApartInv, EngagedInv, Line, FreshInv
  <2>9. SoleInv'
    <3>1. ~Has(toStm', {"uok"})
      BY <2>6, EmptyWire
    <3> QED
      BY <1>1, <1>3, <1>4, <2>6, <3>1 DEF Line, SoleInv, Session
  <2>10. ReadyInv'
    BY <1>1, <2>3, <2>4, <2>6, <2>7 DEF ReadyInv
  <2>11. ServeInv'
    BY <1>1, <2>3, <2>4, <2>6, <2>7 DEF ServeInv, Answering
  <2> QED
    BY <2>8, <2>9, <2>10, <2>11 DEF Line
<1>5. CASE epc \notin Session
  <2>1. toStm # <<>>
    BY <1>1 DEF StmNext
  <2>2. Free
    BY <1>2, <1>5, <2>1 DEF Line, ApartInv
  <2>3. spc' = "starting" => Head(toStm).k = "uok"
    BY <1>1 DEF Shake
  <2> QED
    BY <1>1, <1>2, <1>3, <1>5, <2>1, <2>2, <2>3, FreeRead
<1> QED
  BY <1>4, <1>5

\* It runs, and reads on or starts over.
LEMMA RunningStep ==
  ASSUME Types, DisplayInv, PlaceInv, Line, StmRunning
  PROVE  Line'
<1>1. UNCHANGED <<toEsp, state, sum, epc, bootcmd, didUpdate>> /\ (toStm' = toStm \/ StmNext)
      /\ spc = "running" /\ spc' \in {"boot", "running"}
  BY DEF StmRunning, card, espRun, rtc
<1>2. ~Engaged /\ ~Lost
  BY <1>1 DEF Engaged, Redoing, Copying, Requesting, Lost
<1>3. ~Engaged'
  BY <1>1, RunsApart DEF AppPCs, Requesting
<1>4. epc \notin Session /\ Free
  BY <1>2, SessionPlace DEF Line, ApartInv
<1> QED
  BY <1>1, <1>2, <1>3, <1>4, FreeRead

\* What the display puts on its wire.
LEMMA EspSent ==
  ASSUME Types, NEW m, toEsp' = Append(toEsp, m)
  PROVE  /\ \A K : Has(toEsp', K) <=> Has(toEsp, K) \/ m.k \in K
         /\ \A K, L : After(toEsp, K, L) /\ (m.k \in L => ~Has(toEsp, K)) => After(toEsp', K, L)
<1>1. \A K : Has(toEsp', K) <=> Has(toEsp, K) \/ m.k \in K
  BY Wiring, HasAppend
<1>2. \A K, L : After(toEsp, K, L) /\ (m.k \in L => ~Has(toEsp, K)) => After(toEsp', K, L)
  BY Wiring, AfterAppend
<1> QED
  BY <1>1, <1>2

LEMMA FreshSent ==
  ASSUME Types, Free, NEW m, toEsp' = Append(toEsp, m),
         m.k \in Statuses => m.k = "entered"
  PROVE  /\ Fresh(toEsp') /\ Last(toEsp')
         /\ epc = "entered" => FreshNow(toEsp') /\ LastNow(toEsp')
BY Wiring, FreshAppend DEF Free

\* It confirms a normal handshake.
LEMMA OkStep ==
  ASSUME Types, DisplayInv, PlaceInv, Line, ShakeOk
  PROVE  Line'
<1>1. UNCHANGED <<toStm, state, sum, epc, bootcmd, didUpdate>> /\ spc = "sent" /\ spc' = "running"
  BY DEF ShakeOk, card, espRun, rtc
<1>2. ~Engaged /\ ~Lost
  BY <1>1 DEF Engaged, Redoing, Copying, Requesting, Lost
<1>3. ~Engaged'
  BY <1>1, RunsApart DEF AppPCs, Requesting
<1>4. epc \notin Session /\ Free
  BY <1>2, SessionPlace DEF Line, ApartInv
<1>5. PICK m : m.k = "ok" /\ toEsp' = Append(toEsp, m)
  BY DEF ShakeOk, SendEsp
<1>6. "ok" \notin Statuses
  BY DEF Statuses
<1>7. /\ Has(toEsp', {"entered"}) => Has(toEsp, {"entered"})
      /\ Has(toEsp', Statuses) => Has(toEsp, Statuses)
      /\ After(toEsp, {"init"}, Statuses) => After(toEsp', {"init"}, Statuses)
  BY <1>5, <1>6, EspSent
<1>8. Free'
  BY <1>1, <1>4, <1>7 DEF Free, Waits
<1>9. ApartInv' /\ EngagedInv'
  BY <1>3, <1>8 DEF ApartInv, EngagedInv
<1>10. FreshInv'
  BY <1>1, <1>4, <1>5, <1>6, FreshSent DEF FreshInv
<1>11. SoleInv'
  BY <1>1, <1>2, <1>3, <1>7 DEF Line, SoleInv
<1>12. ReadyInv' /\ ServeInv'
  BY <1>1, <1>4 DEF Session, ReadyInv, ServeInv
<1> QED
  BY <1>9, <1>10, <1>11, <1>12 DEF Line

\* It enters its update mode and announces it.
LEMMA EnterStep ==
  ASSUME Types, DisplayInv, PlaceInv, Line, EnterUpdate
  PROVE  Line'
<1>1. UNCHANGED <<toStm, state, sum, epc>> /\ spc = "starting" /\ spc' = "update"
  BY DEF EnterUpdate, card, espRun
<1>2. ~Engaged /\ ~Lost
  BY <1>1 DEF Engaged, Redoing, Copying, Requesting, Lost
<1>3. Engaged'
  BY <1>1 DEF Engaged
<1>4. epc \notin Session /\ Free
  BY <1>2, SessionPlace DEF Line, ApartInv
<1>5. PICK m : m.k = "entered" /\ toEsp' = Append(toEsp, m)
  BY DEF EnterUpdate
<1>6. /\ Fresh(toEsp') /\ Last(toEsp')
      /\ epc = "entered" => FreshNow(toEsp') /\ LastNow(toEsp')
  BY <1>4, <1>5, FreshSent
<1>7. Answered /\ Waits
  BY <1>1, <1>4 DEF Free
<1>8. EngagedInv'
  BY <1>1, <1>6, <1>7, AnsweredWith DEF EngagedInv, Answered, Waits
<1>9. ApartInv' /\ FreshInv'
  BY <1>1, <1>3, <1>6 DEF ApartInv, FreshInv
<1>10. SoleInv'
  BY <1>1, <1>3 DEF Line, SoleInv
<1>11. ReadyInv' /\ ServeInv'
  BY <1>1, <1>4 DEF Session, ReadyInv, ServeInv
<1> QED
  BY <1>8, <1>9, <1>10, <1>11 DEF Line

\* It is told to leave its update mode: no session goes on without it.
LEMMA LeaveStep ==
  ASSUME Types, DisplayInv, PlaceInv, Line, LeaveUpdate
  PROVE  Line'
<1>1. UNCHANGED <<toEsp, state, sum, epc, bootcmd, didUpdate>> /\ spc = "update" /\ spc' = "boot"
      /\ StmNext /\ Head(toStm).k \in Leave
  BY DEF LeaveUpdate, StmHears, Leave, card, espRun, rtc
<1>2. Engaged /\ ~Lost
  BY <1>1 DEF Engaged, Lost
<1>3. ~Engaged'
  BY <1>1, RunsApart DEF AppPCs, Requesting
<1>4. Has(toStm, Leave)
  BY <1>1, StmHeard
<1>5. ~Answered /\ toStm # <<>>
  BY <1>1, <1>4, AnsweredWith DEF StmNext
<1>6. ~Has(toEsp, {"init"}) /\ epc # "entered"
  BY <1>2, <1>4, <1>5 DEF Line, EngagedInv
<1>7. ~Has(toStm', Orders \cup {"uok"})
  BY <1>1, <1>2, StmHeard DEF Line, EngagedInv
<1>8. ~Has(toStm', Orders) /\ ~Has(toStm', {"uok"})
  BY <1>7, HasMore
<1>9. epc \notin Session
  <2>1. Head(toStm).k \notin {"prepare", "start", "data", "uok"}
    BY <1>1 DEF Leave
  <2>2. ~Ordered(toStm)
    BY <2>1, Wiring, OrderedTail DEF Fast
  <2>3. toStm # <<Fast("start")>> /\ toStm # <<Piece(read)>>
    BY <2>1, OneIs DEF Fast, Piece
  <2> QED
    BY <1>2, <1>5, <2>2, <2>3 DEF Line, ReadyInv, ServeInv, Session, Asking, Answering, Awaiting
<1>10. Free'
  BY <1>1, <1>6, <1>8, NoneAfter DEF Free
<1>11. ApartInv' /\ EngagedInv'
  BY <1>3, <1>10 DEF ApartInv, EngagedInv
<1>12. FreshInv'
  BY <1>1 DEF Line, FreshInv
<1>13. SoleInv'
  BY <1>1, <1>3, <1>6, <1>8 DEF Line, SoleInv
<1>14. ReadyInv' /\ ServeInv'
  BY <1>1, <1>9 DEF Session, ReadyInv, ServeInv
<1> QED
  BY <1>11, <1>12, <1>13, <1>14 DEF Line

LEMMA NoInits ==
  ASSUME NEW q, ~Has(q, {"init"})
  PROVE  Fresh(q) /\ Last(q)
BY DEF Has, Fresh, Last

\* A display that has copied says so.
LEMMA CopiedStep ==
  ASSUME Types, DisplayInv, PlaceInv, Line, StmStart, didUpdate
  PROVE  Line'
<1>1. UNCHANGED <<toStm, state, sum, epc, read, app>> /\ spc = "start" /\ spc' = "update"
      /\ toEsp' = Append(toEsp, Fast("copied"))
  BY DEF StmStart, UpdateRate, Fast, card, espRun, stmFlash
<1>2. Engaged /\ Engaged' /\ ~Here /\ Here'
  BY <1>1 DEF Engaged, Redoing, Here, Lost
<1>3. epc # "entered" /\ ~Has(toEsp, {"init"})
  BY <1>1, <1>2 DEF Line, EngagedInv
<1>4. Fast("copied").k = "copied" /\ Fast("copied") \in Packet
  BY DEF Fast, Packet, Kinds, Statuses
<1>5. ~Has(toEsp', {"init"}) /\ (Has(toEsp', {"entered"}) => Has(toEsp, {"entered"}))
  BY <1>1, <1>3, <1>4, EspSent
<1>6. Fresh(toEsp') /\ Last(toEsp')
  BY <1>5, NoInits
<1>7. ApartInv' /\ FreshInv' /\ EngagedInv'
  BY <1>1, <1>2, <1>3, <1>5, <1>6 DEF ApartInv, FreshInv, EngagedInv, Line
<1>8. SoleInv'
  BY <1>1, <1>2, <1>3, <1>5 DEF Line, SoleInv
<1>9. ReadyInv'
  BY <1>1, <1>2 DEF Line, ReadyInv, Here
<1>10. ASSUME OnlyInits(toEsp) PROVE Then("copied", toEsp')
  <2>1. toEsp = <<>>
    BY <1>3, <1>10, Wiring, NothingElse
  <2> QED
    BY <1>1, <2>1, ThenAlone
<1>11. ASSUME Then("beginning", toEsp)
       PROVE  toEsp' # <<>> /\ Head(toEsp') = Fast("beginning") /\ Then("copied", Tail(toEsp'))
  <2>1. Tail(toEsp) = <<>> /\ toEsp # <<>> /\ Head(toEsp) = Fast("beginning")
    BY <1>3, <1>11, Wiring, ThenNoInit DEF Then
  <2>2. /\ toEsp' # <<>> /\ Head(toEsp') = Head(toEsp)
        /\ Tail(toEsp') = Append(Tail(toEsp), Fast("copied"))
    BY <1>1, <1>4, <2>1, Wiring, HeadAppend
  <2> QED
    BY <2>1, <2>2, ThenAlone
<1>12. Lost => Here
  BY DEF Here
<1>13. Copies => app = "new"
  BY <1>1 DEF Copies, Copying
<1>14. ASSUME epc = "serve" PROVE Answering'
  <2>1. toStm = <<>>
    BY <1>2, <1>14 DEF Line, ServeInv, Asking, Answering
  <2>2. \/ OnlyInits(toEsp) /\ Adrift
        \/ Then("beginning", toEsp) /\ Copies
    BY <1>1, <1>2, <1>12, <1>14 DEF Line, ServeInv, Asking, Answering
  <2>3. CASE OnlyInits(toEsp) /\ Adrift
    BY <1>1, <1>2, <1>10, <2>1, <2>3 DEF Answering, Adrift
  <2>4. CASE Then("beginning", toEsp) /\ Copies
    BY <1>1, <1>2, <1>11, <1>13, <2>1, <2>4 DEF Answering
  <2> QED
    BY <2>2, <2>3, <2>4
<1>15. ASSUME epc = "awaitCopy" PROVE Awaiting'
  BY <1>1, <1>2, <1>10, <1>12, <1>13, <1>15 DEF Line, ServeInv, Awaiting
<1>16. ServeInv'
  BY <1>1, <1>14, <1>15 DEF ServeInv
<1> QED
  BY <1>7, <1>8, <1>9, <1>16 DEF Line

\* It is reset in the middle of anything, while the ESP runs on.
LEMMA StmResetStep ==
  ASSUME Types, DisplayInv, PlaceInv, Line, StmReset
  PROVE  Line'
<1>1. UNCHANGED <<toStm, toEsp, state, sum, epc, read, app, bootcmd, didUpdate, size>>
      /\ spc' = "boot" /\ "stm" \in Alone /\ spc # "boot"
  BY DEF StmReset, card, espRun, stmFlash, rtc
<1>2. Engaged' \/ Lost'
  BY <1>1 DEF Lost
<1>3. ASSUME Engaged' PROVE Engaged /\ spc # "update" /\ ~Lost /\ Redoing'
  <2>1. bootcmd = "update" \/ didUpdate
    BY <1>1, <1>3 DEF Engaged, Redoing, Copying, Requesting
  <2>2. spc \in Requesting \cup Copying \cup {"service", "start"}
    BY <1>1, <2>1 DEF DisplayInv, PlaceInv, StmPCs, AppPCs, Requesting, Copying
  <2>3. Engaged /\ spc # "update"
    BY <2>1, <2>2 DEF Engaged, Redoing, Requesting, Copying
  <2> QED
    BY <1>1, <1>3, <2>1, <2>3 DEF Lost, Redoing
<1>4. ApartInv'
  <2> SUFFICES ASSUME ~Engaged' PROVE ApartInv'
    BY DEF ApartInv
  <2>1. Lost'
    BY <1>2
  <2>2. CASE ~Engaged
    BY <1>1, <2>1, <2>2 DEF Line, ApartInv, Free, Waits
  <2>3. CASE Engaged /\ epc \in Session
    BY <1>1, <2>1, <2>3 DEF ApartInv
  <2>4. CASE Engaged /\ epc = "entered"
    BY <1>1, <2>1, <2>4 DEF Line, SoleInv, ApartInv
  <2>5. CASE Engaged /\ epc \notin Session /\ epc # "entered"
    <3>1. ~Has(toStm, Orders) /\ ~Has(toStm, {"uok"}) /\ ~Has(toEsp, {"init"})
      BY <1>1, <2>5 DEF Line, SoleInv
    <3>2. After(toStm, {"uok"}, Others) /\ After(toEsp, {"init"}, Statuses)
      BY <3>1, NoneAfter
    <3>3. Free'
      BY <1>1, <2>5, <3>1, <3>2 DEF Free
    <3> QED
      BY <3>3 DEF ApartInv
  <2> QED
    BY <2>2, <2>3, <2>4, <2>5
<1>5. EngagedInv'
  BY <1>1, <1>3 DEF Line, EngagedInv
<1>6. FreshInv'
  BY <1>1 DEF Line, FreshInv
<1>7. SoleInv'
  BY <1>1, <1>2, <1>3 DEF Line, SoleInv
<1>8. ReadyInv' /\ ServeInv'
  <2>1. CASE epc \in Session
    <3>1. ~Has(toStm, {"uok"})
      BY <1>1, <2>1 DEF Line, SoleInv, Session
    <3>2. Here => Lost'
      BY <1>2, <1>3 DEF Here
    <3>3. spc = "failed" => Lost'
      BY <1>1, <1>2, <1>3 DEF DisplayInv, PlaceInv, AppPCs, Requesting, Engaged, Redoing, Copying
    <3>4. Adrift'
      BY <1>1, <1>2, <1>3 DEF Adrift, Here
    <3>5. Copies => Copies' \/ Lost'
      BY <1>1, <1>2, <1>3 DEF Copies, Copying, Engaged, Redoing, Requesting, DisplayInv
    <3> QED
      BY <1>1, <2>1, <3>1, <3>2, <3>3, <3>4, <3>5, GrownSame, SessionKept
  <2>2. CASE epc \notin Session
    BY <1>1, <2>2 DEF Session, ReadyInv, ServeInv
  <2> QED
    BY <2>1, <2>2
<1> QED
  BY <1>4, <1>5, <1>6, <1>7, <1>8 DEF Line

\* The ESP is reset in the middle of anything, while the display runs on.
LEMMA EspResetStep ==
  ASSUME Types, PlaceInv, Line, "stm" \notin Alone, EspReset
  PROVE  Line'
<1>1. UNCHANGED <<toStm, toEsp, state, sum, bootcmd, didUpdate, spc>> /\ epc' = "boot"
  BY DEF EspReset, card, rtc, stmRun
<1>2. Engaged' = Engaged
  BY <1>1 DEF Engaged, Redoing
<1>3. Waits => Waits'
  BY <1>1 DEF Waits
<1>4. ApartInv' /\ EngagedInv' /\ FreshInv' /\ SoleInv'
  BY <1>1, <1>2, <1>3 DEF Line, ApartInv, EngagedInv, FreshInv, SoleInv, Free, Answered, Lost
<1>5. ReadyInv' /\ ServeInv'
  BY <1>1 DEF ReadyInv, ServeInv
<1> QED
  BY <1>4, <1>5 DEF Line

\* After a power failure nothing is on the line.
LEMMA DarkLine ==
  ASSUME toStm = <<>>, toEsp = <<>>, epc = "boot", spc = "boot"
  PROVE  Line
<1>1. Free
  BY EmptyWire DEF Free
<1>2. ApartInv /\ EngagedInv /\ FreshInv /\ SoleInv
  BY <1>1, EmptyWire DEF ApartInv, EngagedInv, FreshInv, SoleInv
<1>3. ReadyInv /\ ServeInv
  BY DEF ReadyInv, ServeInv
<1> QED
  BY <1>2, <1>3 DEF Line

LEMMA DarkLineNext ==
  toStm' = <<>> /\ toEsp' = <<>> /\ epc' = "boot" /\ spc' = "boot" => Line'
<1> DEFINE Dark == toStm = <<>> /\ toEsp = <<>> /\ epc = "boot" /\ spc = "boot"
<1>1. Dark => Line
  BY DarkLine
<1>2. Dark' => Line'
  BY <1>1, PTL
<1> QED
  BY <1>2

-----------------------------------------------------------------------------
(* The display in update mode                                              *)

\* In update mode an order is obeyed at once, and answered.
LEMMA OrderHeard ==
  ASSUME Types, Line, StmNext, spc = "update", Head(toStm).k \notin {"uok"} \cup Leave
  PROVE  /\ Engaged /\ ~Lost /\ ~Answered /\ epc # "entered" /\ ~Has(toEsp, {"init"})
         /\ After(toStm', Leave, Orders \cup {"uok"})
         /\ Has(toStm', {"uok"}) => Has(toStm, {"uok"})
         /\ Has(toStm', Orders) => Has(toStm, Orders)
<1>1. Engaged /\ ~Lost
  BY DEF Engaged, Lost
<1>2. Head(toStm).k \in Others
  BY StmHeard DEF Packet, Chunk, Others
<1>3. ~Answered
  BY <1>2, StmHeard DEF Answered
<1>4. epc # "entered" /\ ~Has(toEsp, {"init"})
  BY <1>1, <1>3 DEF Line, EngagedInv
<1>5. After(toStm', Leave, Orders \cup {"uok"})
  BY <1>1, StmHeard DEF Line, EngagedInv
<1> QED
  BY <1>1, <1>3, <1>4, <1>5, StmHeard

\* What a display in update mode does with it leaves the rest of the line in order.
LEMMA Obeyed ==
  ASSUME Types, Line, StmNext, spc = "update", Head(toStm).k \notin {"uok"} \cup Leave,
         UNCHANGED <<state, sum, epc>>, Engaged',
         \/ toEsp' = toEsp
         \/ \E m : toEsp' = Append(toEsp, m) /\ m.k \notin {"init", "entered"}
  PROVE  ApartInv' /\ EngagedInv' /\ FreshInv' /\ SoleInv'
<1>1. ~Has(toEsp', {"init"}) /\ (Has(toEsp', {"entered"}) => Has(toEsp, {"entered"}))
  BY OrderHeard, EspSent
<1>2. Fresh(toEsp') /\ Last(toEsp')
  BY <1>1, NoInits
<1>3. ApartInv' /\ FreshInv' /\ EngagedInv'
  BY <1>1, <1>2, OrderHeard DEF ApartInv, FreshInv, EngagedInv
<1>4. spc' # "starting"
  BY DEF Engaged, Redoing, Copying, Requesting
<1>5. SoleInv'
  BY <1>1, <1>4, OrderHeard DEF Line, SoleInv
<1> QED
  BY <1>3, <1>5

LEMMA SentFast ==
  ASSUME Types, PlaceInv, spc \in {"update", "tell"}, NEW k, SendEsp(k)
  PROVE  toEsp' = Append(toEsp, Fast(k))
BY DEF PlaceInv, SendEsp, Fast, Types, TypeOK, Requesting

\* With nothing but inits on its way, and no init, an answer is all there is.
LEMMA AloneSent ==
  ASSUME Types, ~Has(toEsp, {"init"}), OnlyInits(toEsp), NEW k, toEsp' = Append(toEsp, Fast(k))
  PROVE  Then(k, toEsp')
<1>1. toEsp = <<>>
  BY Wiring, NothingElse
<1> QED
  BY <1>1, ThenAlone

\* Where a session is when the display hears an order.
LEMMA OrderPlace ==
  ASSUME Types, Line, StmNext, spc = "update", Head(toStm).k \in Orders, epc \in Session
  PROVE  /\ OnlyInits(toEsp) /\ toStm' = <<>>
         /\ \/ epc = "awaitReady" /\ Head(toStm).k = "prepare"
            \/ epc = "serve" /\ Head(toStm).k = "start" /\ read = 0
            \/ /\ epc = "serve" /\ Head(toStm) = Piece(read)
               /\ read > 0 /\ remaining = Chunks - read + 1
<1>1. Engaged /\ ~Lost /\ ~Answered
  BY OrderHeard DEF Orders, Leave
<1>2. toStm # <<>> /\ toStm' = Tail(toStm)
  BY DEF StmNext
<1>3. ~Copies
  BY DEF Copies, Copying
<1>4. CASE epc = "awaitReady"
  <2>1. OnlyInits(toEsp) /\ Ordered(toStm)
    BY <1>1, <1>2, <1>4 DEF Line, ReadyInv
  <2>2. Head(toStm) = Fast("prepare") /\ toStm' = <<>>
    BY <1>2, <2>1, Wiring, OrderedTail DEF Orders
  <2> QED
    BY <1>4, <2>1, <2>2 DEF Fast
<1>5. CASE epc = "serve"
  <2>1. Asking
    BY <1>2, <1>5 DEF Line, ServeInv, Answering
  <2>2. CASE toStm = <<Fast("start")>>
    BY <1>1, <1>2, <1>5, <2>1, <2>2, OneIs DEF Asking, Fast, Piece
  <2>3. CASE toStm = <<Piece(read)>>
    <3>1. Head(toStm) = Piece(read) /\ toStm' = <<>>
      BY <1>2, <2>3, OneIs
    <3>2. toStm # <<Fast("start")>>
      BY <3>1, OneIs DEF Fast, Piece
    <3> QED
      BY <1>1, <1>5, <2>1, <3>1, <3>2 DEF Asking
  <2> QED
    BY <2>1, <2>2, <2>3 DEF Asking
<1>6. epc \notin {"begin", "prepare", "awaitCopy"}
  BY <1>1, <1>2, <1>3 DEF Line, ReadyInv, ServeInv, Awaiting
<1> QED
  BY <1>4, <1>5, <1>6 DEF Session

\* The display erases the update area.
LEMMA BeginStep ==
  ASSUME Types, DisplayInv, PlaceInv, Line, BeginUpdate
  PROVE  Line'
<1>1. StmNext /\ spc = "update" /\ spc' = "update" /\ Head(toStm).k = "prepare"
      /\ UNCHANGED <<state, sum, epc, read>> /\ SendEsp("readyImage")
  BY DEF BeginUpdate, StmHears, stmRun, card, espRun
<1>2. toEsp' = Append(toEsp, Fast("readyImage"))
  BY <1>1, SentFast
<1>3. Engaged' /\ Here' /\ Fast("readyImage").k \notin {"init", "entered"}
  BY <1>1 DEF Engaged, Here, Fast
<1>4. ApartInv' /\ EngagedInv' /\ FreshInv' /\ SoleInv'
  BY <1>1, <1>2, <1>3, Obeyed DEF Leave
<1>5. ReadyInv' /\ ServeInv'
  <2>1. CASE epc \in Session
    <3>1. epc = "awaitReady" /\ OnlyInits(toEsp) /\ toStm' = <<>>
      BY <1>1, <2>1, OrderPlace DEF Orders, Piece
    <3>2. Then("readyImage", toEsp')
      BY <1>1, <1>2, <3>1, OrderHeard, AloneSent DEF Leave
    <3> QED
      BY <1>1, <1>3, <3>1, <3>2 DEF ReadyInv, ServeInv
  <2>2. CASE epc \notin Session
    BY <1>1, <2>2 DEF Session, ReadyInv, ServeInv
  <2> QED
    BY <2>1, <2>2
<1> QED
  BY <1>4, <1>5 DEF Line

\* It learns how many chunks will come.
LEMMA StartStep ==
  ASSUME Types, DisplayInv, PlaceInv, Line, ImgStart
  PROVE  Line'
<1>1. StmNext /\ spc = "update" /\ spc' = "update" /\ Head(toStm).k = "start"
      /\ UNCHANGED <<state, sum, epc, read>> /\ SendEsp("readyChunk") /\ remaining' = Chunks
  BY DEF ImgStart, StmHears, stmRun, card, espRun
<1>2. toEsp' = Append(toEsp, Fast("readyChunk"))
  BY <1>1, SentFast
<1>3. Engaged' /\ Here' /\ Fast("readyChunk").k \notin {"init", "entered"}
  BY <1>1 DEF Engaged, Here, Fast
<1>4. ApartInv' /\ EngagedInv' /\ FreshInv' /\ SoleInv'
  BY <1>1, <1>2, <1>3, Obeyed DEF Leave
<1>5. ReadyInv' /\ ServeInv'
  <2>1. CASE epc \in Session
    <3>1. epc = "serve" /\ OnlyInits(toEsp) /\ toStm' = <<>> /\ read = 0
      BY <1>1, <2>1, OrderPlace DEF Orders, Piece
    <3>2. Then("readyChunk", toEsp')
      BY <1>1, <1>2, <3>1, OrderHeard, AloneSent DEF Leave
    <3>3. Chunks \in Nat \ {0}
      BY FirmwareUpdateAssumption DEF FirmwareUpdateAssumption
    <3> QED
      BY <1>1, <1>3, <3>1, <3>2, <3>3 DEF ReadyInv, ServeInv, Answering
  <2>2. CASE epc \notin Session
    BY <1>1, <2>2 DEF Session, ReadyInv, ServeInv
  <2> QED
    BY <2>1, <2>2
<1> QED
  BY <1>4, <1>5 DEF Line

\* It writes a chunk; the last one decides.
LEMMA DataStep ==
  ASSUME Types, DisplayInv, PlaceInv, Line, ImgData
  PROVE  Line'
<1>1. StmNext /\ spc = "update" /\ Head(toStm).k = "data" /\ UNCHANGED <<state, sum, epc, read>>
  BY DEF ImgData, StmHears, card, espRun
<1>2. \/ SendEsp("resend") /\ spc' = "update" /\ remaining' = remaining
      \/ SendEsp("readyChunk") /\ spc' = "update" /\ remaining # 1
         /\ remaining' = (remaining - 1) % Width
      \/ toEsp' = toEsp /\ spc' = "request"
      \/ SendEsp("abort") /\ spc' = "failed"
  BY <1>1 DEF ImgData
<1>3. Engaged'
  BY <1>2 DEF Engaged
<1>4. \/ toEsp' = toEsp
      \/ \E m : toEsp' = Append(toEsp, m) /\ m.k \notin {"init", "entered"}
  <2>1. ASSUME NEW k \in {"resend", "readyChunk", "abort"}, SendEsp(k)
        PROVE  \E m : toEsp' = Append(toEsp, m) /\ m.k \notin {"init", "entered"}
    <3>1. Fast(k).k \notin {"init", "entered"}
      BY DEF Fast
    <3> QED
      BY <1>1, <2>1, <3>1, SentFast
  <2> QED
    BY <1>2, <2>1
<1>5. ApartInv' /\ EngagedInv' /\ FreshInv' /\ SoleInv'
  BY <1>1, <1>3, <1>4, Obeyed DEF Leave
<1>6. ReadyInv' /\ ServeInv'
  <2>1. CASE epc \in Session
    <3>1. epc = "serve" /\ OnlyInits(toEsp) /\ toStm' = <<>> /\ read > 0
          /\ remaining = Chunks - read + 1
      BY <1>1, <2>1, OrderPlace DEF Orders, Piece
    <3>2. ~Has(toEsp, {"init"})
      BY <1>1, OrderHeard DEF Leave
    <3>3. \A k : SendEsp(k) => Then(k, toEsp')
      BY <1>1, <3>1, <3>2, SentFast, AloneSent
    <3>4. Chunks \in Nat /\ Chunks < Width /\ Width \in Nat \ {0} /\ read \in 0..Chunks
      BY FirmwareUpdateAssumption DEF FirmwareUpdateAssumption, Types, TypeOK, Width
    <3>5. spc' = "update" => Here'
      BY DEF Here
    <3>6. CASE SendEsp("resend") /\ spc' = "update" /\ remaining' = remaining
      BY <1>1, <3>1, <3>3, <3>5, <3>6 DEF ReadyInv, ServeInv, Answering
    <3>7. CASE SendEsp("readyChunk") /\ spc' = "update" /\ remaining # 1
               /\ remaining' = (remaining - 1) % Width
      <4>1. read < Chunks
        BY <3>1, <3>4, <3>7
      <4>2. remaining - 1 = Chunks - read /\ Chunks - read \in 0..Width - 1
        BY <3>1, <3>4
      <4>3. (Chunks - read) % Width = Chunks - read
        BY <3>4, <4>2
      <4>4. remaining' = Chunks - read
        BY <3>7, <4>2, <4>3
      <4> QED
        BY <1>1, <3>1, <3>3, <3>5, <3>7, <4>1, <4>4 DEF ReadyInv, ServeInv, Answering
    <3>8. CASE toEsp' = toEsp /\ spc' = "request"
      BY <1>1, <3>1, <3>8 DEF ReadyInv, ServeInv, Answering
    <3>9. CASE SendEsp("abort") /\ spc' = "failed"
      BY <1>1, <3>1, <3>3, <3>9 DEF ReadyInv, ServeInv, Answering
    <3> QED
      BY <1>2, <3>6, <3>7, <3>8, <3>9
  <2>2. CASE epc \notin Session
    BY <1>1, <2>2 DEF Session, ReadyInv, ServeInv
  <2> QED
    BY <2>1, <2>2
<1> QED
  BY <1>5, <1>6 DEF Line

\* It leaves its command to the bootloader and says that it begins.
LEMMA RequestStep ==
  ASSUME Types, DisplayInv, PlaceInv, Line, RequestUpdate
  PROVE  Line'
<1>1. UNCHANGED <<toStm, state, sum, epc, read>> /\ spc \in {"request"} \cup Requesting
  BY DEF RequestUpdate, Requesting, card, espRun
<1>2. Engaged /\ Engaged' /\ ~Here /\ ~Redoing /\ spc' # "update"
  BY <1>1 DEF RequestUpdate, Engaged, Requesting, Redoing, Copying, Here, Lost, DisplayInv
<1>3. epc # "entered" /\ ~Has(toEsp, {"init"})
  BY <1>1, <1>2 DEF Line, EngagedInv, Requesting
<1>4. toEsp' = toEsp \/ (spc = "tell" /\ toEsp' = Append(toEsp, Fast("beginning")))
  BY SentFast DEF RequestUpdate
<1>5. Fast("beginning").k = "beginning"
  BY DEF Fast
<1>6. ~Has(toEsp', {"init"}) /\ (Has(toEsp', {"entered"}) => Has(toEsp, {"entered"}))
  BY <1>3, <1>4, <1>5, EspSent
<1>7. Fresh(toEsp') /\ Last(toEsp')
  BY <1>6, NoInits
<1>8. ApartInv' /\ FreshInv' /\ EngagedInv'
  BY <1>1, <1>2, <1>3, <1>6, <1>7 DEF ApartInv, FreshInv, EngagedInv, Line
<1>9. SoleInv'
  BY <1>1, <1>2, <1>3, <1>6 DEF Line, SoleInv, Engaged, Redoing, Copying, Requesting
<1>10. ~Lost /\ ~Adrift /\ ~Copies
  BY <1>1, <1>2 DEF Lost, Adrift, Copies, Requesting, Copying
<1>11. ReadyInv' /\ epc # "awaitCopy"
  BY <1>1, <1>2, <1>10 DEF Line, ReadyInv, ServeInv, Awaiting, Here
<1>12. ASSUME epc = "serve" PROVE Answering'
  <2>1. OnlyInits(toEsp) /\ toStm = <<>> /\ (spc = "tell" => size = Chunks)
    BY <1>1, <1>2, <1>10, <1>12 DEF Line, ServeInv, Asking, Answering, Requesting
  <2>2. CASE spc = "request"
    BY <1>1, <2>1, <2>2 DEF RequestUpdate, Answering
  <2>3. CASE spc = "requestSize"
    BY <1>1, <2>1, <2>3 DEF RequestUpdate, Answering
  <2>4. CASE spc = "tell"
    <3>1. Then("beginning", toEsp')
      BY <1>3, <2>1, <2>4, SentFast, AloneSent DEF RequestUpdate
    <3>2. Copies'
      BY <2>1, <2>4 DEF RequestUpdate, DisplayInv, Copies, Requesting
    <3> QED
      BY <1>1, <2>1, <3>1, <3>2 DEF Answering
  <2> QED
    BY <1>1, <2>2, <2>3, <2>4 DEF Requesting
<1>13. ServeInv'
  BY <1>1, <1>11, <1>12 DEF ServeInv
<1> QED
  BY <1>8, <1>9, <1>11, <1>13 DEF Line

\* It overhears what is of no concern to it.
LEMMA ProgressStep ==
  ASSUME Types, DisplayInv, PlaceInv, Line, Progress
  PROVE  Line'
<1>1. UNCHANGED <<toEsp, state, sum, epc, read, app, size, bootcmd, didUpdate, spc, remaining>>
      /\ StmNext /\ spc = "update"
  BY DEF Progress, card, espRun, stmFlash, rtc, stmRun
<1>2. Engaged' = Engaged /\ Engaged /\ Lost' = Lost /\ ~Lost /\ Here' = Here /\ ~Copies
  BY <1>1 DEF Engaged, Redoing, Lost, Here, Copies, Copying
<1>3. ~Head(toStm).fast \/ Head(toStm).k \in {"sector", "copying", "skip"}
  BY <1>1 DEF Progress, PlaceInv
<1>4. /\ Answered => Answered'
      /\ After(toStm, Leave, Orders \cup {"uok"}) => After(toStm', Leave, Orders \cup {"uok"})
      /\ Has(toStm', Leave) => Has(toStm, Leave)
      /\ Has(toStm', Orders) => Has(toStm, Orders)
      /\ Has(toStm', {"uok"}) => Has(toStm, {"uok"})
      /\ After(toStm, {"uok"}, Others \cup {"uok"}) => After(toStm', {"uok"}, Others \cup {"uok"})
  BY <1>1, StmHeard DEF Answered
<1>5. toStm # <<>> /\ toStm' = Tail(toStm)
  BY <1>1 DEF StmNext
<1>6. ApartInv' /\ FreshInv' /\ EngagedInv'
  BY <1>1, <1>2, <1>4 DEF ApartInv, FreshInv, EngagedInv, Line, Waits
<1>7. SoleInv'
  BY <1>1, <1>2, <1>4, <1>5 DEF Line, SoleInv
<1>8. ReadyInv'
  <2>1. ASSUME epc = "awaitReady" PROVE OnlyInits(toEsp) /\ Ordered(toStm')
    <3>1. OnlyInits(toEsp) /\ Ordered(toStm)
      BY <1>2, <1>5, <2>1 DEF Line, ReadyInv
    <3>2. Head(toStm) # Fast("prepare")
      BY <1>3 DEF Fast
    <3> QED
      BY <1>5, <3>1, <3>2, Wiring, OrderedTail
  <2> QED
    BY <1>1, <1>2, <1>4, <1>5, <2>1 DEF Line, ReadyInv
<1>9. epc \notin {"serve", "awaitCopy"}
  <2>1. toStm # <<Fast("start")>> /\ toStm # <<Piece(read)>>
    BY <1>3, OneIs DEF Fast, Piece
  <2> QED
    BY <1>5, <2>1 DEF Line, ServeInv, Asking, Answering, Awaiting
<1>10. ServeInv'
  BY <1>1, <1>9 DEF ServeInv
<1> QED
  BY <1>6, <1>7, <1>8, <1>10 DEF Line

-----------------------------------------------------------------------------
(* The ESP's side of a session                                             *)

\* What the ESP takes from its wire, and what is left.
LEMMA EspHeard ==
  ASSUME Types, EspNext
  PROVE  /\ toEsp # <<>> /\ toEsp' = Tail(toEsp) /\ Head(toEsp) \in Packet
         /\ toEsp' \in Seq(Packet)
         /\ \A K : Has(toEsp, K) <=> Head(toEsp).k \in K \/ Has(toEsp', K)
         /\ \A K, L : After(toEsp, K, L) =>
                        After(toEsp', K, L) /\ (Head(toEsp).k \in K => ~Has(toEsp', L))
         /\ OnlyInits(toEsp) => Head(toEsp).k = "init" /\ OnlyInits(toEsp')
<1>1. toEsp # <<>> /\ toEsp' = Tail(toEsp) /\ toEsp \in Seq(Packet)
  BY Wiring DEF EspNext
<1>2. Head(toEsp) \in Packet /\ Tail(toEsp) \in Seq(Packet)
  BY <1>1, TailIs
<1>3. \A K : Has(toEsp, K) <=> Head(toEsp).k \in K \/ Has(Tail(toEsp), K)
  BY <1>1, HasTail
<1>4. \A K, L : After(toEsp, K, L) =>
        After(Tail(toEsp), K, L) /\ (Head(toEsp).k \in K => ~Has(Tail(toEsp), L))
  BY <1>1, AfterTail
<1>5. OnlyInits(toEsp) => Head(toEsp).k = "init" /\ OnlyInits(Tail(toEsp))
  BY <1>1, InitsTail
<1> QED
  BY <1>1, <1>2, <1>3, <1>4, <1>5

LEMMA StmSent ==
  ASSUME Types, NEW m, toStm' = Append(toStm, m)
  PROVE  /\ \A K : Has(toStm', K) <=> Has(toStm, K) \/ m.k \in K
         /\ \A K, L : After(toStm, K, L) /\ (m.k \in L => ~Has(toStm, K)) => After(toStm', K, L)
<1>1. \A K : Has(toStm', K) <=> Has(toStm, K) \/ m.k \in K
  BY Wiring, HasAppend
<1>2. \A K, L : After(toStm, K, L) /\ (m.k \in L => ~Has(toStm, K)) => After(toStm', K, L)
  BY Wiring, AfterAppend
<1> QED
  BY <1>1, <1>2

\* The ESP answers the handshake of a display that is to be updated.
LEMMA AnswerStep ==
  ASSUME Types, CardInv, PlaceInv, Line, HearInit, epc' # "init"
  PROVE  Line'
<1>1. UNCHANGED <<state, sum, bootcmd, didUpdate, spc>> /\ epc = "init" /\ epc' = "entered"
      /\ EspNext /\ Head(toEsp).k = "init" /\ SendStm("uok")
  BY DEF HearInit, card, rtc, stmRun
<1>2. Engaged' = Engaged
  BY <1>1 DEF Engaged, Redoing
<1>3. PICK m : m.k = "uok" /\ toStm' = Append(toStm, m)
  BY <1>1 DEF SendStm
<1>4. Waits /\ Waits'
  BY <1>1 DEF PlaceInv, CardInv, Complete, Waits
<1>5. "uok" \notin Others \cup Orders \cup Leave
  BY DEF Others, Orders, Leave
<1>6. /\ ~Has(toStm, Orders) => ~Has(toStm', Orders)
      /\ ~Has(toStm, Others) => ~Has(toStm', Others)
      /\ After(toStm, {"uok"}, Others) => After(toStm', {"uok"}, Others)
      /\ ~Has(toStm, Leave) => ~Has(toStm', Leave)
  BY <1>3, <1>5, StmSent
<1>7. /\ Has(toEsp, {"init"}) /\ (Has(toEsp', {"entered"}) => Has(toEsp, {"entered"}))
      /\ After(toEsp, {"init"}, Statuses) =>
           After(toEsp', {"init"}, Statuses) /\ ~Has(toEsp', Statuses)
  BY <1>1, EspHeard
<1>8. ASSUME ~Engaged PROVE Free'
  BY <1>1, <1>4, <1>6, <1>7, <1>8 DEF Line, ApartInv, Free, Session, Answered
<1>9. ApartInv'
  BY <1>2, <1>8 DEF ApartInv
<1>10. /\ Last(toEsp) => Last(toEsp') /\ LastNow(toEsp')
       /\ Fresh(toEsp) => Fresh(toEsp') /\ FreshNow(toEsp')
  BY <1>1, Wiring, FreshTail DEF EspNext
<1>11. ASSUME Engaged PROVE EngagedInv'
  <2>1. spc = "update" /\ Answered /\ Last(toEsp)
    BY <1>7, <1>11 DEF Line, EngagedInv
  <2>2. Answered' /\ ~Has(toStm', Leave)
    BY <1>6, <2>1, AnsweredWith DEF Answered
  <2>3. After(toStm', Leave, Orders \cup {"uok"})
    BY <2>2, NoneAfter
  <2> QED
    BY <1>1, <1>4, <1>10, <2>1, <2>2, <2>3 DEF EngagedInv
<1>12. EngagedInv' /\ FreshInv'
  BY <1>2, <1>10, <1>11 DEF EngagedInv, FreshInv, Line
<1>13. ASSUME "stm" \in Alone PROVE SoleInv'
  <2>1. ~Has(toStm, {"uok"}) /\ spc # "starting" /\ ~Has(toEsp, {"entered"}) /\ ~Engaged
    BY <1>1, <1>7, <1>13 DEF Line, SoleInv
  <2>2. After(toStm, {"uok"}, Others \cup {"uok"})
    BY <2>1, NoneAfter
  <2>3. After(toStm', {"uok"}, Others \cup {"uok"})
    BY <1>3, <2>1, <2>2, StmSent
  <2>4. ~Has(toStm', Orders)
    BY <1>1, <1>6, <1>13 DEF Line, SoleInv, Session
  <2> QED
    BY <1>1, <1>2, <1>7, <2>1, <2>3, <2>4 DEF SoleInv
<1>14. SoleInv'
  BY <1>13 DEF SoleInv
<1>15. ReadyInv' /\ ServeInv'
  BY <1>1 DEF ReadyInv, ServeInv
<1> QED
  BY <1>9, <1>12, <1>14, <1>15 DEF Line

\* The display has entered its update mode, if what it says is a status.
LEMMA EnteredStep ==
  ASSUME Types, CardInv, PlaceInv, Line, HearEntered
  PROVE  LineInv'
<1>1. UNCHANGED <<state, sum, bootcmd, didUpdate, spc>> /\ epc = "entered" /\ EspNext
      /\ efast' = efast
  BY DEF HearEntered, card, rtc, stmRun
<1>2. Engaged' = Engaged /\ Lost' = Lost
  BY <1>1 DEF Engaged, Redoing, Lost
<1>3. /\ Has(toEsp', {"init"}) => Has(toEsp, {"init"})
      /\ Has(toEsp', {"entered"}) => Has(toEsp, {"entered"})
      /\ After(toEsp, {"init"}, Statuses) => After(toEsp', {"init"}, Statuses)
  BY <1>1, EspHeard
<1>4. (Last(toEsp) => Last(toEsp')) /\ (Fresh(toEsp) => Fresh(toEsp'))
  BY <1>1, HeardFewer DEF Fewer
<1>5. CASE epc' = "init"
  <2>1. toStm' = toStm /\ efast'
    BY <1>1, <1>5 DEF HearEntered, PlaceInv
  <2>2. CASE "stm" \in Alone
    BY <1>5, <2>1, <2>2 DEF LineInv, Over
  <2>3. CASE "stm" \notin Alone
    <3>1. Waits => Waits'
      BY <1>1, <1>5 DEF Waits
    <3>2. ~Engaged => Free
      BY <2>3 DEF Line, ApartInv, Lost
    <3>3. ApartInv'
      BY <1>1, <1>2, <1>3, <1>5, <2>1, <3>1, <3>2 DEF ApartInv, Free, Answered
    <3>4. EngagedInv' /\ FreshInv' /\ SoleInv'
      BY <1>1, <1>2, <1>3, <1>4, <1>5, <2>1, <2>3, <3>1
         DEF Line, EngagedInv, FreshInv, SoleInv, Answered
    <3>5. ReadyInv' /\ ServeInv'
      BY <1>5 DEF ReadyInv, ServeInv
    <3> QED
      BY <3>3, <3>4, <3>5 DEF LineInv, Line
  <2> QED
    BY <2>2, <2>3
<1>6. CASE epc' # "init"
  <2>1. Head(toEsp).k \in Statuses
    BY <1>1, <1>6 DEF HearEntered
  <2>2. Has(toEsp, Statuses)
    BY <1>1, <2>1, EspHeard
  <2>3. \/ Engaged /\ spc = "update" /\ Answered /\ toEsp' = <<>>
        \/ ~Engaged /\ Lost /\ toStm = <<>>
    <3>1. LastNow(toEsp) => toEsp' = <<>>
      BY <1>1, <2>1, Wiring, FreshTail DEF EspNext
    <3> QED
      BY <1>1, <2>2, <3>1 DEF Line, EngagedInv, ApartInv, Free, Session
  <2>4. OnlyInits(toEsp')
    BY <1>1, <2>1, Wiring, FreshTail DEF Line, FreshInv, EspNext
  <2>5. /\ \A K : "init" \notin K => ~Has(toEsp', K)
        /\ After(toEsp', {"init"}, Statuses)
    <3>1. \A K : "init" \notin K => ~Has(toEsp', K)
      BY <1>1, <2>4, EspHeard, NothingElse
    <3>2. ~Has(toEsp', Statuses)
      BY <3>1 DEF Statuses
    <3>3. After(toEsp', {"init"}, Statuses)
      BY <3>2 DEF Has, After
    <3> QED
      BY <3>1, <3>3
  <2>6. "stm" \in Alone => toStm = <<>>
    BY <1>1, <2>3 DEF Line, SoleInv
  <2>7. \/ epc' = "begin" /\ toStm' = toStm
        \/ epc' = "stmDone" /\ \E m : m.k = "skip" /\ toStm' = Append(toStm, m)
    BY <1>1, <1>6 DEF HearEntered, SendStm
  <2>8. "skip" \notin Orders \cup {"uok"} \cup Leave
    BY DEF Orders, Leave
  <2>9. /\ Has(toStm', Orders) => Has(toStm, Orders)
        /\ Has(toStm', {"uok"}) => Has(toStm, {"uok"})
        /\ Has(toStm', Leave) => Has(toStm, Leave)
    BY <2>7, <2>8, StmSent
  <2>10. ~Has(toStm, Orders) /\ ~Has(toStm, Leave)
    BY <2>3, AnsweredWith, EmptyWire
  <2>11. ASSUME ~Engaged PROVE ApartInv'
    <3>1. CASE epc' = "begin"
      BY <1>2, <2>3, <2>11, <3>1 DEF ApartInv, Session
    <3>2. CASE epc' = "stmDone"
      <4>1. ~Has(toStm', {"uok"}) /\ ~Has(toStm', Orders) /\ spc' # "starting"
        BY <1>1, <2>3, <2>9, <2>11, EmptyWire DEF Lost
      <4>2. After(toStm', {"uok"}, Others)
        BY <4>1, NoneAfter
      <4>3. Free'
        BY <2>5, <3>2, <4>1, <4>2 DEF Free
      <4> QED
        BY <4>3 DEF ApartInv
    <3> QED
      BY <2>7, <3>1, <3>2
  <2>12. ApartInv'
    BY <1>2, <2>11 DEF ApartInv
  <2>13. ASSUME Engaged PROVE EngagedInv'
    <3>1. ~Has(toEsp', {"init"}) /\ epc' # "entered" /\ Last(toEsp')
      BY <2>3, <2>7, <2>13, EmptyWire
    <3>2. After(toStm', Leave, Orders \cup {"uok"})
      BY <2>9, <2>10, NoneAfter
    <3> QED
      BY <3>1, <3>2 DEF EngagedInv
  <2>14. EngagedInv'
    BY <1>2, <2>13 DEF EngagedInv
  <2>15. FreshInv'
    BY <1>1, <1>4, <2>7 DEF Line, FreshInv
  <2>16. SoleInv'
    <3>1. "stm" \in Alone => ~Has(toStm', {"uok"})
      BY <2>6, <2>9, EmptyWire
    <3>2. Engaged => ~Has(toEsp', {"init"})
      BY <2>3, EmptyWire
    <3>3. ~Has(toEsp', {"entered"}) /\ spc' # "starting" /\ ~Has(toStm', Orders) /\ epc' # "entered"
      BY <1>1, <2>3, <2>5, <2>7, <2>9, <2>10 DEF Lost
    <3> QED
      BY <1>2, <3>1, <3>2, <3>3 DEF SoleInv
  <2>17. ReadyInv' /\ ServeInv'
    BY <1>1, <1>2, <2>3, <2>4, <2>7 DEF ReadyInv, ServeInv, Answered
  <2> QED
    BY <2>12, <2>14, <2>15, <2>16, <2>17 DEF LineInv, Line
<1> QED
  BY <1>5, <1>6

\* What a step within a session keeps of the rest.
LEMMA Within ==
  ASSUME Types, Line, epc \in Session, epc' \in Session,
         UNCHANGED <<bootcmd, didUpdate, spc>>, Fewer(toEsp, toEsp'),
         \/ toStm' = toStm
         \/ \E m : /\ m.k \notin {"uok"} \cup Leave /\ toStm' = Append(toStm, m)
                   /\ ~Has(toStm, Leave)
  PROVE  ApartInv' /\ EngagedInv' /\ FreshInv' /\ SoleInv' /\ Engaged' = Engaged /\ Lost' = Lost
<1>1. Engaged' = Engaged /\ Lost' = Lost
  BY DEF Engaged, Redoing, Lost
<1>2. /\ Has(toStm', {"uok"}) => Has(toStm, {"uok"})
      /\ Has(toStm', Leave) => Has(toStm, Leave)
      /\ After(toStm, Leave, Orders \cup {"uok"}) => After(toStm', Leave, Orders \cup {"uok"})
  BY StmSent
<1>3. /\ Has(toEsp', {"init"}) => Has(toEsp, {"init"})
      /\ Has(toEsp', {"entered"}) => Has(toEsp, {"entered"})
      /\ (Last(toEsp) => Last(toEsp')) /\ (Fresh(toEsp) => Fresh(toEsp'))
  BY DEF Fewer
<1>4. epc # "entered" /\ epc' # "entered"
  BY DEF Session
<1>5. ApartInv'
  BY <1>1, SessionPlace DEF ApartInv
<1>6. EngagedInv'
  BY <1>1, <1>2, <1>3, <1>4, SessionQuiet DEF Line, EngagedInv
<1>7. FreshInv'
  BY <1>3, <1>4 DEF Line, FreshInv
<1>8. SoleInv'
  BY <1>1, <1>2, <1>3, <1>4 DEF Line, SoleInv
<1> QED
  BY <1>1, <1>5, <1>6, <1>7, <1>8

\* The state file is written before the first order.
LEMMA MarkStep ==
  ASSUME Types, Line, Truncate \/ Put, epc = "begin"
  PROVE  Line'
<1>1. UNCHANGED <<toStm, toEsp, bootcmd, didUpdate, spc, size, read, app, remaining>>
      /\ epc' \in {"begin", "prepare"}
  BY DEF Truncate, Put, Mark, rtc, stmRun, espRun, stmFlash
<1>2. epc \in Session /\ epc' \in Session
  BY <1>1 DEF Session
<1>3. ApartInv' /\ EngagedInv' /\ FreshInv' /\ SoleInv' /\ Engaged' = Engaged /\ Lost' = Lost
  BY <1>1, <1>2, FewerSame, Within
<1>4. ReadyInv' /\ ServeInv'
  BY <1>1, <1>3 DEF Line, ReadyInv, ServeInv, Answered
<1> QED
  BY <1>3, <1>4 DEF Line

LEMMA FastSent ==
  ASSUME Types, PlaceInv, epc \in Session, NEW k, SendStm(k)
  PROVE  toStm' = Append(toStm, Fast(k)) /\ Fast(k).k = k
BY DEF PlaceInv, SendStm, Fast, Types, TypeOK, Session

LEMMA OneSent == ASSUME NEW m PROVE Append(<<>>, m) = <<m>>
OBVIOUS

\* The order to prepare.
LEMMA PrepareStep ==
  ASSUME Types, PlaceInv, Line, Prepare
  PROVE  Line'
<1>1. UNCHANGED <<toEsp, bootcmd, didUpdate, spc, size, read, app, remaining>>
      /\ epc = "prepare" /\ epc' = "awaitReady"
  BY DEF Prepare, rtc, stmRun, espRun, stmFlash
<1>2. epc \in Session /\ epc' \in Session
  BY <1>1 DEF Session
<1>3. toStm' = Append(toStm, Fast("prepare")) /\ Fast("prepare").k = "prepare"
  BY <1>2, FastSent DEF Prepare
<1>4. OnlyInits(toEsp) /\ ((spc = "update" /\ Answered) \/ (Lost /\ toStm = <<>>))
  BY <1>1 DEF Line, ReadyInv
<1>5. ~Has(toStm, Leave)
  BY <1>4, AnsweredWith, EmptyWire
<1>6. "prepare" \notin Leave /\ "prepare" # "uok"
  BY DEF Leave
<1>7. ApartInv' /\ EngagedInv' /\ FreshInv' /\ SoleInv' /\ Engaged' = Engaged /\ Lost' = Lost
  BY <1>1, <1>2, <1>3, <1>5, <1>6, FewerSame, Within
<1>8. CASE spc = "update" /\ Answered
  <2>1. Ordered(toStm')
    BY <1>3, <1>8, Wiring, AnsweredWith, OrderedAppend
  <2> QED
    BY <1>1, <1>4, <1>7, <1>8, <2>1 DEF Line, ReadyInv, ServeInv
<1>9. CASE Lost /\ toStm = <<>>
  <2>1. toStm' = <<Fast("prepare")>>
    BY <1>3, <1>9, OneSent
  <2> QED
    BY <1>1, <1>4, <1>7, <1>9, <2>1 DEF Line, ReadyInv, ServeInv
<1> QED
  BY <1>4, <1>8, <1>9

LEMMA ThenHead ==
  ASSUME Types, EspNext, NEW k, Then(k, toEsp)
  PROVE  Head(toEsp).fast /\ Head(toEsp).k = k /\ OnlyInits(toEsp')
<1>1. Head(toEsp) = Fast(k) /\ OnlyInits(Tail(toEsp))
  BY DEF Then
<1>2. toEsp' = Tail(toEsp)
  BY EspHeard
<1>3. Fast(k).fast /\ Fast(k).k = k
  BY DEF Fast
<1> QED
  BY <1>1, <1>2, <1>3

\* It skips what is no status.
LEMMA NoiseStep ==
  ASSUME Types, PlaceInv, Line, HearNoise
  PROVE  Line'
<1>1. UNCHANGED <<toStm, bootcmd, didUpdate, spc, size, read, app, remaining, epc>>
      /\ epc \in {"awaitReady", "serve", "awaitCopy"} /\ EspNext
  BY DEF HearNoise, rtc, stmRun, espRun, stmFlash
<1>2. epc \in Session /\ epc' \in Session
  BY <1>1 DEF Session
<1>3. ApartInv' /\ EngagedInv' /\ FreshInv' /\ SoleInv' /\ Engaged' = Engaged /\ Lost' = Lost
  BY <1>1, <1>2, HeardFewer, Within
<1>4. Redoing' = Redoing /\ Here' = Here /\ Copies' = Copies /\ Adrift' = Adrift
  BY <1>1, <1>3 DEF Redoing, Here, Copies, Adrift
<1>5. OnlyInits(toEsp) => OnlyInits(toEsp')
  BY <1>1, EspHeard
<1>6. \A k \in Statuses : ~Then(k, toEsp)
  BY <1>1, ThenHead DEF HearNoise
<1>7. /\ ~Then("readyImage", toEsp) /\ ~Then("readyChunk", toEsp) /\ ~Then("resend", toEsp)
      /\ ~Then("abort", toEsp) /\ ~Then("copied", toEsp) /\ ~Then("beginning", toEsp)
      /\ Head(toEsp) # Fast("beginning")
  BY <1>6 DEF Statuses, HearNoise, Fast
<1>8. ReadyInv'
  BY <1>1, <1>3, <1>5, <1>7 DEF Line, ReadyInv
<1>9. ServeInv'
  BY <1>1, <1>3, <1>4, <1>5, <1>7 DEF Line, ServeInv, Asking, Answering, Awaiting
<1> QED
  BY <1>3, <1>8, <1>9 DEF Line

\* The update area is erased: it says how many chunks will come.
LEMMA ReadyStep ==
  ASSUME Types, PlaceInv, Line, HearReady
  PROVE  Line'
<1>1. UNCHANGED <<bootcmd, didUpdate, spc, size, read, app, remaining>>
      /\ epc = "awaitReady" /\ EspNext /\ Head(toEsp).k \in Statuses
  BY DEF HearReady, EspHears, rtc, stmRun, stmFlash
<1>2. epc \in Session
  BY <1>1 DEF Session
<1>3. ~OnlyInits(toEsp)
  BY <1>1, EspHeard DEF Statuses
<1>4. Then("readyImage", toEsp) /\ toStm = <<>> /\ Here
  BY <1>1, <1>3 DEF Line, ReadyInv
<1>5. epc' = "serve" /\ SendStm("start") /\ OnlyInits(toEsp')
  BY <1>1, <1>4, ThenHead DEF HearReady
<1>6. toStm' = Append(toStm, Fast("start")) /\ Fast("start").k = "start"
  BY <1>2, <1>5, FastSent
<1>7. ~Has(toStm, Leave)
  BY <1>4, EmptyWire
<1>8. epc' \in Session /\ "start" \notin Leave /\ "start" # "uok"
  BY <1>5 DEF Session, Leave
<1>9. ApartInv' /\ EngagedInv' /\ FreshInv' /\ SoleInv' /\ Engaged' = Engaged /\ Lost' = Lost
  BY <1>1, <1>2, <1>6, <1>7, <1>8, HeardFewer, Within
<1>10. Here' /\ toStm' = <<Fast("start")>> /\ read = 0
  BY <1>1, <1>4, <1>6, <1>9, OneSent DEF Here, PlaceInv
<1>11. ReadyInv' /\ ServeInv'
  BY <1>1, <1>5, <1>10 DEF ReadyInv, ServeInv, Asking
<1> QED
  BY <1>9, <1>11 DEF Line

\* What a chunk looks like on the wire.
LEMMA DataSent ==
  ASSUME Types, PlaceInv, epc = "serve", NEW n
  PROVE  Data(n) = Piece(n)
BY DEF PlaceInv, Data, Piece, Types, TypeOK, Session

\* It sends the next chunk or the last one again, or stops sending.
LEMMA ServeStep ==
  ASSUME Types, DisplayInv, PlaceInv, Line, Serve
  PROVE  Line'
<1>1. UNCHANGED <<bootcmd, didUpdate, spc, size, app, remaining>>
      /\ epc = "serve" /\ EspNext /\ Head(toEsp).k \in Statuses
  BY DEF Serve, EspHears, rtc, stmRun, stmFlash
<1>2. epc \in Session
  BY <1>1 DEF Session
<1>3. ~OnlyInits(toEsp)
  BY <1>1, EspHeard DEF Statuses
<1>4. Answering /\ toStm = <<>>
  BY <1>1, <1>3 DEF Line, ServeInv, Asking, Answering
<1>5. ASSUME epc' \in Session,
             toStm' = toStm \/ \E m : m.k # "uok" /\ toStm' = Append(toStm, m) /\ m.k \notin Leave
      PROVE  /\ ApartInv' /\ EngagedInv' /\ FreshInv' /\ SoleInv'
             /\ Engaged' = Engaged /\ Lost' = Lost
  BY <1>1, <1>2, <1>4, <1>5, EmptyWire, HeardFewer, Within
<1>6. ASSUME NEW n, toStm' = Append(toStm, Data(n))
      PROVE  /\ toStm' = <<Piece(n)>>
             /\ \E m : m.k # "uok" /\ toStm' = Append(toStm, m) /\ m.k \notin Leave
  <2>1. toStm' = Append(toStm, Piece(n))
    BY <1>1, <1>6, DataSent
  <2>2. Piece(n).k = "data" /\ "data" \notin Leave /\ "data" # "uok"
    BY DEF Piece, Leave
  <2> QED
    BY <1>4, <2>1, <2>2, OneSent
<1>7. read \in 0..Chunks /\ Chunks \in Nat
  BY FirmwareUpdateAssumption DEF FirmwareUpdateAssumption, Types, TypeOK
<1>8. CASE Then("readyChunk", toEsp) /\ Here /\ read < Chunks
            /\ (Engaged => remaining = Chunks - read)
  <2>1. Head(toEsp).k = "readyChunk" /\ OnlyInits(toEsp')
    BY <1>1, <1>8, ThenHead
  <2>2. read' = read + 1 /\ epc' = epc /\ toStm' = Append(toStm, Data(read + 1))
    BY <1>7, <1>8, <2>1 DEF Serve
  <2>3. /\ ApartInv' /\ EngagedInv' /\ FreshInv' /\ SoleInv'
        /\ Engaged' = Engaged /\ Lost' = Lost /\ toStm' = <<Piece(read')>>
    BY <1>2, <1>5, <1>6, <2>2
  <2>4. Here' /\ read' > 0 /\ (Engaged' => remaining' = Chunks - read' + 1)
    <3>1. read' > 0 /\ Chunks - read' + 1 = Chunks - read
      BY <1>7, <2>2
    <3> QED
      BY <1>1, <1>8, <2>3, <3>1 DEF Here
  <2>5. Asking'
    BY <2>1, <2>3, <2>4 DEF Asking
  <2> QED
    BY <1>1, <2>2, <2>3, <2>5 DEF Line, ReadyInv, ServeInv
<1>9. CASE Then("resend", toEsp) /\ Here /\ read > 0
            /\ (Engaged => remaining = Chunks - read + 1)
  <2>1. Head(toEsp).k = "resend" /\ OnlyInits(toEsp')
    BY <1>1, <1>9, ThenHead
  <2>2. read' = read /\ epc' = epc /\ toStm' = Append(toStm, Data(read))
    BY <1>7, <1>9, <2>1 DEF Serve, Again
  <2>3. /\ ApartInv' /\ EngagedInv' /\ FreshInv' /\ SoleInv'
        /\ Engaged' = Engaged /\ Lost' = Lost /\ toStm' = <<Piece(read')>>
    BY <1>2, <1>5, <1>6, <2>2
  <2>4. Asking'
    BY <1>1, <1>9, <2>1, <2>2, <2>3 DEF Asking, Here
  <2> QED
    BY <1>1, <2>2, <2>3, <2>4 DEF Line, ReadyInv, ServeInv
<1>10. CASE Then("abort", toEsp)
  <2>1. Head(toEsp).k = "abort" /\ OnlyInits(toEsp')
    BY <1>1, <1>10, ThenHead
  <2>2. epc' = "boot" /\ toStm' = <<>>
    BY <1>4, <2>1 DEF Serve, AfterAbort
  <2>3. Engaged' = Engaged
    BY <1>1 DEF Engaged, Redoing
  <2>4. \A K : "init" \notin K => ~Has(toEsp', K)
    BY <1>1, <2>1, EspHeard, NothingElse
  <2>5. ~Has(toEsp', Statuses) /\ ~Has(toEsp', {"entered"})
    BY <2>4 DEF Statuses
  <2>6. After(toEsp', {"init"}, Statuses)
    BY <2>5 DEF Has, After
  <2>7. Fewer(toEsp, toEsp')
    BY <1>1, HeardFewer
  <2>8. ~Engaged => spc # "starting"
    BY <1>1, <1>2, SessionPlace DEF Lost
  <2>9. ApartInv'
    BY <1>1, <2>2, <2>3, <2>6, <2>8, EmptyWire DEF ApartInv, Free
  <2>10. EngagedInv' /\ FreshInv'
    BY <1>2, <2>2, <2>3, <2>7, EmptyWire, SessionQuiet DEF Line, EngagedInv, FreshInv, Fewer
  <2>11. spc # "starting"
    BY <1>2, SessionPlace DEF Lost, Engaged, Redoing, Requesting, Copying
  <2>12. SoleInv'
    BY <1>1, <1>2, <2>2, <2>3, <2>5, <2>7, <2>11, EmptyWire, SessionQuiet DEF SoleInv, Fewer
  <2>13. ReadyInv' /\ ServeInv'
    BY <2>2 DEF ReadyInv, ServeInv
  <2> QED
    BY <2>9, <2>10, <2>12, <2>13 DEF Line
<1>11. CASE Then("copied", toEsp) /\ Adrift /\ Here
  <2>1. Head(toEsp).k = "copied" /\ OnlyInits(toEsp')
    BY <1>1, <1>11, ThenHead
  <2>2. read' = read /\ epc' = epc /\ toStm' = toStm
    BY <2>1 DEF Serve
  <2>3. /\ ApartInv' /\ EngagedInv' /\ FreshInv' /\ SoleInv'
        /\ Engaged' = Engaged /\ Lost' = Lost
    BY <1>2, <1>5, <2>2
  <2>4. Adrift'
    BY <1>1, <1>11, <2>3 DEF Adrift, Here
  <2>5. Answering'
    BY <1>4, <2>1, <2>2, <2>4 DEF Answering
  <2> QED
    BY <1>1, <2>2, <2>3, <2>5 DEF Line, ReadyInv, ServeInv
<1>12. CASE Then("beginning", toEsp) /\ (Copies \/ Lost)
  <2>1. Head(toEsp).k = "beginning" /\ OnlyInits(toEsp')
    BY <1>1, <1>12, ThenHead
  <2>2. epc' = "awaitCopy" /\ toStm' = toStm
    BY <2>1 DEF Serve
  <2>3. epc' \in Session
    BY <2>2 DEF Session
  <2>4. /\ ApartInv' /\ EngagedInv' /\ FreshInv' /\ SoleInv'
        /\ Engaged' = Engaged /\ Lost' = Lost
    BY <1>5, <2>2, <2>3
  <2>5. Copies' = Copies
    BY <1>1 DEF Copies
  <2>6. Awaiting'
    BY <1>4, <1>12, <2>1, <2>2, <2>4, <2>5 DEF Awaiting
  <2> QED
    BY <2>2, <2>4, <2>6 DEF Line, ReadyInv, ServeInv
<1>13. CASE /\ Head(toEsp) = Fast("beginning") /\ Then("copied", Tail(toEsp))
            /\ app = "new" /\ Here
  <2>1. Head(toEsp).k = "beginning" /\ Then("copied", toEsp')
    <3>1. toEsp' = Tail(toEsp) /\ Fast("beginning").k = "beginning"
      BY <1>1, EspHeard DEF Fast
    <3> QED
      BY <1>13, <3>1
  <2>2. epc' = "awaitCopy" /\ toStm' = toStm
    BY <2>1 DEF Serve
  <2>3. epc' \in Session
    BY <2>2 DEF Session
  <2>4. /\ ApartInv' /\ EngagedInv' /\ FreshInv' /\ SoleInv'
        /\ Engaged' = Engaged /\ Lost' = Lost
    BY <1>5, <2>2, <2>3
  <2>5. Awaiting'
    BY <1>1, <1>4, <1>13, <2>1, <2>2, <2>4 DEF Awaiting, Here
  <2> QED
    BY <2>2, <2>4, <2>5 DEF Line, ReadyInv, ServeInv
<1> QED
  BY <1>3, <1>4, <1>8, <1>9, <1>10, <1>11, <1>12, <1>13 DEF Answering

\* A status ends the wait for COPY_COMPLETED: it is COPY_COMPLETED.
LEMMA CopiedHeard ==
  ASSUME Types, DisplayInv, PlaceInv, Line, HearCopied
  PROVE  /\ Line'
         /\ app = "new" /\ bootcmd = "run" /\ spc # "request" /\ toStm = <<>>
<1>1. UNCHANGED <<toStm, bootcmd, didUpdate, spc>> /\ epc' = "stmDone"
      /\ epc = "awaitCopy" /\ EspNext /\ Head(toEsp).k \in Statuses
  BY DEF HearCopied, EspHears, rtc, stmRun
<1>2. epc \in Session
  BY <1>1 DEF Session
<1>3. ~OnlyInits(toEsp)
  BY <1>1, EspHeard DEF Statuses
<1>4. toStm = <<>> /\ Then("copied", toEsp) /\ Here /\ app = "new"
  BY <1>1, <1>3 DEF Line, ServeInv, Awaiting
<1>5. spc # "request" /\ spc # "starting"
  BY <1>4 DEF Here, Lost
<1>6. bootcmd = "run"
  BY <1>4 DEF Here, Lost, Engaged, Redoing, DisplayInv, AppPCs, Requesting
<1>7. Engaged' = Engaged
  BY <1>1 DEF Engaged, Redoing
<1>8. OnlyInits(toEsp')
  BY <1>1, <1>4, ThenHead
<1>9. \A K : "init" \notin K => ~Has(toEsp', K)
  BY <1>1, <1>8, EspHeard, NothingElse
<1>10. ~Has(toEsp', Statuses) /\ ~Has(toEsp', {"entered"})
  BY <1>9 DEF Statuses
<1>11. After(toEsp', {"init"}, Statuses)
  BY <1>10 DEF Has, After
<1>12. Fewer(toEsp, toEsp')
  BY <1>1, HeardFewer
<1>13. ApartInv'
  BY <1>1, <1>4, <1>5, <1>7, <1>11, EmptyWire DEF ApartInv, Free
<1>14. EngagedInv' /\ FreshInv'
  BY <1>1, <1>2, <1>4, <1>7, <1>12, EmptyWire, SessionQuiet
     DEF Line, EngagedInv, FreshInv, Fewer
<1>15. SoleInv'
  BY <1>1, <1>2, <1>4, <1>5, <1>7, <1>10, <1>12, EmptyWire, SessionQuiet DEF SoleInv, Fewer
<1>16. ReadyInv' /\ ServeInv'
  BY <1>1 DEF ReadyInv, ServeInv
<1> QED
  BY <1>4, <1>5, <1>6, <1>13, <1>14, <1>15, <1>16 DEF Line

-----------------------------------------------------------------------------
(* All steps                                                               *)

\* The display starts over at the slow rate.
LEMMA SlowStep == Types /\ PlaceInv /\ [Next]_vars => Slow(toEsp')
<1> SUFFICES ASSUME Types, PlaceInv, [Next]_vars PROVE Slow(toEsp')
  OBVIOUS
<1>1. Slow(toEsp)
  BY DEF PlaceInv
<1>2. CASE toEsp' = toEsp
  BY <1>1, <1>2
<1>3. CASE toEsp' = <<>>
  BY <1>3, EmptyWire
<1>4. CASE EspNext
  BY <1>1, <1>4, Wiring, InitsTail DEF EspNext
<1>5. CASE \E m : (m.k = "init" => ~m.fast) /\ toEsp' = Append(toEsp, m)
  BY <1>1, <1>5, Wiring, InitsAppend
<1>6. ASSUME NEW k, k # "init", SendEsp(k)
      PROVE  \E m : (m.k = "init" => ~m.fast) /\ toEsp' = Append(toEsp, m)
  BY <1>6 DEF SendEsp
<1>7. ASSUME spc \in {"start", "shake", "sent", "starting"}, SendEsp("init")
      PROVE  \E m : (m.k = "init" => ~m.fast) /\ toEsp' = Append(toEsp, m)
  BY <1>7 DEF SendEsp, PlaceInv
<1>8. ASSUME NEW k, k # "init", toEsp' = Append(toEsp, [k |-> k, fast |-> UpdateRate])
      PROVE  \E m : (m.k = "init" => ~m.fast) /\ toEsp' = Append(toEsp, m)
  BY <1>8
<1>9. CASE EspBoot
  BY <1>2, <1>3, <1>9 DEF EspBoot
<1>10. CASE \/ Truncate \/ Put \/ StartFetch \/ Fetch \/ Checksums \/ Reset \/ Cancel \/ Prepare
            \/ Flash \/ Flashed \/ Switch \/ Cleanup
  BY <1>2, <1>10 DEF Truncate, Put, StartFetch, Fetch, Checksums, Reset, Cancel, Prepare,
     Flash, Flashed, Switch, Cleanup
<1>11. CASE \/ Hello \/ Running \/ HearInit \/ HearEntered \/ HearNoise \/ HearReady \/ Serve
            \/ HearCopied
  BY <1>4, <1>11 DEF Hello, Running, HearInit, HearEntered, HearNoise, HearReady, Serve,
     HearCopied, EspHears
<1>12. CASE \/ StmBoot \/ Erase \/ Copy \/ Service \/ Shake \/ StmRunning \/ LeaveUpdate
            \/ Progress \/ EspReset \/ StmReset \/ UNCHANGED vars
  BY <1>2, <1>12 DEF StmBoot, Erase, Copy, Service, Shake, StmRunning, LeaveUpdate, Progress,
     EspReset, StmReset, vars
<1>13. CASE StmStart \/ EnterUpdate
  BY <1>5, <1>7, <1>8, <1>13 DEF StmStart, EnterUpdate
<1>14. CASE Retry \/ Overlook
  BY <1>5, <1>7, <1>14 DEF Retry, Overlook
<1>15. CASE ShakeOk \/ BeginUpdate \/ ImgStart \/ ImgData \/ RequestUpdate
  BY <1>2, <1>5, <1>6, <1>15 DEF ShakeOk, BeginUpdate, ImgStart, ImgData, RequestUpdate
<1>16. CASE PowerFail \/ Unplug
  BY <1>3, <1>16 DEF PowerFail, Unplug, PowerOff
<1> QED
  BY <1>9, <1>10, <1>11, <1>12, <1>13, <1>14, <1>15, <1>16 DEF Next, Esp, Stm

\* Where the display is.
StmPlace ==
  /\ spc \in AppPCs \ {"start"} => ~didUpdate
  /\ bootcmd = "update" => ~didUpdate
  /\ spc \in {"update", "failed", "request"} \cup Requesting => sfast
  /\ spc \in {"start", "shake", "sent", "starting"} => ~sfast

\* Where the ESP is.
EspPlace ==
  /\ epc \in {"entered"} \cup Session => efast
  /\ epc \in {"init", "entered", "begin", "prepare", "awaitReady"} => read = 0
  /\ epc \in {"init", "entered"} => state = "ready"
  /\ state = "doEsp" => epc \in {"boot", "flash", "flashing", "espDone"}

LEMMA Places == PlaceInv <=> StmPlace /\ Slow(toEsp) /\ EspPlace
BY DEF PlaceInv, StmPlace, EspPlace

LEMMA StmPlaceStep == TypeOK /\ DisplayInv /\ StmPlace /\ [Next]_vars => StmPlace'
<1> SUFFICES ASSUME TypeOK, DisplayInv, StmPlace, [Next]_vars PROVE StmPlace'
  OBVIOUS
<1>t. sfast \in BOOLEAN /\ didUpdate \in BOOLEAN
  BY DEF TypeOK
<1> USE <1>t DEF StmPlace, AppPCs, Requesting, rtc, stmRun
<1>1. CASE Esp \/ StartFetch
  <2>1. UNCHANGED <<bootcmd, didUpdate, spc, sfast>>
    BY <1>1 DEF Esp, StartFetch, EspBoot, Truncate, Put, Hello, Running, Fetch, Checksums, Reset,
       Cancel, HearInit, HearEntered, Prepare, HearNoise, HearReady, Serve, HearCopied,
       Flash, Flashed, Switch, Cleanup
  <2> QED
    BY <2>1
<1>2. CASE StmBoot \/ Erase \/ Copy
  BY <1>2 DEF StmBoot, Erase, Copy
<1>3. CASE Service
  BY <1>3 DEF Service
<1>4. CASE StmStart \/ EnterUpdate
  BY <1>4 DEF StmStart, EnterUpdate, UpdateRate
<1>5. CASE Retry \/ Shake \/ Overlook \/ ShakeOk
  BY <1>5 DEF Retry, Shake, Overlook, ShakeOk
<1>6. CASE StmRunning \/ LeaveUpdate \/ BeginUpdate \/ ImgStart \/ Progress
  BY <1>6 DEF StmRunning, LeaveUpdate, BeginUpdate, ImgStart, Progress
<1>7. CASE ImgData
  BY <1>7 DEF ImgData
<1>8. CASE RequestUpdate
  BY <1>8 DEF RequestUpdate, DisplayInv
<1>9. CASE PowerFail \/ EspReset \/ StmReset \/ Unplug
  BY <1>9 DEF PowerFail, EspReset, StmReset, Unplug, PowerOff
<1>10. CASE UNCHANGED vars
  BY <1>10 DEF vars
<1> QED
  BY <1>1, <1>2, <1>3, <1>4, <1>5, <1>6, <1>7, <1>8, <1>9, <1>10 DEF Next, Stm

LEMMA EspPlaceStep == TypeOK /\ CardInv /\ EspPlace /\ [Next]_vars => EspPlace'
<1> SUFFICES ASSUME TypeOK, CardInv, EspPlace, [Next]_vars PROVE EspPlace'
  OBVIOUS
<1>t. efast \in BOOLEAN
  BY DEF TypeOK
<1> USE <1>t DEF EspPlace, Session, espRun, card
<1>1. CASE Stm \/ Overlook \/ StmReset
  <2>1. UNCHANGED <<state, epc, efast, read>>
    BY <1>1 DEF Stm, Overlook, StmReset, StmBoot, Erase, Copy, Service, StmStart, Retry, Shake,
       ShakeOk, EnterUpdate, StmRunning, LeaveUpdate, BeginUpdate, ImgStart, ImgData,
       RequestUpdate, Progress
  <2> QED
    BY <2>1
<1>2. CASE EspBoot
  BY <1>2 DEF EspBoot, WithoutSums, CardInv, States
<1>3. CASE Truncate \/ Put
  BY <1>3 DEF Truncate, Put, Mark
<1>4. CASE Hello \/ Running \/ StartFetch \/ Fetch \/ Checksums \/ Reset \/ Cancel
  BY <1>4 DEF Hello, Running, StartFetch, Fetch, AfterFailure, Checksums, Reset, Cancel,
     Fetching, CardInv
<1>5. CASE HearInit \/ HearEntered \/ Prepare
  BY <1>5 DEF HearInit, HearEntered, Prepare
<1>6. CASE HearNoise \/ HearReady \/ HearCopied
  BY <1>6 DEF HearNoise, HearReady, HearCopied
<1>7. CASE Serve
  BY <1>7 DEF Serve, AfterAbort
<1>8. CASE Flash \/ Flashed \/ Switch \/ Cleanup
  BY <1>8 DEF Flash, Flashed, Switch, Cleanup
<1>9. CASE PowerFail \/ EspReset \/ Unplug
  BY <1>9 DEF PowerFail, EspReset, Unplug, PowerOff
<1>10. CASE UNCHANGED vars
  BY <1>10 DEF vars
<1> QED
  BY <1>1, <1>2, <1>3, <1>4, <1>5, <1>6, <1>7, <1>8, <1>9, <1>10 DEF Next, Esp

\* Both keep to their places.
LEMMA PlaceStep == Types /\ DisplayInv /\ CardInv /\ PlaceInv /\ [Next]_vars => PlaceInv'
<1>1. PlaceInv' <=> StmPlace' /\ Slow(toEsp)' /\ EspPlace'
  BY Places, PTL
<1> QED
  BY <1>1, Places, SlowStep, StmPlaceStep, EspPlaceStep DEF Types

\* An ESP that waits at the rate of an update hears nothing until the power fails.
LEMMA OverStep ==
  ASSUME ~({"esp", "stm"} \subseteq Alone), Types, PlaceInv, Over, [Next]_vars
  PROVE  LineInv'
<1>1. "stm" \in Alone /\ epc = "init" /\ efast /\ "esp" \notin Alone
  BY DEF Over
<1>2. CASE epc' = epc /\ efast' = efast
  BY <1>1, <1>2 DEF LineInv, Over
<1>3. CASE Stm \/ Overlook \/ StmReset \/ UNCHANGED vars
  <2>1. UNCHANGED <<epc, efast>>
    BY <1>3 DEF Stm, Overlook, StmReset, vars, StmBoot, Erase, Copy, Service, StmStart, Retry,
       Shake, ShakeOk, EnterUpdate, StmRunning, LeaveUpdate, BeginUpdate, ImgStart, ImgData,
       RequestUpdate, Progress, espRun
  <2> QED
    BY <1>2, <2>1
<1>4. CASE HearInit
  <2>1. Head(toEsp) # [k |-> "init", fast |-> efast]
    <3>1. Head(toEsp).k = "init" => ~Head(toEsp).fast
      BY <1>4, Wiring, InitsTail DEF HearInit, EspNext, PlaceInv
    <3> QED
      BY <1>1, <3>1
  <2> QED
    BY <1>2, <1>4, <2>1 DEF HearInit
<1>5. CASE PowerFail \/ Unplug
  BY <1>5, DarkLineNext DEF PowerFail, Unplug, PowerOff, LineInv
<1>6. ~EspReset
  BY <1>1 DEF EspReset
<1>7. ASSUME Esp \/ StartFetch PROVE HearInit
  BY <1>1, <1>7 DEF Esp, StartFetch, EspBoot, Truncate, Put, Mark, Hello, Running, Fetching, Fetch,
     Checksums, Reset, Cancel, HearEntered, Prepare, HearNoise, HearReady, Serve, HearCopied,
     Flash, Flashed, Switch, Cleanup
<1> QED
  BY <1>3, <1>4, <1>5, <1>6, <1>7 DEF Next

\* Nothing happens.
LEMMA SameLine ==
  ASSUME Line, UNCHANGED vars
  PROVE  Line'
BY DEF vars, card, espFlash, espRun, stmFlash, rtc, stmRun, bounds,
       Line, ApartInv, EngagedInv, FreshInv, SoleInv, ReadyInv, ServeInv, Free, Engaged, Redoing,
       Lost, Here, Answered, Waits, Adrift, Copies, Asking, Answering, Awaiting

\* Every step keeps the line in order, if only one processor is reset on its own.
LEMMA LineStep ==
  ASSUME ~({"esp", "stm"} \subseteq Alone), Types, DisplayInv, CardInv, PlaceInv, LineInv,
         [Next]_vars
  PROVE  LineInv'
<1>1. CASE Over
  BY <1>1, OverStep
<1>2. CASE Line
  <2> USE <1>2
  <2>1. CASE EspBoot \/ Hello \/ Running \/ StartFetch \/ Fetch \/ Checksums \/ Reset \/ Cancel
             \/ Flash \/ Flashed \/ Switch \/ Cleanup
    BY <2>1, AwayStep DEF LineInv
  <2>2. CASE Truncate \/ Put
    BY <2>2, AwayStep, MarkStep DEF LineInv
  <2>3. CASE HearInit
    BY <2>3, AwayStep, AnswerStep DEF LineInv
  <2>4. CASE HearEntered
    BY <2>4, EnteredStep
  <2>5. CASE Prepare \/ HearNoise \/ HearReady
    BY <2>5, PrepareStep, NoiseStep, ReadyStep DEF LineInv
  <2>6. CASE Serve \/ HearCopied
    BY <2>6, ServeStep, CopiedHeard DEF LineInv
  <2>7. CASE StmBoot \/ Erase \/ Copy \/ Service
    BY <2>7, BootStep DEF LineInv
  <2>8. CASE StmStart
    BY <2>8, AskStep, CopiedStep DEF LineInv
  <2>9. CASE Retry \/ Overlook
    BY <2>9, AskStep DEF LineInv
  <2>10. CASE Shake \/ ShakeOk \/ EnterUpdate
    BY <2>10, ShakeStep, OkStep, EnterStep DEF LineInv
  <2>11. CASE StmRunning \/ LeaveUpdate
    BY <2>11, RunningStep, LeaveStep DEF LineInv
  <2>12. CASE BeginUpdate \/ ImgStart \/ ImgData
    BY <2>12, BeginStep, StartStep, DataStep DEF LineInv
  <2>13. CASE RequestUpdate \/ Progress
    BY <2>13, RequestStep, ProgressStep DEF LineInv
  <2>14. CASE EspReset
    BY <2>14, EspResetStep DEF LineInv, EspReset
  <2>15. CASE StmReset
    BY <2>15, StmResetStep DEF LineInv
  <2>16. CASE PowerFail \/ Unplug
    BY <2>16, DarkLineNext DEF PowerFail, Unplug, PowerOff, LineInv
  <2>17. CASE UNCHANGED vars
    BY <2>17, SameLine DEF LineInv
  <2> QED
    BY <2>1, <2>2, <2>3, <2>4, <2>5, <2>6, <2>7, <2>8, <2>9, <2>10, <2>11, <2>12, <2>13, <2>14,
       <2>15, <2>16, <2>17 DEF Next, Esp, Stm
<1> QED
  BY <1>1, <1>2 DEF LineInv

\* Once the display has confirmed its copy it is left alone.
LEMMA DoneStep ==
  ASSUME Types, DisplayInv, PlaceInv, LineInv, DoneInv, [Next]_vars
  PROVE  DoneInv'
<1> SUFFICES ASSUME Installing', stmBin' = "new"
             PROVE  app' = "new" /\ bootcmd' = "run" /\ spc' # "request" /\ ~Has(toStm', Orders)
  BY DEF DoneInv
<1>1. CASE Stm \/ Overlook \/ StmReset
  <2>1. /\ UNCHANGED <<state, epc, stmBin>>
        /\ app = "new" /\ bootcmd = "run" /\ spc # "request" /\ ~Has(toStm, Orders)
    BY <1>1, StmLeavesCard DEF DoneInv, Installing
  <2>2. spc \notin Requesting \cup Copying
    BY <2>1 DEF DisplayInv
  <2>3. toStm' = toStm \/ StmNext
    BY <1>1 DEF Stm, Overlook, StmReset, StmBoot, Erase, Copy, Service, StmStart, Retry,
       Shake, ShakeOk, EnterUpdate, StmRunning, LeaveUpdate, BeginUpdate, ImgStart, ImgData,
       RequestUpdate, Progress, StmHears
  <2>4. ~Has(toStm', Orders) /\ (StmNext => Head(toStm).k \notin Orders)
    BY <2>1, <2>3, StmHeard
  <2>5. ~ImgData /\ ~RequestUpdate /\ ~Erase /\ ~Copy
    BY <2>1, <2>2, <2>4 DEF ImgData, StmHears, Orders, RequestUpdate, Erase, Copy, Requesting,
       Copying
  <2>6. app' = app /\ bootcmd' = "run" /\ spc' # "request"
    BY <1>1, <2>1, <2>5 DEF Stm, Overlook, StmReset, StmBoot, Service, StmStart, Retry,
       Shake, ShakeOk, EnterUpdate, StmRunning, LeaveUpdate, BeginUpdate, ImgStart, Progress,
       rtc, stmFlash, stmRun
  <2> QED
    BY <2>1, <2>4, <2>6
<1>2. CASE HearCopied
  <2>1. Line
    BY <1>2 DEF LineInv, Over, HearCopied
  <2>2. app = "new" /\ bootcmd = "run" /\ spc # "request" /\ toStm = <<>>
    BY <1>2, <2>1, CopiedHeard
  <2>3. UNCHANGED <<app, bootcmd, spc, toStm>>
    BY <1>2 DEF HearCopied, stmFlash, rtc, stmRun
  <2> QED
    BY <2>2, <2>3, EmptyWire
<1>3. CASE (Esp /\ ~HearCopied) \/ StartFetch
  <2>1. Installing /\ stmBin = "new"
    <3> USE DEF Installing, PlaceInv, Session, card, espRun
    <3>1. CASE EspBoot
      BY <3>1 DEF EspBoot, WithoutSums, Types, TypeOK
    <3>2. CASE Truncate \/ Put
      BY <3>2 DEF Truncate, Put, Mark
    <3>3. CASE Hello \/ Running \/ StartFetch
      BY <3>3 DEF Hello, Running, Fetching, StartFetch
    <3>4. CASE Fetch
      BY <3>4 DEF Fetch, AfterFailure
    <3>5. CASE Checksums \/ Reset \/ Cancel \/ HearInit \/ HearEntered \/ Prepare
      BY <3>5 DEF Checksums, Reset, Cancel, HearInit, HearEntered, Prepare
    <3>6. CASE HearNoise \/ HearReady \/ Serve
      BY <3>6 DEF HearNoise, HearReady, Serve, AfterAbort
    <3>7. CASE Flash \/ Flashed \/ Switch \/ Cleanup
      BY <3>7 DEF Flash, Flashed, Switch, Cleanup
    <3> QED
      BY <1>3, <3>1, <3>2, <3>3, <3>4, <3>5, <3>6, <3>7 DEF Esp
  <2>2. app = "new" /\ bootcmd = "run" /\ spc # "request" /\ ~Has(toStm, Orders)
    BY <2>1 DEF DoneInv
  <2>3. UNCHANGED <<app, bootcmd, spc>>
    BY <1>3, EspLeavesDisplay
  <2>4. epc \notin Session \cup {"init", "entered"}
    BY <2>1 DEF Installing, PlaceInv, Session
  <2>5. ~Has(toStm', Orders)
    <3>1. CASE toStm' = toStm
      BY <2>2, <3>1
    <3>2. CASE More(toStm, toStm')
      BY <2>2, <3>2 DEF More
    <3>3. toStm' = toStm \/ More(toStm, toStm')
      BY <1>3, <2>4, AwaySends
         DEF Esp, HearInit, HearEntered, Prepare, HearNoise, HearReady, Serve, Session
    <3> QED
      BY <3>1, <3>2, <3>3
  <2> QED
    BY <2>2, <2>3, <2>5
<1>4. CASE PowerFail \/ EspReset \/ Unplug
  <2>1. /\ UNCHANGED <<state, stmBin, app, bootcmd>> /\ epc' = "boot"
        /\ (toStm' = toStm \/ toStm' = <<>>) /\ (spc' = spc \/ spc' = "boot")
    BY <1>4 DEF PowerFail, EspReset, Unplug, PowerOff, card, stmFlash, rtc, stmRun
  <2> QED
    BY <2>1, EmptyWire DEF DoneInv, Installing
<1>5. CASE UNCHANGED vars
  BY <1>5 DEF vars, card, espRun, stmFlash, rtc, stmRun, DoneInv, Installing
<1> QED
  BY <1>1, <1>2, <1>3, <1>4, <1>5 DEF Next

\* Whatever is interrupted, damaged or overlooked, the ESP starts on itself only when the
\* display runs the new program, if only one of the two is ever reset while the other runs
\* on: any status ends the wait for COPY_COMPLETED (upd.cpp:296), and resets of both can
\* leave one there from another session.
THEOREM DisplayFirstTheorem ==
  ASSUME ~({"esp", "stm"} \subseteq Alone) PROVE Spec => []DisplayFirst
<1> DEFINE Inv == Types /\ DisplayInv /\ CardInv /\ PlaceInv /\ LineInv /\ DoneInv
<1>1. Init => Inv
  <2> SUFFICES ASSUME Init PROVE PlaceInv /\ LineInv /\ DoneInv
    BY TypesInit, DisplayInit, CardInit
  <2>1. PlaceInv
    BY EmptyWire DEF Init, PlaceInv, Session, AppPCs, Requesting
  <2>2. LineInv
    BY DarkLine DEF Init, LineInv
  <2>3. DoneInv
    BY DEF Init, DoneInv, Installing
  <2> QED
    BY <2>1, <2>2, <2>3
<1>2. Inv /\ [Next]_vars => Inv'
  BY TypesStep, DisplayStep, CardStep, PlaceStep, LineStep, DoneStep
<1>3. Inv => DisplayFirst
  BY DEF DoneInv, Installing, DisplayFirst
<1> QED
  BY <1>1, <1>2, <1>3, PTL DEF Spec
=============================================================================
