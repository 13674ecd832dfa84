--------------------------- MODULE FirmwareUpdate ---------------------------
(***************************************************************************)
(* From power-on to the sign running, and through a firmware update: the   *)
(* ESP's updater (esp/main/upd.cpp) and normal handshake (serial.cpp), the *)
(* display's handshake and update mode (stm/src/srv.cpp), its bootloader   *)
(* (stmboot/src/main.c), and the downloads that put an update on the card. *)
(*                                                                         *)
(* What survives a power failure is on the card, in either flash and in    *)
(* the display's RTC registers; each write to one of them is a step of its *)
(* own.  Packets arrive whole and in order, at the rate they were sent at. *)
(***************************************************************************)
EXTENDS Naturals, Sequences

CONSTANTS
  Chunks,     \* packets the display's image is sent in
  OldSize,    \* the size of the last image installed, in packets; 0 if none was
  Manual,     \* updates somebody may have put on the card by hand
  MaxPulls,   \* downloads
  Alone,      \* the processors that may be reset while the other runs on
  MaxCrashes, \* power failures and resets of one processor
  MaxFaults,  \* damaged chunks, images and flash writes
  MaxRaces    \* handshake answers that the display overlooks

\* update_chunks_remaining is a uint16_t.
Width == 256 * 256

ASSUME FirmwareUpdateAssumption ==
  /\ Chunks \in Nat \ {0} /\ Chunks < Width /\ OldSize \in 0..Chunks
  /\ MaxPulls \in Nat /\ MaxCrashes \in Nat
  /\ MaxFaults \in Nat /\ MaxRaces \in Nat
  /\ Alone \subseteq {"esp", "stm"}
  /\ Manual \subseteq {"stm", "esp", "both", "unsigned"}

VARIABLES
  state, stmBin, espBin, sum,   \* the files in /upd
  main, ota, boot,              \* the ESP's flash: the program, OTA_1, what to boot
  epc, efast, hs, read,         \* the ESP: where it is, its rate, run()'s state,
                                \* the chunks it has read
  app, update,                  \* the display's flash: the program, the update area
  bootcmd, size, didUpdate,     \* its RTC registers
  spc, sfast, remaining,        \* the display: where it is, its rate,
                                \* update_chunks_remaining
  toStm, toEsp,                 \* the wire
  pulls, crashes, faults, races \* how much of the bounds is used up

card == <<state, stmBin, espBin, sum>>
espFlash == <<main, ota, boot>>
espRun == <<epc, efast, hs, read>>
stmFlash == <<app, update>>
rtc == <<bootcmd, size, didUpdate>>
stmRun == <<spc, sfast, remaining>>
bounds == <<pulls, crashes, faults, races>>
vars == <<card, espFlash, espRun, stmFlash, rtc, stmRun, toStm, toEsp, bounds>>

WholeUpdate == [i \in 1..Chunks |-> i]

\* A sign with the old programs, and perhaps an update put on the card by hand.
Init ==
  /\ \/ state = "none" /\ stmBin = "none" /\ espBin = "none" /\ sum = "none"
     \/ \E m \in Manual :
          /\ state = "ready" /\ sum = (IF m = "unsigned" THEN "none" ELSE "new")
          /\ stmBin = (IF m = "esp" THEN "none" ELSE "new")
          /\ espBin = (IF m = "stm" THEN "none" ELSE "new")
  /\ main = "old" /\ ota = "old" /\ boot = "main"
  /\ epc = "boot" /\ efast = FALSE /\ hs = FALSE /\ read = 0
  /\ app = "old" /\ update = <<>> /\ bootcmd = "run" /\ size = OldSize /\ didUpdate = FALSE
  /\ spc = "boot" /\ sfast = FALSE /\ remaining = 0
  /\ toStm = <<>> /\ toEsp = <<>>
  /\ pulls = 0 /\ crashes = 0 /\ faults = 0 /\ races = 0

SendStm(k) == toStm' = Append(toStm, [k |-> k, fast |-> efast])
SendEsp(k) == toEsp' = Append(toEsp, [k |-> k, fast |-> sfast])

\* The next packet at the receiver's rate; at another rate it is noise.
EspNext == toEsp # <<>> /\ toEsp' = Tail(toEsp)
EspHears(K) == EspNext /\ Head(toEsp).fast = efast /\ Head(toEsp).k \in K
StmNext == toStm # <<>> /\ toStm' = Tail(toStm)
StmHears(k) == StmNext /\ Head(toStm).fast = sfast /\ Head(toStm).k = k

Damaged == faults < MaxFaults /\ faults' = faults + 1

-----------------------------------------------------------------------------
(* The ESP starts                                                          *)

\* What is waiting to be installed in OTA_1 is copied before the program runs.
Installed == IF boot = "ota" THEN ota ELSE main

\* What becomes of the state file when the checksums are missing.
\* Variant for mutation: it stays.
WithoutSums_Keep == state
WithoutSums == "none"

\* app_main: needed() reads the state file; update_system() wants the checksums
\* and goes on where the state says.  What arrived before may still be there.
EspBoot ==
  /\ epc = "boot"
  /\ main' = Installed /\ boot' = "main" /\ ota' = ota
  /\ hs' = FALSE /\ read' = 0
  /\ \/ /\ state \in {"none", "empty"}
        /\ epc' = "hello" /\ efast' = FALSE /\ state' = state
     \/ /\ state \notin {"none", "empty"} /\ sum = "none"
        /\ epc' = "boot" /\ efast' = FALSE /\ state' = WithoutSums
     \/ /\ state \notin {"none", "empty"} /\ sum # "none"
        /\ epc' = [ready |-> "init", sending |-> "cancel",
                   doEsp |-> "flash", didEsp |-> "cleanup"][state]
        /\ efast' = (state # "ready") /\ state' = state
  /\ toEsp' \in {toEsp, <<>>}
  /\ UNCHANGED <<stmBin, espBin, sum, stmFlash, rtc, stmRun, toStm, bounds>>

\* Variant for mutation: the ESP's own program is forgotten.
Mark_SkipEsp ==
  [begin |-> [to |-> "sending", then |-> "prepare"],
   cancelled |-> [to |-> "ready", then |-> "boot"],
   stmDone |-> [to |-> "didEsp", then |-> "boot"],
   espDone |-> [to |-> "didEsp", then |-> "switch"],
   fetched |-> [to |-> "ready", then |-> "reset"]]

\* What set_update_state is to write, and where its caller goes from there.
Mark ==
  [begin |-> [to |-> "sending", then |-> "prepare"],
   cancelled |-> [to |-> "ready", then |-> "boot"],
   stmDone |-> [to |-> IF espBin # "none" THEN "doEsp" ELSE "didEsp", then |-> "boot"],
   espDone |-> [to |-> "didEsp", then |-> "switch"],
   fetched |-> [to |-> "ready", then |-> "reset"]]

\* f_open(..., FA_CREATE_ALWAYS) leaves an empty file until f_close.
Truncate ==
  /\ epc \in DOMAIN Mark /\ state # "empty"
  /\ state' = "empty"
  /\ UNCHANGED <<stmBin, espBin, sum, espFlash, espRun, stmFlash, rtc, stmRun,
                 toStm, toEsp, bounds>>

Put ==
  /\ epc \in DOMAIN Mark /\ state = "empty"
  /\ state' = Mark[epc].to
  /\ epc' = Mark[epc].then
  /\ UNCHANGED <<stmBin, espBin, sum, espFlash, efast, hs, read, stmFlash, rtc, stmRun,
                 toStm, toEsp, bounds>>

-----------------------------------------------------------------------------
(* The ESP's normal handshake, and what the running system does            *)

\* Once it has answered, it waits for HANDSHAKE_OK and ignores HANDSHAKE_INIT;
\* anything else makes it start over.
Hello ==
  /\ epc = "hello" /\ EspNext
  /\ LET k == Head(toEsp).k
         clear == Head(toEsp).fast = efast IN
       \/ /\ clear /\ k = "init" /\ ~hs
          /\ hs' = TRUE /\ epc' = epc
          /\ SendStm("resp")
       \/ /\ clear /\ k = "ok" /\ hs
          /\ epc' = "running" /\ hs' = hs /\ toStm' = toStm
       \/ /\ ~(clear /\ k = "init" /\ ~hs) /\ ~(clear /\ k = "ok" /\ hs)
          /\ hs' = (hs /\ (~clear \/ k = "init"))
          /\ epc' = epc /\ toStm' = toStm
  /\ UNCHANGED <<card, espFlash, efast, read, stmFlash, rtc, stmRun, bounds>>

Fetching == {"pullEsp", "pullStm", "webStm", "webEsp", "checksums", "fetched", "reset"}

\* The servicer runs on during a download: HANDSHAKE_INIT resets the system.
Running ==
  /\ epc \in {"running"} \cup Fetching /\ EspNext
  /\ epc' = IF Head(toEsp).k = "init" /\ ~Head(toEsp).fast THEN "boot" ELSE epc
  /\ UNCHANGED <<card, espFlash, efast, hs, read, stmFlash, rtc, stmRun, toStm, bounds>>

\* cfgpull finds another version on the server, or somebody uploads one; the web
\* interface removes what an earlier upload may have left.
StartFetch ==
  /\ epc = "running" /\ pulls < MaxPulls
  /\ pulls' = pulls + 1
  /\ \/ /\ main = "old"
        /\ epc' = "pullEsp" /\ espBin' = "part" /\ stmBin' = stmBin
     \/ /\ epc' = "webStm" /\ stmBin' = "part" /\ espBin' = "none"
  /\ UNCHANGED <<state, sum, espFlash, efast, hs, read, stmFlash, rtc, stmRun, toStm, toEsp,
                 crashes, faults, races>>

\* Where a download that fails leads.
\* Variant for mutation: nobody notices.
AfterFailure_On == "checksums"
AfterFailure == "running"

\* A download ends, well or not.
Fetch ==
  /\ \/ /\ epc = "pullEsp"
        /\ espBin' = "new" /\ stmBin' = "part" /\ epc' = "pullStm"
     \/ /\ epc = "pullStm"
        /\ stmBin' = "new" /\ espBin' = espBin /\ epc' = "checksums"
     \/ /\ epc = "webStm"
        /\ stmBin' = "new"
        /\ \/ espBin' = "part" /\ epc' = "webEsp"
           \/ espBin' = espBin /\ epc' = "checksums"
     \/ /\ epc = "webEsp"
        /\ espBin' = "new" /\ stmBin' = stmBin /\ epc' = "checksums"
     \/ /\ epc \in {"pullEsp", "pullStm", "webStm", "webEsp"}
        /\ epc' = AfterFailure /\ UNCHANGED <<stmBin, espBin>>
  /\ UNCHANGED <<state, sum, espFlash, efast, hs, read, stmFlash, rtc, stmRun, toStm, toEsp,
                 bounds>>

Checksums ==
  /\ epc = "checksums"
  /\ sum' = "new" /\ epc' = "fetched"
  /\ UNCHANGED <<state, stmBin, espBin, espFlash, efast, hs, read, stmFlash, rtc, stmRun,
                 toStm, toEsp, bounds>>

\* SerialInterface::reset
Reset ==
  /\ epc = "reset"
  /\ SendStm("reset")
  /\ epc' = "boot"
  /\ UNCHANGED <<card, espFlash, efast, hs, read, stmFlash, rtc, stmRun, toEsp, bounds>>

-----------------------------------------------------------------------------
(* update_system                                                           *)

Cancel ==
  /\ epc = "cancel"
  /\ SendStm("cancel")
  /\ epc' = "cancelled"
  /\ UNCHANGED <<card, espFlash, efast, hs, read, stmFlash, rtc, stmRun, toEsp, bounds>>

\* It waits for HANDSHAKE_INIT, whatever the rate is by now.
HearInit ==
  /\ epc = "init" /\ EspNext
  /\ \/ /\ Head(toEsp) = [k |-> "init", fast |-> efast]
        /\ SendStm("uok")
        /\ efast' = TRUE /\ epc' = "entered"
     \/ /\ Head(toEsp) # [k |-> "init", fast |-> efast]
        /\ UNCHANGED <<toStm, efast, epc>>
  /\ UNCHANGED <<card, espFlash, hs, read, stmFlash, rtc, stmRun, bounds>>

Statuses == {"entered", "readyImage", "readyChunk", "resend", "abort", "beginning", "copied"}

\* Any status will do; anything else sends it back to waiting, at the new rate.
HearEntered ==
  /\ epc = "entered" /\ EspNext
  /\ \/ /\ Head(toEsp).fast /\ Head(toEsp).k \in Statuses /\ stmBin # "none"
        /\ epc' = "begin" /\ toStm' = toStm
     \/ /\ Head(toEsp).fast /\ Head(toEsp).k \in Statuses /\ stmBin = "none"
        /\ epc' = "stmDone" /\ SendStm("skip")
     \/ /\ ~(Head(toEsp).fast /\ Head(toEsp).k \in Statuses)
        /\ epc' = "init" /\ toStm' = toStm
  /\ UNCHANGED <<card, espFlash, efast, hs, read, stmFlash, rtc, stmRun, bounds>>

Prepare ==
  /\ epc = "prepare"
  /\ SendStm("prepare")
  /\ epc' = "awaitReady"
  /\ UNCHANGED <<card, espFlash, efast, hs, read, stmFlash, rtc, stmRun, toEsp, bounds>>

\* While it waits for a status, what is not one is skipped.
HearNoise ==
  /\ epc \in {"awaitReady", "serve", "awaitCopy"} /\ EspNext
  /\ ~(Head(toEsp).fast /\ Head(toEsp).k \in Statuses)
  /\ UNCHANGED <<card, espFlash, espRun, stmFlash, rtc, stmRun, toStm, bounds>>

HearReady ==
  /\ epc = "awaitReady" /\ EspHears(Statuses)
  /\ \/ /\ Head(toEsp).k = "readyImage"
        /\ SendStm("start") /\ epc' = "serve"
     \/ /\ Head(toEsp).k # "readyImage"
        /\ epc' = "boot" /\ toStm' = toStm
  /\ UNCHANGED <<card, espFlash, efast, hs, read, stmFlash, rtc, stmRun, bounds>>

Data(n) == [k |-> "data", fast |-> efast, chunk |-> n]

\* The chunk that is sent when the last one arrived damaged.
Again == read

\* Where ABORT_CSUM leads, the state file removed.
\* Variant for mutation: on with the ESP's own program.
AfterAbort_GoOn == "stmDone"
AfterAbort == "boot"

\* The loop that serves chunks; it ends when there is nothing to send.
Serve ==
  /\ epc = "serve" /\ EspHears(Statuses)
  /\ LET k == Head(toEsp).k IN
       \/ /\ k = "readyChunk" /\ read < Chunks
          /\ read' = read + 1 /\ epc' = epc /\ state' = state
          /\ toStm' = Append(toStm, Data(read + 1))
       \/ /\ k = "resend" /\ read > 0
          /\ toStm' = Append(toStm, Data(Again))
          /\ UNCHANGED <<read, epc, state>>
       \/ /\ k = "abort"
          /\ state' = "none" /\ epc' = AfterAbort
          /\ UNCHANGED <<read, toStm>>
       \/ /\ \/ k = "beginning" \/ (k = "readyChunk" /\ read = Chunks)
             \/ (k = "resend" /\ read = 0)
          /\ epc' = "awaitCopy"
          /\ UNCHANGED <<read, state, toStm>>
       \/ /\ k \in {"entered", "readyImage", "copied"}
          /\ UNCHANGED <<read, epc, state, toStm>>
  /\ UNCHANGED <<stmBin, espBin, sum, espFlash, efast, hs, stmFlash, rtc, stmRun, bounds>>

\* Any status ends the wait for COPY_COMPLETED.
HearCopied ==
  /\ epc = "awaitCopy" /\ EspHears(Statuses)
  /\ epc' = "stmDone"
  /\ UNCHANGED <<card, espFlash, efast, hs, read, stmFlash, rtc, stmRun, toStm, bounds>>

\* Variant for mutation: the boot partition is set first.
Flash_SwitchFirst ==
  /\ epc = "flash"
  /\ ota' = "torn" /\ epc' = "flashing" /\ boot' = "ota"
  /\ SendStm("sector")
  /\ UNCHANGED <<card, main, efast, hs, read, stmFlash, rtc, stmRun, toEsp, bounds>>

\* Flashing starts over after every restart; the checksum is not enforced.
Flash ==
  /\ epc = "flash"
  /\ ota' = "torn" /\ epc' = "flashing"
  /\ SendStm("sector")
  /\ UNCHANGED <<card, main, boot, efast, hs, read, stmFlash, rtc, stmRun, toEsp, bounds>>

Flashed ==
  /\ epc = "flashing"
  /\ ota' = espBin /\ epc' = "espDone"
  /\ SendStm("copying")
  /\ UNCHANGED <<card, main, boot, efast, hs, read, stmFlash, rtc, stmRun, toEsp, bounds>>

\* esp_ota_set_boot_partition
Switch ==
  /\ epc = "switch"
  /\ boot' = "ota" /\ epc' = "boot"
  /\ UNCHANGED <<card, main, ota, efast, hs, read, stmFlash, rtc, stmRun, toStm, toEsp, bounds>>

\* The files go one by one, the state first.
Cleanup ==
  /\ epc = "cleanup"
  /\ \/ /\ state # "none"
        /\ state' = "none" /\ UNCHANGED <<stmBin, sum, espBin, epc, toStm>>
     \/ /\ state = "none" /\ stmBin # "none"
        /\ stmBin' = "none" /\ UNCHANGED <<state, sum, espBin, epc, toStm>>
     \/ /\ state = "none" /\ stmBin = "none" /\ sum # "none"
        /\ sum' = "none" /\ UNCHANGED <<state, stmBin, espBin, epc, toStm>>
     \/ /\ state = "none" /\ stmBin = "none" /\ sum = "none" /\ espBin # "none"
        /\ espBin' = "none" /\ UNCHANGED <<state, stmBin, sum, epc, toStm>>
     \/ /\ <<state, stmBin, sum, espBin>> = <<"none", "none", "none", "none">>
        /\ epc' = "boot"
        /\ toStm' = toStm \o [i \in 1..3 |-> [k |-> "completed", fast |-> efast]]
        /\ UNCHANGED <<state, stmBin, sum, espBin>>
  /\ UNCHANGED <<espFlash, efast, hs, read, stmFlash, rtc, stmRun, toEsp, bounds>>

-----------------------------------------------------------------------------
(* The display's bootloader                                                *)

StmBoot ==
  /\ spc = "boot"
  /\ spc' = IF bootcmd = "run" THEN "start" ELSE "erase"
  /\ sfast' = FALSE /\ remaining' = 0
  /\ UNCHANGED <<card, espFlash, espRun, stmFlash, rtc, toStm, toEsp, bounds>>

\* Variant for mutation: the command is cleared first.
Erase_ServiceFirst ==
  /\ spc = "erase"
  /\ app' = (IF size = 0 THEN app ELSE "torn")
  /\ spc' = "copy" /\ bootcmd' = "run"
  /\ UNCHANGED <<card, espFlash, espRun, update, size, didUpdate, sfast, remaining, toStm,
                 toEsp, bounds>>

\* do_update_app erases and copies as many bytes as the size register says.
Erase ==
  /\ spc = "erase"
  /\ app' = (IF size = 0 THEN app ELSE "torn")
  /\ spc' = "copy"
  /\ UNCHANGED <<card, espFlash, espRun, update, rtc, sfast, remaining, toStm, toEsp, bounds>>

Copied == IF size = 0 THEN app ELSE IF size = Chunks /\ update = WholeUpdate THEN "new" ELSE "torn"

\* The copy is compared with the update; a bad one is done again after a reset.
Copy ==
  /\ spc = "copy"
  /\ \/ app' = Copied /\ spc' = "service" /\ faults' = faults
     \/ Damaged /\ spc' = "boot" /\ app' = app
  /\ UNCHANGED <<card, espFlash, espRun, update, rtc, sfast, remaining, toStm, toEsp,
                 pulls, crashes, races>>

\* bootcmd_service_update: two registers, one after the other.
Service ==
  /\ spc = "service"
  /\ \/ /\ bootcmd = "update"
        /\ bootcmd' = "run" /\ UNCHANGED <<didUpdate, spc>>
     \/ /\ bootcmd = "run"
        /\ didUpdate' = TRUE /\ spc' = "boot" /\ bootcmd' = bootcmd
  /\ UNCHANGED <<card, espFlash, espRun, stmFlash, size, sfast, remaining, toStm, toEsp, bounds>>

-----------------------------------------------------------------------------
(* The display's handshake                                                 *)

\* switch_fast: both sides change to the rate of the update.
UpdateRate == TRUE

\* do_handshake; the register is cleared as it is read.
StmStart ==
  /\ spc = "start"
  /\ didUpdate' = FALSE
  /\ IF didUpdate
     THEN /\ spc' = "update" /\ sfast' = UpdateRate
          /\ toEsp' = Append(toEsp, [k |-> "copied", fast |-> UpdateRate])
     ELSE spc' = "shake" /\ sfast' = FALSE /\ SendEsp("init")
  /\ UNCHANGED <<card, espFlash, espRun, stmFlash, bootcmd, size, remaining, toStm, bounds>>

\* No answer for 1.5 s.  (The reset after the fourth time comes to the same.)
Retry ==
  /\ spc = "shake" /\ toStm = <<>> /\ toEsp = <<>>
  /\ SendEsp("init")
  /\ UNCHANGED <<card, espFlash, espRun, stmFlash, rtc, stmRun, toStm, bounds>>

\* dma_finish in HANDSHAKE_RECV: three bytes that are no answer reset the display;
\* noise at another rate may be or not be three bytes.
Shake ==
  /\ spc = "shake" /\ StmNext
  /\ LET m == Head(toStm) IN
       \/ m.fast = sfast /\ m.k = "resp" /\ spc' = "sent"
       \/ m.fast = sfast /\ m.k = "uok" /\ spc' = "starting"
       \/ ~(m.fast = sfast /\ m.k \in {"resp", "uok"}) /\ spc' = "boot"
       \/ m.fast # sfast /\ spc' = spc
  /\ UNCHANGED <<card, espFlash, espRun, stmFlash, rtc, sfast, remaining, toEsp, bounds>>

\* The answer came during the last delay before a retry, which does not look.
Overlook ==
  /\ spc \in {"sent", "starting"} /\ races < MaxRaces
  /\ races' = races + 1
  /\ spc' = "shake" /\ SendEsp("init")
  /\ UNCHANGED <<card, espFlash, espRun, stmFlash, rtc, sfast, remaining, toStm,
                 pulls, crashes, faults>>

ShakeOk ==
  /\ spc = "sent"
  /\ SendEsp("ok") /\ spc' = "running"
  /\ UNCHANGED <<card, espFlash, espRun, stmFlash, rtc, sfast, remaining, toStm, bounds>>

EnterUpdate ==
  /\ spc = "starting"
  /\ sfast' = UpdateRate /\ spc' = "update"
  /\ toEsp' = Append(toEsp, [k |-> "entered", fast |-> UpdateRate])
  /\ UNCHANGED <<card, espFlash, espRun, stmFlash, rtc, remaining, toStm, bounds>>

-----------------------------------------------------------------------------
(* The display running, and in update mode                                 *)

Up == spc = "running" /\ epc \in {"running"} \cup Fetching

\* A running display acts on RESET, and resets when pings stay unanswered.
StmRunning ==
  /\ spc = "running"
  /\ \/ /\ StmNext
        /\ spc' = IF Head(toStm) = [k |-> "reset", fast |-> sfast] THEN "boot" ELSE spc
     \/ /\ toStm = <<>> /\ toEsp = <<>> /\ ~Up
        /\ spc' = "boot" /\ toStm' = toStm
  /\ UNCHANGED <<card, espFlash, espRun, stmFlash, rtc, sfast, remaining, toEsp, bounds>>

\* CANCEL_UPDATE, UPDATE_COMPLETED_OK and RESET
LeaveUpdate ==
  /\ spc = "update" /\ \E k \in {"cancel", "completed", "reset"} : StmHears(k)
  /\ spc' = "boot"
  /\ UNCHANGED <<card, espFlash, espRun, stmFlash, rtc, sfast, remaining, toEsp, bounds>>

\* begin_update erases the update area.
BeginUpdate ==
  /\ spc = "update" /\ StmHears("prepare")
  /\ update' = <<>>
  /\ SendEsp("readyImage")
  /\ UNCHANGED <<card, espFlash, espRun, app, rtc, stmRun, bounds>>

ImgStart ==
  /\ spc = "update" /\ StmHears("start")
  /\ remaining' = Chunks
  /\ SendEsp("readyChunk")
  /\ UNCHANGED <<card, espFlash, espRun, stmFlash, rtc, spc, sfast, bounds>>

\* What the flash holds after a chunk is written to it; 0 if the write went wrong.
Written(chunk) ==
  \/ update' = Append(update, chunk) /\ faults' = faults
  \/ update' = Append(update, 0) /\ faults < MaxFaults /\ faults' = faults + 1

\* The checksum of what has been written is that of the image.
SumOk == update' = WholeUpdate

\* A chunk whose checksum is wrong is asked for again; after the last one the
\* checksum of what is in the flash decides.
ImgData ==
  /\ spc = "update" /\ StmHears("data")
  /\ \/ /\ Damaged /\ SendEsp("resend")
        /\ UNCHANGED <<update, remaining, spc>>
     \/ /\ Written(Head(toStm).chunk)
        /\ remaining' = (remaining - 1) % Width
        /\ \/ remaining # 1 /\ SendEsp("readyChunk") /\ spc' = spc
           \/ remaining = 1 /\ SumOk /\ spc' = "request" /\ toEsp' = toEsp
           \/ /\ remaining = 1 /\ ~SumOk
              /\ SendEsp("abort") /\ spc' = "failed"
  /\ UNCHANGED <<card, espFlash, espRun, app, rtc, sfast, pulls, crashes, races>>

\* bootcmd_request_update writes two registers; then BEGINNING_COPY and a reset.
RequestUpdate ==
  /\ \/ /\ spc = "request"
        /\ bootcmd' = "update" /\ spc' = "requestSize" /\ UNCHANGED <<size, toEsp>>
     \/ /\ spc = "requestSize"
        /\ size' = Chunks /\ spc' = "tell" /\ UNCHANGED <<bootcmd, toEsp>>
     \/ /\ spc = "tell"
        /\ SendEsp("beginning") /\ spc' = "boot" /\ UNCHANGED <<bootcmd, size>>
  /\ UNCHANGED <<card, espFlash, espRun, stmFlash, didUpdate, sfast, remaining, toStm, bounds>>

\* The other commands only change what is displayed; ESP_WROTE_SECTOR counts sectors.
Progress ==
  /\ spc = "update" /\ StmNext
  /\ LET m == Head(toStm) IN
       \/ m.fast # sfast
       \/ m.fast = sfast /\ m.k \in {"sector", "copying", "skip"}
  /\ UNCHANGED <<card, espFlash, espRun, stmFlash, rtc, stmRun, toEsp, bounds>>

-----------------------------------------------------------------------------
(* Mishaps                                                                 *)

PowerOff ==
  /\ epc' = "boot" /\ spc' = "boot"
  /\ efast' = FALSE /\ sfast' = FALSE /\ hs' = FALSE /\ read' = 0 /\ remaining' = 0
  /\ toStm' = <<>> /\ toEsp' = <<>>
  /\ UNCHANGED <<card, espFlash, stmFlash, rtc>>

PowerFail ==
  /\ crashes < MaxCrashes /\ crashes' = crashes + 1
  /\ PowerOff
  /\ UNCHANGED <<pulls, faults, races>>

EspReset ==
  /\ "esp" \in Alone
  /\ crashes < MaxCrashes /\ crashes' = crashes + 1
  /\ epc # "boot"
  /\ epc' = "boot" /\ efast' = FALSE /\ hs' = FALSE /\ read' = 0
  /\ UNCHANGED <<card, espFlash, stmFlash, rtc, stmRun, toStm, toEsp, pulls, faults, races>>

StmReset ==
  /\ "stm" \in Alone
  /\ crashes < MaxCrashes /\ crashes' = crashes + 1
  /\ spc # "boot"
  /\ spc' = "boot" /\ sfast' = FALSE /\ remaining' = 0
  /\ UNCHANGED <<card, espFlash, espRun, stmFlash, rtc, toStm, toEsp, pulls, faults, races>>

\* Both wait for something the other will not send; a display that has failed no
\* longer reads.
Hung ==
  /\ toEsp = <<>> /\ (toStm = <<>> \/ spc = "failed")
  /\ epc \in {"hello", "init", "entered", "awaitReady", "serve", "awaitCopy"}
  /\ spc \in {"update", "failed"} \/ (spc = "shake" /\ (efast \/ hs))

\* Somebody sees a sign that hangs and unplugs it.
Unplug == Hung /\ PowerOff /\ UNCHANGED bounds

-----------------------------------------------------------------------------
Esp ==
  \/ EspBoot \/ Truncate \/ Put \/ Hello \/ Running \/ Fetch \/ Checksums \/ Reset
  \/ Cancel \/ HearInit \/ HearEntered \/ Prepare \/ HearNoise \/ HearReady \/ Serve
  \/ HearCopied \/ Flash \/ Flashed \/ Switch \/ Cleanup

Stm ==
  \/ StmBoot \/ Erase \/ Copy \/ Service \/ StmStart \/ Retry \/ Shake \/ ShakeOk
  \/ EnterUpdate \/ StmRunning \/ LeaveUpdate \/ BeginUpdate \/ ImgStart \/ ImgData
  \/ RequestUpdate \/ Progress

Next == Esp \/ Stm \/ StartFetch \/ Overlook \/ PowerFail \/ EspReset \/ StmReset \/ Unplug

Spec == Init /\ [][Next]_vars

\* Both processors run, and a hung sign is unplugged sooner or later.
FairSpec == Spec /\ WF_vars(Esp) /\ WF_vars(Stm) /\ SF_vars(Unplug)

-----------------------------------------------------------------------------
(* Properties                                                              *)

Files == {"none", "part", "new"}
EspPCs == {"boot", "hello", "running", "cancel", "init", "entered", "prepare", "awaitReady",
           "serve", "awaitCopy", "flash", "flashing", "switch", "cleanup"}
          \cup Fetching \cup {"begin", "cancelled", "stmDone", "espDone"}
AppPCs == {"start", "shake", "sent", "starting", "running", "update", "failed", "request",
           "requestSize", "tell"}
StmPCs == AppPCs \cup {"boot", "erase", "copy", "service"}

\* Every variable has its type.
TypeOK ==
  /\ state \in {"none", "empty", "ready", "sending", "doEsp", "didEsp"}
  /\ stmBin \in Files /\ espBin \in Files /\ sum \in Files
  /\ main \in {"old", "new"} /\ ota \in {"old", "new", "torn"} /\ boot \in {"main", "ota"}
  /\ epc \in EspPCs /\ efast \in BOOLEAN /\ hs \in BOOLEAN /\ read \in 0..Chunks
  /\ app \in {"old", "new", "torn"} /\ update \in Seq(0..Chunks)
  /\ bootcmd \in {"run", "update"} /\ didUpdate \in BOOLEAN
  /\ size \in 0..Chunks
  /\ spc \in StmPCs /\ sfast \in BOOLEAN /\ remaining \in Nat /\ remaining < Width

\* Whatever is interrupted, the bootloader jumps only to a whole program.
WholeProgramRuns == spc \in AppPCs => app # "torn"

\* The bootloader copies only an update area that holds the whole image, in order.
CopiesWhole == bootcmd = "update" => update = WholeUpdate

\* What is to be flashed or sent is on the card in full, with its checksums.
CardTrusted ==
  epc # "boot" /\ state \in {"ready", "sending", "doEsp"} =>
    "part" \notin {stmBin, espBin} /\ sum = "new" /\ "new" \in {stmBin, espBin}

\* The ESP boots from OTA_1 only what it has flashed to the end.
BootsWhole == boot = "ota" => ota = "new"

\* The ESP starts on itself only once the display runs the new program, so a sign
\* that fails half way still has an ESP that can send that program again.
DisplayFirst == epc \in {"flash", "flashing", "espDone", "switch"} /\ stmBin = "new" => app = "new"

\* The sign comes up in the end: nothing that happens a bounded number of times
\* leaves it worse than unplugging it can mend.
ComesUp == <>[]Up

Mishaps == crashes + faults + races
Waiting == state = "ready" /\ sum = "new"

\* With no mishap an update that is on the card is installed on both sides.
Installs ==
  /\ (Waiting /\ stmBin = "new" /\ Mishaps = 0) ~> (app = "new" \/ Mishaps > 0)
  /\ (Waiting /\ espBin = "new" /\ Mishaps = 0) ~> (main = "new" \/ Mishaps > 0)
=============================================================================
