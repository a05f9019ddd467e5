-------------------------------- MODULE ATA --------------------------------
(***************************************************************************)
(* The ATA driver, kernel/src/drivers/ata/ata.c: detection, then reads,    *)
(* writes and flushes by programmed I/O, poll by poll, against drives that *)
(* work at their own pace.                                                 *)
(*                                                                         *)
(* A position is a unit of a channel: 0 and 1 are the master and the slave *)
(* of the primary channel, 2 and 3 those of the secondary one.  A drive    *)
(* that gets a command in the middle of another one ignores it or aborts,  *)
(* and drives may be slower than the driver's time limits, or fail.  What  *)
(* went wrong is recorded, so that the properties can say what holds until *)
(* then.                                                                   *)
(***************************************************************************)
EXTENDS Integers, Sequences, FiniteSets

CONSTANTS
  Sectors,     \* the number of sectors of a drive
  MaxCount,    \* bound on the number of sectors of a call
  MaxDevices,  \* bound on the number of positions that hold a device
  MaxCalls     \* bound on the number of calls

ASSUME ATAConstants ==
  Sectors \in Nat \ {0} /\ {MaxCount, MaxDevices, MaxCalls} \subseteq Nat

Positions == 0 .. 3
Kinds == {"none", "ata", "atapi"}

VARIABLES
  kind,       \* the device at every position
  disk,       \* the sectors of every drive
  device,     \* what the device at every position is doing
  selected,   \* the selected unit of every channel
  probe,      \* the next position that ata_init looks at
  detected,   \* the positions that detected_drives describes, in its order
  at,         \* the next step of the call under way, idle if there is none
  call,       \* its arguments
  sector,     \* sectors transferred so far
  buffer,     \* what a read has put into its buffer
  result,     \* what the last call returned
  faults,     \* history: what went wrong during the call
  late,       \* history: a drive was busy beyond a time limit of the driver
  calls

driverVars == <<probe, detected, at, call, sector, buffer, result, calls>>
history == <<faults, late>>
vars == <<kind, disk, device, selected, history, driverVars>>

-----------------------------------------------------------------------------
(* The drives *)

\* doing: idle, error, drq (ready for the data of a sector) or busy with op;
\* data is what a write has just received.  What a sector holds is a pair: the
\* call that wrote it and the number of the sector in that call, or where the
\* sector was at the start.
NoData == <<0, 0>>
Original(p, l) == <<0 - (p + 1), l>>

Idle == [doing |-> "idle", op |-> "none", lba |-> 0, left |-> 0,
         data |-> NoData]

\* Something goes wrong with the call under way.
Fault(what) == faults' = faults \cup {what} /\ UNCHANGED late

\* A command for the device at p arrives.
Command(p, op, lba, count) ==
  \/ /\ device[p].doing \in {"idle", "error"}
     /\ device' = [device EXCEPT ![p] =
          IF kind[p] # "ata" THEN [Idle EXCEPT !.doing = "error"]
          ELSE [doing |-> "busy", op |-> op, lba |-> lba, left |-> count,
                data |-> NoData]]
     /\ UNCHANGED history
  \/ /\ device[p].doing \in {"busy", "drq"}
     /\ UNCHANGED <<device, history>>
  \/ /\ device[p].doing \in {"busy", "drq"} /\ Fault("abort")
     /\ device' = [device EXCEPT ![p] = [Idle EXCEPT !.doing = "error"]]

Becomes(p, d) == device' = [device EXCEPT ![p] = d]

\* A busy drive goes on: it gets a sector ready, asks for the data of the
\* next one, or has written what it received.
DriveWorks(p) ==
  LET d == device[p] IN
  /\ d.doing = "busy"
  /\ \/ /\ d.op = "flush" /\ Becomes(p, Idle) /\ UNCHANGED <<disk, history>>
     \/ /\ d.op # "flush" /\ d.data = NoData /\ d.lba < Sectors
        /\ Becomes(p, [d EXCEPT !.doing = "drq"]) /\ UNCHANGED <<disk, history>>
     \/ /\ d.data # NoData
        /\ disk' = [disk EXCEPT ![p][d.lba] = d.data]
        /\ Becomes(p, IF d.left = 1 THEN Idle ELSE
             [d EXCEPT !.left = @ - 1, !.lba = @ + 1, !.data = NoData])
        /\ UNCHANGED history
     \/ /\ d.op # "flush" /\ Fault(d.op)
        /\ Becomes(p, [Idle EXCEPT !.doing = "error"]) /\ UNCHANGED disk
  /\ UNCHANGED <<kind, selected, driverVars>>

-----------------------------------------------------------------------------
(* Detection *)

\* ata_detect_drive at the position probe.  An ATAPI device is left out; a
\* drive that is too slow, or whose signature is unknown, is left out too.
ata_detect_drive ==
  /\ probe \in Positions /\ probe' = probe + 1
  /\ selected' = [selected EXCEPT ![probe \div 2] = probe % 2]
  /\ \/ kind[probe] = "ata" /\ detected' = Append(detected, probe)
     \/ UNCHANGED detected
  /\ UNCHANGED <<kind, disk, device, at, call, sector, buffer, result, history,
                 calls>>

ata_drive_present(index) == index < Len(detected)

\* The position that ata_get_data_port and ata_is_master make of an index.
Position(index) == 2 * (IF index < 2 THEN 0 ELSE 1) + (index % 2)

-----------------------------------------------------------------------------
(* The calls *)

Here    == Position(call.index)
Channel == Here \div 2

\* The device whose status register the channel shows.
Shown == 2 * Channel + selected[Channel]

\* What inb of the status register gives: with no drive, zeros or ones.
Status(p) == IF kind[p] = "none" THEN {"zeros", "ones"} ELSE {device[p].doing}
IsBusy(status) == status \in {"busy", "ones"}

Return(value) ==
  /\ result' = value /\ at' = "idle"
  /\ UNCHANGED <<probe, detected, call, sector, buffer, calls>>

Goto(place) ==
  /\ at' = place
  /\ UNCHANGED <<probe, detected, call, sector, buffer, result, calls>>

\* The checks at the start of ata_read_sectors, ata_write_sectors and
\* ata_flush_cache.
Begin(op, index, lba, count) ==
  /\ probe \notin Positions /\ at = "idle" /\ calls < MaxCalls
  /\ calls' = calls + 1 /\ faults' = {} /\ UNCHANGED late
  /\ call' = [op |-> op, index |-> index, lba |-> lba, count |-> count]
  /\ sector' = 0 /\ buffer' = <<>>
  /\ IF ata_drive_present(index) /\ (op = "flush" \/ count > 0)
       THEN at' = "ready" /\ UNCHANGED result
       ELSE result' = FALSE /\ UNCHANGED at
  /\ UNCHANGED <<kind, disk, device, selected, probe, detected>>

\* A poll runs into its time limit: the drive is still busy, or there is none.
TimesOut(p) ==
  /\ device[p].doing = "busy" \/ kind[p] = "none"
  /\ faults' = faults \cup {"timeout"}
  /\ late' = (late \/ device[p].doing = "busy")

Ready_NextSector ==
  /\ at = "ready"
  /\ \E s \in Status(Shown) : ~ IsBusy(s)
  /\ selected' = [selected EXCEPT ![Channel] = Here % 2]
  /\ Command(Here, call.op, IF call.op = "write" THEN call.lba + 1 ELSE call.lba,
             call.count)
  /\ Goto(IF call.op = "flush" THEN "complete" ELSE "data")
  /\ UNCHANGED <<kind, disk>>

\* ata_wait_not_busy, then the drive is selected and the command sent.
Ready ==
  /\ at = "ready"
  /\ \/ /\ \E s \in Status(Shown) : ~ IsBusy(s)
        /\ selected' = [selected EXCEPT ![Channel] = Here % 2]
        /\ Command(Here, call.op, call.lba, call.count)
        /\ Goto(IF call.op = "flush" THEN "complete" ELSE "data")
     \/ /\ TimesOut(Shown) /\ Return(FALSE) /\ UNCHANGED <<device, selected>>
  /\ UNCHANGED <<kind, disk>>

\* What the k-th sector of a write holds: new at every call.
Written(k) == <<calls, k>>

NoDrq_Impatient ==
  /\ at = "data" /\ device[Here].doing # "drq" /\ UNCHANGED history
  /\ Return(FALSE)
  /\ UNCHANGED <<kind, disk, device, selected>>

\* ata_wait_drq fails: error, no drive, or the time limit (which a drive that
\* has nothing to do lets pass, too).
NoDrq ==
  /\ at = "data"
  /\ \/ /\ kind[Here] = "none" \/ device[Here].doing \in {"error", "idle"}
        /\ UNCHANGED history
     \/ TimesOut(Here)
  /\ Return(FALSE)
  /\ UNCHANGED <<kind, disk, device, selected>>

\* 256 words are read from the data port.
ReadSector ==
  LET d == device[Here] IN
  /\ at = "data" /\ call.op = "read" /\ d.doing = "drq"
  /\ sector' = sector + 1
  /\ IF d.op = "read"
       THEN /\ buffer' = Append(buffer, disk[Here][d.lba])
            /\ Becomes(Here, IF d.left = 1 THEN Idle
                 ELSE [d EXCEPT !.doing = "busy", !.left = @ - 1, !.lba = @ + 1])
       ELSE buffer' = Append(buffer, NoData) /\ UNCHANGED device
  /\ \/ sector + 1 = call.count /\ at' = "idle" /\ result' = TRUE
     \/ sector + 1 < call.count /\ UNCHANGED <<at, result>>
  /\ UNCHANGED <<kind, disk, selected, probe, detected, call, calls, history>>

\* 256 words are written to the data port.
WriteSector ==
  LET d == device[Here] IN
  /\ at = "data" /\ call.op = "write" /\ d.doing = "drq"
  /\ IF d.op = "write"
       THEN Becomes(Here, [d EXCEPT !.doing = "busy", !.data = Written(sector)])
       ELSE UNCHANGED device
  /\ Goto("flush")
  /\ UNCHANGED <<kind, disk, selected, history>>

\* The flush that follows every sector.
FlushSector ==
  /\ at = "flush"
  /\ Command(Here, "flush", 0, 0)
  /\ Goto("complete")
  /\ UNCHANGED <<kind, disk, selected>>

Complete_NoWait ==
  /\ at = "complete" /\ Return(TRUE)
  /\ UNCHANGED <<kind, disk, device, selected, history>>

Complete_UntilIdle ==
  /\ at = "complete"
  /\ \/ device[Here].doing = "idle" /\ Return(sector + 1 = call.count)
     \/ device[Here].doing # "idle" /\ UNCHANGED driverVars
  /\ UNCHANGED <<kind, disk, device, selected, history>>

\* ata_wait_not_busy after a flush; the status is looked at no further.
Complete ==
  /\ at = "complete"
  /\ \/ /\ \E s \in Status(Here) : ~ IsBusy(s)
        /\ \/ /\ call.op = "write" /\ sector + 1 < call.count
              /\ sector' = sector + 1 /\ at' = "data"
              /\ UNCHANGED <<probe, detected, call, buffer, result, calls>>
           \/ /\ ~ (call.op = "write" /\ sector + 1 < call.count)
              /\ Return(TRUE)
        /\ UNCHANGED history
     \/ TimesOut(Here) /\ Return(FALSE)
  /\ UNCHANGED <<kind, disk, device, selected>>

-----------------------------------------------------------------------------
Init ==
  /\ kind \in [Positions -> Kinds]
  /\ Cardinality({p \in Positions : kind[p] # "none"}) <= MaxDevices
  /\ disk = [p \in Positions |-> [l \in 0 .. Sectors - 1 |-> Original(p, l)]]
  /\ device = [p \in Positions |-> Idle]
  /\ selected = [c \in 0 .. 1 |-> 0]
  /\ probe = 0 /\ detected = <<>>
  /\ at = "idle" /\ call = [op |-> "none", index |-> 0, lba |-> 0, count |-> 0]
  /\ sector = 0 /\ buffer = <<>> /\ result = FALSE
  /\ faults = {} /\ late = FALSE /\ calls = 0

Calls ==
  \E index \in 0 .. 3, lba \in 0 .. Sectors - 1, count \in 0 .. MaxCount :
    \/ Begin("read", index, lba, count)
    \/ Begin("write", index, lba, count)
    \/ Begin("flush", index, 0, 0)

Driver == Ready \/ NoDrq \/ ReadSector \/ WriteSector \/ FlushSector \/ Complete
DrivesWork == \E p \in Positions : DriveWorks(p)

\* Every call has returned and no more are made.
Done == at = "idle" /\ calls = MaxCalls /\ UNCHANGED vars

Next == ata_detect_drive \/ Calls \/ Driver \/ DrivesWork \/ Done

\* The kernel runs the driver, the drives get their work done.
Spec == Init /\ [][Next]_vars /\ WF_vars(Driver) /\ WF_vars(DrivesWork)

-----------------------------------------------------------------------------
TypeOK ==
  /\ kind \in [Positions -> Kinds] /\ selected \in [0 .. 1 -> 0 .. 1]
  /\ \A p \in Positions :
       /\ device[p].doing \in {"idle", "busy", "drq", "error"}
       /\ device[p].left \in 0 .. MaxCount
       /\ device[p].lba \in 0 .. Sectors + MaxCount
  /\ probe \in 0 .. 4 /\ detected \in Seq(Positions) /\ Len(detected) <= 4
  /\ at \in {"idle", "ready", "data", "flush", "complete"}
  /\ sector \in 0 .. MaxCount /\ Len(buffer) <= sector

\* The index of every drive leads to the drive.
Aligned == \A k \in 1 .. Len(detected) : detected[k] = Position(k - 1)

Finished(op) == at = "idle" /\ result /\ call.op = op

\* "Read sectors from a drive" (ata.c:529): as long as no drive was late, a
\* read that returns true has put the sectors asked for into the buffer.
\* "Wait for write to complete" (ata.c:646): if moreover the drive neither
\* fails nor aborts, once a write returns true the drive holds what was to be
\* written.  The state is well typed.
MovesSectors ==
  /\ TypeOK
  /\ (Aligned /\ ~ late /\ Finished("read")) =>
       buffer = [k \in 1 .. call.count |-> disk[Here][call.lba + k - 1]]
  /\ (Aligned /\ ~ late /\ faults = {} /\ Finished("write")) =>
       \A k \in 0 .. call.count - 1 :
         call.lba + k < Sectors /\ disk[Here][call.lba + k] = Written(k)

\* As long as no drive was late, a step changes no sector but those the write
\* under way is about, although drives write on their own time.
OthersUntouched ==
  [][\A p \in Positions, l \in 0 .. Sectors - 1 :
       disk'[p][l] # disk[p][l] =>
         ((Aligned /\ ~ late) =>
            /\ at # "idle" /\ call.op = "write" /\ p = Here
            /\ l \in call.lba .. call.lba + call.count - 1)]_vars

\* "Write sectors to a drive" (ata.c:588), and read: as long as no drive was
\* late, a call on a drive that is present fails only if something went wrong
\* during this very call.
NoSpuriousFailure ==
  (Aligned /\ ~ late /\ at = "idle" /\ ~ result /\ calls > 0
   /\ ata_drive_present(call.index) /\ call.count > 0)
    => faults # {}

\* Every call returns: each wait is for a drive that answers, or is limited.
CallReturns == (at # "idle") ~> (at = "idle")
=============================================================================
