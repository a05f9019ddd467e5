----------------------------- MODULE DiskProofs ------------------------------
(***************************************************************************)
(* The ATA driver and the block cache above it.                            *)
(*                                                                         *)
(* ATA: reads and writes for drives of every size, calls of every length   *)
(* and any number of calls: the drive and the driver agree on the sector   *)
(* they are at, poll by poll, until a drive is late.                       *)
(*                                                                         *)
(* BlockCache: each block is cached once and never stale, for every number *)
(* of entries, drives and blocks.  Coherent needs NoDuplicates: a mount    *)
(* changes the drive and must find no valid entry.                         *)
(***************************************************************************)
EXTENDS ATA, BlockCache, WellFoundedInduction, TLAPS

USE ATAConstants

-----------------------------------------------------------------------------
(* What holds whatever the drives do *)

Words == Int \X Int

DeviceType ==
  [doing : {"idle", "busy", "drq", "error"},
   op : {"none", "read", "write", "flush"},
   lba : Nat, left : Nat, data : Words]

CallType ==
  [op : {"none", "read", "write", "flush"}, index : 0 .. 3,
   lba : 0 .. Sectors - 1, count : 0 .. MaxCount]

Types ==
  /\ kind \in [Positions -> Kinds]
  /\ disk \in [Positions -> [0 .. Sectors - 1 -> Words]]
  /\ device \in [Positions -> DeviceType]
  /\ selected \in [0 .. 1 -> 0 .. 1]
  /\ probe \in 0 .. 4 /\ detected \in Seq(Positions) /\ Len(detected) <= probe
  /\ at \in {"idle", "ready", "data", "flush", "complete"}
  /\ call \in CallType
  /\ sector \in 0 .. MaxCount /\ buffer \in Seq(Words) /\ Len(buffer) <= sector
  /\ calls \in Nat

\* A drive stays within what it was asked for; it has data to write only while
\* it is busy with a write, and asks for data only for a sector that it has.
SaneDrive(d) ==
  /\ d.left <= MaxCount /\ d.lba + d.left < Sectors + MaxCount
  /\ d.doing \in {"busy", "drq"} =>
       d.op # "none" /\ (d.op # "flush" => d.left >= 1)
  /\ d.doing = "drq" => d.op # "flush" /\ d.lba < Sectors /\ d.data = NoData
  /\ d.data # NoData => d.doing = "busy" /\ d.op = "write" /\ d.lba < Sectors

Sane == \A p \in Positions : SaneDrive(device[p])

\* How far a call is tells what it is.
Control ==
  /\ \A k \in 1 .. Len(detected) : kind[detected[k]] = "ata"
  /\ calls > 0 => probe = 4
  /\ at # "idle" =>
       /\ calls > 0 /\ ata_drive_present(call.index)
       /\ call.op # "none" /\ (call.op # "flush" => call.count > 0)
  /\ at = "ready" => sector = 0 /\ buffer = <<>>
  /\ at = "data" => call.op # "flush" /\ sector < call.count
  /\ at = "flush" => call.op = "write" /\ sector < call.count
  /\ at = "complete" =>
       call.op # "read" /\ (call.op = "write" => sector < call.count)

-----------------------------------------------------------------------------
(* What holds until a drive is late *)

Quiet(p) == device[p].doing \in {"idle", "error"}

Flushing == device[Here].doing = "busy" /\ device[Here].op = "flush"

\* The drive is about to move sector n of the call.
Working(n) ==
  /\ device[Here].doing \in {"busy", "drq"} /\ device[Here].op = call.op
  /\ device[Here].lba = call.lba + n /\ device[Here].left = call.count - n
  /\ device[Here].data = NoData

\* The drive has the data of the sector and has not written it yet.
Received ==
  /\ device[Here].doing = "busy" /\ device[Here].op = "write"
  /\ device[Here].lba = call.lba + sector
  /\ device[Here].left = call.count - sector
  /\ device[Here].data = Written(sector)

\* The first n sectors of a write are on the drive.
Stored(n) ==
  \A k \in 0 .. n - 1 :
    call.lba + k < Sectors /\ disk[Here][call.lba + k] = Written(k)

\* The first n sectors of a read are in the buffer.
Fetched(n) == buffer = [k \in 1 .. n |-> disk[Here][call.lba + k - 1]]

\* The drive and the driver are at the same sector, or something went wrong
\* and the drive has nothing to do but a flush.
InStep ==
  /\ \A p \in Positions :
       Quiet(p) \/ (p = Here /\ at \in {"data", "flush", "complete"})
  /\ at = "ready" => faults = {}
  /\ at = "data" =>
       /\ IF faults = {} THEN Working(sector) ELSE Quiet(Here)
       /\ call.op = "read" => Fetched(sector)
       /\ (call.op = "write" /\ faults = {}) => Stored(sector)
  /\ (at \in {"flush", "complete"} /\ call.op = "write" /\ faults = {}) =>
       /\ Stored(sector)
       /\ \/ Received
          \/ /\ Stored(sector + 1)
             /\ IF sector + 1 < call.count THEN Working(sector + 1)
                ELSE Quiet(Here) \/ (at = "complete" /\ Flushing)
  /\ (at = "flush" /\ faults # {}) => Quiet(Here)
  /\ (at = "complete" /\ (faults # {} \/ call.op = "flush")) =>
       Quiet(Here) \/ Flushing

\* What the call that returned last has left behind.
Outcome ==
  /\ Finished("read") => Fetched(call.count)
  /\ (Finished("write") /\ faults = {}) => Stored(call.count)
  /\ (at = "idle" /\ ~ result /\ calls > 0 /\ ata_drive_present(call.index)
      /\ call.count > 0) => faults # {}

Punctual == Aligned /\ ~ late

IInv == Types /\ Sane /\ Control /\ (Punctual => InStep /\ Outcome)

-----------------------------------------------------------------------------
(* Positions *)

\* The index of a drive is its place on the cables.
LEMMA PositionIs == \A i \in 0 .. 3 : Position(i) = i
BY DEF Position

\* The drive of a call is at a position of its channel.
LEMMA HereIs == ASSUME Types
                PROVE  /\ Here = call.index /\ Here \in Positions
                       /\ Channel \in 0 .. 1 /\ Shown \in Positions
<1>1. call.index \in 0 .. 3
  BY DEF Types, CallType
<1>2. Here = call.index
  BY <1>1, PositionIs DEF Here
<1>3. Channel \in 0 .. 1
  BY <1>1, <1>2 DEF Channel
<1>4. selected[Channel] \in 0 .. 1
  BY <1>3 DEF Types
<1> QED BY <1>1, <1>2, <1>3, <1>4 DEF Positions, Shown

\* As long as numbers and places agree there is a drive where the call goes.
LEMMA HereIsDrive ==
  ASSUME Types, Control, Aligned, ata_drive_present(call.index)
  PROVE  kind[Here] = "ata"
<1> DEFINE k == call.index + 1
<1>1. call.index \in 0 .. 3 /\ Len(detected) \in Nat
  BY DEF Types, CallType
<1>2. k \in 1 .. Len(detected)
  BY <1>1 DEF ata_drive_present
<1>3. detected[k] = Position(call.index)
  BY <1>1, <1>2 DEF Aligned
<1>4. detected[k] = Here
  BY <1>3 DEF Here
<1> QED BY <1>2, <1>4 DEF Control

\* Drives that have nothing to do.
LEMMA IdleType ==
  /\ Idle \in DeviceType /\ [Idle EXCEPT !.doing = "error"] \in DeviceType
  /\ SaneDrive(Idle) /\ SaneDrive([Idle EXCEPT !.doing = "error"])
  /\ Idle.doing = "idle" /\ [Idle EXCEPT !.doing = "error"].doing = "error"
  /\ NoData \in Words
BY DEF Idle, DeviceType, SaneDrive, NoData, Words

\* Everything is quiet and nothing has been called.
LEMMA InitIInv == Init => IInv
<1> SUFFICES ASSUME Init PROVE IInv
  OBVIOUS
<1>1. \A p \in Positions, l \in 0 .. Sectors - 1 : Original(p, l) \in Words
  BY DEF Original, Words, Positions
<1>2. disk \in [Positions -> [0 .. Sectors - 1 -> Words]]
  BY <1>1 DEF Init
<1>3. device \in [Positions -> DeviceType] /\ Sane
  BY IdleType DEF Init, Sane
<1>4. Types
  BY <1>2, <1>3 DEF Init, Types, CallType
<1>5. Control
  BY DEF Init, Control
<1>6. InStep /\ Outcome
  BY IdleType DEF Init, InStep, Outcome, Quiet, Finished
<1> QED BY <1>3, <1>4, <1>5, <1>6 DEF IInv
-----------------------------------------------------------------------------
(* Types, drives and control, whatever is late *)

\* What a step has to show when it leaves some of the variables alone.
LEMMA DeviceStep ==
  ASSUME Types, Sane, NEW p \in Positions, NEW d \in DeviceType, SaneDrive(d),
         device' = [device EXCEPT ![p] = d]
  PROVE  /\ device' \in [Positions -> DeviceType] /\ Sane'
         /\ \A q \in Positions : device'[q] = IF q = p THEN d ELSE device[q]
<1>1. device \in [Positions -> DeviceType]
  BY DEF Types
<1>2. \A q \in Positions : device'[q] = IF q = p THEN d ELSE device[q]
  BY <1>1
<1>3. device' \in [Positions -> DeviceType]
  BY <1>1
<1>4. Sane'
  BY <1>2 DEF Sane
<1> QED BY <1>2, <1>3, <1>4

Accepted(op, lba, count) ==
  [doing |-> "busy", op |-> op, lba |-> lba, left |-> count, data |-> NoData]

Broken == [Idle EXCEPT !.doing = "error"]

\* What a drive makes of a command: it takes it, ignores it or fails.
LEMMA CommandSteps ==
  ASSUME Types, Sane, NEW p \in Positions,
         NEW op \in {"read", "write", "flush"}, NEW lba \in 0 .. Sectors - 1,
         NEW count \in 0 .. MaxCount, op # "flush" => count > 0,
         Command(p, op, lba, count)
  PROVE  /\ device' \in [Positions -> DeviceType] /\ Sane'
         /\ \A q \in Positions \ {p} : device'[q] = device[q]
         /\ \/ /\ Quiet(p) /\ faults' = faults /\ late' = late
               /\ device'[p] = IF kind[p] = "ata" THEN Accepted(op, lba, count)
                               ELSE Broken
            \/ /\ ~ Quiet(p) /\ faults' = faults /\ late' = late
               /\ device'[p] = device[p]
            \/ /\ ~ Quiet(p) /\ faults' # {} /\ late' = late
               /\ device'[p] = Broken
<1>1. Accepted(op, lba, count) \in DeviceType
  BY IdleType DEF Accepted, DeviceType
<1>2. SaneDrive(Accepted(op, lba, count))
  BY DEF Accepted, SaneDrive
<1>3. Broken \in DeviceType /\ SaneDrive(Broken)
  BY IdleType DEF Broken
<1>4. CASE /\ Quiet(p) /\ UNCHANGED history
           /\ device' = [device EXCEPT ![p] =
                IF kind[p] # "ata" THEN Broken ELSE Accepted(op, lba, count)]
  <2> DEFINE d == IF kind[p] # "ata" THEN Broken ELSE Accepted(op, lba, count)
  <2>1. d \in DeviceType /\ SaneDrive(d)
    BY <1>1, <1>2, <1>3
  <2>2. device' = [device EXCEPT ![p] = d]
    BY <1>4
  <2>3. /\ device' \in [Positions -> DeviceType] /\ Sane'
        /\ \A q \in Positions : device'[q] = IF q = p THEN d ELSE device[q]
    <3> HIDE DEF d
    <3> QED BY <2>1, <2>2, DeviceStep
  <2> QED BY <1>4, <2>3 DEF history
<1>5. CASE ~ Quiet(p) /\ UNCHANGED <<device, history>>
  BY <1>5 DEF Types, Sane, history
<1>6. CASE ~ Quiet(p) /\ Fault("abort") /\ device' = [device EXCEPT ![p] = Broken]
  <2>1. faults' # {} /\ late' = late
    BY <1>6 DEF Fault
  <2> QED BY <1>3, <1>6, <2>1, DeviceStep
<1>7. device[p] \in DeviceType
  BY DEF Types
<1>8. device[p].doing \in {"idle", "busy", "drq", "error"}
  BY <1>7 DEF DeviceType
<1> QED BY <1>4, <1>5, <1>6, <1>8 DEF Command, Broken, Accepted, Quiet

\* A busy drive goes on.
LEMMA WorkSteps ==
  ASSUME Types, Sane, NEW p \in Positions, DriveWorks(p)
  PROVE  /\ device' \in [Positions -> DeviceType] /\ Sane'
         /\ \A q \in Positions \ {p} : device'[q] = device[q]
         /\ device[p].doing = "busy"
         /\ UNCHANGED <<kind, selected, driverVars>>
         /\ \/ /\ device[p].op = "flush" /\ device'[p] = Idle
               /\ UNCHANGED <<disk, faults, late>>
            \/ /\ device[p].op # "flush" /\ device[p].data = NoData
               /\ device'[p] = [device[p] EXCEPT !.doing = "drq"]
               /\ UNCHANGED <<disk, faults, late>>
            \/ /\ device[p].data # NoData /\ UNCHANGED <<faults, late>>
               /\ disk' = [disk EXCEPT ![p][device[p].lba] = device[p].data]
               /\ device'[p] = IF device[p].left = 1 THEN Idle
                    ELSE [device[p] EXCEPT !.left = @ - 1, !.lba = @ + 1,
                                           !.data = NoData]
            \/ /\ device[p].op # "flush" /\ faults' # {} /\ late' = late
               /\ device'[p] = Broken /\ disk' = disk
<1> DEFINE d == device[p]
<1>1. d \in DeviceType /\ SaneDrive(d)
  BY DEF Types, Sane
<1>2. UNCHANGED <<kind, selected, driverVars>> /\ d.doing = "busy"
  BY DEF DriveWorks
<1>3. ASSUME NEW e \in DeviceType, SaneDrive(e), Becomes(p, e)
      PROVE  /\ device' \in [Positions -> DeviceType] /\ Sane'
             /\ \A q \in Positions \ {p} : device'[q] = device[q]
             /\ device'[p] = e
  BY <1>3, DeviceStep DEF Becomes
<1>4. CASE /\ d.op = "flush" /\ Becomes(p, Idle) /\ UNCHANGED <<disk, history>>
  BY <1>2, <1>3, <1>4, IdleType DEF history
<1>5. CASE /\ d.op # "flush" /\ d.data = NoData /\ d.lba < Sectors
           /\ Becomes(p, [d EXCEPT !.doing = "drq"])
           /\ UNCHANGED <<disk, history>>
  <2> DEFINE e == [d EXCEPT !.doing = "drq"]
  <2>1. e \in DeviceType
    BY <1>1 DEF DeviceType
  <2>2. SaneDrive(e)
    BY <1>1, <1>2, <1>5 DEF SaneDrive, DeviceType
  <2> QED BY <1>2, <1>3, <1>5, <2>1, <2>2 DEF history
<1>6. CASE /\ d.data # NoData
           /\ disk' = [disk EXCEPT ![p][d.lba] = d.data]
           /\ Becomes(p, IF d.left = 1 THEN Idle ELSE
                [d EXCEPT !.left = @ - 1, !.lba = @ + 1, !.data = NoData])
           /\ UNCHANGED history
  <2> DEFINE e == [d EXCEPT !.left = @ - 1, !.lba = @ + 1, !.data = NoData]
             f == IF d.left = 1 THEN Idle ELSE e
  <2>1. d.op = "write" /\ d.left >= 1
    BY <1>1, <1>2, <1>6 DEF SaneDrive
  <2>2. d.left # 1 => e \in DeviceType
    <3>1. d.left - 1 \in Nat /\ d.lba + 1 \in Nat /\ NoData \in Words
      BY <1>1, <2>1, IdleType DEF DeviceType
    <3> QED BY <1>1, <3>1 DEF DeviceType
  <2>3. d.left # 1 => SaneDrive(e)
    BY <1>1, <1>2, <2>1 DEF SaneDrive, DeviceType
  <2>4. f \in DeviceType /\ SaneDrive(f)
    BY <2>2, <2>3, IdleType
  <2>5. Becomes(p, f)
    BY <1>6
  <2>6. /\ device' \in [Positions -> DeviceType] /\ Sane'
        /\ \A q \in Positions \ {p} : device'[q] = device[q]
        /\ device'[p] = f
    <3> HIDE DEF f
    <3> QED BY <1>3, <2>4, <2>5
  <2> QED BY <1>2, <1>6, <2>6 DEF history
<1>7. CASE /\ d.op # "flush" /\ Fault(d.op) /\ Becomes(p, Broken)
           /\ UNCHANGED disk
  <2>1. faults' # {} /\ late' = late
    BY <1>7 DEF Fault
  <2>2. Broken \in DeviceType /\ SaneDrive(Broken)
    BY IdleType DEF Broken
  <2> QED BY <1>2, <1>3, <1>7, <2>1, <2>2
<1> QED BY <1>4, <1>5, <1>6, <1>7 DEF DriveWorks, Broken
-----------------------------------------------------------------------------
(* Detection and the start of a call *)

\* Nothing has been called while drives are looked for.
LEMMA DetectKeeps == ASSUME IInv, ata_detect_drive PROVE IInv'
<1>1. Types /\ Sane /\ Control /\ (Punctual => InStep /\ Outcome)
  BY DEF IInv
<1>2. /\ probe \in 0 .. 3 /\ probe' = probe + 1
      /\ selected' = [selected EXCEPT ![probe \div 2] = probe % 2]
      /\ \/ kind[probe] = "ata" /\ detected' = Append(detected, probe)
         \/ detected' = detected
      /\ UNCHANGED <<kind, disk, device, at, call, sector, buffer, result,
                     faults, late, calls>>
  BY DEF ata_detect_drive, Positions, history
<1>3. calls = 0 /\ at = "idle"
  <2>1. ~ (calls > 0) /\ calls \in Nat
    BY <1>1, <1>2 DEF Control, Types
  <2> QED BY <1>1, <2>1 DEF Control
<1>4. Types'
  <2>1. selected' \in [0 .. 1 -> 0 .. 1]
    <3>1. probe \div 2 \in 0 .. 1 /\ probe % 2 \in 0 .. 1
      BY <1>2
    <3> QED BY <1>1, <1>2, <3>1 DEF Types
  <2>2. detected' \in Seq(Positions) /\ Len(detected') <= probe'
    <3>1. detected \in Seq(Positions) /\ Len(detected) <= probe
      BY <1>1 DEF Types
    <3>2. Len(detected) \in Nat /\ probe \in Positions
      BY <1>2, <3>1 DEF Positions
    <3>3. CASE detected' = Append(detected, probe)
      BY <1>2, <3>1, <3>2, <3>3
    <3> QED BY <1>2, <3>1, <3>2, <3>3
  <2> QED BY <1>1, <1>2, <2>1, <2>2 DEF Types
<1>5. Sane'
  BY <1>1, <1>2 DEF Sane
<1>6. Control'
  <2>1. \A k \in 1 .. Len(detected') : kind'[detected'[k]] = "ata"
    <3>1. CASE detected' = detected
      BY <1>1, <1>2, <3>1 DEF Control
    <3>2. CASE kind[probe] = "ata" /\ detected' = Append(detected, probe)
      BY <1>1, <1>2, <3>2 DEF Control, Types
    <3> QED BY <1>2, <3>1, <3>2
  <2> QED BY <1>2, <1>3, <2>1 DEF Control
<1>7. Punctual' => Punctual
  <2>1. CASE detected' = detected
    BY <1>2, <2>1 DEF Punctual, Aligned, Position
  <2>2. CASE detected' = Append(detected, probe)
    <3>1. detected \in Seq(Positions)
      BY <1>1 DEF Types
    <3>2. /\ Len(detected') = Len(detected) + 1 /\ Len(detected) \in Nat
          /\ \A k \in 1 .. Len(detected) : detected'[k] = detected[k]
      BY <2>2, <3>1
    <3> QED BY <1>2, <3>2 DEF Punctual, Aligned, Position
  <2> QED BY <1>2, <2>1, <2>2
<1>8. Punctual => InStep' /\ Outcome'
  <2> SUFFICES ASSUME Punctual PROVE InStep' /\ Outcome'
    OBVIOUS
  <2>1. Here' = Here
    BY <1>2 DEF Here, Position
  <2>2. InStep'
    BY <1>1, <1>2, <1>3, <2>1 DEF InStep, Quiet
  <2>3. Fetched(call.count)' = Fetched(call.count) /\ Stored(call.count)' = Stored(call.count)
    BY <1>2, <2>1 DEF Fetched, Stored, Written
  <2>4. Outcome'
    BY <1>1, <1>2, <1>3, <2>3 DEF Outcome, Finished
  <2> QED BY <2>2, <2>4
<1> QED BY <1>4, <1>5, <1>6, <1>7, <1>8 DEF IInv

\* A call begins while every drive is quiet, or is refused.
LEMMA BeginKeeps ==
  ASSUME IInv, NEW op \in {"read", "write", "flush"}, NEW index \in 0 .. 3,
         NEW lba \in 0 .. Sectors - 1, NEW count \in 0 .. MaxCount,
         op = "flush" => count = 0, Begin(op, index, lba, count)
  PROVE  IInv'
<1>1. Types /\ Sane /\ Control /\ (Punctual => InStep /\ Outcome)
  BY DEF IInv
<1>2. /\ probe \notin Positions /\ at = "idle" /\ calls' = calls + 1
      /\ faults' = {} /\ late' = late
      /\ call' = [op |-> op, index |-> index, lba |-> lba, count |-> count]
      /\ sector' = 0 /\ buffer' = <<>>
      /\ UNCHANGED <<kind, disk, device, selected, probe, detected>>
  BY DEF Begin
<1>3. \/ /\ ata_drive_present(index) /\ (op = "flush" \/ count > 0)
         /\ at' = "ready" /\ result' = result
      \/ /\ ~ (ata_drive_present(index) /\ (op = "flush" \/ count > 0))
         /\ result' = FALSE /\ at' = "idle"
  BY <1>2 DEF Begin
<1>4. call' \in CallType /\ buffer' \in Seq(Words) /\ Len(buffer') = 0
  BY <1>2 DEF CallType
<1>5. Types'
  BY <1>1, <1>2, <1>3, <1>4 DEF Types
<1>6. Sane'
  BY <1>1, <1>2 DEF Sane
<1>7. Control'
  <2>1. probe = 4 /\ calls + 1 > 0
    BY <1>1, <1>2 DEF Types, Positions
  <2> QED BY <1>1, <1>2, <1>3, <2>1 DEF Control, ata_drive_present
<1>8. Punctual' => InStep' /\ Outcome'
  <2> SUFFICES ASSUME Punctual' PROVE InStep' /\ Outcome'
    OBVIOUS
  <2>1. Punctual
    BY <1>2 DEF Punctual, Aligned, Position
  <2>2. InStep'
    BY <1>1, <1>2, <1>3, <2>1 DEF InStep, Quiet
  <2>3. Outcome'
    BY <1>2, <1>3 DEF Outcome, Finished, ata_drive_present
  <2> QED BY <2>2, <2>3
<1> QED BY <1>5, <1>6, <1>7, <1>8 DEF IInv
-----------------------------------------------------------------------------
(* The steps of a call *)

\* A drive is late for good.
LEMMA StillPunctual ==
  ASSUME detected' = detected, late => late', Punctual'
  PROVE  Punctual
BY DEF Punctual, Aligned, Position

\* A call gives up when every drive is quiet, and after something went wrong.
LEMMA GiveUpKeeps ==
  ASSUME IInv, at # "idle", Return(FALSE),
         UNCHANGED <<kind, disk, device, selected>>,
         Punctual' => /\ Punctual /\ faults' # {}
                      /\ \A p \in Positions : Quiet(p)
  PROVE  IInv'
<1>1. Types /\ Sane /\ Control
  BY DEF IInv
<1>2. /\ ~ result' /\ at' = "idle"
      /\ UNCHANGED <<probe, detected, call, sector, buffer, calls>>
      /\ UNCHANGED <<kind, disk, device, selected>>
  BY DEF Return
<1>3. Types' /\ Sane'
  BY <1>1, <1>2 DEF Types, Sane
<1>4. Control'
  BY <1>1, <1>2 DEF Control
<1>5. Punctual' => InStep'
  BY <1>2 DEF InStep, Quiet
<1>6. Punctual' => Outcome'
  BY <1>2 DEF Outcome, Finished
<1> QED BY <1>3, <1>4, <1>5, <1>6 DEF IInv

\* While numbers and places agree and no drive is late, a poll that is not for
\* a drive of this call runs into its limit only at an empty place.
LEMMA TimesOutLate ==
  ASSUME NEW p \in Positions, TimesOut(p), detected' = detected, Punctual'
  PROVE  Punctual /\ kind[p] = "none" /\ faults' # {}
<1>1. faults' # {} /\ (late => late') /\ ~ late'
  BY DEF TimesOut, Punctual
<1>2. kind[p] = "none"
  BY <1>1 DEF TimesOut
<1> QED BY <1>1, <1>2, StillPunctual

\* The command is sent to a quiet drive, which takes it.
LEMMA ReadyKeeps == ASSUME IInv, Ready PROVE IInv'
<1>1. Types /\ Sane /\ Control /\ (Punctual => InStep /\ Outcome)
  BY DEF IInv
<1>2. at = "ready" /\ UNCHANGED <<kind, disk>>
  BY DEF Ready
<1>3. CASE TimesOut(Shown) /\ Return(FALSE) /\ UNCHANGED <<device, selected>>
  <2>1. detected' = detected /\ Shown \in Positions
    BY <1>1, <1>3, HereIs DEF Return
  <2>2. ASSUME Punctual'
        PROVE Punctual /\ faults' # {} /\ \A p \in Positions : Quiet(p)
    <3>1. Punctual /\ faults' # {}
      BY <1>3, <2>1, <2>2, TimesOutLate
    <3> QED BY <1>1, <1>2, <3>1 DEF InStep
  <2> QED BY <1>2, <1>3, <2>2, GiveUpKeeps
<1>4. CASE /\ selected' = [selected EXCEPT ![Channel] = Here % 2]
           /\ Command(Here, call.op, call.lba, call.count)
           /\ Goto(IF call.op = "flush" THEN "complete" ELSE "data")
  <2>1. /\ at' = IF call.op = "flush" THEN "complete" ELSE "data"
        /\ UNCHANGED <<probe, detected, call, sector, buffer, result, calls>>
    BY <1>4 DEF Goto
  <2>2. /\ call.op \in {"read", "write", "flush"} /\ call.index \in 0 .. 3
        /\ call.lba \in 0 .. Sectors - 1 /\ call.count \in 0 .. MaxCount
        /\ call.op # "flush" => call.count > 0
        /\ ata_drive_present(call.index) /\ calls > 0
        /\ sector = 0 /\ buffer = <<>>
    BY <1>1, <1>2 DEF Types, CallType, Control
  <2>3. Here \in Positions /\ Here = call.index /\ Channel \in 0 .. 1
    BY <1>1, HereIs
  <2>4. /\ device' \in [Positions -> DeviceType] /\ Sane'
        /\ \A q \in Positions \ {Here} : device'[q] = device[q]
        /\ late' = late
        /\ Quiet(Here) /\ kind[Here] = "ata" =>
             /\ device'[Here] = Accepted(call.op, call.lba, call.count)
             /\ faults' = faults
    BY <1>1, <1>4, <2>2, <2>3, CommandSteps
  <2>5. Types'
    <3>1. selected' \in [0 .. 1 -> 0 .. 1]
      <4>1. Here % 2 \in 0 .. 1
        BY <2>3 DEF Positions
      <4> QED BY <1>1, <1>4, <2>3, <4>1 DEF Types
    <3> QED BY <1>1, <1>2, <2>1, <2>4, <3>1 DEF Types
  <2>6. Control'
    BY <1>1, <1>2, <2>1, <2>2 DEF Control, ata_drive_present
  <2>7. Outcome'
    BY <2>1 DEF Outcome, Finished
  <2>8. ASSUME Punctual' PROVE InStep'
    <3>1. Punctual
      BY <2>1, <2>4, <2>8, StillPunctual
    <3>2. Here' = Here
      BY <2>1 DEF Here, Position
    <3>3. \A p \in Positions : Quiet(p)
      BY <1>1, <1>2, <3>1 DEF InStep
    <3>4. kind[Here] = "ata"
      BY <1>1, <2>2, <3>1, HereIsDrive DEF Punctual
    <3>5. /\ device'[Here] = Accepted(call.op, call.lba, call.count)
          /\ faults' = {}
      BY <1>1, <1>2, <2>3, <2>4, <3>1, <3>3, <3>4 DEF InStep
    <3>6. \A p \in Positions : p # Here => Quiet(p)'
      BY <2>4, <3>3 DEF Quiet
    <3>7. CASE call.op = "flush"
      <4>1. Flushing'
        BY <3>2, <3>5, <3>7 DEF Flushing, Accepted
      <4> QED BY <2>1, <3>2, <3>6, <3>7, <4>1 DEF InStep
    <3>8. CASE call.op # "flush"
      <4>1. Working(0)'
        BY <2>1, <2>2, <3>2, <3>5 DEF Working, Accepted
      <4>2. Stored(0)' /\ Fetched(0)'
        BY <2>1, <2>2 DEF Stored, Fetched
      <4> QED BY <2>1, <2>2, <3>2, <3>5, <3>6, <3>8, <4>1, <4>2 DEF InStep
    <3> QED BY <3>7, <3>8
  <2> QED BY <2>4, <2>5, <2>6, <2>7, <2>8 DEF IInv
<1> QED BY <1>3, <1>4 DEF Ready

\* The drive failed, or is late.
LEMMA NoDrqKeeps == ASSUME IInv, NoDrq PROVE IInv'
<1>1. Types /\ Sane /\ Control /\ (Punctual => InStep /\ Outcome)
  BY DEF IInv
<1>2. /\ at = "data" /\ Return(FALSE)
      /\ UNCHANGED <<kind, disk, device, selected>>
  BY DEF NoDrq
<1>3. detected' = detected /\ Here \in Positions
  BY <1>1, <1>2, HereIs DEF Return
<1>4. ASSUME Punctual'
      PROVE  Punctual /\ faults' # {} /\ \A p \in Positions : Quiet(p)
  <2>1. Punctual => kind[Here] = "ata"
    BY <1>1, <1>2, HereIsDrive DEF Control, Punctual
  <2>2. ~ TimesOut(Here)
    BY <1>3, <1>4, <2>1, TimesOutLate
  <2>3. /\ kind[Here] = "none" \/ Quiet(Here)
        /\ UNCHANGED history
    BY <2>2 DEF NoDrq, Quiet
  <2>4. Punctual
    BY <1>3, <1>4, <2>3, StillPunctual DEF history
  <2>5. Quiet(Here)
    BY <2>1, <2>3, <2>4
  <2>6. faults # {}
    BY <1>1, <1>2, <2>4, <2>5 DEF InStep, Working, Quiet
  <2> QED BY <1>1, <1>2, <2>3, <2>4, <2>5, <2>6 DEF InStep, history
<1> QED BY <1>2, <1>4, GiveUpKeeps
\* What the driver has read, sector by sector.
LEMMA FetchedNext ==
  ASSUME Types, Fetched(sector), Len(buffer) = sector,
         buffer' = Append(buffer, disk[Here][call.lba + sector]),
         disk[Here][call.lba + sector] \in Words,
         sector' = sector + 1, UNCHANGED <<disk, call>>
  PROVE  Fetched(sector)'
<1> DEFINE n == sector
           x == disk[Here][call.lba + n]
           F == [k \in 1 .. n + 1 |-> disk[Here][call.lba + k - 1]]
<1>1. /\ buffer \in Seq(Words) /\ buffer' = Append(buffer, x)
      /\ call.lba \in Int /\ n \in Nat /\ x \in Words /\ Len(buffer) = n
  BY DEF Types, CallType
<1>2. Here' = Here
  BY DEF Here, Position
<1>3. \A k \in 1 .. n : buffer[k] = disk[Here][call.lba + k - 1]
  BY DEF Fetched
<1>4. \A k \in 1 .. n : F[k] = disk[Here][call.lba + k - 1]
  BY <1>1
<1>5. F[n + 1] = x
  <2>1. F[n + 1] = disk[Here][call.lba + (n + 1) - 1]
    BY <1>1
  <2>2. call.lba + (n + 1) - 1 = call.lba + n
    BY <1>1
  <2> QED BY <2>1, <2>2
<1> HIDE DEF x, F, n
<1>6. buffer' \in Seq(Words) /\ Len(buffer') = n + 1 /\ buffer'[n + 1] = x
  BY <1>1
<1>7. \A k \in 1 .. n : buffer'[k] = buffer[k]
  BY <1>1
<1>8. \A k \in 1 .. n + 1 : buffer'[k] = F[k]
  <2>1. \A k \in 1 .. n + 1 : k \in 1 .. n \/ k = n + 1
    BY <1>1
  <2>2. \A k \in 1 .. n : buffer'[k] = F[k]
    BY <1>3, <1>4, <1>7, Zenon
  <2> QED BY <1>5, <1>6, <2>1, <2>2, Zenon
<1>9. buffer' = [k \in 1 .. n + 1 |-> buffer'[k]]
  BY <1>6
<1>10. F = [k \in 1 .. n + 1 |-> F[k]]
  BY DEF F
<1>11. buffer' = F
  BY <1>8, <1>9, <1>10
<1> QED BY <1>2, <1>11 DEF Fetched, F, n

\* A sector is read from the drive that is at the same sector.
LEMMA ReadKeeps == ASSUME IInv, ReadSector PROVE IInv'
<1> DEFINE d == device[Here]
           e == [d EXCEPT !.doing = "busy", !.left = @ - 1, !.lba = @ + 1]
           f == IF d.left = 1 THEN Idle ELSE e
<1>1. Types /\ Sane /\ Control /\ (Punctual => InStep /\ Outcome)
  BY DEF IInv
<1>2. /\ at = "data" /\ call.op = "read" /\ d.doing = "drq"
      /\ sector' = sector + 1
      /\ UNCHANGED <<kind, disk, selected, probe, detected, call, calls,
                     faults, late>>
  BY DEF ReadSector, history
<1>3. \/ /\ d.op = "read" /\ device' = [device EXCEPT ![Here] = f]
         /\ buffer' = Append(buffer, disk[Here][d.lba])
      \/ d.op # "read" /\ buffer' = Append(buffer, NoData) /\ device' = device
  BY DEF ReadSector, Becomes
<1>4. \/ sector + 1 = call.count /\ at' = "idle" /\ result' = TRUE
      \/ sector + 1 < call.count /\ at' = at /\ result' = result
  BY DEF ReadSector
<1>5. Here \in Positions /\ Here' = Here
  BY <1>1, <1>2, HereIs DEF Here, Position
<1>6. d \in DeviceType /\ SaneDrive(d)
  BY <1>1, <1>5 DEF Types, Sane
<1>7. /\ d.lba \in 0 .. Sectors - 1 /\ d.left \in Nat /\ d.left >= 1
      /\ d.data = NoData /\ d.op # "none"
  BY <1>2, <1>6 DEF SaneDrive, DeviceType
<1>8. disk[Here][d.lba] \in Words
  BY <1>1, <1>5, <1>7 DEF Types
<1>9. d.left # 1 => e \in DeviceType /\ SaneDrive(e)
  <2>1. d.left - 1 \in Nat /\ d.lba + 1 \in Nat
    BY <1>7
  <2>2. e \in DeviceType
    BY <1>6, <2>1 DEF DeviceType
  <2> QED BY <1>6, <1>7, <2>2 DEF SaneDrive, DeviceType
<1>10. f \in DeviceType /\ SaneDrive(f)
  BY <1>9, IdleType
<1> HIDE DEF f
<1>11. /\ device' \in [Positions -> DeviceType] /\ Sane'
       /\ \A q \in Positions \ {Here} : device'[q] = device[q]
       /\ d.op = "read" => device'[Here] = f
  <2>1. CASE d.op = "read"
    BY <1>1, <1>3, <1>5, <1>10, <2>1, DeviceStep
  <2>2. CASE d.op # "read"
    BY <1>1, <1>3, <2>2 DEF Types, Sane
  <2> QED BY <2>1, <2>2
<1>12. Types'
  <2>1. buffer' \in Seq(Words) /\ Len(buffer') <= sector'
    <3>1. /\ buffer \in Seq(Words) /\ Len(buffer) <= sector /\ sector \in Nat
          /\ Len(buffer) \in Nat
      BY <1>1 DEF Types
    <3>2. PICK x \in Words : buffer' = Append(buffer, x)
      BY <1>3, <1>8, IdleType
    <3>3. buffer' \in Seq(Words) /\ Len(buffer') = Len(buffer) + 1
      BY <3>1, <3>2
    <3> QED BY <1>2, <3>1, <3>3
  <2>2. sector' \in 0 .. MaxCount
    BY <1>1, <1>2, <1>4 DEF Types, CallType
  <2> QED BY <1>1, <1>2, <1>4, <1>11, <2>1, <2>2 DEF Types
<1>13. Control'
  BY <1>1, <1>2, <1>4 DEF Control, ata_drive_present
<1>14. ASSUME Punctual' PROVE InStep' /\ Outcome'
  <2>1. InStep
    BY <1>1, <1>2, <1>14, StillPunctual
  <2>2. faults = {} /\ Working(sector) /\ Fetched(sector)
    BY <1>2, <2>1 DEF InStep, Quiet
  <2>3. d.op = "read" /\ d.lba = call.lba + sector /\ d.left = call.count - sector
    BY <1>2, <2>2 DEF Working
  <2>4. sector \in Nat /\ call.count \in Nat /\ call.lba \in Nat
    BY <1>1 DEF Types, CallType
  <2>5. Len(buffer) = sector
    <3>1. DOMAIN buffer = 1 .. sector
      BY <2>2 DEF Fetched
    <3>2. buffer \in Seq(Words)
      BY <1>1 DEF Types
    <3>3. DOMAIN buffer = 1 .. Len(buffer) /\ Len(buffer) \in Nat
      BY <3>2
    <3> QED BY <2>4, <3>1, <3>3
  <2>6. Fetched(sector)'
    <3>1. buffer' = Append(buffer, disk[Here][call.lba + sector])
      BY <1>3, <2>3
    <3>2. disk[Here][call.lba + sector] \in Words
      BY <1>8, <2>3
    <3>3. UNCHANGED <<disk, call>> /\ sector' = sector + 1
      BY <1>2
    <3> QED BY <1>1, <2>2, <2>5, <3>1, <3>2, <3>3, FetchedNext
  <2>7. \A p \in Positions : p # Here => Quiet(p)'
    BY <1>11, <2>1 DEF InStep, Quiet
  <2>8. CASE sector + 1 = call.count
    <3>1. d.left = 1 /\ at' = "idle"
      BY <1>4, <2>3, <2>4, <2>8
    <3>2. Quiet(Here)'
      BY <1>5, <1>11, <2>3, <3>1, IdleType DEF f, Quiet
    <3>3. InStep'
      BY <1>5, <2>7, <3>1, <3>2 DEF InStep
    <3>4. Fetched(call.count)'
      BY <1>2, <2>6, <2>8 DEF Fetched
    <3>5. Outcome'
      BY <1>2, <1>4, <2>4, <2>8, <3>1, <3>4 DEF Outcome, Finished
    <3> QED BY <3>3, <3>5
  <2>9. CASE sector + 1 < call.count
    <3>1. d.left # 1 /\ at' = "data"
      BY <1>2, <1>4, <2>3, <2>4, <2>9
    <3>2. device'[Here] = e
      BY <1>11, <2>3, <3>1 DEF f
    <3>3. Working(sector)'
      BY <1>2, <1>5, <1>6, <1>7, <2>3, <2>4, <3>2 DEF Working, DeviceType
    <3>4. InStep'
      BY <1>2, <1>5, <2>2, <2>6, <2>7, <3>1, <3>3 DEF InStep
    <3>5. Outcome'
      BY <3>1 DEF Outcome, Finished
    <3> QED BY <3>4, <3>5
  <2> QED BY <1>4, <2>8, <2>9
<1> QED BY <1>11, <1>12, <1>13, <1>14 DEF IInv
\* A sector is given to the drive that waits for it.
LEMMA WriteKeeps == ASSUME IInv, WriteSector PROVE IInv'
<1> DEFINE d == device[Here]
           e == [d EXCEPT !.doing = "busy", !.data = Written(sector)]
<1>1. Types /\ Sane /\ Control /\ (Punctual => InStep /\ Outcome)
  BY DEF IInv
<1>2. /\ at = "data" /\ call.op = "write" /\ d.doing = "drq" /\ at' = "flush"
      /\ UNCHANGED <<kind, disk, selected, faults, late>>
      /\ UNCHANGED <<probe, detected, call, sector, buffer, result, calls>>
  BY DEF WriteSector, Goto, history
<1>3. \/ d.op = "write" /\ device' = [device EXCEPT ![Here] = e]
      \/ d.op # "write" /\ device' = device
  BY DEF WriteSector, Becomes
<1>4. Here \in Positions /\ Here' = Here
  BY <1>1, <1>2, HereIs DEF Here, Position
<1>5. d \in DeviceType /\ SaneDrive(d)
  BY <1>1, <1>4 DEF Types, Sane
<1>6. Written(sector) \in Words
  BY <1>1 DEF Types, Written, Words
<1>7. e \in DeviceType
  BY <1>5, <1>6 DEF DeviceType
<1>8. d.op = "write" => SaneDrive(e)
  BY <1>2, <1>5 DEF SaneDrive, DeviceType
<1>9. /\ device' \in [Positions -> DeviceType] /\ Sane'
      /\ \A q \in Positions \ {Here} : device'[q] = device[q]
      /\ d.op = "write" => device'[Here] = e
  <2>1. CASE d.op = "write"
    BY <1>1, <1>3, <1>4, <1>7, <1>8, <2>1, DeviceStep
  <2>2. CASE d.op # "write"
    BY <1>1, <1>3, <2>2 DEF Types, Sane
  <2> QED BY <2>1, <2>2
<1>10. Types'
  BY <1>1, <1>2, <1>9 DEF Types
<1>11. Control'
  BY <1>1, <1>2 DEF Control, ata_drive_present
<1>12. Outcome'
  BY <1>2 DEF Outcome, Finished
<1>13. ASSUME Punctual' PROVE InStep'
  <2>1. InStep
    BY <1>1, <1>2, <1>13, StillPunctual
  <2>2. faults = {} /\ Working(sector) /\ Stored(sector)
    BY <1>2, <2>1 DEF InStep, Quiet
  <2>3. /\ d.op = "write" /\ d.lba = call.lba + sector
        /\ d.left = call.count - sector
    BY <1>2, <2>2 DEF Working
  <2>4. Received'
    BY <1>2, <1>4, <1>5, <1>9, <2>3 DEF Received, Written, DeviceType
  <2>5. Stored(sector)'
    BY <1>2, <1>4, <2>2 DEF Stored, Written
  <2>6. \A p \in Positions : p # Here => Quiet(p)'
    BY <1>9, <2>1 DEF InStep, Quiet
  <2> QED BY <1>2, <1>4, <2>2, <2>4, <2>5, <2>6 DEF InStep
<1> QED BY <1>9, <1>10, <1>11, <1>12, <1>13 DEF IInv
\* A flush in the middle of a write is ignored or makes the drive fail; after
\* the last sector it is carried out.
LEMMA FlushKeeps == ASSUME IInv, FlushSector PROVE IInv'
<1>1. Types /\ Sane /\ Control /\ (Punctual => InStep /\ Outcome)
  BY DEF IInv
<1>2. /\ at = "flush" /\ Command(Here, "flush", 0, 0) /\ at' = "complete"
      /\ UNCHANGED <<kind, disk, selected>>
      /\ UNCHANGED <<probe, detected, call, sector, buffer, result, calls>>
  BY DEF FlushSector, Goto
<1>3. Here \in Positions /\ Here' = Here
  BY <1>1, <1>2, HereIs DEF Here, Position
<1>4. /\ call.op = "write" /\ sector < call.count
      /\ ata_drive_present(call.index)
  BY <1>1, <1>2 DEF Control
<1>5. /\ device' \in [Positions -> DeviceType] /\ Sane'
      /\ \A q \in Positions \ {Here} : device'[q] = device[q]
      /\ \/ /\ Quiet(Here) /\ faults' = faults /\ late' = late
            /\ device'[Here] = IF kind[Here] = "ata" THEN Accepted("flush", 0, 0)
                               ELSE Broken
         \/ /\ ~ Quiet(Here) /\ faults' = faults /\ late' = late
            /\ device'[Here] = device[Here]
         \/ /\ ~ Quiet(Here) /\ faults' # {} /\ late' = late
            /\ device'[Here] = Broken
  <2>1. 0 \in 0 .. Sectors - 1 /\ 0 \in 0 .. MaxCount
    OBVIOUS
  <2> QED BY <1>1, <1>2, <1>3, <2>1, CommandSteps
<1>6. Types'
  BY <1>1, <1>2, <1>5 DEF Types
<1>7. Control'
  BY <1>1, <1>2 DEF Control, ata_drive_present
<1>8. Outcome'
  BY <1>2 DEF Outcome, Finished
<1>9. ASSUME Punctual' PROVE InStep'
  <2>1. Punctual /\ InStep
    BY <1>1, <1>2, <1>5, <1>9, StillPunctual
  <2>2. kind[Here] = "ata"
    BY <1>1, <1>4, <2>1, HereIsDrive DEF Punctual
  <2>3. \A p \in Positions : p # Here => Quiet(p)'
    BY <1>5, <2>1 DEF InStep, Quiet
  <2>4. CASE faults = {}
    <3>1. /\ Stored(sector)
          /\ \/ Received
             \/ /\ Stored(sector + 1)
                /\ IF sector + 1 < call.count THEN Working(sector + 1)
                   ELSE Quiet(Here)
      BY <1>2, <1>4, <2>1, <2>4 DEF InStep
    <3>2. Stored(sector)' /\ (Stored(sector + 1) => Stored(sector + 1)')
      BY <1>2, <1>3, <3>1 DEF Stored, Written
    <3>3. CASE Quiet(Here) /\ device'[Here] = Accepted("flush", 0, 0) /\ faults' = faults
      <4>1. Flushing'
        BY <1>3, <3>3 DEF Flushing, Accepted
      <4>2. Stored(sector + 1) /\ ~ (sector + 1 < call.count)
        BY <3>1, <3>3 DEF Received, Working, Quiet
      <4> QED BY <1>2, <1>3, <1>4, <2>3, <2>4, <3>2, <3>3, <4>1, <4>2 DEF InStep
    <3>4. CASE ~ Quiet(Here) /\ device'[Here] = device[Here] /\ faults' = faults
      <4>1. \/ Received'
            \/ Stored(sector + 1)' /\ sector + 1 < call.count /\ Working(sector + 1)'
        BY <1>2, <1>3, <3>1, <3>2, <3>4 DEF Received, Working, Written
      <4> QED BY <1>2, <1>3, <1>4, <2>3, <2>4, <3>2, <3>4, <4>1 DEF InStep
    <3>5. CASE device'[Here] = Broken /\ faults' # {}
      <4>1. Quiet(Here)'
        BY <1>3, <3>5, IdleType DEF Quiet, Broken
      <4> QED BY <1>2, <1>3, <1>4, <2>3, <3>5, <4>1 DEF InStep
    <3> QED BY <1>5, <2>2, <3>3, <3>4, <3>5
  <2>5. CASE faults # {}
    <3>1. Quiet(Here)
      BY <1>2, <2>1, <2>5 DEF InStep
    <3>2. Flushing' /\ faults' # {}
      BY <1>3, <1>5, <2>2, <2>5, <3>1 DEF Flushing, Accepted
    <3> QED BY <1>2, <1>3, <2>3, <3>2 DEF InStep
  <2> QED BY <2>4, <2>5
<1> QED BY <1>5, <1>6, <1>7, <1>8, <1>9 DEF IInv

\* The drive is done with the sector, unless something went wrong.
LEMMA CompleteKeeps == ASSUME IInv, Complete PROVE IInv'
<1>1. Types /\ Sane /\ Control /\ (Punctual => InStep /\ Outcome)
  BY DEF IInv
<1>2. at = "complete" /\ UNCHANGED <<kind, disk, device, selected>>
  BY DEF Complete
<1>3. /\ call.op # "read" /\ call.op # "none"
      /\ (call.op = "write" => sector < call.count)
      /\ ata_drive_present(call.index)
  BY <1>1, <1>2 DEF Control
<1>4. /\ sector \in Nat /\ call.count \in 0 .. MaxCount
      /\ call.op \in {"none", "read", "write", "flush"}
  BY <1>1 DEF Types, CallType
<1>5. Punctual => kind[Here] = "ata"
  BY <1>1, <1>3, HereIsDrive DEF Punctual
<1>6. CASE TimesOut(Here) /\ Return(FALSE)
  <2>1. detected' = detected /\ Here \in Positions
    BY <1>1, <1>6, HereIs DEF Return
  <2>2. ~ Punctual'
    BY <1>5, <1>6, <2>1, TimesOutLate
  <2> QED BY <1>2, <1>6, <2>2, GiveUpKeeps
<1>7. ASSUME UNCHANGED history, \E s \in Status(Here) : ~ IsBusy(s),
             detected' = detected, call' = call, Punctual'
      PROVE  /\ \A p \in Positions : Quiet(p)' \/ p = Here
             /\ faults = {} /\ call.op = "write" =>
                  /\ Stored(sector + 1)
                  /\ IF sector + 1 < call.count THEN Working(sector + 1)
                     ELSE Quiet(Here)
             /\ (faults # {} \/ call.op = "flush") => Quiet(Here)
             /\ Here' = Here /\ InStep
  <2>1. Punctual /\ InStep
    BY <1>1, <1>7, StillPunctual DEF history
  <2>2. device[Here].doing # "busy"
    BY <1>5, <1>7, <2>1 DEF Status, IsBusy
  <2>3. ~ Received /\ ~ Flushing
    BY <2>2 DEF Received, Flushing
  <2>4. Here' = Here
    BY <1>7 DEF Here, Position
  <2>5. \A p \in Positions : Quiet(p)' \/ p = Here
    BY <1>2, <2>1 DEF InStep, Quiet
  <2> QED BY <1>2, <2>1, <2>3, <2>4, <2>5 DEF InStep
<1>8. CASE /\ \E s \in Status(Here) : ~ IsBusy(s) /\ UNCHANGED history
           /\ call.op = "write" /\ sector + 1 < call.count
           /\ sector' = sector + 1 /\ at' = "data"
           /\ UNCHANGED <<probe, detected, call, buffer, result, calls>>
  <2>1. Types' /\ Sane'
    BY <1>1, <1>2, <1>4, <1>8 DEF Types, Sane
  <2>2. Control'
    BY <1>1, <1>2, <1>8 DEF Control, ata_drive_present
  <2>3. Outcome'
    BY <1>8 DEF Outcome, Finished
  <2>4. ASSUME Punctual' PROVE InStep'
    <3>1. /\ \A p \in Positions : Quiet(p)' \/ p = Here
          /\ faults = {} => Stored(sector + 1) /\ Working(sector + 1)
          /\ faults # {} => Quiet(Here)
          /\ Here' = Here
      BY <1>7, <1>8, <2>4
    <3>2. faults = {} => Stored(sector)' /\ Working(sector)'
      BY <1>2, <1>8, <3>1 DEF Stored, Working, Written
    <3>3. faults # {} => Quiet(Here)'
      BY <1>2, <3>1 DEF Quiet
    <3>4. faults' = faults
      BY <1>8 DEF history
    <3> QED BY <1>8, <3>1, <3>2, <3>3, <3>4 DEF InStep
  <2> QED BY <2>1, <2>2, <2>3, <2>4 DEF IInv
<1>9. CASE /\ \E s \in Status(Here) : ~ IsBusy(s) /\ UNCHANGED history
           /\ ~ (call.op = "write" /\ sector + 1 < call.count) /\ Return(TRUE)
  <2>1. /\ result' /\ at' = "idle"
        /\ UNCHANGED <<probe, detected, call, sector, buffer, calls>>
    BY <1>9 DEF Return
  <2>2. Types' /\ Sane'
    BY <1>1, <1>2, <2>1 DEF Types, Sane
  <2>3. Control'
    BY <1>1, <1>2, <2>1 DEF Control
  <2>4. ASSUME Punctual' PROVE InStep' /\ Outcome'
    <3>1. /\ \A p \in Positions : Quiet(p)' \/ p = Here
          /\ (faults = {} /\ call.op = "write") =>
               Stored(sector + 1) /\ Quiet(Here)
          /\ (faults # {} \/ call.op = "flush") => Quiet(Here)
          /\ Here' = Here
      BY <1>7, <1>9, <2>1, <2>4
    <3>2. Quiet(Here)'
      BY <1>2, <1>3, <1>4, <3>1 DEF Quiet
    <3>3. InStep'
      BY <2>1, <3>1, <3>2 DEF InStep
    <3>4. (faults = {} /\ call.op = "write") => Stored(call.count)'
      <4>1. call.op = "write" => call.count = sector + 1
        BY <1>3, <1>4, <1>9
      <4> QED BY <1>2, <2>1, <3>1, <4>1 DEF Stored, Written
    <3>5. faults' = faults
      BY <1>9 DEF history
    <3>6. Outcome'
      BY <1>3, <2>1, <3>4, <3>5 DEF Outcome, Finished
    <3> QED BY <3>3, <3>6
  <2> QED BY <2>2, <2>3, <2>4 DEF IInv
<1> QED BY <1>6, <1>8, <1>9 DEF Complete
-----------------------------------------------------------------------------
(* The drives *)

\* While no drive was late only the drive of the call under way is busy, with
\* the flush or the sector that the driver has got to.
LEMMA WorkIsOurs ==
  ASSUME IInv, Punctual, NEW p \in Positions, device[p].doing = "busy"
  PROVE  /\ p = Here /\ at \in {"data", "flush", "complete"} /\ calls > 0
         /\ InStep /\ call.op \in {"read", "write", "flush"}
         /\ call.op = "flush" => at = "complete"
         /\ device[p].op = "flush" =>
              /\ at = "complete"
              /\ (faults = {} /\ call.op = "write") =>
                   Stored(sector + 1) /\ ~ (sector + 1 < call.count)
         /\ (device[p].op # "flush" /\ device[p].data = NoData) =>
              /\ faults = {}
              /\ at = "data" => Working(sector)
              /\ at # "data" =>
                   /\ call.op = "write" /\ Stored(sector + 1)
                   /\ sector + 1 < call.count /\ Working(sector + 1)
         /\ device[p].data # NoData =>
              /\ faults = {} /\ at # "data" /\ call.op = "write"
              /\ Stored(sector) /\ Received
<1>1. Types /\ Sane /\ Control /\ InStep
  BY DEF IInv
<1>2. p = Here /\ at \in {"data", "flush", "complete"} /\ ~ Quiet(Here)
  BY <1>1 DEF InStep, Quiet
<1>3. calls > 0 /\ call.op \in {"read", "write", "flush"}
  BY <1>1, <1>2 DEF Control, Types, CallType
<1>4. calls \in Nat /\ Written(sector) # NoData
  BY <1>1, <1>3 DEF Types, Written, NoData
<1>5. device[p].data # NoData => device[p].op = "write"
  BY <1>1 DEF Sane, SaneDrive
<1>6. CASE at = "data"
  BY <1>1, <1>2, <1>3, <1>6 DEF InStep, Working, Control
<1>7. CASE at = "flush"
  <2>1. call.op = "write"
    BY <1>1, <1>7 DEF Control
  <2> QED BY <1>1, <1>2, <1>3, <1>4, <1>5, <1>7, <2>1
          DEF InStep, Working, Received
<1>8. CASE at = "complete"
  <2>1. CASE call.op = "flush" \/ faults # {}
    <3>1. Flushing
      BY <1>1, <1>2, <1>8, <2>1 DEF InStep
    <3> QED BY <1>1, <1>2, <1>3, <1>5, <1>8, <2>1, <3>1 DEF Flushing
  <2>2. CASE call.op = "write" /\ faults = {}
    BY <1>1, <1>2, <1>3, <1>4, <1>5, <1>8, <2>2
       DEF InStep, Working, Received, Flushing
  <2>3. call.op # "read"
    BY <1>1, <1>8 DEF Control
  <2> QED BY <1>3, <2>1, <2>2, <2>3
<1> QED BY <1>2, <1>6, <1>7, <1>8

\* A drive that goes on stays in step with the driver.
LEMMA WorkKeeps ==
  ASSUME IInv, NEW p \in Positions, DriveWorks(p) PROVE IInv'
<1>1. Types /\ Sane /\ Control
  BY DEF IInv
<1>2. /\ device' \in [Positions -> DeviceType] /\ Sane'
      /\ \A q \in Positions \ {p} : device'[q] = device[q]
      /\ device[p].doing = "busy" /\ late' = late
      /\ UNCHANGED <<kind, selected, probe, detected, at, call, sector, buffer,
                     result, calls>>
  BY <1>1, WorkSteps DEF driverVars
<1>3. device[p] \in DeviceType /\ SaneDrive(device[p])
  BY <1>1 DEF Types, Sane
<1>4. disk' \in [Positions -> [0 .. Sectors - 1 -> Words]]
  <2>1. CASE disk' = disk
    BY <1>1, <2>1 DEF Types
  <2>2. CASE /\ device[p].data # NoData
             /\ disk' = [disk EXCEPT ![p][device[p].lba] = device[p].data]
    <3>1. device[p].lba \in 0 .. Sectors - 1 /\ device[p].data \in Words
      BY <1>3, <2>2 DEF DeviceType, SaneDrive
    <3> QED BY <1>1, <2>2, <3>1 DEF Types
  <2> QED BY <1>1, <2>1, <2>2, WorkSteps
<1>5. Types'
  BY <1>1, <1>2, <1>4 DEF Types
<1>6. Control'
  BY <1>1, <1>2 DEF Control, ata_drive_present
<1>7. ASSUME Punctual' PROVE InStep' /\ Outcome'
  <2>1. Punctual
    BY <1>2, <1>7 DEF Punctual, Aligned
  <2>2. /\ p = Here /\ at \in {"data", "flush", "complete"} /\ calls > 0
        /\ InStep /\ call.op \in {"read", "write", "flush"}
        /\ call.op = "flush" => at = "complete"
    BY <1>2, <2>1, WorkIsOurs
  <2>3. Outcome'
    BY <1>2, <2>2 DEF Outcome, Finished
  <2>4. Here' = Here /\ \A q \in Positions : Quiet(q)' \/ q = Here
    BY <1>2, <2>2 DEF InStep, Quiet, Here, Position
  <2>5. CASE /\ device[p].op = "flush" /\ device'[p] = Idle
             /\ UNCHANGED <<disk, faults, late>>
    <3>1. Quiet(Here)'
      BY <2>2, <2>4, <2>5, IdleType DEF Quiet
    <3>2. /\ at = "complete"
          /\ (faults = {} /\ call.op = "write") =>
               Stored(sector) /\ Stored(sector + 1) /\ ~ (sector + 1 < call.count)
      BY <1>2, <2>1, <2>2, <2>5, WorkIsOurs DEF InStep
    <3>3. /\ Stored(sector) => Stored(sector)'
          /\ Stored(sector + 1) => Stored(sector + 1)'
      BY <1>2, <2>4, <2>5 DEF Stored, Written
    <3>4. InStep'
      BY <1>2, <2>4, <2>5, <3>1, <3>2, <3>3 DEF InStep
    <3> QED BY <2>3, <3>4
  <2>6. CASE /\ device[p].op # "flush" /\ device[p].data = NoData
             /\ device'[p] = [device[p] EXCEPT !.doing = "drq"]
             /\ UNCHANGED <<disk, faults, late>>
    <3>1. /\ faults = {}
          /\ at = "data" => Working(sector)
          /\ at # "data" =>
               /\ call.op = "write" /\ Stored(sector + 1)
               /\ sector + 1 < call.count /\ Working(sector + 1)
      BY <1>2, <2>1, <2>6, WorkIsOurs
    <3>2. /\ Working(sector) => Working(sector)'
          /\ Working(sector + 1) => Working(sector + 1)'
      BY <1>2, <1>3, <2>2, <2>4, <2>6 DEF Working, DeviceType
    <3>3. /\ Stored(sector) => Stored(sector)'
          /\ Stored(sector + 1) => Stored(sector + 1)'
          /\ Fetched(sector) => Fetched(sector)'
      BY <1>2, <2>4, <2>6 DEF Stored, Written, Fetched
    <3>4. InStep'
      BY <1>2, <2>2, <2>4, <2>6, <3>1, <3>2, <3>3 DEF InStep
    <3> QED BY <2>3, <3>4
  <2>7. CASE /\ device[p].data # NoData /\ UNCHANGED <<faults, late>>
             /\ disk' = [disk EXCEPT ![p][device[p].lba] = device[p].data]
             /\ device'[p] = IF device[p].left = 1 THEN Idle
                  ELSE [device[p] EXCEPT !.left = @ - 1, !.lba = @ + 1,
                                         !.data = NoData]
    <3>1. /\ faults = {} /\ at # "data" /\ call.op = "write"
          /\ Stored(sector) /\ Received
      BY <1>2, <2>1, <2>7, WorkIsOurs
    <3>2. /\ sector \in Nat /\ call.count \in Nat /\ call.lba \in Nat
          /\ sector < call.count
      BY <1>1, <2>2, <3>1 DEF Types, CallType, Control
    <3>3. call.lba + sector < Sectors
      BY <1>3, <2>2, <2>7, <3>1 DEF SaneDrive, Received
    <3>4. disk'[Here] = [disk[Here] EXCEPT ![call.lba + sector] = Written(sector)]
      BY <1>1, <2>2, <2>7, <3>1 DEF Types, Received
    <3>5. disk[Here] \in [0 .. Sectors - 1 -> Words]
      BY <1>1, <2>2 DEF Types
    <3>6. Stored(sector)' /\ Stored(sector + 1)'
      <4>1. \A k \in 0 .. sector :
              /\ call.lba + k < Sectors
              /\ disk'[Here][call.lba + k] = Written(k)
        <5> SUFFICES ASSUME NEW k \in 0 .. sector
                     PROVE  /\ call.lba + k < Sectors
                            /\ disk'[Here][call.lba + k] = Written(k)
          OBVIOUS
        <5>1. CASE k = sector
          BY <3>2, <3>3, <3>4, <3>5, <5>1
        <5>2. CASE k < sector
          <6>1. call.lba + k < Sectors /\ disk[Here][call.lba + k] = Written(k)
            BY <3>1, <3>2, <5>2 DEF Stored
          <6>2. call.lba + k # call.lba + sector /\ call.lba + k \in 0 .. Sectors - 1
            BY <3>2, <5>2, <6>1
          <6> QED BY <3>4, <3>5, <6>1, <6>2
        <5> QED BY <3>2, <5>1, <5>2
      <4> QED BY <1>2, <2>4, <3>2, <4>1 DEF Stored, Written
    <3>7. IF sector + 1 < call.count THEN Working(sector + 1)' ELSE Quiet(Here)'
      <4>1. /\ device[p].left = call.count - sector
            /\ device[p].lba = call.lba + sector /\ device[p].op = call.op
        BY <2>2, <3>1 DEF Received
      <4>2. CASE sector + 1 < call.count
        <5>1. device'[Here] = [device[p] EXCEPT !.left = @ - 1, !.lba = @ + 1,
                                                !.data = NoData]
          BY <2>2, <2>7, <3>2, <4>1, <4>2
        <5> QED BY <1>2, <1>3, <2>2, <2>4, <3>2, <4>1, <4>2, <5>1
                DEF Working, DeviceType
      <4>3. CASE ~ (sector + 1 < call.count)
        BY <2>2, <2>4, <2>7, <3>2, <4>1, <4>3, IdleType DEF Quiet
      <4> QED BY <4>2, <4>3
    <3>8. InStep'
      BY <1>2, <2>2, <2>4, <2>7, <3>1, <3>6, <3>7 DEF InStep
    <3> QED BY <2>3, <3>8
  <2>8. CASE /\ device[p].op # "flush" /\ faults' # {} /\ late' = late
             /\ device'[p] = Broken /\ disk' = disk
    <3>1. Quiet(Here)'
      BY <2>2, <2>4, <2>8, IdleType DEF Quiet, Broken
    <3>2. Fetched(sector) => Fetched(sector)'
      BY <1>2, <2>4, <2>8 DEF Fetched
    <3>3. InStep'
      BY <1>2, <2>2, <2>4, <2>8, <3>1, <3>2 DEF InStep
    <3> QED BY <2>3, <3>3
  <2> QED BY <1>1, <2>5, <2>6, <2>7, <2>8, WorkSteps
<1> QED BY <1>2, <1>5, <1>6, <1>7 DEF IInv
-----------------------------------------------------------------------------
(* The theorems *)

\* Every step keeps the drives and the driver in step.
LEMMA NextIInv == IInv /\ [Next]_vars => IInv'
<1> SUFFICES ASSUME IInv, [Next]_vars PROVE IInv'
  OBVIOUS
<1>1. CASE ata_detect_drive
  BY <1>1, DetectKeeps
<1>2. ASSUME NEW index \in 0 .. 3, NEW lba \in 0 .. Sectors - 1,
             NEW count \in 0 .. MaxCount,
             \/ Begin("read", index, lba, count)
             \/ Begin("write", index, lba, count)
             \/ Begin("flush", index, 0, 0)
      PROVE  IInv'
  <2>1. CASE Begin("read", index, lba, count)
    BY <2>1, BeginKeeps
  <2>2. CASE Begin("write", index, lba, count)
    BY <2>2, BeginKeeps
  <2>3. CASE Begin("flush", index, 0, 0)
    <3>1. 0 \in 0 .. Sectors - 1 /\ 0 \in 0 .. MaxCount
      OBVIOUS
    <3> QED BY <2>3, <3>1, BeginKeeps
  <2> QED BY <1>2, <2>1, <2>2, <2>3
<1>3. CASE Driver
  BY <1>3, ReadyKeeps, NoDrqKeeps, ReadKeeps, WriteKeeps, FlushKeeps,
     CompleteKeeps DEF Driver
<1>4. CASE DrivesWork
  BY <1>4, WorkKeeps DEF DrivesWork
<1>5. CASE UNCHANGED vars
  <2>1. /\ kind' = kind /\ disk' = disk /\ device' = device /\ at' = at
        /\ selected' = selected /\ probe' = probe /\ detected' = detected
        /\ call' = call /\ sector' = sector /\ buffer' = buffer /\ calls' = calls
        /\ result' = result /\ faults' = faults /\ late' = late
    BY <1>5 DEF vars, history, driverVars
  <2>2. Types' = Types /\ Sane' = Sane
    BY <2>1 DEF Types, Sane
  <2>3. Control' = Control /\ Punctual' = Punctual
    BY <2>1 DEF Control, Punctual, Aligned, ata_drive_present
  <2>4. /\ Here' = Here /\ \A p \in Positions : Quiet(p)' = Quiet(p)
        /\ Flushing' = Flushing /\ Received' = Received
        /\ Working(sector)' = Working(sector)
        /\ Working(sector + 1)' = Working(sector + 1)
        /\ Stored(sector)' = Stored(sector)
        /\ Stored(sector + 1)' = Stored(sector + 1)
        /\ Stored(call.count)' = Stored(call.count)
        /\ Fetched(sector)' = Fetched(sector)
        /\ Fetched(call.count)' = Fetched(call.count)
    BY <2>1 DEF Here, Quiet, Flushing, Received, Working, Stored, Fetched, Written
  <2>5. Quiet(Here)' = Quiet(Here)
    BY <2>1, <2>4 DEF Quiet
  <2>6. InStep => InStep'
    BY <2>1, <2>4, <2>5 DEF InStep
  <2>7. Outcome => Outcome'
    BY <2>1, <2>4 DEF Outcome, Finished, ata_drive_present
  <2> QED BY <2>2, <2>3, <2>6, <2>7 DEF IInv
<1> QED BY <1>1, <1>2, <1>3, <1>4, <1>5 DEF Next, Calls, Done

\* In every state the drives and the driver are in step.
LEMMA AlwaysIInv == Spec => []IInv
BY InitIInv, NextIInv, PTL DEF Spec

\* The invariant says what a state looks like.
LEMMA IInvTyped == ASSUME IInv PROVE TypeOK
<1>1. Types /\ Sane
  BY DEF IInv
<1>2. ASSUME NEW p \in Positions
      PROVE  /\ device[p].doing \in {"idle", "busy", "drq", "error"}
             /\ device[p].left \in 0 .. MaxCount
             /\ device[p].lba \in 0 .. Sectors + MaxCount
  <2>1. device[p] \in DeviceType /\ SaneDrive(device[p])
    BY <1>1 DEF Types, Sane
  <2> QED BY <2>1 DEF DeviceType, SaneDrive
<1> QED BY <1>1, <1>2 DEF Types, TypeOK

\* What ata_read_sectors and ata_write_sectors say they moved is where it
\* belongs, for drives and calls of every size, until a drive is late.
THEOREM SectorsMoved == Spec => []MovesSectors
<1>1. IInv => MovesSectors
  <2> SUFFICES ASSUME IInv PROVE MovesSectors
    OBVIOUS
  <2>1. TypeOK
    BY IInvTyped
  <2>2. Aligned /\ ~ late => Outcome
    BY DEF IInv, Punctual
  <2> QED BY <2>1, <2>2 DEF MovesSectors, Outcome, Fetched, Stored
<1> QED BY <1>1, AlwaysIInv, PTL

\* A call on a drive that is present and punctual fails only if something went
\* wrong during that very call: no flush, abort or sector of an earlier call is
\* in its way.
THEOREM FailuresReal == Spec => []NoSpuriousFailure
<1>1. IInv => NoSpuriousFailure
  BY DEF IInv, Punctual, Outcome, NoSpuriousFailure
<1> QED BY <1>1, AlwaysIInv, PTL

\* The one step that changes a sector: a drive writes what it received.
LEMMA WhoWrites ==
  ASSUME IInv, [Next]_vars, NEW q \in Positions, NEW l \in 0 .. Sectors - 1,
         disk'[q][l] # disk[q][l], Punctual
  PROVE  /\ at # "idle" /\ call.op = "write" /\ q = Here
         /\ l \in call.lba .. call.lba + call.count - 1
<1>1. Types /\ Sane /\ Control
  BY DEF IInv
<1>2. disk' # disk
  OBVIOUS
<1>3. PICK p \in Positions : DriveWorks(p)
  BY <1>2 DEF Next, DrivesWork, Driver, Calls, Begin, ata_detect_drive, Ready, NoDrq,
     ReadSector, WriteSector, FlushSector, Complete, Done, vars
<1>4. /\ device[p].doing = "busy" /\ device[p].data # NoData
      /\ disk' = [disk EXCEPT ![p][device[p].lba] = device[p].data]
  BY <1>1, <1>2, <1>3, WorkSteps
<1>5. /\ p = Here /\ at \in {"data", "flush", "complete"} /\ at # "data"
      /\ call.op = "write" /\ Received
  BY <1>4, WorkIsOurs
<1>6. q = p /\ l = device[p].lba
  BY <1>1, <1>4 DEF Types
<1>7. sector \in Nat /\ call.lba \in Nat /\ call.count \in Nat /\ sector < call.count
  BY <1>1, <1>5 DEF Types, CallType, Control
<1>8. l = call.lba + sector
  BY <1>5, <1>6 DEF Received
<1> QED BY <1>5, <1>6, <1>7, <1>8

\* Until a drive is late no step changes a sector that the write under way is
\* not about.
THEOREM OthersKept == Spec => OthersUntouched
<1> DEFINE Kept ==
      \A p \in Positions, l \in 0 .. Sectors - 1 :
        disk'[p][l] # disk[p][l] =>
          ((Aligned /\ ~ late) =>
             /\ at # "idle" /\ call.op = "write" /\ p = Here
             /\ l \in call.lba .. call.lba + call.count - 1)
<1>1. IInv /\ [Next]_vars => [Kept]_vars
  BY WhoWrites DEF Punctual
<1> QED BY <1>1, AlwaysIInv, PTL DEF Spec, OthersUntouched

-----------------------------------------------------------------------------
(* The block cache *)

USE BlockCacheConstants

\* The entry that ext2_read_block replaces exists, and is an unused one as
\* long as there is one.
LEMMA VictimExists == Victim \in Entries
<1> DEFINE unused == Entries \ {i \in Entries : valid[i]}
<1>1. CASE unused = {}
  BY <1>1 DEF Victim, Entries
<1>2. CASE unused # {}
  <2>1. PICK i \in unused : \A j \in unused : <<j, i>> \notin OpToRel(<, Nat)
    <3>1. unused \subseteq Nat
      BY DEF Entries
    <3> HIDE DEF unused
    <3> QED BY <1>2, <3>1, NatLessThanWellFounded, WFMin
  <2>2. \A j \in unused : i <= j
    <3>1. \A m, n \in Nat : m < n => <<m, n>> \in OpToRel(<, Nat)
      BY Zenon DEF OpToRel
    <3>2. \A m, n \in Nat : ~ (m < n) => n <= m
      OBVIOUS
    <3>3. unused \subseteq Nat
      BY DEF Entries
    <3> QED BY <2>1, <3>1, <3>2, <3>3, Zenon
  <2> QED BY <1>2, <2>2 DEF Victim
<1> QED BY <1>1, <1>2

-----------------------------------------------------------------------------
(* What the induction needs: a mounted file system holds the pages of its    *)
(* superblock and of its group descriptors, which unmounting gives back.     *)

CacheInv == NoDuplicates /\ Coherent /\ (mounted => held >= 2)

\* ext2_init leaves every entry invalid and nothing mounted.
LEMMA InitCache == CacheInit => CacheInv
<1> SUFFICES ASSUME CacheInit PROVE CacheInv
  OBVIOUS
<1> DEFINE zero == CHOOSE v \in Values : TRUE
<1>1. zero \in Content
  BY DEF Content
<1>2. stored \in [Drives -> [Blocks -> Content]]
  <2>1. stored \in [Drives -> [Blocks -> {zero}]]
    BY DEF CacheInit
  <2> HIDE DEF zero
  <2>2. [Blocks -> {zero}] \subseteq [Blocks -> Content]
    BY <1>1
  <2> QED BY <2>1, <2>2
<1>3. (CHOOSE b \in Blocks : TRUE) \in Blocks
  OBVIOUS
<1>4. block_no \in [Entries -> Blocks]
  BY <1>3 DEF CacheInit
<1>5. data \in [Entries -> Content]
  BY DEF CacheInit, Content
<1>6. CacheTypeOK
  BY <1>2, <1>4, <1>5 DEF CacheInit, CacheTypeOK
<1>7. ~ mounted /\ \A i \in Entries : ~ valid[i]
  BY DEF CacheInit
<1> QED BY <1>6, <1>7 DEF CacheInv, NoDuplicates, Coherent

-----------------------------------------------------------------------------
\* A miss fills an entry with a block that no entry holds.
LEMMA ReadMissKeeps ==
  ASSUME NoDuplicates, Coherent, NEW b \in Blocks, ReadMiss(b)
  PROVE  NoDuplicates' /\ Coherent'
<1> USE DEF NoDuplicates, Coherent, CacheTypeOK
<1>1. CASE UNCHANGED cacheVars
  BY <1>1 DEF ReadMiss, cacheVars
<1>2. CASE Fill(Victim, b)
  <2> DEFINE k == Victim
  <2>1. k \in Entries
    BY VictimExists
  <2> HIDE DEF k
  <2>2. Fill(k, b)
    BY <1>2 DEF k
  <2>3. \A i \in Entries : valid[i] => block_no[i] # b
    BY DEF ReadMiss, Holding
  <2>4. CacheTypeOK'
    BY <2>1, <2>2 DEF Fill, ReadMiss
  <2>5. \A i \in Entries : valid'[i] = (i = k \/ valid[i])
    BY <2>1, <2>2 DEF Fill
  <2>6. \A i \in Entries : block_no'[i] = IF i = k THEN b ELSE block_no[i]
    BY <2>1, <2>2 DEF Fill
  <2>7. \A i \in Entries : data'[i] = IF i = k THEN stored[drive][b] ELSE data[i]
    BY <2>1, <2>2 DEF Fill
  <2>8. /\ mounted /\ mounted' /\ page' = page \cup {k}
        /\ UNCHANGED <<stored, drive, tainted>>
    BY <2>2 DEF Fill, ReadMiss
  <2>9. NoDuplicates'
    BY <2>3, <2>4, <2>5, <2>6, <2>8
  <2>10. Coherent'
    BY <2>5, <2>6, <2>7, <2>8
  <2> QED BY <2>9, <2>10
<1> QED BY <1>1, <1>2 DEF ReadMiss

\* A write changes the cached copy and the drive alike, or taints the block.
LEMMA WriteBlockKeeps ==
  ASSUME NoDuplicates, Coherent, NEW b \in Blocks, NEW v \in Values,
         ext2_write_block(b, v)
  PROVE  NoDuplicates' /\ Coherent'
<1> USE DEF NoDuplicates, Coherent, CacheTypeOK
<1>1. /\ UNCHANGED <<drive, mounted, valid, block_no, page, held>>
      /\ writes' \in Nat
      /\ data' = [i \in Entries |-> IF i \in Holding(b) THEN v ELSE data[i]]
      /\ dirty' = [i \in Entries |-> i \in Holding(b) \/ dirty[i]]
  BY DEF ext2_write_block, UpdateCache
<1>2. dirty' \in [Entries -> BOOLEAN] /\ data' \in [Entries -> Content]
  BY <1>1 DEF Content
<1>3. /\ stored' \in [Drives -> [Blocks -> Content]]
      /\ tainted' \subseteq Drives \X Blocks
  <2>1. v \in Content /\ Torn \in Content /\ drive \in Drives
    BY DEF Content
  <2>2. \A c \in Content :
          [stored EXCEPT ![drive][b] = c] \in [Drives -> [Blocks -> Content]]
    BY <2>1
  <2>3. \/ stored' = stored \/ stored' = [stored EXCEPT ![drive][b] = v]
        \/ stored' = [stored EXCEPT ![drive][b] = Torn]
    BY DEF ext2_write_block
  <2>4. tainted' \subseteq Drives \X Blocks
    BY <2>1 DEF ext2_write_block
  <2> QED BY <2>1, <2>2, <2>3, <2>4
<1>4. NoDuplicates'
  BY <1>1, <1>2, <1>3
<1>5. \/ stored'[drive][b] = v \/ <<drive, b>> \in tainted'
  BY DEF ext2_write_block
<1>6. ASSUME NEW c \in Blocks, c # b
      PROVE  /\ stored'[drive][c] = stored[drive][c]
             /\ <<drive, c>> \in tainted => <<drive, c>> \in tainted'
  BY <1>6 DEF ext2_write_block
<1>7. ASSUME NEW i \in Entries, valid'[i]
      PROVE  \/ data'[i] = stored'[drive'][block_no'[i]]
             \/ <<drive', block_no'[i]>> \in tainted'
  <2>1. CASE block_no[i] = b
    <3>1. i \in Holding(b)
      BY <1>1, <1>7, <2>1 DEF Holding
    <3> QED BY <1>1, <1>5, <2>1, <3>1
  <2>2. CASE block_no[i] # b
    <3>1. data'[i] = data[i]
      BY <1>1, <2>2 DEF Holding
    <3> QED BY <1>1, <1>6, <1>7, <2>2, <3>1
  <2> QED BY <2>1, <2>2
<1> QED BY <1>4, <1>7

-----------------------------------------------------------------------------
\* Mounting finds an empty cache, also after a mount that has failed.
LEMMA MountKeeps ==
  ASSUME NoDuplicates, Coherent, NEW d \in Drives,
         ext2_mount(d) \/ MountFails(d)
  PROVE  NoDuplicates' /\ Coherent'
<1> USE DEF NoDuplicates, Coherent, CacheTypeOK
<1>1. \A i \in Entries : ~ valid[i]
  BY DEF ext2_mount, MountFails
<1>2. CASE ext2_mount(d)
  BY <1>1, <1>2 DEF ext2_mount
<1>3. CASE MountFails(d)
  BY <1>1, <1>3 DEF MountFails, cacheVars
<1> QED BY <1>2, <1>3

\* Unmounting leaves no valid entry.
LEMMA UnmountKeeps ==
  ASSUME CacheInv, ext2_unmount
  PROVE  NoDuplicates' /\ Coherent'
<1> USE DEF CacheInv, NoDuplicates, CacheTypeOK
<1>1. /\ valid' = [i \in Entries |-> FALSE]
      /\ dirty' = [i \in Entries |-> FALSE]
      /\ page' = {} /\ held' = held - 2 /\ mounted /\ ~ mounted'
      /\ UNCHANGED <<drive, block_no, data, writes>>
  BY DEF ext2_unmount, Invalidate, Release
<1>2. held' \in Nat
  BY <1>1
<1> DEFINE dirt == {i \in Entries : valid[i] /\ dirty[i]}
<1>3. PICK failed \in SUBSET dirt : \E torn \in SUBSET failed :
        LET flushed == dirt \ failed
            After(b) ==
              IF b \in BlocksOf(torn) THEN Torn
              ELSE IF b \in BlocksOf(flushed)
              THEN data[CHOOSE i \in flushed : block_no[i] = b]
              ELSE stored[drive][b]
        IN  /\ stored' = [stored EXCEPT ![drive] = [b \in Blocks |-> After(b)]]
            /\ tainted' = (tainted \ ({drive} \X BlocksOf(flushed)))
                            \cup ({drive} \X BlocksOf(failed))
  BY DEF ext2_unmount
<1>4. PICK torn \in SUBSET failed :
        LET flushed == dirt \ failed
            After(b) ==
              IF b \in BlocksOf(torn) THEN Torn
              ELSE IF b \in BlocksOf(flushed)
              THEN data[CHOOSE i \in flushed : block_no[i] = b]
              ELSE stored[drive][b]
        IN  stored' = [stored EXCEPT ![drive] = [b \in Blocks |-> After(b)]]
  BY <1>3
<1>5. ASSUME NEW b \in Blocks, b \in BlocksOf(dirt \ failed)
      PROVE  data[CHOOSE i \in dirt \ failed : block_no[i] = b] \in Content
  BY <1>5 DEF BlocksOf
<1>6. stored' \in [Drives -> [Blocks -> Content]]
  BY <1>4, <1>5 DEF Content
<1>7. tainted' \subseteq Drives \X Blocks
  BY <1>3 DEF BlocksOf
<1>8. \A i \in Entries : ~ valid'[i]
  BY <1>1
<1>9. valid' \in [Entries -> BOOLEAN] /\ dirty' \in [Entries -> BOOLEAN]
  BY <1>1
<1>10. CacheTypeOK'
  <2>1. mounted' \in BOOLEAN /\ page' \subseteq Entries /\ drive' \in Drives
    BY <1>1 DEF ext2_unmount
  <2>2. /\ block_no' \in [Entries -> Blocks] /\ data' \in [Entries -> Content]
        /\ writes' \in Nat
    BY <1>1
  <2> QED BY ONLY <1>2, <1>6, <1>7, <1>9, <2>1, <2>2 DEF CacheTypeOK
<1> QED BY <1>8, <1>10 DEF Coherent

-----------------------------------------------------------------------------
\* Every step keeps what the induction needs.
LEMMA NextCache == CacheInv /\ [CacheNext]_layerVars => CacheInv'
<1> SUFFICES ASSUME CacheInv, [CacheNext]_layerVars PROVE CacheInv'
  OBVIOUS
<1>1. CASE UNCHANGED layerVars
  BY <1>1 DEF layerVars, CacheInv, NoDuplicates, CacheTypeOK, Coherent
<1>2. ASSUME NEW d \in Drives,
         ext2_mount(d) \/ MountFails(d) PROVE CacheInv'
  <2>1. held \in Nat
    BY DEF CacheInv, NoDuplicates, CacheTypeOK
  <2>2. mounted' => held' >= 2
    <3>1. CASE ext2_mount(d)
      <4>1. held' = held + 1 + DescPages
        BY <3>1 DEF ext2_mount
      <4> QED BY <2>1, <4>1
    <3>2. CASE MountFails(d)
      BY <3>2 DEF MountFails
    <3> QED BY <1>2, <3>1, <3>2
  <2> QED BY <1>2, <2>2, MountKeeps DEF CacheInv
<1>3. ASSUME NEW b \in Blocks, ReadMiss(b) PROVE CacheInv'
  BY <1>3, ReadMissKeeps DEF CacheInv, ReadMiss
<1>4. ASSUME NEW b \in Blocks, NEW v \in Values, ext2_write_block(b, v)
      PROVE  CacheInv'
  BY <1>4, WriteBlockKeeps DEF CacheInv, ext2_write_block
<1>5. CASE ext2_unmount
  BY <1>5, UnmountKeeps DEF CacheInv, ext2_unmount
<1> QED BY <1>1, <1>2, <1>3, <1>4, <1>5 DEF CacheNext

\* A block is cached at most once, in an entry that has memory, and only while
\* a file system is mounted, whatever is read, written, replaced or remounted.
THEOREM CachedOnce == CacheSpec => []NoDuplicates
<1>1. CacheInv => NoDuplicates
  BY DEF CacheInv
<1> QED BY <1>1, InitCache, NextCache, PTL DEF CacheSpec

\* A hit gives what the drive holds, unless the last write of the block failed.
THEOREM NeverStale == CacheSpec => []Coherent
<1>1. CacheInv => Coherent
  BY DEF CacheInv
<1> QED BY <1>1, InitCache, NextCache, PTL DEF CacheSpec
-----------------------------------------------------------------------------
(* Unmounting frees one page of the group descriptors, however many they     *)
(* took, and a mount that fails after it has allocated them does the same:   *)
(* the pages beyond the first one stay allocated.                            *)

Kept == DescPages - 1

Accounts ==
  /\ held \in Nat
  /\ ~ mounted => page = {}
  /\ \E k \in Nat : held = (IF mounted THEN 2 ELSE 0) + k * Kept

\* What one more mount adds.
LEMMA OneMore == \A k \in Nat : (k + 1) \in Nat /\ (k + 1) * Kept = k * Kept + Kept
<1>1. Kept \in Nat
  BY DEF Kept
<1> HIDE DEF Kept
<1> QED BY <1>1

\* Every step keeps the accounts.
LEMMA NextAccounts == NoDuplicates /\ Accounts /\ [CacheNext]_layerVars => Accounts'
<1> SUFFICES ASSUME NoDuplicates, Accounts, [CacheNext]_layerVars PROVE Accounts'
  OBVIOUS
<1>1. PICK k \in Nat : held = (IF mounted THEN 2 ELSE 0) + k * Kept
  BY DEF Accounts
<1>2. /\ held \in Nat /\ Kept \in Nat /\ k * Kept \in Nat /\ DescPages = Kept + 1
      /\ k + 1 \in Nat /\ (k + 1) * Kept = k * Kept + Kept
  BY OneMore DEF Accounts, Kept
<1>3. mounted \in BOOLEAN /\ (~ mounted => page = {})
  BY DEF NoDuplicates, CacheTypeOK, Accounts
<1> HIDE DEF Kept
<1>4. ASSUME NEW d \in Drives, ext2_mount(d) PROVE Accounts'
  <2>1. ~ mounted /\ mounted' /\ held' = held + 1 + DescPages
    BY <1>4 DEF ext2_mount
  <2>2. held' \in Nat /\ held' = 2 + (k + 1) * Kept
    BY <1>1, <1>2, <2>1
  <2> QED BY <1>2, <2>1, <2>2 DEF Accounts
<1>5. ASSUME NEW d \in Drives, MountFails(d) PROVE Accounts'
  <2>1. /\ ~ mounted /\ ~ mounted' /\ page' = page
        /\ held' = held \/ held' = held + DescPages - 1
    BY <1>5 DEF MountFails, cacheVars
  <2>2. \/ held' \in Nat /\ held' = 0 + k * Kept
        \/ held' \in Nat /\ held' = 0 + (k + 1) * Kept
    BY <1>1, <1>2, <2>1
  <2> QED BY <1>2, <1>3, <2>1, <2>2 DEF Accounts
<1>6. CASE ext2_unmount
  <2>1. mounted /\ ~ mounted' /\ page' = {} /\ held' = held - 2
    BY <1>6 DEF ext2_unmount, Release
  <2>2. held' \in Nat /\ held' = 0 + k * Kept
    BY <1>1, <1>2, <2>1
  <2> QED BY <2>1, <2>2 DEF Accounts
<1>7. CASE UNCHANGED <<mounted, held>> /\ (mounted \/ page' = page)
  BY <1>1, <1>2, <1>3, <1>7 DEF Accounts
<1>8. ASSUME NEW b \in Blocks, ReadMiss(b)
      PROVE  UNCHANGED <<mounted, held>> /\ mounted
  BY <1>8 DEF ReadMiss
<1>9. ASSUME NEW b \in Blocks, NEW v \in Values, ext2_write_block(b, v)
      PROVE  UNCHANGED <<mounted, held>> /\ mounted
  BY <1>9 DEF ext2_write_block
<1> QED BY <1>4, <1>5, <1>6, <1>7, <1>8, <1>9 DEF CacheNext, layerVars

\* Without a mounted file system the cache holds no page, and what else is
\* held are descriptor pages beyond the first of earlier mounts.
THEOREM PagesAccounted == CacheSpec => []Accounts
<1>1. CacheInit => Accounts
  <2>1. Kept \in Nat /\ 0 \in Nat
    BY DEF Kept
  <2> HIDE DEF Kept
  <2>2. 0 = 0 + 0 * Kept
    BY <2>1
  <2>3. CacheInit => held = 0 /\ page = {} /\ mounted = FALSE
    BY DEF CacheInit
  <2> QED BY <2>1, <2>2, <2>3 DEF Accounts
<1> QED BY <1>1, CachedOnce, NextAccounts, PTL DEF CacheSpec

\* "Free resources": where the group descriptors fit into one page, nothing is
\* held without a mounted file system.
THEOREM AllGivenBack == ASSUME DescPages = 1 PROVE CacheSpec => []PagesReturned
<1>1. Accounts => PagesReturned
  <2> SUFFICES ASSUME Accounts PROVE PagesReturned
    OBVIOUS
  <2>1. Kept = 0
    BY DEF Kept
  <2> QED BY <2>1 DEF Accounts, PagesReturned
<1> QED BY <1>1, PagesAccounted, PTL
=============================================================================
