------------------------------ MODULE Download ------------------------------
(* A program reaches a device: studio/src/state/download.ts over             *)
(* packages/webdfu/src/dfuse.ts erases, writes, verifies and starts, and the *)
(* loader takes what the slot holds.  USB requests fail, a write goes wrong, *)
(* and the board loses power between and during any of them.                 *)
EXTENDS ProgramImage

CONSTANTS
    Device,      \* the layout and identity of the board's runtime
    MinVersion,  \* the oldest manifest version it takes
    Builds,      \* a sequence of what may be built: [obj, layout]
    Sectors,     \* of the flash: a sequence of [start, size, open]
    FloorMin, FloorEnd,  \* what webdfu may write on this board
    Transfer,    \* cells of one write
    MaxFaults    \* bound: failed requests, wrong writes and power losses

VARIABLES
    mode,    \* "runtime" or "dfu"
    flash, loaded,  \* the board's flash, the build it runs (0: none)
    built,   \* the build the studio holds (0: none)
    step, pos,  \* where the download is, and how far
    said,    \* what the studio reports
    faults
vars == <<mode, flash, loaded, built, step, pos, said, faults>>

FlashAddresses == UNION {Sectors[s].start .. Sectors[s].start + Sectors[s].size - 1 : s \in DOMAIN Sectors}

ASSUME DownloadAssumption ==
    /\ DOMAIN Builds \subseteq Nat \ {0} /\ LayoutFits(Device) /\ HeaderSize <= Device.slotSize
    /\ \A b \in DOMAIN Builds : WellFormed(Builds[b].obj) /\ LayoutFits(Builds[b].layout)
    /\ DOMAIN Sectors \subseteq Nat
    /\ \A s \in DOMAIN Sectors : Sectors[s].start \in Nat /\ Sectors[s].size \in Nat
    /\ Device.slot .. Device.slot + Device.slotSize - 1 \subseteq FlashAddresses
    /\ {FloorMin, FloorEnd, MaxFaults} \subseteq Nat /\ Transfer \in Nat \ {0}

Object(b) == [id |-> b, secs |-> Builds[b].obj.secs, syms |-> Builds[b].obj.syms, rels |-> Builds[b].obj.rels]
Images == [b \in DOMAIN Builds |-> Link(Object(b), Builds[b].layout)]
Erased == Cell(0, "erased", 0, 0)
Start == Builds[built].layout.slot
Length == Images[built].header.size

(* The sectors plan erases, or none when it refuses the write *)
Overlapping_Mut(at, len) == {s \in DOMAIN Sectors : Sectors[s].start <= at + len /\ at < Sectors[s].start + Sectors[s].size}
Overlapping(at, len) == {s \in DOMAIN Sectors : Sectors[s].start < at + len /\ at < Sectors[s].start + Sectors[s].size}
SectorAllowed(s, L) ==
    /\ Sectors[s].open
    /\ Sectors[s].start >= L.slot /\ Sectors[s].start >= FloorMin
    /\ Sectors[s].start + Sectors[s].size <= FloorEnd
Allowed(at, len, L) ==
    /\ at >= FloorMin /\ at + len <= FloorEnd
    /\ at >= L.slot /\ at + len <= L.slot + L.slotSize
    /\ \A s \in Overlapping(at, len) : SectorAllowed(s, L)
FirstSector == CHOOSE s \in DOMAIN Sectors : Sectors[s].start <= Start /\ Start < Sectors[s].start + Sectors[s].size

Fill(from, len, f(_)) == [a \in DOMAIN flash |-> IF from <= a /\ a < from + len THEN f(a) ELSE flash[a]]

(* The build whose header the slot holds *)
InSlot(fl) ==
    {b \in DOMAIN Builds : \A n \in 0 .. HeaderSize - 1 : fl[Device.slot + n] = Cell(b, "header", 0, n)}
BodyRight_Mut(fl, b) == TRUE
BodyRight(fl, b) ==
    \A n \in HeaderSize .. Images[b].header.size - 1 : fl[Device.slot + n] = Images[b].cells[n]
Accepted(fl) == {b \in InSlot(fl) : Check(Images[b].header, Device, MinVersion) /\ BodyRight(fl, b)}
Run(fl) == IF Accepted(fl) = {} THEN 0 ELSE CHOOSE b \in Accepted(fl) : TRUE

Init ==
    /\ mode = "runtime" /\ built = 0 /\ step = "idle" /\ pos = 0 /\ said = "" /\ faults = 0
    /\ \E b \in {0} \cup {d \in DOMAIN Builds : Images[d].ok /\ Builds[d].layout.slot = Device.slot} :
        /\ flash = [a \in FlashAddresses |->
                       CASE b # 0 /\ a - Device.slot \in 0 .. Images[b].header.size - 1 -> Images[b].cells[a - Device.slot]
                         [] a \in Device.slot .. Device.slot + Device.slotSize - 1
                                /\ ~(b # 0 /\ a - Device.slot \in 0 .. Images[b].header.size - 1) -> Erased
                         [] OTHER -> Cell(0, "firmware", 0, 0)]
        /\ loaded = Run(flash)

(* buildImage: compile and link; nothing is built when the linker refuses *)
Build(b) ==
    /\ step = "idle"
    /\ built' = IF Images[b].ok THEN b ELSE 0
    /\ said' = ""
    /\ UNCHANGED <<mode, flash, loaded, step, pos, faults>>

Failure == step' = "idle" /\ pos' = 0 /\ said' = "failed"

(* flashImage: the console must tell the same device, then the board reboots *)
(* into its bootloader                                                       *)
SameDevice(b) == Builds[b].layout.target = Device.target /\ Builds[b].layout.abi = Device.abi
Identify ==
    /\ step = "idle" /\ built # 0
    /\ IF mode = "runtime" /\ SameDevice(built)
       THEN /\ mode' = "dfu" /\ loaded' = 0
            /\ step' = "plan" /\ pos' = 0 /\ said' = ""
       ELSE Failure /\ UNCHANGED <<mode, loaded>>
    /\ UNCHANGED <<flash, built, faults>>

Plan ==
    /\ step = "plan"
    /\ IF Allowed(Start, Length, Builds[built].layout)
       THEN step' = "erase" /\ pos' = 0 /\ UNCHANGED said
       ELSE Failure
    /\ UNCHANGED <<mode, flash, loaded, built, faults>>

Erase ==
    /\ step = "erase"
    /\ LET s == FirstSector + pos IN
       IF s \in Overlapping(Start, Length)
       THEN /\ flash' = Fill(Sectors[s].start, Sectors[s].size, LAMBDA a : Erased)
            /\ pos' = pos + 1 /\ UNCHANGED step
       ELSE step' = "write" /\ pos' = 0 /\ UNCHANGED flash
    /\ UNCHANGED <<mode, loaded, built, said, faults>>

Chunk_Mut == IF Transfer < Length - pos THEN Transfer ELSE 0
Chunk == IF Transfer < Length - pos THEN Transfer ELSE Length - pos
Wanted(a) == Images[built].cells[a - Start]
Written(n) == Fill(Start + pos, n, Wanted)
Write ==
    /\ step = "write"
    /\ IF pos >= Length
       THEN step' = "verify" /\ pos' = 0 /\ UNCHANGED <<flash, faults>>
       ELSE /\ pos' = pos + Chunk
            /\ UNCHANGED step
            /\ \/ flash' = Written(Chunk) /\ UNCHANGED faults
               \/ /\ faults < MaxFaults /\ faults' = faults + 1  \* the device says ok, a cell is wrong
                  /\ \E n \in 0 .. Chunk - 1 : flash' = [Written(Chunk) EXCEPT ![Start + pos + n] = Erased]
    /\ UNCHANGED <<mode, loaded, built, said>>

(* every chunk is read back and compared *)
Matches(n) == \A a \in Start + n .. Start + n + Chunk - 1 : flash[a] = Wanted(a)
Verify ==
    /\ step = "verify"
    /\ IF pos >= Length THEN step' = "leave" /\ pos' = 0 /\ UNCHANGED said
       ELSE IF Matches(pos) THEN pos' = pos + Chunk /\ UNCHANGED <<step, said>>
       ELSE Failure
    /\ UNCHANGED <<mode, flash, loaded, built, faults>>

(* the board resets and its runtime starts; a status request that fails is   *)
(* taken for the reset                                                       *)
Leave ==
    /\ step = "leave"
    /\ step' = "idle" /\ pos' = 0 /\ said' = "ok"
    /\ \/ mode' = "runtime" /\ loaded' = Run(flash) /\ UNCHANGED faults
       \/ faults < MaxFaults /\ faults' = faults + 1 /\ UNCHANGED <<mode, loaded>>
    /\ UNCHANGED <<flash, built>>

(* a request fails, part of what it asked for done *)
Broken ==
    /\ step \in {"erase", "write", "verify", "leave"} /\ faults < MaxFaults
    /\ faults' = faults + 1
    /\ \/ UNCHANGED flash
       \/ step = "write" /\ \E n \in 1 .. Chunk : flash' = Written(n)
       \/ step = "erase" /\ FirstSector + pos \in Overlapping(Start, Length)
          /\ \E n \in 1 .. Sectors[FirstSector + pos].size :
                flash' = Fill(Sectors[FirstSector + pos].start, n, LAMBDA a : Erased)
    /\ Failure
    /\ UNCHANGED <<mode, loaded, built>>

(* the board loses power; it starts its runtime when it is back *)
PowerCycle ==
    /\ faults < MaxFaults /\ faults' = faults + 1
    /\ mode' = "runtime" /\ loaded' = Run(flash)
    /\ IF step = "idle" THEN UNCHANGED <<step, pos, said>> ELSE Failure
    /\ UNCHANGED <<flash, built>>

Next ==
    \/ \E b \in DOMAIN Builds : Build(b)
    \/ Identify \/ Plan \/ Erase \/ Write \/ Verify \/ Leave
    \/ Broken \/ PowerCycle
Spec == Init /\ [][Next]_vars /\ WF_vars(Plan \/ Erase \/ Write \/ Verify \/ Leave)
-----------------------------------------------------------------------------
Memory(b) ==
    LET ram == Prepare(flash, Images[b].header, Device) IN
    [a \in DOMAIN flash \cup DOMAIN ram |-> IF a \in DOMAIN ram THEN ram[a] ELSE flash[a]]

(* Whatever request fails and whenever the power goes, the runtime starts no *)
(* program but one that was linked for it, and that program finds each of    *)
(* its sections, symbols and services where its object needs them.           *)
RunsWhole ==
    loaded # 0 =>
        Apart(Object(loaded), Images[loaded]) /\ Whole(Object(loaded), Images[loaded], Memory(loaded))

(* When the studio says the download is done, the slot holds what it built,  *)
(* and the runtime, as soon as it is back, runs that and nothing older.      *)
Delivered ==
    said = "ok" /\ built # 0 =>
        /\ \A n \in 0 .. Length - 1 : flash[Device.slot + n] = Images[built].cells[n]
        /\ mode = "runtime" /\ Check(Images[built].header, Device, MinVersion) => loaded = built

DownloadWhole == RunsWhole /\ Delivered

(* No step of a download changes a cell outside the program slot, although   *)
(* what is erased is sectors, not the cells of the image, nor one outside    *)
(* the flash that webdfu may write on this board.                            *)
SlotKept == \A a \in DOMAIN flash : a \notin Device.slot .. Device.slot + Device.slotSize - 1 => flash'[a] = flash[a]
FloorKept == \A a \in DOMAIN flash : a \notin FloorMin .. FloorEnd - 1 => flash'[a] = flash[a]
OnlyTheSlot == [][SlotKept /\ FloorKept]_vars

(* What the manifests promise and neither the studio nor webdfu looks at: a  *)
(* runtime of one target and ABI has one slot, and no sector that begins in  *)
(* it ends behind it.                                                        *)
OneSlot ==
    \A b \in DOMAIN Builds :
        SameDevice(b) => Builds[b].layout.slot = Device.slot /\ Builds[b].layout.slotSize = Device.slotSize
SlotEndsOnSector ==
    \A s \in DOMAIN Sectors :
        Sectors[s].start \in Device.slot .. Device.slot + Device.slotSize - 1
            => Sectors[s].start + Sectors[s].size <= Device.slot + Device.slotSize
=============================================================================
