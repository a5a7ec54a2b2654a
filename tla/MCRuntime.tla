----------------------------- MODULE MCRuntime -----------------------------
(***************************************************************************)
(* A program between compiler and controller: its image and the download,  *)
(* and what the library, the emitted string helpers and date conversions,  *)
(* and the file instructions of a Logix program do in it.  A behaviour is  *)
(* one of a single part: part names it, and the variables of the others    *)
(* stand still.                                                            *)
(***************************************************************************)
EXTENDS Download

CONSTANTS ImageDevice, Objects, Headers,            \* of ProgramImage: a layout, what to link for it and to check
          Vars, Size, Counts, Literals, NumberBase, Bits,    \* of StringOps
          Calls, Steps, PT, PV, IntMax,             \* of FunctionBlocks
          FirstYear, LastYear, DayLength,           \* of Dates
          FileBits, FileWords, FileFirst, FileLens, FileSizes, FileElements     \* of LogixFiles

VARIABLES part, v1, v2, v3, v4, v5, v6, v7, v8, v9, v10

others == <<v1, v2, v3, v4, v5, v6, v7, v8, v9, v10>>

Strings == INSTANCE StringOps WITH
    Base <- NumberBase,
    mem <- v1, job <- v2, calls <- v3, dest <- v4, room <- v5, segs <- v6, i <- v7, k <- v8, loop <- v9, answer <- v10
Blocks == INSTANCE FunctionBlocks WITH kind <- v1, st <- v2, rt <- v3, log <- v4
Calendar == INSTANCE Dates WITH year <- v1, month <- v2, first <- v3
Files == INSTANCE LogixFiles WITH
    W <- FileBits, Words <- FileWords, First <- FileFirst, Lens <- FileLens, Sizes <- FileSizes, Elements <- FileElements,
    left <- v1, own <- v2, words <- v3, c <- v4, src <- v5, dst <- v6

\* The objects to link are of the kind the compiler emits, and a header's fields are unsigned.
ImagesAssumption ==
    /\ LayoutFits(ImageDevice) /\ \A o \in Objects : WellFormed(o)
    /\ \A h \in Headers : {h.size, h.text, h.textSize, h.dataLoad, h.data, h.dataSize, h.bss, h.bssSize, h.getApp} \subseteq Nat
ASSUME RuntimeAssumption ==
    /\ ImagesAssumption /\ OneSlot /\ SlotEndsOnSector
    /\ Strings!StringsAssumption /\ Blocks!BlocksAssumption /\ Calendar!DatesAssumption /\ Files!FilesAssumption

-----------------------------------------------------------------------------
(* Builds to download, on a small board                                       *)
MCServices == [put |-> 0, get |-> 1, sqrt |-> 2, cbrt |-> 3]

Section(c, n, a) == [class |-> c, size |-> n, align |-> a]
Symbol(n, b, s, v) == [name |-> n, bind |-> b, sec |-> s, value |-> v, size |-> 1, thumb |-> TRUE]
Entry(sec, v, t) == [Symbol("plcc_get_app", "global", sec, v) EXCEPT !.thumb = t]
Rel(s, b, y) == [sec |-> s, off |-> b, sym |-> y]

MCDevice == [target |-> "opta", version |-> 3, abi |-> 1, services |-> 2,
             slot |-> 16, slotSize |-> 16, ram |-> 64, ramSize |-> 16]
Old == [MCDevice EXCEPT !.version = 2]
Older == [MCDevice EXCEPT !.version = 1]
OtherBoard == [MCDevice EXCEPT !.target = "other"]

Blink == [id |-> 0, secs |-> <<Section("text", 3, 2), Section("data", 2, 2), Section("rodata", 1, 1), Section("bss", 2, 4)>>,
          syms |-> <<Entry(1, 0, TRUE), Symbol("get", "global", 0, 0), Symbol("state", "local", 4, 1), Symbol("init", "local", 2, 0)>>,
          rels |-> {Rel(1, 1, 2), Rel(1, 2, 3), Rel(2, 1, 4)}]
Tank == [id |-> 0, secs |-> <<Section("text", 6, 2), Section("data", 3, 1)>>,
         syms |-> <<Entry(1, 0, TRUE), Symbol("put", "weak", 1, 3), Symbol("sum", "global", -1, 2)>>,
         rels |-> {Rel(1, 4, 2), Rel(2, 0, 3)}]
MCBuilds == <<[obj |-> Blink, layout |-> MCDevice], [obj |-> Tank, layout |-> Old],
              [obj |-> Tank, layout |-> OtherBoard], [obj |-> Blink, layout |-> Older]>>
MCSectors == <<[start |-> 0, size |-> 8, open |-> FALSE], [start |-> 8, size |-> 8, open |-> TRUE],
               [start |-> 16, size |-> 8, open |-> TRUE], [start |-> 24, size |-> 8, open |-> TRUE],
               [start |-> 32, size |-> 4, open |-> TRUE]>>

-----------------------------------------------------------------------------
(* Objects to link, and headers to check *)
MCImageDevice == [target |-> "opta", version |-> 3, abi |-> 1, services |-> 3,
                slot |-> 16, slotSize |-> 20, ram |-> 64, ramSize |-> 12]

Symbols(e) == <<e, Symbol("get", "global", 0, 0), Symbol("put", "weak", 1, 0), Symbol("sqrt", "global", 2, 0),
                Symbol("hook", "weak", 0, 0), Symbol("sum", "global", -1, 4), Symbol("state", "local", 3, 0),
                Symbol("cbrt", "global", 0, 0), Symbol("lost", "global", 0, 0)>>
Targets == {{}, {2}, {3, 6}, {4, 7}, {5, 3}, {8}, {9}, {2, 3}, {6, 7}}
RelsTo(ys) == LET a == CHOOSE y \in ys : \A z \in ys : y <= z
                  b == CHOOSE y \in ys : \A z \in ys : y >= z
              IN IF ys = {} THEN {} ELSE {Rel(1, 1, a), Rel(3, 0, b)}
MCObjects ==
    {[id |-> 1, secs |-> s, syms |-> Symbols(e), rels |-> RelsTo(ys)] :
        s \in {<<Section("text", 2, a), Section(c, n, b), Section(d, m, f), Section("unwind", 3, 1), Section("data", 1, 1)>> :
                   a \in {1, 4}, c \in {"text", "rodata"}, n \in {0, 1, 3}, b \in {1, 2},
                   d \in {"data", "bss", "text", "ctors"}, m \in {1, 4, 7}, f \in {1, 4}},
        e \in {Entry(1, 0, TRUE), Entry(1, 0, FALSE), Entry(3, 0, TRUE)},
        ys \in Targets}
MCHeaders ==
    [target : {"opta"}, version : {3}, abi : {1}, services : {3, 4}, slot : {16}, slotSize : {20}, ram : {64},
     ramSize : {12}, size : {12, 20}, text : {19}, textSize : {4, 9}, dataLoad : {22, 23, 28, 33}, data : {64, 66, 74},
     dataSize : {0, 3, 8}, bss : {64, 66, 69, 74}, bssSize : {0, 2, 8}, servicesSlot : {64}, getApp : {18, 19, 23, 27}, thumb : BOOLEAN]

-----------------------------------------------------------------------------
\* Two STRING variables of different length, numbers of two bits in base 2, and positions and
\* counts from before a string to past the end of a shorter one.
TwoVars == {"s", "t"}
TwoSizes == [v \in TwoVars |-> IF v = "s" THEN 4 ELSE 2]
FewCounts == {-1, 2}
Texts == [1..0 -> {1}] \cup [1..2 -> 1..2] \cup {<<1, 3>>, <<3, 2>>, <<1, 2, 1>>, <<2, 1, 1>>, <<2, 2, 1>>}

-----------------------------------------------------------------------------
MCFirstYear == -410
MCFileLens == {-1, 0, 1, 3, 4, 5}

SmallCalls == [SR |-> 6, RS |-> 6, R_TRIG |-> 6, F_TRIG |-> 6, CTU |-> 6, CTD |-> 6, CTUD |-> 4,
               TON |-> 6, TOF |-> 6, TP |-> 6, RTO |-> 5]

-----------------------------------------------------------------------------
None == 0
DownloadOff ==
    mode = "" /\ flash = <<>> /\ loaded = None /\ built = None /\ step = "" /\ pos = None /\ said = "" /\ faults = None
From7 == v7 = None /\ v8 = None /\ v9 = None /\ v10 = None
From5 == v5 = None /\ v6 = None /\ From7
OthersOff == v1 = None /\ v2 = None /\ v3 = None /\ v4 = None /\ From5

AllInit ==
    \/ part = "download" /\ Init /\ OthersOff
    \/ part = "strings" /\ Strings!Init /\ DownloadOff
    \/ part = "blocks" /\ Blocks!Init /\ From5 /\ DownloadOff
    \/ part = "calendar" /\ Calendar!Init /\ v4 = None /\ From5 /\ DownloadOff
    \/ part = "files" /\ (Files!Init \/ Files!CopyInit) /\ From7 /\ DownloadOff
    \/ /\ \/ part = "object" /\ v1 \in Objects
          \/ part = "header" /\ v1 \in Headers
       /\ v2 = None /\ v3 = None /\ v4 = None /\ From5 /\ DownloadOff
\* A file is shifted again and again, and copied once.
AllNext ==
    /\ UNCHANGED part
    /\ \/ part = "download" /\ Next /\ UNCHANGED others
       \/ part = "strings" /\ Strings!Next /\ UNCHANGED vars
       \/ part = "blocks" /\ Blocks!Next /\ UNCHANGED <<v5, v6, v7, v8, v9, v10, vars>>
       \/ part = "calendar" /\ Calendar!Next /\ UNCHANGED <<v4, v5, v6, v7, v8, v9, v10, vars>>
       \/ part = "files" /\ v5 = <<>> /\ Files!ShiftNext /\ UNCHANGED <<v7, v8, v9, v10, vars>>
       \/ part = "files" /\ Files!CopyInit /\ Files!CopyNext /\ UNCHANGED <<v7, v8, v9, v10, vars>>
\* What Download and StringOps assume of webdfu and of emitted code: they go on.
AllSpec ==
    /\ AllInit /\ [][AllNext]_<<part, others, vars>>
    /\ WF_<<part, others, vars>>(part = "download" /\ (Plan \/ Erase \/ Write \/ Verify \/ Leave) /\ UNCHANGED <<part, others>>)
    /\ WF_<<part, others, vars>>(part = "strings" /\ Strings!Helper /\ UNCHANGED <<part, vars>>)
    /\ WF_<<part, others, vars>>(part = "strings" /\ Strings!Query /\ UNCHANGED <<part, vars>>)

-----------------------------------------------------------------------------
\* Download and StringOps: every download that began ends, done or failed, and so does every loop of a
\* string helper.
WorkEnds ==
    /\ (part = "download" /\ step = "plan") ~> (part = "download" /\ step = "idle")
    /\ (part = "strings" /\ v2 # Strings!Idle) ~> (part = "strings" /\ v2 = Strings!Idle)

\* ProgramImage: what the linker accepts the loader takes and starts whole, and a header the loader takes,
\* whoever wrote it, lets it copy, clear and call only where it may.
ImagesFit == (part = "object" => LinksWhole(v1, ImageDevice)) /\ (part = "header" => StartsSafely(v1, ImageDevice))

\* StringOps: no emitted loop stores outside its buffer, and only a MID at a position outside its text loads
\* outside one; no STRING is left without its terminator, and queries answer what the language says.
StringsInBounds == part = "strings" => Strings!OnlyMidStrays /\ Strings!AlwaysTerminated /\ Strings!AnswersRight

\* StringOps: a statement, but for such a MID, leaves in its target what the function means, cut to its length.
StringsMean == [][part = "strings" => Strings!EndsMeantInText]_<<part, others, vars>>

\* StringOps: "out-of-range positions and lengths are clamped (never read or write outside a buffer)"
\* (docs/codesys-compatibility.md:246), of every statement; plcc_mid breaks both halves of it.
PositionsClamped == [][part = "strings" => Strings!InBounds /\ Strings!EndsMeant]_<<part, others, vars>>

\* FunctionBlocks: the blocks of plcc-stdlib answer what the recorded calls say they should, and those of
\* plcc-runtime the same.
BlocksExact == part = "blocks" => Blocks!AnswersHistory /\ Blocks!RuntimeAgrees

\* Dates: every date of the calendar has its day number in a literal and in CONCAT_DATE alike, and its
\* instants split into that DATE and a time of day.
CalendarAgrees == part = "calendar" => Calendar!CalendarAgrees

\* LogixFiles: a shift moves every bit of the file, and no other, to its neighbour; copies and fills move the
\* bytes that fit and leave the others alone.
FilesExact ==
    [][part = "files" => Files!ConfinedStep /\ Files!ShiftStep /\ Files!CopyStep]_<<part, others>>
=============================================================================
