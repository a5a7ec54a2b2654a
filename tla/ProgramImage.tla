---------------------------- MODULE ProgramImage ----------------------------
(* plcc-image: link an object for a device's program slot (lib.rs), the      *)
(* header it gets (header.rs), and what the loader does with it: check,      *)
(* prepare (plcc_image.c).  Sizes and addresses are in cells; a cell of      *)
(* flash or RAM says what is there, a relocated cell the address it holds.   *)
EXTENDS Integers, Sequences, FiniteSetsExt

CONSTANTS HeaderSize, ImageAlign, RamReserved, DataAlign,
          VeneerSize, VeneerAlign,
          ServiceIndex  \* index in the table of the names of services

ASSUME ImageAssumption ==
    /\ {HeaderSize, ImageAlign, RamReserved, DataAlign, VeneerSize, VeneerAlign} \subseteq Nat \ {0}
    /\ \A s \in DOMAIN ServiceIndex : ServiceIndex[s] \in Nat
    /\ "plcc_get_app" \notin DOMAIN ServiceIndex

Cell(of, k, a, b) == [of |-> of, k |-> k, a |-> a, b |-> b]
ZeroCell == Cell(0, "zero", 0, 0)
Pad == Cell(0, "pad", 0, 0)
Failed == [ok |-> FALSE]

AlignUp(n, a) == ((n + a - 1) \div a) * a
-----------------------------------------------------------------------------
(* An object: its id; secs, a sequence of [class, size, align]; syms, a      *)
(* sequence of [name, bind, sec, value, size, thumb] where sec is 0 for an   *)
(* undefined symbol and -1 for a COMMON one (value: its alignment); rels, a  *)
(* set of [sec, off, sym], one per cell that holds an address.               *)
WellFormed(o) ==
    /\ o.secs \in Seq([class : STRING, size : Nat, align : Nat \ {0}])
    /\ o.syms \in Seq([name : STRING, bind : STRING, sec : Int, value : Nat, size : Nat, thumb : BOOLEAN])
    /\ \A k \in DOMAIN o.syms : o.syms[k].sec = -1 => o.syms[k].value > 0 /\ o.syms[k].size > 0
    /\ \A r \in o.rels : r.sec \in DOMAIN o.secs /\ r.off \in Nat /\ r.sym \in DOMAIN o.syms
    /\ \A q, r \in o.rels : q.sec = r.sec /\ q.off = r.off => q = r

(* A layout: the slot lies below RAM, as flash does on an ARMv7-M            *)
LayoutFits(L) ==
    /\ {L.version, L.slot, L.slotSize, L.ram, L.ramSize, L.services} \subseteq Nat
    /\ L.slot + L.slotSize <= L.ram

Classes == {"text", "rodata", "data", "bss"}
Kept(o) == {k \in DOMAIN o.secs : o.secs[k].class \in Classes}
Refused(o) == \E k \in DOMAIN o.secs : o.secs[k].class \notin Classes \cup {"unwind"}

(* A symbol that the runtime provides: undefined here, or defined weakly *)
IsService(sym) ==
    /\ sym.name \in DOMAIN ServiceIndex
    /\ sym.bind # "local"
    /\ sym.sec = 0 \/ sym.bind = "weak"

Rels(o) == {r \in o.rels : r.sec \in Kept(o)}
Used(o) == {ServiceIndex[o.syms[r.sym].name] : r \in {q \in Rels(o) : IsService(o.syms[q.sym])}}
Missing(o) ==
    {r \in Rels(o) : LET s == o.syms[r.sym] IN ~IsService(s) /\ s.sec = 0 /\ s.bind # "weak"}

(* The parts of class c one after another from an address on, each aligned: *)
(* where the next one may start after part n                                 *)
Ends(parts, c, from) ==
    LET end[n \in 0 .. Len(parts)] ==
            IF n = 0 THEN from
            ELSE IF parts[n].class # c THEN end[n - 1]
            ELSE AlignUp(end[n - 1], parts[n].align) + parts[n].size
    IN end
Place(parts, c, from) ==
    LET end == Ends(parts, c, from)
    IN [end |-> end[Len(parts)],
        at |-> [k \in {j \in DOMAIN parts : parts[j].class = c} |-> AlignUp(end[k - 1], parts[k].align)]]

(* COMMON symbols after .bss *)
Commons(o) == [k \in DOMAIN o.syms |-> [class |-> IF o.syms[k].sec = -1 THEN "common" ELSE "other",
                                        size |-> o.syms[k].size, align |-> o.syms[k].value]]

(* Flash: header, text, rodata, veneers, the image of .data.  RAM: reserved, *)
(* .data, .bss, COMMON.                                                      *)
DataStart(ram, align) == AlignUp(ram + RamReserved, align)
Lay(o, L) ==
    LET text == Place(o.secs, "text", L.slot + HeaderSize)
        rodata == Place(o.secs, "rodata", text.end)
        veneers == AlignUp(rodata.end, VeneerAlign)
        used == Used(o)
        textEnd == veneers + VeneerSize * Cardinality(used)
        align == Max({DataAlign} \cup {o.secs[k].align : k \in {j \in Kept(o) : o.secs[j].class = "data"}})
        data == Place(o.secs, "data", DataStart(L.ram, align))
        bss == Place(o.secs, "bss", data.end)
        common == Place(Commons(o), "common", bss.end)
    IN [at |-> [k \in Kept(o) |-> CASE o.secs[k].class = "text" -> text.at[k]
                                    [] o.secs[k].class = "rodata" -> rodata.at[k]
                                    [] o.secs[k].class = "data" -> data.at[k]
                                    [] o.secs[k].class = "bss" -> bss.at[k]],
        codeEnd |-> rodata.end, textEnd |-> textEnd,
        veneer |-> [i \in used |-> veneers + VeneerSize * Cardinality({j \in used : j < i})],
        dataLoad |-> AlignUp(textEnd, align), dataStart |-> DataStart(L.ram, align),
        dataEnd |-> data.end, common |-> common.at, end |-> common.end]

(* The address of symbol k, or -1 *)
Address(o, p, k) ==
    LET sym == o.syms[k] IN
    IF IsService(sym) /\ ServiceIndex[sym.name] \in DOMAIN p.veneer THEN p.veneer[ServiceIndex[sym.name]]
    ELSE CASE sym.sec = 0 -> IF sym.bind = "weak" THEN 0 ELSE -1
           [] sym.sec = -1 -> p.common[k]
           [] OTHER -> IF sym.sec \in DOMAIN p.at THEN p.at[sym.sec] + sym.value ELSE -1

GetApps(o) == {k \in DOMAIN o.syms : o.syms[k].name = "plcc_get_app" /\ o.syms[k].bind # "local" /\ o.syms[k].sec # 0}

(* What the cell at offset b of section k holds *)
Content(o, p, k, b) ==
    LET rs == {r \in o.rels : r.sec = k /\ r.off = b} IN
    IF rs = {} THEN Cell(o.id, "sec", k, b) ELSE Cell(0, "ref", Address(o, p, (CHOOSE r \in rs : TRUE).sym), 0)

(* Where section k lies in flash: .data where it is loaded from *)
LoadAddress(p, k) == p.at[k] - p.dataStart + p.dataLoad
FlashAt(o, p, k) == IF o.secs[k].class = "data" THEN LoadAddress(p, k) ELSE p.at[k]

(* The cells of the image: sections and veneers, the rest is header and padding *)
SectionsAt(o, p, a) ==
    {k \in Kept(o) : o.secs[k].class # "bss" /\ FlashAt(o, p, k) <= a /\ a < FlashAt(o, p, k) + o.secs[k].size}
VeneersAt(p, a) == {i \in DOMAIN p.veneer : p.veneer[i] <= a /\ a < p.veneer[i] + VeneerSize}
CellAt(o, L, p, n) ==
    LET a == L.slot + n
        k == CHOOSE j \in SectionsAt(o, p, a) : TRUE
        i == CHOOSE j \in VeneersAt(p, a) : TRUE
    IN IF n < HeaderSize THEN Cell(o.id, "header", 0, n)
       ELSE IF SectionsAt(o, p, a) # {} THEN Content(o, p, k, a - FlashAt(o, p, k))
       ELSE IF VeneersAt(p, a) # {} THEN Cell(0, "veneer", i, a - p.veneer[i])
       ELSE Pad
Cells(o, L, p, size) == [n \in 0 .. size - 1 |-> CellAt(o, L, p, n)]

Linked(o, L, p, app, size) ==
    [ok |-> TRUE, cells |-> Cells(o, L, p, size), at |-> p.at, common |-> p.common,
     header |-> [target |-> L.target, version |-> L.version, abi |-> L.abi,
                 services |-> IF DOMAIN p.veneer = {} THEN 0 ELSE Max(DOMAIN p.veneer) + 1,
                 slot |-> L.slot, slotSize |-> L.slotSize, ram |-> L.ram, ramSize |-> L.ramSize,
                 size |-> size, text |-> L.slot + HeaderSize, textSize |-> p.textEnd - L.slot - HeaderSize,
                 dataLoad |-> p.dataLoad, data |-> p.dataStart, dataSize |-> p.dataEnd - p.dataStart,
                 bss |-> p.dataEnd, bssSize |-> p.end - p.dataEnd,
                 servicesSlot |-> L.ram, getApp |-> Address(o, p, app), thumb |-> o.syms[app].thumb]]

(* link, where p is the layout of o's sections *)
LinkPlaced(o, L, p) ==
    LET bad(r) == \/ o.secs[r.sec].class = "bss"
                  \/ r.off >= o.secs[r.sec].size
                  \/ Address(o, p, r.sym) = -1
        size == AlignUp(p.dataLoad + p.dataEnd - p.dataStart - L.slot, ImageAlign)
        app == Min(GetApps(o))
        entry == Address(o, p, app)
    IN IF \/ p.codeEnd > L.slot + L.slotSize
          \/ p.end > L.ram + L.ramSize
          \/ \E r \in Rels(o) : bad(r)
          \/ GetApps(o) = {}
          \/ ~o.syms[app].thumb \/ entry < L.slot \/ entry >= p.textEnd \/ size > L.slotSize
       THEN Failed
       ELSE Linked(o, L, p, app, size)
Link(o, L) ==
    IF Refused(o) \/ Missing(o) # {} \/ (\E i \in Used(o) : i >= L.services) THEN Failed
    ELSE LinkPlaced(o, L, Lay(o, L))
-----------------------------------------------------------------------------
Within(start, len, lo, hi) == start >= lo /\ start + len <= hi

(* check and plcc_image_check of a header whose CRC is right, on a device    *)
(* with layout L that takes manifest versions from minVersion; the CRC of    *)
(* the body is the caller's                                                  *)
BssAfterData_Mut(h, L) == Within(h.bss, h.bssSize, h.data, L.ram + L.ramSize)
BssAfterData(h, L) == Within(h.bss, h.bssSize, h.data + h.dataSize, L.ram + L.ramSize)
Check(h, L, minVersion) ==
    /\ h.target = L.target /\ minVersion <= h.version /\ h.version <= L.version
    /\ h.abi = L.abi /\ h.services <= L.services
    /\ h.slot = L.slot /\ h.slotSize = L.slotSize /\ h.ram = L.ram /\ h.ramSize = L.ramSize
    /\ HeaderSize <= h.size /\ h.size <= L.slotSize
    /\ h.text = L.slot + HeaderSize
    /\ Within(h.text, h.textSize, L.slot + HeaderSize, L.slot + h.size)
    /\ Within(h.dataLoad, h.dataSize, h.text + h.textSize, L.slot + h.size)
    /\ h.servicesSlot = L.ram
    /\ Within(h.data, h.dataSize, L.ram + RamReserved, L.ram + L.ramSize)
    /\ BssAfterData(h, L)
    /\ h.thumb /\ Within(h.getApp, 1, h.text, h.text + h.textSize)

(* plcc_image_prepare: the RAM window once it is zeroed, .data copied in and *)
(* the service table's address stored                                        *)
Prepare(flash, h, L) ==
    [a \in L.ram .. L.ram + L.ramSize - 1 |->
        CASE a = h.servicesSlot -> Cell(0, "table", 0, 0)
          [] a # h.servicesSlot /\ h.data <= a /\ a < h.data + h.dataSize -> flash[h.dataLoad + a - h.data]
          [] OTHER -> ZeroCell]
-----------------------------------------------------------------------------
(* What a program finds in memory when it starts, flash and RAM together,    *)
(* judged from its object alone: every section lies aligned and whole where  *)
(* no other does, every relocated cell holds an address, and what is at that *)
(* address is the symbol's own first cell, or the veneer of its service.     *)
Spans(o, i) ==
    {<<k, i.at[k], o.secs[k].size>> : k \in Kept(o)} \cup {<<-k, i.common[k], o.syms[k].size>> : k \in DOMAIN i.common}
Apart(o, i) ==
    /\ \A s, t \in Spans(o, i) : s[1] # t[1] => s[2] + s[3] <= t[2] \/ t[2] + t[3] <= s[2]
    /\ \A k \in Kept(o) : i.at[k] % o.secs[k].align = 0

IsFirstCell(o, mem, a, sym) ==
    IF sym.bind # "local" /\ sym.name \in DOMAIN ServiceIndex /\ (sym.sec = 0 \/ sym.bind = "weak")
    THEN mem[a] = Cell(0, "veneer", ServiceIndex[sym.name], 0)
    ELSE CASE sym.sec = 0 -> a = 0
           [] sym.sec = -1 -> mem[a] = ZeroCell /\ a % sym.value = 0
           [] OTHER -> \/ sym.value >= o.secs[sym.sec].size
                       \/ IF o.secs[sym.sec].class = "bss" THEN mem[a] = ZeroCell
                          ELSE mem[a] = Cell(o.id, "sec", sym.sec, sym.value) \/ mem[a].k = "ref"

Whole(o, i, mem) ==
    \A k \in Kept(o) : \A b \in 0 .. o.secs[k].size - 1 :
        LET c == mem[i.at[k] + b]
            rs == {r \in o.rels : r.sec = k /\ r.off = b}
        IN CASE o.secs[k].class = "bss" -> c = ZeroCell
             [] o.secs[k].class # "bss" /\ rs = {} -> c = Cell(o.id, "sec", k, b)
             [] OTHER -> c.k = "ref" /\ \A r \in rs : IsFirstCell(o, mem, c.a, o.syms[r.sym])
(* Flash and RAM when the program starts *)
Started(i, L) ==
    LET flash == [a \in L.slot .. L.slot + i.header.size - 1 |-> i.cells[a - L.slot]]
        ram == Prepare(flash, i.header, L)
    IN [a \in DOMAIN flash \cup DOMAIN ram |-> IF a \in DOMAIN ram THEN ram[a] ELSE flash[a]]

(* What the linker accepts the loader takes, and it starts whole. *)
LinksWhole(o, L) ==
    LET i == Link(o, L) IN
    i.ok => Check(i.header, L, L.version) /\ Apart(o, i) /\ Whole(o, i, Started(i, L))

(* A header the loader takes, whoever wrote it: what prepare copies lies in  *)
(* the image behind the code, where it copies and clears lies in the window  *)
(* behind the word that holds the service table, and the program starts in   *)
(* its code.                                                                 *)
StartsSafely(h, L) ==
    Check(h, L, L.version) =>
        /\ \A n \in 0 .. h.dataSize - 1 :
               /\ h.dataLoad + n \in h.text + h.textSize .. L.slot + L.slotSize - 1
               /\ h.data + n \in L.ram + RamReserved .. L.ram + L.ramSize - 1
               /\ h.data + n \notin h.bss .. h.bss + h.bssSize - 1
        /\ h.bss + h.bssSize <= L.ram + L.ramSize
        /\ h.getApp \in L.slot + HeaderSize .. L.slot + h.size - 1
        /\ h.getApp \notin h.dataLoad .. h.dataLoad + h.dataSize - 1
=============================================================================
