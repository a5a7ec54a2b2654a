--------------------------- MODULE MCStudio_proofs ---------------------------
(***************************************************************************)
(* Proofs about the session with the device, for every set of writers,     *)
(* every %M word and every bound on the wire; at the end, what is proved   *)
(* of it and of the project on disk is carried over to the studio, which   *)
(* is in either setting.                                                   *)
(***************************************************************************)
EXTENDS MCStudio, SequenceTheorems, FiniteSetTheorems, TLAPS

-----------------------------------------------------------------------------
(***************************************************************************)
(* The inductive invariant.  OneAtATime counts requests and answers that   *)
(* are the current command's own; to keep the count, an own answer must    *)
(* settle the command when it is read, so it must be of a kind the command *)
(* accepts.  NoPileUp and NobodyLeftWaiting need to know who has asked for *)
(* what: nobody has two commands on their way.  KnownIsDevice and          *)
(* NoStaleFault need to follow a write and a run through the answer and    *)
(* the continuation.                                                       *)
(***************************************************************************)
NoOwn(s) == \A i \in DOMAIN s: ~s[i].own
OneOwn(s) == \E i \in DOMAIN s: s[i].own /\ \A j \in DOMAIN s: s[j].own => j = i

\* Exactly the command that is out has a request or an answer of its own.
AskedOnce(cur, t, r, c) ==
    IF cur = NoCmd THEN NoOwn(t) /\ NoOwn(r) /\ NoOwn(c)
    ELSE \/ OneOwn(t) /\ NoOwn(r) /\ NoOwn(c)
         \/ NoOwn(t) /\ OneOwn(r) /\ NoOwn(c)
         \/ NoOwn(t) /\ NoOwn(r) /\ OneOwn(c)

Answers(c) ==
    CASE c.op = "mw" -> {"mw", "?"}
      [] c.op \in {"stop", "run"} -> {"ok", "error"}
      [] OTHER -> {c.op}

\* It is the current command's own, and such that onLine() settles it.
Asks(cur, t) == \A i \in DOMAIN t: t[i].own => t[i].cmd = cur
Answered(cur, s) == \A i \in DOMAIN s: s[i].own => s[i].kind \in Answers(cur)

OwnInv ==
    /\ AskedOnce(current, tx, rx, chunk) \/ link # "open"
    /\ Asks(current, tx) /\ Answered(current, rx) /\ Answered(current, chunk)

\* What is left of a connection that is not open.
LinkInv ==
    /\ link # "open" => tx = <<>> /\ rx = <<>> /\ chunk = <<>>
    /\ link # "open" => \A j \in DOMAIN settled: settled[j].out = "rejected"
    /\ link = "open" => state # "disconnected"
    /\ link = "closed" => state = "disconnected"
    /\ state = "disconnected" => current = NoCmd /\ queue = <<>> /\ ~polling
    /\ link = "opening" =>
        /\ state = "connecting"
        /\ current = NoCmd /\ queue = <<>> /\ ~polling
        /\ settled = <<>> /\ known = {} /\ ~fault

\* Nobody has two commands among those queued, out, or settled this turn.
Apart(q, cur, s) ==
    /\ \A i, j \in DOMAIN q: q[i].by = q[j].by => i = j
    /\ \A i, j \in DOMAIN s: s[i].cmd.by = s[j].cmd.by => i = j
    /\ \A i \in DOMAIN q: q[i].by # cur.by
    /\ \A j \in DOMAIN s: s[j].cmd.by # cur.by
    /\ \A i \in DOMAIN q, j \in DOMAIN s: q[i].by # s[j].cmd.by

\* Somebody waits exactly as long as one of these is theirs.
Owed(b, q, cur, s) ==
    \/ b = cur.by
    \/ \E i \in DOMAIN q: b = q[i].by
    \/ \E j \in DOMAIN s: b = s[j].cmd.by

Callers == Writers \cup {Bar}
CallersInv ==
    /\ Apart(queue, current, settled)
    /\ \A b \in Callers: b \in waiting <=> Owed(b, queue, current, settled)

\* As long as no command has timed out, every request and answer under way is
\* the current command's own.
AllOwn(s) == \A i \in DOMAIN s: s[i].own
OwnOrFault(s) == \A i \in DOMAIN s: s[i].own \/ (s[i].kind = "fault" /\ ProgramImage)

InTimeInv ==
    /\ ~ProgramImage => prog = "run"
    /\ link = "open" /\ ~timedOut => AllOwn(tx) /\ OwnOrFault(rx) /\ OwnOrFault(chunk)

\* Then what the session knows is the device's word, or it is about to learn
\* of its own write.
Fresh(s) ==
    \A i \in DOMAIN s:
        s[i].word = word /\ (s[i].kind = "mw" => current.bits # {} /\ current.val = word)
Acknowledges(s) == \E i \in DOMAIN s: s[i].kind = "mw"
Acknowledged(s) == s # <<>> /\ s[1].cmd.op = "mw" /\ s[1].out = "ok"

KnownInv ==
    link = "open" /\ ~timedOut /\ ~ProgramImage =>
        /\ Fresh(rx) /\ Fresh(chunk)
        /\ Len(settled) <= 1 /\ (chunk # <<>> => settled = <<>>)
        /\ Acknowledged(settled) => settled[1].cmd.bits # {} /\ settled[1].cmd.val = word
        /\ \/ known \subseteq {word}
           \/ Acknowledges(rx) \/ Acknowledges(chunk) \/ Acknowledged(settled)

\* And a fault shown over a running program is about to be taken back by the
\* run that started it: the fault's lines came before its answer.
NoFault(s) == \A i \in DOMAIN s: s[i].kind # "fault"
RunAnswered(s) ==
    \E p \in DOMAIN s:
        s[p].own /\ s[p].kind = "ok" /\ \A i \in DOMAIN s: s[i].kind = "fault" => i < p
RunSettled(s) == \E j \in DOMAIN s: s[j].cmd.op = "run" /\ s[j].out = "ok"

FaultInv ==
    link = "open" /\ ~timedOut /\ prog = "run" =>
        \/ ~fault /\ NoFault(rx) /\ NoFault(chunk)
        \/ current.op = "run" /\ RunAnswered(rx)
        \/ current.op = "run" /\ RunAnswered(chunk) /\ NoFault(rx)
        \/ RunSettled(settled) /\ NoFault(rx) /\ NoFault(chunk)

IInv == TypeOK /\ LinkInv /\ OwnInv /\ CallersInv /\ InTimeInv /\ KnownInv /\ FaultInv

-----------------------------------------------------------------------------
(***************************************************************************)
(* Commands, sequences and callers                                         *)
(***************************************************************************)
LEMMA Kinds ==
    ASSUME NEW c \in Commands
    PROVE  /\ c.by \in Callers \cup {"poll", "timer", "none"}
           /\ c.val \in Words /\ c.bits \in Words
           /\ c = NoCmd <=> c.op = "none"
           /\ c = NoCmd <=> c.by = "none"
           /\ c = NoCmd <=> c \notin Issued
           /\ c.op = "img" <=> c.by = "poll"
           /\ c.op = "mw" <=> c.by \in Writers
           /\ c.op = "info" => c.by \in {"timer", Bar}
           /\ c.by = "timer" => c.op = "info"
           /\ c.op \in {"stop", "run"} => c.by = Bar /\ ProgramImage
           /\ c.by = Bar => c.op \in {"info", "stop", "run"}
           /\ c.op \in {"none", "img", "info", "mw", "stop", "run"}
  <1> USE DEF Command, Words
  <1>1. CASE c = NoCmd
    <2>1. c.op = "none" /\ c.by = "none" /\ c.val = {} /\ c.bits = {}
      BY <1>1 DEF NoCmd
    <2>2. ASSUME c \in Issued  PROVE FALSE
      <3>1. c.op # "none"
        BY <2>2 DEF Issued, Img, Info
      <3> QED  BY <2>1, <3>1
    <2> QED  BY <1>1, <2>1, <2>2, SessionAssumption DEF Callers, Bar
  <1>2. CASE c \in {Img, Info("timer"), Info(Bar)}
    BY <1>2, SessionAssumption DEF NoCmd, Issued, Img, Info, Callers, Bar
  <1>3. CASE c \in {Command("mw", w, v, b): w \in Writers, v \in Words, b \in Words}
    BY <1>3, SessionAssumption DEF NoCmd, Issued, Callers, Bar
  <1>4. CASE c \in {Command(op, Bar, {}, {}): op \in IF ProgramImage THEN {"stop", "run"} ELSE {}}
    BY <1>4, SessionAssumption DEF NoCmd, Issued, Callers, Bar
  <1> QED  BY <1>1, <1>2, <1>3, <1>4 DEF Commands, Issued

LEMMA NoCmdApart == Issued \subseteq Commands /\ NoCmd \in Commands /\ NoCmd.by = "none"
  BY DEF Commands, NoCmd, Command

LEMMA Tails ==
    ASSUME NEW S, NEW s \in Seq(S), s # <<>>
    PROVE  /\ Head(s) \in S /\ Head(s) = s[1]
           /\ Tail(s) \in Seq(S) /\ DOMAIN Tail(s) = 1..Len(s) - 1
           /\ Len(s) \in Nat /\ Len(s) >= 1 /\ DOMAIN s = 1..Len(s)
           /\ Len(Tail(s)) = Len(s) - 1
           /\ \A i \in 1..Len(s) - 1: i + 1 \in DOMAIN s /\ Tail(s)[i] = s[i + 1]
  BY SMT

LEMMA Appends ==
    ASSUME NEW S, NEW s \in Seq(S), NEW e \in S
    PROVE  /\ Append(s, e) \in Seq(S) /\ Len(Append(s, e)) = Len(s) + 1
           /\ Len(s) \in Nat /\ DOMAIN s = 1..Len(s)
           /\ DOMAIN Append(s, e) = 1..Len(s) + 1
           /\ Append(s, e)[Len(s) + 1] = e
           /\ \A i \in DOMAIN s: Append(s, e)[i] = s[i]
  BY SMT

\* send(): one more command is on its way.
LEMMA ApartAppended ==
    ASSUME NEW q \in Seq(Issued), NEW cur \in Commands, NEW s \in Seq(Settlements),
           NEW c \in Issued, Apart(q, cur, s), ~Owed(c.by, q, cur, s)
    PROVE  /\ Apart(Append(q, c), cur, s)
           /\ \A b: Owed(b, Append(q, c), cur, s) <=> Owed(b, q, cur, s) \/ b = c.by
  <1> DEFINE p == Append(q, c)
             n == Len(q) + 1
  <1>1. /\ n \in DOMAIN p /\ p[n] = c /\ n \notin DOMAIN q
        /\ \A i \in DOMAIN p: i \in DOMAIN q \/ i = n
        /\ \A i \in DOMAIN q: i \in DOMAIN p /\ p[i] = q[i]
    BY Appends
  <1> HIDE DEF p, n
  <1>2. \A i \in DOMAIN p: (i \in DOMAIN q /\ p[i] = q[i]) \/ (i = n /\ p[i] = c)
    BY <1>1
  <1>3. /\ \A i \in DOMAIN q: q[i].by # c.by
        /\ cur.by # c.by
        /\ \A j \in DOMAIN s: s[j].cmd.by # c.by
    BY Zenon DEF Owed
  <1>4. Apart(p, cur, s)
    <2>1. \A i, j \in DOMAIN p: p[i].by = p[j].by => i = j
      BY <1>2, <1>3, Zenon DEF Apart
    <2>2. \A i \in DOMAIN p: p[i].by # cur.by
      BY <1>2, <1>3, Zenon DEF Apart
    <2>3. ASSUME NEW i \in DOMAIN p, NEW j \in DOMAIN s PROVE p[i].by # s[j].cmd.by
      <3>1. CASE i \in DOMAIN q /\ p[i] = q[i]
        BY <3>1, Zenon DEF Apart
      <3>2. CASE p[i] = c
        BY <3>2, <1>3, Zenon
      <3> QED  BY <1>2, <3>1, <3>2, Zenon
    <2> QED  BY <2>1, <2>2, <2>3, Zenon DEF Apart
  <1>5. ASSUME NEW b PROVE Owed(b, p, cur, s) <=> Owed(b, q, cur, s) \/ b = c.by
    <2>1. (\E i \in DOMAIN p: b = p[i].by) <=> (\E i \in DOMAIN q: b = q[i].by) \/ b = c.by
      BY <1>1, <1>2, Zenon
    <2> QED  BY <2>1, Zenon DEF Owed
  <1> QED  BY <1>4, <1>5 DEF p

\* pump(): the next command goes from the queue to the wire.
LEMMA ApartPumped ==
    ASSUME NEW q \in Seq(Issued), q # <<>>, NEW s \in Seq(Settlements),
           Apart(q, NoCmd, s)
    PROVE  /\ Apart(Tail(q), Head(q), s)
           /\ \A b \in Callers: Owed(b, Tail(q), Head(q), s) <=> Owed(b, q, NoCmd, s)
  <1>1. \A b \in Callers: b # NoCmd.by
    BY SessionAssumption, NoCmdApart DEF Callers, Bar
  <1>2. Apart(Tail(q), Head(q), s)
    BY Tails DEF Apart
  <1>3. \A i \in DOMAIN q: i = 1 \/ (i - 1 \in DOMAIN Tail(q) /\ q[i] = Tail(q)[i - 1])
    BY Tails
  <1>4. ASSUME NEW b \in Callers
        PROVE  Owed(b, Tail(q), Head(q), s) <=> Owed(b, q, NoCmd, s)
    <2>1. (\E i \in DOMAIN q: b = q[i].by)
            <=> b = Head(q).by \/ \E i \in DOMAIN Tail(q): b = Tail(q)[i].by
      <3>1. 1 \in DOMAIN q /\ Head(q) = q[1]
        BY Tails
      <3>2. \A i \in DOMAIN Tail(q): i + 1 \in DOMAIN q /\ Tail(q)[i] = q[i + 1]
        BY Tails
      <3> QED  BY <1>3, <3>1, <3>2
    <2> QED  BY <1>1, <2>1 DEF Owed
  <1> QED  BY <1>2, <1>4

\* finish(): the current command settles.
LEMMA ApartSettled ==
    ASSUME NEW q \in Seq(Issued), NEW s \in Seq(Settlements), NEW r \in Settlements,
           Apart(q, r.cmd, s)
    PROVE  /\ Apart(q, NoCmd, Append(s, r))
           /\ \A b \in Callers: Owed(b, q, NoCmd, Append(s, r)) <=> Owed(b, q, r.cmd, s)
  <1>1. \A b \in Callers: b # NoCmd.by
    BY SessionAssumption, NoCmdApart DEF Callers, Bar
  <1>2. \A c \in Issued: c.by # NoCmd.by
    BY Kinds, NoCmdApart DEF Commands
  <1>3. \A i \in DOMAIN q: q[i] \in Issued
    OBVIOUS
  <1>4. \A j \in DOMAIN Append(s, r): Append(s, r)[j].cmd \in Issued
    <2>1. Append(s, r) \in Seq(Settlements)
      BY Appends
    <2>2. \A j \in DOMAIN Append(s, r): Append(s, r)[j] \in Settlements
      BY <2>1
    <2> QED  BY <2>2 DEF Settlements
  <1>5. \A j \in DOMAIN Append(s, r): (j \in DOMAIN s /\ Append(s, r)[j] = s[j])
                                        \/ (j = Len(s) + 1 /\ Append(s, r)[j] = r)
    BY Appends
  <1>6. Len(s) + 1 \in DOMAIN Append(s, r) /\ \A j \in DOMAIN s: j \in DOMAIN Append(s, r)
    BY Appends
  <1>7. Apart(q, NoCmd, Append(s, r))
    BY <1>2, <1>3, <1>4, <1>5 DEF Apart
  <1>8. ASSUME NEW b \in Callers
        PROVE  Owed(b, q, NoCmd, Append(s, r)) <=> Owed(b, q, r.cmd, s)
    BY <1>1, <1>5, <1>6, Appends DEF Owed
  <1> QED  BY <1>7, <1>8

\* A continuation runs.
LEMMA ApartPopped ==
    ASSUME NEW q \in Seq(Issued), NEW cur \in Commands, NEW s \in Seq(Settlements), s # <<>>,
           Apart(q, cur, s)
    PROVE  /\ Apart(q, cur, Tail(s))
           /\ ~Owed(Head(s).cmd.by, q, cur, Tail(s))
           /\ \A b: Owed(b, q, cur, s) <=> Owed(b, q, cur, Tail(s)) \/ b = Head(s).cmd.by
  <1>1. \A j \in DOMAIN s: j = 1 \/ (j - 1 \in DOMAIN Tail(s) /\ s[j] = Tail(s)[j - 1])
    BY Tails
  <1>2. \A j \in DOMAIN Tail(s): j + 1 \in DOMAIN s /\ Tail(s)[j] = s[j + 1] /\ j + 1 # 1 /\ j \in Nat
    BY Tails
  <1>3. 1 \in DOMAIN s /\ Head(s) = s[1]
    BY Tails
  <1>4. Apart(q, cur, Tail(s))
    BY <1>2 DEF Apart
  <1>5. ~Owed(Head(s).cmd.by, q, cur, Tail(s))
    BY <1>2, <1>3 DEF Apart, Owed
  <1>6. ASSUME NEW b
        PROVE  Owed(b, q, cur, s) <=> Owed(b, q, cur, Tail(s)) \/ b = Head(s).cmd.by
    BY <1>1, <1>2, <1>3 DEF Owed
  <1> QED  BY <1>4, <1>5, <1>6

-----------------------------------------------------------------------------
(***************************************************************************)
(* The wire                                                                *)
(***************************************************************************)
LEMMA DisownedIs ==
    ASSUME NEW S, S = Lines \/ S = Requests, NEW s \in Seq(S)
    PROVE  /\ Disowned(s) \in Seq(S) /\ Len(Disowned(s)) = Len(s)
           /\ DOMAIN Disowned(s) = DOMAIN s
           /\ NoOwn(Disowned(s))
  <1> DEFINE d == Disowned(s)
  <1>1. \A i \in DOMAIN s: d[i] \in S /\ ~d[i].own
    <2>1. \A i \in DOMAIN s: s[i] \in S
      OBVIOUS
    <2>2. \A i \in DOMAIN s: d[i] = [s[i] EXCEPT !.own = FALSE]
      BY DEF Disowned
    <2>3. CASE S = Lines
      BY <2>1, <2>2, <2>3 DEF Lines
    <2>4. CASE S = Requests
      BY <2>1, <2>2, <2>4 DEF Requests
    <2> QED  BY <2>3, <2>4
  <1>2. d \in [1..Len(s) -> S] /\ Len(s) \in Nat
    BY <1>1 DEF Disowned
  <1>3. d \in Seq(S) /\ Len(d) = Len(s) /\ DOMAIN d = DOMAIN s
    BY <1>2, SeqDef, LenProperties
  <1> QED  BY <1>1, <1>3 DEF NoOwn

LEMMA DisownedLines ==
    ASSUME NEW s \in Seq(Lines), NEW i \in DOMAIN s
    PROVE  Disowned(s)[i].kind = s[i].kind
  <1>1. s[i] \in Lines
    OBVIOUS
  <1>2. Disowned(s)[i] = [s[i] EXCEPT !.own = FALSE]
    BY DEF Disowned
  <1> QED  BY <1>1, <1>2 DEF Lines

LEMMA DisownedEmpty == Disowned(<<>>) = <<>>
  BY DisownedIs, EmptySeq, Zenon DEF Disowned

LEMMA PumpType ==
    ASSUME NEW q \in Seq(Issued), NEW cur \in Commands, NEW wire \in Seq(Requests),
           Pump(q, cur, wire)
    PROVE  /\ queue' \in Seq(Issued) /\ current' \in Commands /\ tx' \in Seq(Requests)
           /\ cur # NoCmd \/ link' # "open" => queue' = q /\ current' = cur /\ tx' = wire
           /\ current' = cur \/ (cur = NoCmd /\ link' = "open" /\ current' \in Issued)
  <1>1. CASE MaySend(q, cur)
    <2>1. q # <<>> /\ queue' = Tail(q) /\ current' = Head(q)
             /\ tx' = Append(wire, [cmd |-> Head(q), own |-> TRUE])
      BY <1>1 DEF Pump, MaySend
    <2>2. Head(q) \in Issued /\ Tail(q) \in Seq(Issued)
      BY <2>1, Tails
    <2>3. [cmd |-> Head(q), own |-> TRUE] \in Requests
      BY <2>2 DEF Requests
    <2> QED  BY <1>1, <2>1, <2>2, <2>3, Appends DEF MaySend, Commands
  <1>2. CASE ~MaySend(q, cur)
    BY <1>2 DEF Pump, MaySend
  <1> QED  BY <1>1, <1>2

\* pump() keeps requests and answers with the command that is out.
LEMMA PumpOwn ==
    ASSUME NEW q \in Seq(Issued), NEW cur \in Commands, NEW wire \in Seq(Requests),
           NEW r \in Seq(Lines), NEW c \in Seq(Lines),
           AskedOnce(cur, wire, r, c) \/ link' # "open",
           Asks(cur, wire), Answered(cur, r), Answered(cur, c),
           Pump(q, cur, wire)
    PROVE  /\ AskedOnce(current', tx', r, c) \/ link' # "open"
           /\ Asks(current', tx') /\ Answered(current', r) /\ Answered(current', c)
  <1>1. CASE MaySend(q, cur)
    <2>1. /\ cur = NoCmd /\ link' = "open" /\ q # <<>> /\ current' = Head(q)
          /\ tx' = Append(wire, [cmd |-> Head(q), own |-> TRUE])
      BY <1>1 DEF Pump, MaySend
    <2>2. Head(q) \in Issued /\ Head(q) # NoCmd
      BY <2>1, Tails, Kinds, NoCmdApart
    <2>3. NoOwn(wire) /\ NoOwn(r) /\ NoOwn(c)
      BY <2>1 DEF AskedOnce
    <2>4. [cmd |-> Head(q), own |-> TRUE] \in Requests
      BY <2>2 DEF Requests
    <2>5. /\ DOMAIN tx' = 1..Len(wire) + 1 /\ DOMAIN wire = 1..Len(wire) /\ Len(wire) \in Nat
          /\ tx'[Len(wire) + 1] = [cmd |-> Head(q), own |-> TRUE]
          /\ \A i \in DOMAIN wire: tx'[i] = wire[i]
      BY <2>1, <2>4, Appends
    <2>6. \A i \in DOMAIN tx': tx'[i].own => i = Len(wire) + 1
      BY <2>3, <2>5 DEF NoOwn
    <2>7. OneOwn(tx') /\ Asks(current', tx')
      <3> DEFINE n == Len(wire) + 1
      <3>1. n \in DOMAIN tx' /\ tx'[n].own /\ tx'[n].cmd = current'
        BY <2>1, <2>5
      <3> HIDE DEF n
      <3>2. \A i \in DOMAIN tx': tx'[i].own => i = n
        BY <2>6 DEF n
      <3> QED  BY <3>1, <3>2 DEF OneOwn, Asks
    <2> QED  BY <2>1, <2>2, <2>3, <2>7 DEF AskedOnce, Answered, NoOwn
  <1>2. CASE ~MaySend(q, cur)
    BY <1>2 DEF Pump
  <1> QED  BY <1>1, <1>2

LEMMA PumpAllOwn ==
    ASSUME NEW q \in Seq(Issued), NEW cur \in Commands, NEW wire \in Seq(Requests),
           AllOwn(wire), Pump(q, cur, wire)
    PROVE  AllOwn(tx')
  <1>1. CASE MaySend(q, cur)
    <2>1. q # <<>> /\ tx' = Append(wire, [cmd |-> Head(q), own |-> TRUE])
      BY <1>1 DEF Pump, MaySend
    <2>2. [cmd |-> Head(q), own |-> TRUE] \in Requests
      BY <2>1, Tails DEF Requests
    <2>3. /\ DOMAIN tx' = 1..Len(wire) + 1 /\ DOMAIN wire = 1..Len(wire) /\ Len(wire) \in Nat
          /\ tx'[Len(wire) + 1].own
          /\ \A i \in DOMAIN wire: tx'[i] = wire[i]
      BY <2>1, <2>2, Appends
    <2> QED  BY <2>3 DEF AllOwn
  <1>2. CASE ~MaySend(q, cur)
    BY <1>2 DEF Pump
  <1> QED  BY <1>1, <1>2

LEMMA PumpCallers ==
    ASSUME NEW q \in Seq(Issued), NEW cur \in Commands, NEW wire \in Seq(Requests),
           NEW s \in Seq(Settlements), Apart(q, cur, s), Pump(q, cur, wire)
    PROVE  /\ Apart(queue', current', s)
           /\ \A b \in Callers: Owed(b, queue', current', s) <=> Owed(b, q, cur, s)
  BY ApartPumped DEF Pump, MaySend

-----------------------------------------------------------------------------
(***************************************************************************)
(* What leaves a part of the invariant alone                               *)
(***************************************************************************)
LEMMA SameQueue ==
    ASSUME CallersInv, UNCHANGED <<queue, current, settled, waiting>>
    PROVE  CallersInv'
  BY DEF CallersInv

LEMMA SameWire ==
    ASSUME OwnInv, UNCHANGED <<link, current, tx, rx, chunk>>
    PROVE  OwnInv'
  BY DEF OwnInv

LEMMA SameKnown ==
    ASSUME KnownInv, UNCHANGED <<link, timedOut, rx, chunk, word, current, settled, known>>
    PROVE  KnownInv'
  BY DEF KnownInv, Fresh

LEMMA SameFault ==
    ASSUME FaultInv, UNCHANGED <<link, timedOut, rx, chunk, prog, current, settled, fault>>
    PROVE  FaultInv'
  BY DEF FaultInv

LEMMA SameTime ==
    ASSUME InTimeInv, UNCHANGED <<link, timedOut, rx, chunk, prog, tx>>
    PROVE  InTimeInv'
  BY DEF InTimeInv

\* Nothing is known of late answers, or of a link that is not open.
LEMMA Silent ==
    ASSUME link' # "open" \/ timedOut' = TRUE
    PROVE  /\ KnownInv' /\ FaultInv'
           /\ (~ProgramImage => prog' = "run") => InTimeInv'
  BY DEF KnownInv, FaultInv, InTimeInv

-----------------------------------------------------------------------------
(***************************************************************************)
(* send() and finish()                                                     *)
(***************************************************************************)
\* A command is sent or queued for somebody who has none on the way.
LEMMA SendStep ==
    ASSUME IInv, NEW c \in Issued, Send(c),
           ~Owed(c.by, queue, current, settled),
           state # "disconnected", link # "opening",
           waiting' = IF c.by \in Callers THEN waiting \cup {c.by} ELSE waiting,
           UNCHANGED <<link, state, polling, misses, fault, known, identity, chunk,
                       settled, rx, prog, word, timedOut>>
    PROVE  IInv'
  <1> DEFINE q == Append(queue, c)
  <1>1. /\ queue \in Seq(Issued) /\ current \in Commands /\ tx \in Seq(Requests)
        /\ rx \in Seq(Lines) /\ chunk \in Seq(Lines) /\ settled \in Seq(Settlements)
    BY DEF IInv, TypeOK
  <1>2. q \in Seq(Issued) /\ Pump(q, current, tx)
    BY <1>1, Appends DEF Send
  <1> HIDE DEF q
  <1>3. /\ queue' \in Seq(Issued) /\ current' \in Commands /\ tx' \in Seq(Requests)
        /\ current # NoCmd \/ link' # "open" => queue' = q /\ current' = current /\ tx' = tx
        /\ current' = current \/ (current = NoCmd /\ link' = "open" /\ current' \in Issued)
    BY <1>1, <1>2, PumpType
  <1>4. TypeOK'
    BY <1>3 DEF IInv, TypeOK, Callers
  <1>5. LinkInv'
    BY <1>3 DEF IInv, LinkInv
  <1>6. OwnInv'
    BY <1>1, <1>2, PumpOwn DEF IInv, OwnInv
  <1>7. CallersInv'
    <2>1. Apart(queue, current, settled)
      BY DEF IInv, CallersInv
    <2>2. /\ Apart(q, current, settled)
          /\ \A b: Owed(b, q, current, settled) <=> Owed(b, queue, current, settled) \/ b = c.by
      BY <1>1, <2>1, ApartAppended DEF q
    <2>3. /\ Apart(queue', current', settled)
          /\ \A b \in Callers: Owed(b, queue', current', settled) <=> Owed(b, q, current, settled)
      BY <1>1, <1>2, <2>2, PumpCallers
    <2>4. \A b \in Callers: b \in waiting' <=> Owed(b, queue', current', settled)
      BY <2>2, <2>3 DEF IInv, CallersInv
    <2> QED  BY <2>3, <2>4 DEF CallersInv
  <1>8. current' = current \/ (current = NoCmd /\ link = "open" /\ current' \in Issued /\ NoOwn(rx) /\ NoOwn(chunk) /\ NoOwn(tx))
    BY <1>3 DEF IInv, OwnInv, AskedOnce
  <1>9. InTimeInv'
    <2>1. AllOwn(tx) => AllOwn(tx')
      BY <1>1, <1>2, PumpAllOwn
    <2> QED  BY <2>1 DEF IInv, InTimeInv
  <1>10. KnownInv'
    <2>1. CASE current' = current
      BY <2>1, SameKnown DEF IInv
    <2>2. CASE current' # current /\ ~timedOut /\ ~ProgramImage
      <3>1. \A i \in DOMAIN rx: FALSE
        BY <1>8, <2>2 DEF IInv, InTimeInv, OwnOrFault, NoOwn
      <3>2. \A i \in DOMAIN chunk: FALSE
        BY <1>8, <2>2 DEF IInv, InTimeInv, OwnOrFault, NoOwn
      <3> QED  BY <3>1, <3>2 DEF IInv, KnownInv, Fresh
    <2>3. CASE timedOut \/ ProgramImage
      BY <2>3 DEF KnownInv
    <2> QED  BY <2>1, <2>2, <2>3
  <1>11. FaultInv'
    <2>1. CASE current' = current
      BY <2>1, SameFault DEF IInv
    <2>2. CASE current' # current
      <3>1. current.op # "run"
        BY <1>8, <2>2 DEF NoCmd, Command
      <3> QED  BY <3>1 DEF IInv, FaultInv
    <2> QED  BY <2>1, <2>2
  <1> QED  BY <1>4, <1>5, <1>6, <1>7, <1>9, <1>10, <1>11 DEF IInv

\* The current command settles; requests and answers under way are nobody's.
LEMMA FinishStep ==
    ASSUME TypeOK, CallersInv, current # NoCmd,
           NEW out \in {"ok", "error", "rejected"}, NEW p \in Programs \cup {"none"},
           NEW rest \in Seq(Lines), NEW wire \in Seq(Requests), NEW in \in Seq(Lines),
           Finish(out, p, rest, wire, in),
           UNCHANGED waiting
    PROVE  /\ queue' \in Seq(Issued) /\ current' \in Commands /\ tx' \in Seq(Requests)
           /\ rx' \in Seq(Lines) /\ chunk' \in Seq(Lines) /\ settled' \in Seq(Settlements)
           /\ settled' = Append(settled, Settlement(current, out, p))
           /\ Settlement(current, out, p) \in Settlements
           /\ CallersInv' /\ OwnInv'
           /\ NoOwn(rx') /\ NoOwn(chunk')
           /\ link' # "open" => queue' = queue /\ current' = NoCmd /\ tx' = Disowned(wire)
           /\ tx' = Disowned(wire) \/ \E t \in Requests: t.own /\ tx' = Append(Disowned(wire), t)
  <1> DEFINE r == Settlement(current, out, p)
             d == Disowned(wire)
  <1>1. /\ queue \in Seq(Issued) /\ current \in Issued /\ settled \in Seq(Settlements)
    BY DEF TypeOK, Commands
  <1>2. r \in Settlements /\ r.cmd = current
    BY <1>1 DEF Settlement, Settlements
  <1>3. settled' = Append(settled, r)
    BY <1>1, <1>2, AppendIsConcat DEF Finish, Outcome
  <1>4. settled' \in Seq(Settlements)
    BY <1>1, <1>2, <1>3, Appends
  <1>5. /\ d \in Seq(Requests) /\ NoOwn(d)
        /\ rx' \in Seq(Lines) /\ NoOwn(rx')
        /\ chunk' \in Seq(Lines) /\ NoOwn(chunk')
    BY DisownedIs DEF Finish
  <1>6. Pump(queue, NoCmd, d)
    BY DEF Finish
  <1>7. NoCmd \in Commands
    BY NoCmdApart
  <1> HIDE DEF d, r
  <1>8. /\ queue' \in Seq(Issued) /\ current' \in Commands /\ tx' \in Seq(Requests)
        /\ link' # "open" => queue' = queue /\ current' = NoCmd /\ tx' = d
    BY <1>1, <1>5, <1>6, <1>7, PumpType
  <1>9. CallersInv'
    <2>1. Apart(queue, r.cmd, settled)
      BY <1>2 DEF CallersInv
    <2>2. /\ Apart(queue, NoCmd, settled')
          /\ \A b \in Callers: Owed(b, queue, NoCmd, settled') <=> Owed(b, queue, current, settled)
      BY <1>1, <1>2, <1>3, <2>1, ApartSettled
    <2>3. /\ Apart(queue', current', settled')
          /\ \A b \in Callers: Owed(b, queue', current', settled') <=> Owed(b, queue, NoCmd, settled')
      BY <1>1, <1>4, <1>5, <1>6, <1>7, <2>2, PumpCallers
    <2> QED  BY <2>2, <2>3 DEF CallersInv
  <1>10. OwnInv'
    <2>1. AskedOnce(NoCmd, d, rx', chunk') /\ Asks(NoCmd, d)
      BY <1>5 DEF AskedOnce, Asks, NoOwn
    <2>2. Answered(NoCmd, rx') /\ Answered(NoCmd, chunk')
      BY <1>5 DEF Answered, NoOwn
    <2>3. /\ AskedOnce(current', tx', rx', chunk') \/ link' # "open"
          /\ Asks(current', tx') /\ Answered(current', rx') /\ Answered(current', chunk')
      BY <1>1, <1>5, <1>6, <1>7, <2>1, <2>2, PumpOwn
    <2> QED  BY <2>3 DEF OwnInv
  <1>11. tx' = d \/ \E t \in Requests: t.own /\ tx' = Append(d, t)
    <2>1. CASE MaySend(queue, NoCmd)
      <3>1. queue # <<>> /\ tx' = Append(d, [cmd |-> Head(queue), own |-> TRUE])
        BY <1>6, <2>1 DEF Pump, MaySend
      <3>2. [cmd |-> Head(queue), own |-> TRUE] \in Requests
        BY <1>1, <3>1, Tails DEF Requests
      <3> QED  BY <3>1, <3>2
    <2>2. CASE ~MaySend(queue, NoCmd)
      BY <1>6, <2>2 DEF Pump
    <2> QED  BY <2>1, <2>2
  <1> QED  BY <1>2, <1>3, <1>4, <1>5, <1>8, <1>9, <1>10, <1>11 DEF d, r

-----------------------------------------------------------------------------
(***************************************************************************)
(* Connecting and closing                                                  *)
(***************************************************************************)
\* teardown() rejects every command, each for its caller.
LEMMA TeardownStep ==
    ASSUME TypeOK, CallersInv, settled = <<>>, Teardown, UNCHANGED waiting
    PROVE  /\ settled' \in Seq(Settlements)
           /\ \A j \in DOMAIN settled': settled'[j].out = "rejected"
           /\ CallersInv'
  <1> DEFINE R == [i \in DOMAIN queue |-> Settlement(queue[i], "rejected", "none")]
             r == Settlement(current, "rejected", "none")
  <1>1. queue \in Seq(Issued) /\ \A i \in DOMAIN queue: queue[i] \in Issued
    BY DEF TypeOK
  <1>2. \A c \in Issued: Settlement(c, "rejected", "none") \in Settlements
    BY DEF Settlement, Settlements
  <1>3. R \in [1..Len(queue) -> Settlements] /\ Len(queue) \in Nat /\ DOMAIN queue = 1..Len(queue)
    BY <1>1, <1>2
  <1>4. R \in Seq(Settlements) /\ Len(R) = Len(queue) /\ DOMAIN R = 1..Len(queue)
    BY <1>3, SeqDef, LenProperties
  <1>5. \A i \in DOMAIN queue: R[i].cmd = queue[i] /\ R[i].out = "rejected"
    BY DEF Settlement
  <1> HIDE DEF R
  <1>6. current' = NoCmd /\ queue' = <<>> /\ settled' = Outcome(current, "rejected", "none") \o R
    BY DEF Teardown, Rejections, R
  <1>7. /\ Apart(queue, current, <<>>)
        /\ \A b \in Callers: b \in waiting <=> Owed(b, queue, current, <<>>)
    BY DEF CallersInv
  <1>8. \A b \in Callers: b # NoCmd.by
    BY SessionAssumption, NoCmdApart DEF Callers, Bar
  <1>9. CASE current = NoCmd
    <2>1. settled' = R
      BY <1>4, <1>6, <1>9, ConcatEmptySeq DEF Outcome
    <2>2. \A j \in DOMAIN R: j \in DOMAIN queue
      BY <1>3, <1>4
    <2>3. \A i \in DOMAIN queue: i \in DOMAIN R
      BY <1>3, <1>4
    <2>4. Apart(<<>>, NoCmd, R)
      BY <1>5, <1>7, <1>9, <2>2 DEF Apart
    <2>5. \A b \in Callers: Owed(b, <<>>, NoCmd, R) <=> Owed(b, queue, current, <<>>)
      BY <1>5, <1>8, <1>9, <2>2, <2>3 DEF Owed
    <2> QED  BY <1>4, <1>5, <1>6, <1>7, <2>1, <2>2, <2>4, <2>5 DEF CallersInv
  <1>10. CASE current # NoCmd
    <2>1. current \in Issued
      BY <1>10 DEF TypeOK, Commands
    <2>2. r \in Settlements /\ r.cmd = current /\ r.out = "rejected"
      BY <1>2, <2>1 DEF Settlement
    <2>3. settled' = <<r>> \o R
      BY <1>6, <1>10 DEF Outcome
    <2> HIDE DEF r
    <2>4. <<r>> \in Seq(Settlements) /\ Len(<<r>>) = 1 /\ <<r>>[1] = r
      BY <2>2
    <2>5. /\ settled' \in Seq(Settlements) /\ Len(settled') = 1 + Len(queue)
          /\ \A i \in 1..1 + Len(queue): settled'[i] = IF i <= 1 THEN <<r>>[i] ELSE R[i - 1]
      BY <1>4, <2>3, <2>4, ConcatProperties
    <2>6. DOMAIN settled' = 1..1 + Len(queue)
      BY <2>5
    <2>7. \A j \in DOMAIN settled': \/ j = 1 /\ settled'[j].cmd = current
                                    \/ j - 1 \in DOMAIN queue /\ settled'[j].cmd = queue[j - 1]
      BY <1>3, <1>5, <2>2, <2>4, <2>5, <2>6
    <2>8. ASSUME NEW j \in DOMAIN settled'
          PROVE  settled'[j].out = "rejected"
      <3>1. CASE j = 1
        BY <1>3, <2>2, <2>4, <2>5, <2>6, <3>1
      <3>2. CASE j # 1
        <4>1. j - 1 \in DOMAIN queue /\ settled'[j] = R[j - 1]
          BY <1>3, <2>5, <2>6, <3>2
        <4> QED  BY <1>5, <4>1
      <3> QED  BY <3>1, <3>2
    <2>9. 1 \in DOMAIN settled' /\ settled'[1].cmd = current
      BY <1>3, <2>2, <2>4, <2>5, <2>6
    <2>10. \A i \in DOMAIN queue: i + 1 \in DOMAIN settled' /\ settled'[i + 1].cmd = queue[i]
      BY <1>3, <1>5, <2>5, <2>6
    <2>11. \A c \in Issued: c.by # NoCmd.by
      BY Kinds, NoCmdApart
    <2>12. \A i, j \in DOMAIN settled': settled'[i].cmd.by = settled'[j].cmd.by => i = j
      <3> SUFFICES ASSUME NEW i \in DOMAIN settled', NEW j \in DOMAIN settled',
                          settled'[i].cmd.by = settled'[j].cmd.by
                   PROVE  i = j
        OBVIOUS
      <3>1. i \in Int /\ j \in Int
        BY <1>3, <2>6
      <3>2. CASE i = 1 /\ j - 1 \in DOMAIN queue
        BY <1>7, <2>7, <2>9, <3>2 DEF Apart
      <3>3. CASE j = 1 /\ i - 1 \in DOMAIN queue
        BY <1>7, <2>7, <2>9, <3>3 DEF Apart
      <3>4. CASE i # 1 /\ j # 1
        BY <1>7, <2>7, <3>1, <3>4 DEF Apart
      <3> QED  BY <2>7, <3>2, <3>3, <3>4
    <2>13. \A j \in DOMAIN settled': settled'[j].cmd.by # NoCmd.by
      BY <1>1, <2>1, <2>7, <2>11
    <2>14. Apart(<<>>, NoCmd, settled')
      BY <2>12, <2>13 DEF Apart
    <2>15. ASSUME NEW b \in Callers
           PROVE  Owed(b, <<>>, NoCmd, settled') <=> Owed(b, queue, current, <<>>)
      BY <1>8, <2>7, <2>9, <2>10 DEF Owed
    <2> QED  BY <1>6, <1>7, <2>5, <2>8, <2>14, <2>15 DEF CallersInv
  <1> QED  BY <1>9, <1>10

LEMMA Empties ==
    /\ <<>> \in Seq(Issued) /\ <<>> \in Seq(Lines) /\ <<>> \in Seq(Requests)
    /\ NoCmd \in Commands /\ {} \in Words /\ 0 \in 0..MaxMisses
  BY EmptySeq, NoCmdApart, SessionAssumption DEF Words

LEMMA ConnectStep == IInv /\ Connect => IInv'
  <1> SUFFICES ASSUME IInv, Connect  PROVE IInv'
    OBVIOUS
  <1>1. TypeOK'
    BY Empties DEF IInv, TypeOK, Connect
  <1>2. LinkInv'
    BY DEF IInv, LinkInv, Connect, Calm
  <1>3. OwnInv'
    BY DEF IInv, OwnInv, Connect
  <1>4. CallersInv'
    BY SameQueue DEF IInv, Connect
  <1>5. InTimeInv' /\ KnownInv' /\ FaultInv'
    BY Silent DEF IInv, InTimeInv, Connect
  <1> QED  BY <1>1, <1>2, <1>3, <1>4, <1>5 DEF IInv

LEMMA OpenedStep == IInv /\ Opened => IInv'
  <1> SUFFICES ASSUME IInv, Opened  PROVE IInv'
    OBVIOUS
  <1> DEFINE q == <<Info("timer"), Img>>
  <1>1. /\ link' = "open" /\ state' = "connecting" /\ current = NoCmd /\ queue = <<>>
        /\ settled = <<>> /\ known = {} /\ ~fault /\ tx = <<>> /\ rx = <<>> /\ chunk = <<>>
        /\ UNCHANGED <<state, misses, fault, known, identity, waiting, chunk, settled, rx, prog,
                       word, timedOut>>
        /\ polling' = TRUE
    BY DEF IInv, LinkInv, Opened
  <1>2. Info("timer") \in Issued /\ Img \in Issued
    BY DEF Issued
  <1>3. q \in Seq(Issued) /\ queue \o q = q
    BY <1>1, <1>2, ConcatEmptySeq
  <1>4. Pump(q, NoCmd, tx)
    BY <1>1, <1>3 DEF Opened
  <1>5. tx \in Seq(Requests) /\ rx \in Seq(Lines) /\ chunk \in Seq(Lines) /\ settled \in Seq(Settlements)
    BY DEF IInv, TypeOK
  <1>6. queue' \in Seq(Issued) /\ current' \in Commands /\ tx' \in Seq(Requests)
    BY <1>3, <1>4, <1>5, PumpType, NoCmdApart
  <1>7. TypeOK'
    BY <1>1, <1>6 DEF IInv, TypeOK
  <1>8. LinkInv'
    BY <1>1 DEF LinkInv
  <1>9. OwnInv'
    <2>1. AskedOnce(NoCmd, tx, rx, chunk) /\ Asks(NoCmd, tx)
              /\ Answered(NoCmd, rx) /\ Answered(NoCmd, chunk)
      BY <1>1 DEF AskedOnce, NoOwn, Asks, Answered
    <2> QED  BY <1>1, <1>3, <1>4, <1>5, <2>1, PumpOwn, NoCmdApart DEF OwnInv
  <1>10. CallersInv'
    <2>1. Len(q) = 2 /\ DOMAIN q = 1..2 /\ q[1].by = "timer" /\ q[2].by = "poll"
      BY DEF Info, Img, Command
    <2>2. \A i \in DOMAIN q: (i = 1 /\ q[i].by = "timer") \/ (i = 2 /\ q[i].by = "poll")
      BY <2>1
    <2> HIDE DEF q
    <2>3. Apart(q, NoCmd, <<>>)
      BY <2>2, NoCmdApart DEF Apart
    <2>4. \A b \in Callers: ~Owed(b, q, NoCmd, <<>>)
      BY <2>2, NoCmdApart, SessionAssumption DEF Owed, Callers, Bar
    <2>5. \A b \in Callers: ~Owed(b, <<>>, NoCmd, <<>>)
      BY NoCmdApart, SessionAssumption DEF Owed, Callers, Bar
    <2>6. /\ Apart(queue', current', <<>>)
          /\ \A b \in Callers: Owed(b, queue', current', <<>>) <=> Owed(b, q, NoCmd, <<>>)
      BY <1>1, <1>3, <1>4, <1>5, <2>3, PumpCallers, NoCmdApart
    <2>7. \A b \in Callers: b \notin waiting
      BY <1>1, <2>5 DEF IInv, CallersInv
    <2> QED  BY <1>1, <2>4, <2>6, <2>7 DEF CallersInv
  <1>11. InTimeInv'
    <2>1. tx' = Append(<<>>, [cmd |-> Head(q), own |-> TRUE])
      BY <1>1, <1>4 DEF Pump, MaySend
    <2>2. AllOwn(tx')
      BY <2>1 DEF AllOwn
    <2> QED  BY <1>1, <2>2 DEF IInv, InTimeInv, OwnOrFault
  <1>12. KnownInv'
    BY <1>1 DEF KnownInv, Fresh, Acknowledged
  <1>13. FaultInv'
    BY <1>1 DEF FaultInv, NoFault
  <1> QED  BY <1>7, <1>8, <1>9, <1>10, <1>11, <1>12, <1>13 DEF IInv

LEMMA OpenFailsStep == IInv /\ OpenFails => IInv'
  <1> SUFFICES ASSUME IInv, OpenFails  PROVE IInv'
    OBVIOUS
  <1>1. TypeOK' /\ LinkInv' /\ OwnInv'
    BY DEF IInv, TypeOK, LinkInv, OwnInv, OpenFails
  <1>2. CallersInv'
    BY SameQueue DEF IInv, OpenFails
  <1>3. InTimeInv' /\ KnownInv' /\ FaultInv'
    BY Silent DEF IInv, InTimeInv, OpenFails
  <1> QED  BY <1>1, <1>2, <1>3 DEF IInv

LEMMA DisconnectStep == IInv /\ Disconnect => IInv'
  <1> SUFFICES ASSUME IInv, Disconnect  PROVE IInv'
    OBVIOUS
  <1>1. /\ settled' \in Seq(Settlements) /\ CallersInv'
        /\ \A j \in DOMAIN settled': settled'[j].out = "rejected"
    BY TeardownStep DEF IInv, Disconnect, Calm
  <1>2. TypeOK'
    BY <1>1, Empties DEF IInv, TypeOK, Disconnect, Teardown
  <1>3. LinkInv'
    BY <1>1 DEF LinkInv, Disconnect, Teardown, Calm
  <1>4. OwnInv'
    BY DEF OwnInv, Disconnect, Calm, Asks, Answered
  <1>5. InTimeInv' /\ KnownInv' /\ FaultInv'
    BY Silent DEF IInv, InTimeInv, Disconnect
  <1> QED  BY <1>1, <1>2, <1>3, <1>4, <1>5 DEF IInv

LEMMA UnplugStep == IInv /\ Unplug => IInv'
  <1> SUFFICES ASSUME IInv, Unplug  PROVE IInv'
    OBVIOUS
  <1>1. TypeOK' /\ LinkInv'
    BY DEF IInv, TypeOK, LinkInv, Unplug, Calm, sessVars
  <1>2. OwnInv'
    BY DEF OwnInv, Unplug, Calm, Asks, Answered
  <1>3. CallersInv'
    BY SameQueue DEF IInv, Unplug, sessVars
  <1>4. InTimeInv' /\ KnownInv' /\ FaultInv'
    BY Silent DEF IInv, InTimeInv, Unplug
  <1> QED  BY <1>1, <1>2, <1>3, <1>4 DEF IInv

LEMMA WriteFailsStep == IInv /\ WriteFails => IInv'
  <1> SUFFICES ASSUME IInv, WriteFails  PROVE IInv'
    OBVIOUS
  <1>1. /\ link = "closing" /\ link' = "closing" /\ current # NoCmd
        /\ tx = <<>> /\ rx = <<>> /\ settled = <<>>
    BY DEF IInv, LinkInv, WriteFails, Calm
  <1>2. TypeOK /\ CallersInv /\ Finish("rejected", "none", <<>>, tx, rx) /\ UNCHANGED waiting
    BY DEF IInv, WriteFails
  <1>3. tx \in Seq(Requests) /\ rx \in Seq(Lines) /\ <<>> \in Seq(Lines)
    BY EmptySeq DEF IInv, TypeOK
  <1>4. /\ queue' \in Seq(Issued) /\ current' \in Commands /\ tx' \in Seq(Requests)
        /\ rx' \in Seq(Lines) /\ chunk' \in Seq(Lines) /\ settled' \in Seq(Settlements)
        /\ settled' = Append(settled, Settlement(current, "rejected", "none"))
        /\ CallersInv' /\ OwnInv'
        /\ queue' = queue /\ current' = NoCmd /\ tx' = Disowned(tx)
    BY <1>1, <1>2, <1>3, FinishStep
  <1>5. TypeOK'
    BY <1>4 DEF IInv, TypeOK, WriteFails
  <1>6. tx' = <<>> /\ rx' = <<>> /\ chunk' = <<>>
    BY <1>1, <1>4, DisownedEmpty DEF WriteFails, Finish
  <1>7. \A j \in DOMAIN settled': settled'[j].out = "rejected"
    BY <1>1, <1>4 DEF Settlement
  <1>8. LinkInv'
    BY <1>1, <1>4, <1>6, <1>7 DEF IInv, LinkInv, WriteFails
  <1>9. InTimeInv' /\ KnownInv' /\ FaultInv'
    BY <1>1, Silent DEF IInv, InTimeInv, WriteFails
  <1> QED  BY <1>4, <1>5, <1>8, <1>9 DEF IInv

LEMMA ClosedStep == IInv /\ Closed => IInv'
  <1> SUFFICES ASSUME IInv, Closed  PROVE IInv'
    OBVIOUS
  <1>1. ASSUME CloseMatters
        PROVE  TypeOK' /\ LinkInv' /\ CallersInv'
    <2>1. Teardown /\ state' = "disconnected" /\ settled = <<>>
      BY <1>1 DEF Closed, Calm
    <2>2. /\ settled' \in Seq(Settlements) /\ CallersInv'
          /\ \A j \in DOMAIN settled': settled'[j].out = "rejected"
      BY <2>1, TeardownStep DEF IInv, Closed
    <2>3. TypeOK' /\ LinkInv'
      BY <2>1, <2>2, Empties DEF IInv, TypeOK, LinkInv, Closed, Teardown
    <2> QED  BY <2>2, <2>3
  <1>2. ASSUME ~CloseMatters
        PROVE  TypeOK' /\ LinkInv' /\ CallersInv'
    <2>1. UNCHANGED <<polling, settled, current, queue, state>> /\ state = "disconnected"
      BY <1>2 DEF Closed, CloseMatters
    <2>2. TypeOK' /\ LinkInv'
      BY <2>1 DEF IInv, TypeOK, LinkInv, Closed
    <2>3. CallersInv'
      BY <2>1, SameQueue DEF IInv, Closed
    <2> QED  BY <2>2, <2>3
  <1>3. OwnInv'
    BY DEF IInv, LinkInv, OwnInv, Closed, Asks, Answered
  <1>4. InTimeInv' /\ KnownInv' /\ FaultInv'
    BY Silent DEF IInv, InTimeInv, Closed
  <1> QED  BY <1>1, <1>2, <1>3, <1>4 DEF IInv

-----------------------------------------------------------------------------
(***************************************************************************)
(* The timers and the user                                                 *)
(***************************************************************************)
\* Who finds no command of this kind pending has none on the way.
LEMMA NotPending ==
    ASSUME TypeOK, settled = <<>>, NEW c \in {Img, Info("timer")}, ~Pending(c.op)
    PROVE  ~Owed(c.by, queue, current, settled)
  <1>1. \A i \in DOMAIN queue: queue[i] \in Issued /\ queue[i] \in ToSet(queue)
    BY DEF TypeOK, ToSet
  <1>2. current.op # c.op /\ \A i \in DOMAIN queue: queue[i].op # c.op
    BY <1>1 DEF Pending
  <1>3. \A d \in Commands: d.by = c.by => d.op = c.op
    BY Kinds DEF Img, Info, Command
  <1> QED  BY <1>1, <1>2, <1>3, NoCmdApart DEF Owed, TypeOK

LEMMA PollStep == IInv /\ Poll => IInv'
  <1> SUFFICES ASSUME IInv, Poll  PROVE IInv'
    OBVIOUS
  <1>1. Img \in Issued /\ Img.by = "poll" /\ Img.op = "img" /\ "poll" \notin Callers
    BY SessionAssumption DEF Issued, Img, Command, Callers, Bar
  <1>2. ~Owed("poll", queue, current, settled)
    BY <1>1, NotPending DEF IInv, Poll, PollDue, Calm
  <1>3. state # "disconnected" /\ link # "opening"
    BY DEF IInv, LinkInv, Poll
  <1> QED  BY <1>1, <1>2, <1>3, SendStep DEF Poll

LEMMA InfoTimerStep == IInv /\ InfoTimer => IInv'
  <1> SUFFICES ASSUME IInv, InfoTimer  PROVE IInv'
    OBVIOUS
  <1> DEFINE c == Info("timer")
  <1>1. c \in Issued /\ c.by = "timer" /\ c.op = "info" /\ "timer" \notin Callers
    BY SessionAssumption DEF Issued, Info, Command, Callers, Bar
  <1>2. ~Owed("timer", queue, current, settled)
    BY <1>1, NotPending DEF IInv, InfoTimer, Calm
  <1>3. state # "disconnected" /\ link # "opening"
    BY DEF IInv, LinkInv, InfoTimer
  <1>4. Send(c)
    BY DEF InfoTimer
  <1> HIDE DEF c
  <1> QED  BY <1>1, <1>2, <1>3, <1>4, SendStep DEF InfoTimer

LEMMA CallStep ==
    ASSUME IInv, NEW c \in Issued, c.by \in Callers, Call(c)
    PROVE  IInv'
  <1>1. ~Owed(c.by, queue, current, settled)
    BY DEF IInv, CallersInv, Call
  <1>2. state # "disconnected" /\ link # "opening"
    BY DEF IInv, LinkInv, Call
  <1> QED  BY <1>1, <1>2, SendStep DEF Call

LEMMA WriteStep ==
    ASSUME IInv, NEW w \in Writers, WriteWord(w) \/ ForceBit(w)
    PROVE  IInv'
  <1>1. ASSUME NEW v \in Words, NEW b \in Words
        PROVE  Command("mw", w, v, b) \in Issued /\ Command("mw", w, v, b).by \in Callers
    BY DEF Issued, Command, Callers
  <1>2. {} \in Words /\ Bits \in Words
    BY DEF Words
  <1>3. CASE WriteWord(w)
    BY <1>1, <1>2, <1>3, CallStep DEF WriteWord
  <1>4. CASE ForceBit(w)
    <2>1. PICK b \in Bits, m \in known: \/ Call(Command("mw", w, m \cup {b}, {b}))
                                        \/ Call(Command("mw", w, m \ {b}, {b}))
      BY <1>4 DEF ForceBit
    <2>2. m \cup {b} \in Words /\ m \ {b} \in Words /\ {b} \in Words
      BY DEF IInv, TypeOK, Words
    <2> QED  BY <1>1, <2>1, <2>2, CallStep
  <1> QED  BY <1>3, <1>4

LEMMA ProgramStep ==
    ASSUME IInv, NEW op \in {"stop", "run"}, Program(op)
    PROVE  IInv'
  <1>1. Command(op, Bar, {}, {}) \in Issued
    BY DEF Issued, Program
  <1>2. Command(op, Bar, {}, {}).by \in Callers
    BY DEF Command, Callers
  <1> QED  BY <1>1, <1>2, CallStep DEF Program

LEMMA RemovedIs ==
    ASSUME NEW S, NEW s \in Seq(S), NEW i \in DOMAIN s
    PROVE  RemoveAt(s, i) \in Seq(S)
  <1>1. i \in 1..Len(s) /\ Len(s) \in Nat /\ \A j \in 1..Len(s): s[j] \in S
    OBVIOUS
  <1>2. SubSeq(s, 1, i - 1) \in Seq(S)
    BY <1>1, SubSeqProperties
  <1>3. SubSeq(s, i + 1, Len(s)) \in Seq(S)
    BY <1>1, SubSeqProperties
  <1> QED  BY <1>2, <1>3, ConcatProperties DEF RemoveAt

LEMMA TimeoutStep == IInv /\ Timeout => IInv'
  <1> SUFFICES ASSUME IInv, Timeout  PROVE IInv'
    OBVIOUS
  <1>1. PICK wire \in Seq(Requests): /\ Finish("rejected", "none", <<>>, wire, rx)
                                     /\ tx = <<>> => wire = <<>>
    <2>1. tx \in Seq(Requests)
      BY DEF IInv, TypeOK
    <2>2. CASE Finish("rejected", "none", <<>>, tx, rx)
      BY <2>1, <2>2
    <2>3. ASSUME NEW i \in Own(tx), Finish("rejected", "none", <<>>, RemoveAt(tx, i), rx)
          PROVE  \E wire \in Seq(Requests): /\ Finish("rejected", "none", <<>>, wire, rx)
                                            /\ tx = <<>> => wire = <<>>
      <3>1. i \in DOMAIN tx
        BY DEF Own
      <3>2. RemoveAt(tx, i) \in Seq(Requests) /\ tx # <<>>
        BY <2>1, <3>1, RemovedIs
      <3> QED  BY <2>3, <3>2
    <2> QED  BY <2>2, <2>3 DEF Timeout
  <1>2. /\ TypeOK /\ CallersInv /\ current # NoCmd /\ UNCHANGED waiting
        /\ rx \in Seq(Lines) /\ <<>> \in Seq(Lines)
    BY Empties DEF IInv, TypeOK, Timeout
  <1>3. /\ queue' \in Seq(Issued) /\ current' \in Commands /\ tx' \in Seq(Requests)
        /\ rx' \in Seq(Lines) /\ chunk' \in Seq(Lines) /\ settled' \in Seq(Settlements)
        /\ settled' = Append(settled, Settlement(current, "rejected", "none"))
        /\ CallersInv' /\ OwnInv'
        /\ link' # "open" => queue' = queue /\ current' = NoCmd /\ tx' = Disowned(wire)
    BY <1>1, <1>2, FinishStep
  <1>4. /\ misses' \in 0..MaxMisses /\ state' \in {"disconnected", "connecting", "online", "error"}
        /\ state' = state \/ state' = "error"
    BY SessionAssumption DEF IInv, TypeOK, Timeout
  <1>5. TypeOK'
    BY <1>3, <1>4 DEF IInv, TypeOK, Timeout
  <1>6. LinkInv'
    <2>1. link' = link /\ state # "disconnected" /\ link \notin {"opening", "closed"}
            /\ UNCHANGED <<polling, known, fault>>
      BY <1>2 DEF IInv, LinkInv, Timeout
    <2>2. state' # "disconnected"
      BY <1>4, <2>1
    <2>3. CASE link # "open"
      <3>1. tx' = <<>> /\ rx' = <<>> /\ chunk' = <<>>
        BY <1>1, <1>3, <2>1, <2>3, DisownedEmpty DEF IInv, LinkInv, Finish
      <3>2. \A j \in DOMAIN settled': settled'[j].out = "rejected"
        <4>1. settled = <<>>
          BY DEF Timeout, Calm
        <4> QED  BY <1>3, <4>1 DEF Settlement
      <3> QED  BY <2>1, <2>2, <2>3, <3>1, <3>2 DEF LinkInv
    <2>4. CASE link = "open"
      BY <2>1, <2>2, <2>4 DEF LinkInv
    <2> QED  BY <2>3, <2>4
  <1>7. InTimeInv' /\ KnownInv' /\ FaultInv'
    BY Silent DEF IInv, InTimeInv, Timeout
  <1> QED  BY <1>3, <1>5, <1>6, <1>7 DEF IInv

-----------------------------------------------------------------------------
(***************************************************************************)
(* onLine()                                                                *)
(***************************************************************************)
FirstLines(s, n) == SubSeq(s, 1, n)
LinesAfter(s, n)  == SubSeq(s, n + 1, Len(s))

LEMMA Split ==
    ASSUME NEW S, NEW s \in Seq(S), NEW n \in 1..Len(s)
    PROVE  /\ FirstLines(s, n) \in Seq(S) /\ LinesAfter(s, n) \in Seq(S) /\ FirstLines(s, n) # <<>>
           /\ DOMAIN FirstLines(s, n) = 1..n /\ DOMAIN LinesAfter(s, n) = 1..Len(s) - n
           /\ Len(s) \in Nat /\ DOMAIN s = 1..Len(s)
           /\ \A i \in 1..n: FirstLines(s, n)[i] = s[i]
           /\ \A i \in 1..Len(s) - n: LinesAfter(s, n)[i] = s[n + i]
  <1> DEFINE a == FirstLines(s, n)
             b == LinesAfter(s, n)
             L == Len(s)
             m == n + 1
  <1>1. L \in Nat /\ n \in Nat /\ n <= L /\ 1 <= n /\ DOMAIN s = 1..L /\ \A j \in 1..L: s[j] \in S
    OBVIOUS
  <1>2. m \in Int /\ m = n + 1
    BY <1>1
  <1>3. a = SubSeq(s, 1, n) /\ b = SubSeq(s, m, L)
    BY DEF FirstLines, LinesAfter
  <1> HIDE DEF a, b, L, m
  <1>4. a \in Seq(S) /\ Len(a) = n /\ \A i \in 1..n: a[i] = s[i]
    BY <1>1, <1>3, SubSeqProperties
  <1>5. \A i \in m..L: s[i] \in S
    BY <1>1, <1>2
  <1>6. /\ b \in Seq(S)
        /\ Len(b) = IF m <= L THEN L - m + 1 ELSE 0
        /\ \A i \in 1..L - m + 1: b[i] = s[m + i - 1]
    BY <1>1, <1>2, <1>3, <1>5, SubSeqProperties
  <1>7. Len(b) = L - n
    BY <1>1, <1>2, <1>6
  <1>8. ASSUME NEW i \in 1..L - n  PROVE b[i] = s[n + i]
    <2>1. i \in 1..L - m + 1 /\ m + i - 1 = n + i
      BY <1>1, <1>2
    <2> QED  BY <1>6, <2>1
  <1>9. DOMAIN a = 1..n /\ DOMAIN b = 1..L - n
    BY <1>1, <1>4, <1>6, <1>7, LenProperties
  <1>10. a # <<>>
    BY <1>1, <1>4
  <1> QED  BY <1>1, <1>4, <1>6, <1>8, <1>9, <1>10 DEF a, b, L

LEMMA ReceiveStep == IInv /\ Receive => IInv'
  <1> SUFFICES ASSUME IInv, Receive  PROVE IInv'
    OBVIOUS
  <1>1. /\ chunk = <<>> /\ settled = <<>> /\ rx \in Seq(Lines)
        /\ UNCHANGED <<link, sessVars, tx, prog, word, timedOut>>
    BY DEF IInv, TypeOK, Receive, Calm
  <1>2. PICK n \in 1..Len(rx): chunk' = SubSeq(rx, 1, n) /\ rx' = SubSeq(rx, n + 1, Len(rx))
    BY SessionAssumption DEF Receive
  <1>3. /\ chunk' \in Seq(Lines) /\ rx' \in Seq(Lines)
        /\ DOMAIN chunk' = 1..n /\ DOMAIN rx' = 1..Len(rx) - n /\ chunk' # <<>>
        /\ Len(rx) \in Nat /\ DOMAIN rx = 1..Len(rx)
        /\ \A i \in 1..n: chunk'[i] = rx[i]
        /\ \A i \in 1..Len(rx) - n: rx'[i] = rx[n + i]
    <2>1. chunk' = FirstLines(rx, n) /\ rx' = LinesAfter(rx, n)
      BY <1>2 DEF FirstLines, LinesAfter
    <2> QED  BY <1>1, <2>1, Split
  <1>4. link = "open" /\ n \in Nat /\ 1 <= n /\ n <= Len(rx)
    <2>1. n \in Nat /\ 1 <= n /\ n <= Len(rx)
      BY <1>3
    <2>2. rx # <<>>
      BY <2>1
    <2> QED  BY <2>1, <2>2 DEF IInv, LinkInv
  <1>5. \A i \in DOMAIN chunk': i \in DOMAIN rx /\ chunk'[i] = rx[i] /\ i <= n
    BY <1>3, <1>4
  <1>6. \A i \in DOMAIN rx': n + i \in DOMAIN rx /\ rx'[i] = rx[n + i] /\ i \in Nat /\ 1 <= i
    BY <1>3, <1>4
  <1>7. \A p \in DOMAIN rx: \/ p \in DOMAIN chunk' /\ chunk'[p] = rx[p] /\ p <= n
                            \/ p - n \in DOMAIN rx' /\ rx'[p - n] = rx[p] /\ ~(p <= n)
    BY <1>3, <1>4
  <1>8. TypeOK' /\ LinkInv'
    BY <1>1, <1>3, <1>4 DEF IInv, TypeOK, LinkInv, sessVars
  <1>9. OwnInv'
    <2>1. Asks(current', tx') /\ Answered(current', rx') /\ Answered(current', chunk')
      BY <1>1, <1>5, <1>6 DEF IInv, OwnInv, Asks, Answered, sessVars
    <2>2. NoOwn(chunk)
      BY <1>1 DEF NoOwn
    <2>3. AskedOnce(current, tx, rx, chunk)
      BY <1>4 DEF IInv, OwnInv
    <2>4. CASE NoOwn(rx)
      <3>1. NoOwn(rx') /\ NoOwn(chunk')
        BY <1>5, <1>6, <2>4 DEF NoOwn
      <3>2. ~OneOwn(rx)
        BY <2>4 DEF NoOwn, OneOwn
      <3>3. ~OneOwn(chunk)
        BY <1>1 DEF OneOwn
      <3>4. AskedOnce(current, tx, rx', chunk')
        BY <2>3, <3>1, <3>2, <3>3 DEF AskedOnce
      <3> QED  BY <1>1, <2>1, <3>4 DEF OwnInv, sessVars
    <2>5. CASE ~NoOwn(rx)
      <3>1. current # NoCmd /\ NoOwn(tx) /\ OneOwn(rx)
        BY <1>1, <2>3, <2>5 DEF AskedOnce, OneOwn
      <3>2. PICK p \in DOMAIN rx: rx[p].own /\ \A j \in DOMAIN rx: rx[j].own => j = p
        BY <3>1 DEF OneOwn
      <3>3. CASE p <= n
        <4>1. p \in DOMAIN chunk' /\ chunk'[p].own
          BY <1>7, <3>2, <3>3
        <4>2. \A j \in DOMAIN chunk': chunk'[j].own => j = p
          BY <1>5, <3>2
        <4>3. NoOwn(rx')
          BY <1>4, <1>6, <3>2, <3>3 DEF NoOwn
        <4> QED  BY <1>1, <2>1, <3>1, <4>1, <4>2, <4>3 DEF OwnInv, AskedOnce, OneOwn, sessVars
      <3>4. CASE ~(p <= n)
        <4>1. p - n \in DOMAIN rx' /\ rx'[p - n].own
          BY <1>7, <3>2, <3>4
        <4>2. \A j \in DOMAIN rx': rx'[j].own => j = p - n
          BY <1>3, <1>4, <1>6, <3>2
        <4>3. NoOwn(chunk')
          BY <1>5, <3>2, <3>4 DEF NoOwn
        <4> QED  BY <1>1, <2>1, <3>1, <4>1, <4>2, <4>3 DEF OwnInv, AskedOnce, OneOwn, sessVars
      <3> QED  BY <3>3, <3>4
    <2> QED  BY <2>4, <2>5
  <1>10. CallersInv'
    BY <1>1, SameQueue DEF IInv, sessVars
  <1>11. InTimeInv'
    BY <1>1, <1>5, <1>6 DEF IInv, InTimeInv, OwnOrFault
  <1>12. KnownInv'
    <2>1. Acknowledges(rx) => Acknowledges(rx') \/ Acknowledges(chunk')
      BY <1>7 DEF Acknowledges
    <2>2. ~Acknowledges(chunk)
      BY <1>1 DEF Acknowledges
    <2>3. Fresh(rx) => Fresh(rx)' /\ Fresh(chunk)'
      BY <1>1, <1>5, <1>6 DEF Fresh, sessVars
    <2> QED  BY <1>1, <2>1, <2>2, <2>3 DEF IInv, KnownInv, sessVars
  <1>13. FaultInv'
    <2> SUFFICES ASSUME link = "open", ~timedOut, prog = "run"
                 PROVE  FaultInv'
      BY <1>1 DEF FaultInv
    <2>1. CASE NoFault(rx)
      <3>1. NoFault(rx') /\ NoFault(chunk')
        BY <1>5, <1>6, <2>1 DEF NoFault
      <3>2. CASE current.op = "run" /\ RunAnswered(rx)
        <4>1. PICK p \in DOMAIN rx: rx[p].own /\ rx[p].kind = "ok"
          BY <3>2 DEF RunAnswered
        <4>2. RunAnswered(rx') \/ RunAnswered(chunk')
          BY <1>7, <3>1, <4>1 DEF RunAnswered, NoFault
        <4> QED  BY <1>1, <3>1, <3>2, <4>2 DEF FaultInv, sessVars
      <3>3. CASE ~fault
        BY <1>1, <3>1, <3>3 DEF FaultInv, sessVars
      <3>4. ~RunAnswered(chunk) /\ ~RunSettled(settled)
        BY <1>1 DEF RunAnswered, RunSettled
      <3> QED  BY <3>2, <3>3, <3>4 DEF IInv, FaultInv
    <2>2. CASE ~NoFault(rx)
      <3>1. ~RunAnswered(chunk)
        BY <1>1 DEF RunAnswered
      <3>2. current.op = "run" /\ RunAnswered(rx)
        BY <2>2, <3>1 DEF IInv, FaultInv
      <3>3. PICK p \in DOMAIN rx: /\ rx[p].own /\ rx[p].kind = "ok"
                                  /\ \A i \in DOMAIN rx: rx[i].kind = "fault" => i < p
        BY <3>2 DEF RunAnswered
      <3>4. CASE p <= n
        <4>1. p \in DOMAIN chunk' /\ chunk'[p] = rx[p]
          BY <1>7, <3>4
        <4>2. RunAnswered(chunk')
          BY <1>5, <3>3, <4>1 DEF RunAnswered
        <4>3. NoFault(rx')
          BY <1>3, <1>4, <1>6, <3>3, <3>4 DEF NoFault
        <4> QED  BY <1>1, <3>2, <4>2, <4>3 DEF FaultInv, sessVars
      <3>5. CASE ~(p <= n)
        <4>1. p - n \in DOMAIN rx' /\ rx'[p - n] = rx[p]
          BY <1>7, <3>5
        <4>2. \A i \in DOMAIN rx': rx'[i].kind = "fault" => i < p - n
          BY <1>3, <1>4, <1>6, <3>3
        <4>3. RunAnswered(rx')
          BY <3>3, <4>1, <4>2 DEF RunAnswered
        <4> QED  BY <1>1, <3>2, <4>3 DEF FaultInv, sessVars
      <3> QED  BY <3>4, <3>5
    <2> QED  BY <2>1, <2>2
  <1> QED  BY <1>8, <1>9, <1>10, <1>11, <1>12, <1>13 DEF IInv

LEMMA HeardIs ==
    ASSUME IInv, chunk # <<>>
    PROVE  /\ link = "open" /\ Heard = chunk[1] /\ Heard \in Lines
           /\ Tail(chunk) \in Seq(Lines)
           /\ DOMAIN chunk = 1..Len(chunk) /\ Len(chunk) \in Nat /\ 1 \in DOMAIN chunk
           /\ DOMAIN Tail(chunk) = 1..Len(chunk) - 1
           /\ \A i \in DOMAIN Tail(chunk): i + 1 \in DOMAIN chunk /\ Tail(chunk)[i] = chunk[i + 1]
  <1>1. chunk \in Seq(Lines)
    BY DEF IInv, TypeOK
  <1> QED  BY <1>1, Tails DEF IInv, LinkInv, Heard

\* An answer of the current command's own is never passed over.
LEMMA OwnIsAccepted ==
    ASSUME IInv, chunk # <<>>, Heard.own
    PROVE  /\ Heard.kind = "img" => current.op = "img"
           /\ Heard.kind # "fault"
           /\ Heard.kind # "img" => Accepted
           /\ current # NoCmd /\ NoOwn(tx) /\ NoOwn(rx)
           /\ \A j \in DOMAIN chunk: chunk[j].own => j = 1
  <1>1. link = "open" /\ Heard = chunk[1] /\ 1 \in DOMAIN chunk
    BY HeardIs
  <1>2. ~NoOwn(chunk)
    BY <1>1 DEF NoOwn
  <1>3. current # NoCmd /\ NoOwn(tx) /\ NoOwn(rx) /\ OneOwn(chunk)
    BY <1>1, <1>2 DEF IInv, OwnInv, AskedOnce
  <1>4. \A j \in DOMAIN chunk: chunk[j].own => j = 1
    BY <1>1, <1>3 DEF OneOwn
  <1>5. Heard.kind \in Answers(current)
    BY <1>1 DEF IInv, OwnInv, Answered
  <1>6. current.op \in {"img", "info", "mw", "stop", "run"}
    BY <1>3, Kinds DEF IInv, TypeOK
  <1>7. /\ Heard.kind = "img" => current.op = "img"
        /\ Heard.kind # "fault"
        /\ Heard.kind # "img" => Accepted
    BY <1>3, <1>5, <1>6 DEF Answers, Accepted, Expect
  <1> QED  BY <1>3, <1>4, <1>7

LEMMA Nothing ==
    ASSUME NEW S, NEW s \in Seq(S), \A i \in DOMAIN s: FALSE
    PROVE  s = <<>> /\ Len(s) = 0
  <1>1. Len(s) \in Nat /\ DOMAIN s = 1..Len(s)
    OBVIOUS
  <1>2. 1 \notin 1..Len(s)
    BY <1>1
  <1>3. Len(s) = 0
    <2> DEFINE n == Len(s)
    <2>1. n \in Nat /\ 1 \notin 1..n
      BY <1>1, <1>2
    <2> HIDE DEF n
    <2>2. n = 0
      BY <2>1
    <2> QED  BY <2>2 DEF n
  <1> QED  BY <1>3

LEMMA DisownedKeeps ==
    ASSUME NEW s \in Seq(Lines)
    PROVE  /\ NoFault(s) => NoFault(Disowned(s))
           /\ OwnOrFault(s) /\ NoOwn(s) => OwnOrFault(Disowned(s))
           /\ ~ProgramImage /\ OwnOrFault(s) /\ NoOwn(s) => Disowned(s) = <<>>
  <1>1. /\ DOMAIN Disowned(s) = DOMAIN s
        /\ \A i \in DOMAIN s: Disowned(s)[i].kind = s[i].kind
    BY DisownedIs, DisownedLines
  <1>2. NoFault(s) => NoFault(Disowned(s))
    BY <1>1 DEF NoFault
  <1>3. OwnOrFault(s) /\ NoOwn(s) => OwnOrFault(Disowned(s))
    BY <1>1 DEF OwnOrFault, NoOwn
  <1>4. ASSUME ~ProgramImage, OwnOrFault(s), NoOwn(s)  PROVE Disowned(s) = <<>>
    <2>1. \A i \in DOMAIN s: FALSE
      BY <1>4 DEF OwnOrFault, NoOwn
    <2> QED  BY <2>1, Nothing, DisownedEmpty
  <1> QED  BY <1>2, <1>3, <1>4

\* What is left of the chunk after its first line.
LEMMA TailKeeps ==
    ASSUME NEW s \in Seq(Lines), s # <<>>
    PROVE  /\ NoFault(s) => NoFault(Tail(s))
           /\ OwnOrFault(s) => OwnOrFault(Tail(s))
           /\ NoOwn(s) => NoOwn(Tail(s))
           /\ (\A j \in DOMAIN s: s[j].own => j = 1) => NoOwn(Tail(s))
  <1>1. \A i \in DOMAIN Tail(s): i + 1 \in DOMAIN s /\ Tail(s)[i] = s[i + 1] /\ i + 1 # 1
    BY Tails
  <1> QED  BY <1>1 DEF NoFault, OwnOrFault, NoOwn

\* A line settles the current command.
LEMMA SettleStep ==
    ASSUME IInv, chunk # <<>>, current # NoCmd,
           NEW out \in {"ok", "error", "rejected"}, Settle(out),
           Heard.kind = "img" => known' = {Heard.word} /\ current.op = "img",
           Heard.kind # "img" => known' = known /\ Accepted /\ out = Verdict,
           Heard.kind # "fault",
           misses' \in 0..MaxMisses, state' \in {state, "online"},
           UNCHANGED <<link, fault, polling, identity, waiting, prog, word, timedOut>>
    PROVE  IInv'
  <1> DEFINE r == Settlement(current, out, Heard.prog)
  <1>1. /\ link = "open" /\ Heard = chunk[1] /\ Heard \in Lines
        /\ Tail(chunk) \in Seq(Lines) /\ 1 \in DOMAIN chunk
    BY HeardIs
  <1>2. /\ tx \in Seq(Requests) /\ rx \in Seq(Lines) /\ chunk \in Seq(Lines)
        /\ settled \in Seq(Settlements) /\ TypeOK /\ CallersInv /\ current \in Commands
    BY DEF IInv, TypeOK
  <1>3. Heard.prog \in Programs \cup {"none"} /\ Heard.word \in Words
    BY <1>1 DEF Lines
  <1>4. /\ queue' \in Seq(Issued) /\ current' \in Commands /\ tx' \in Seq(Requests)
        /\ rx' \in Seq(Lines) /\ chunk' \in Seq(Lines) /\ settled' \in Seq(Settlements)
        /\ settled' = Append(settled, r) /\ r \in Settlements
        /\ CallersInv' /\ OwnInv'
        /\ NoOwn(rx') /\ NoOwn(chunk')
        /\ tx' = Disowned(tx) \/ \E t \in Requests: t.own /\ tx' = Append(Disowned(tx), t)
    BY <1>1, <1>2, <1>3, FinishStep DEF Settle
  <1>5. chunk' = Disowned(Tail(chunk)) /\ rx' = Disowned(rx)
    BY DEF Settle, Finish
  <1>6. r.cmd = current /\ r.out = out
    BY DEF Settlement
  <1> HIDE DEF r
  <1>7. TypeOK'
    BY <1>3, <1>4 DEF IInv, TypeOK
  <1>8. LinkInv'
    BY <1>1 DEF IInv, LinkInv
  <1>9. CASE timedOut = TRUE
    BY <1>4, <1>7, <1>8, <1>9, Silent DEF IInv, InTimeInv
  <1>10. CASE timedOut = FALSE
    <2>1. AllOwn(tx) /\ OwnOrFault(rx) /\ OwnOrFault(chunk)
      BY <1>1, <1>10 DEF IInv, InTimeInv
    <2>2. Heard.own
      BY <1>1, <2>1 DEF OwnOrFault
    <2>3. NoOwn(tx) /\ NoOwn(rx) /\ \A j \in DOMAIN chunk: chunk[j].own => j = 1
      BY <2>2, OwnIsAccepted
    <2>4. OwnOrFault(Tail(chunk)) /\ NoOwn(Tail(chunk))
      BY <1>2, <2>1, <2>3, TailKeeps
    <2>5. InTimeInv'
      <3>1. OwnOrFault(rx') /\ OwnOrFault(chunk')
        BY <1>1, <1>2, <1>5, <2>1, <2>3, <2>4, DisownedKeeps
      <3>2. AllOwn(tx')
        <4>1. \A i \in DOMAIN tx: FALSE
          BY <2>1, <2>3 DEF AllOwn, NoOwn
        <4>2. Disowned(tx) \in Seq(Requests) /\ \A i \in DOMAIN Disowned(tx): FALSE
          BY <1>2, <4>1, DisownedIs
        <4>3. ASSUME NEW t \in Requests, t.own, tx' = Append(Disowned(tx), t)
              PROVE  AllOwn(tx')
          <5> DEFINE d == Disowned(tx)
          <5>1. d \in Seq(Requests) /\ \A i \in DOMAIN d: FALSE
            BY <4>2
          <5>2. tx' = Append(d, t)
            BY <4>3
          <5> HIDE DEF d
          <5>3. /\ Len(d) \in Nat /\ DOMAIN d = 1..Len(d) /\ DOMAIN tx' = 1..Len(d) + 1
                /\ tx'[Len(d) + 1] = t
            BY <5>1, <5>2, Appends
          <5>4. Len(d) = 0
            BY <5>1, Nothing
          <5> QED  BY <4>3, <5>3, <5>4 DEF AllOwn
        <4> QED  BY <1>4, <4>2, <4>3 DEF AllOwn
      <3> QED  BY <3>1, <3>2 DEF IInv, InTimeInv
    <2>6. KnownInv'
      <3> SUFFICES ASSUME ~ProgramImage  PROVE KnownInv'
        BY DEF KnownInv
      <3>1. rx' = <<>> /\ chunk' = <<>>
        BY <1>1, <1>2, <1>5, <2>1, <2>3, <2>4, DisownedKeeps
      <3>2. /\ Fresh(rx) /\ Fresh(chunk) /\ settled = <<>>
            /\ known \subseteq {word} \/ Acknowledges(rx) \/ Acknowledges(chunk) \/ Acknowledged(settled)
        BY <1>1, <1>10 DEF IInv, KnownInv
      <3>3. settled' = <<r>>
        BY <1>4, <3>2
      <3>4. Len(settled') = 1 /\ settled' # <<>> /\ settled'[1].cmd = current /\ settled'[1].out = out
        BY <1>6, <3>3
      <3>5. Heard.word = word /\ (Heard.kind = "mw" => current.bits # {} /\ current.val = word)
        BY <1>1, <3>2 DEF Fresh
      <3>6. current.op = "mw" /\ out = "ok" => Heard.kind = "mw"
        BY DEF Accepted, Verdict, Expect
      <3>7. Acknowledged(settled') => settled'[1].cmd.bits # {} /\ settled'[1].cmd.val = word
        BY <3>4, <3>5, <3>6 DEF Acknowledged
      <3>8. known' \subseteq {word} \/ Acknowledged(settled')
        <4>1. CASE Heard.kind = "img"
          BY <3>5, <4>1
        <4>2. CASE Heard.kind = "mw"
          <5>1. current.op = "mw" /\ out = "ok"
            BY <4>2 DEF Accepted, Verdict
          <5> QED  BY <3>4, <5>1 DEF Acknowledged
        <4>3. CASE Heard.kind \notin {"img", "mw"}
          <5>1. ~Acknowledges(rx)
            BY <2>1, <2>3 DEF Acknowledges, OwnOrFault, NoOwn
          <5>2. ~Acknowledges(chunk)
            BY <1>1, <2>1, <2>3, <4>3 DEF Acknowledges, OwnOrFault
          <5>3. ~Acknowledged(settled)
            BY <3>2 DEF Acknowledged
          <5> QED  BY <3>2, <4>3, <5>1, <5>2, <5>3
        <4> QED  BY <4>1, <4>2, <4>3
      <3>9. Fresh(rx)' /\ Fresh(chunk)'
        BY <3>1 DEF Fresh
      <3> QED  BY <3>1, <3>4, <3>7, <3>8, <3>9 DEF KnownInv
    <2>7. FaultInv'
      <3> SUFFICES ASSUME prog = "run"  PROVE FaultInv'
        BY DEF FaultInv
      <3>1. NoFault(rx) => NoFault(rx')
        BY <1>2, <1>5, DisownedKeeps
      <3>2. NoFault(chunk) => NoFault(chunk')
        BY <1>1, <1>2, <1>5, TailKeeps, DisownedKeeps
      <3>3. ~RunAnswered(rx)
        BY <2>3 DEF RunAnswered, NoOwn
      <3>4. /\ DOMAIN settled' = 1..Len(settled) + 1 /\ Len(settled) \in Nat
            /\ settled'[Len(settled) + 1] = r
            /\ DOMAIN settled = 1..Len(settled) /\ \A j \in DOMAIN settled: settled'[j] = settled[j]
        BY <1>2, <1>4, Appends
      <3>5. CASE ~fault /\ NoFault(rx) /\ NoFault(chunk)
        BY <3>1, <3>2, <3>5 DEF FaultInv
      <3>6. CASE current.op = "run" /\ RunAnswered(chunk) /\ NoFault(rx)
        <4>1. /\ Heard.kind = "ok" /\ \A i \in DOMAIN chunk: chunk[i].kind = "fault" => i < 1
          BY <1>1, <2>3, <3>6 DEF RunAnswered
        <4>2. NoFault(chunk)
          BY <1>2, <4>1 DEF NoFault
        <4>3. out = "ok"
          BY <4>1 DEF Verdict
        <4>4. RunSettled(settled')
          <5>1. Len(settled) + 1 \in DOMAIN settled'
            BY <3>4
          <5> QED  BY <1>6, <3>4, <3>6, <4>3, <5>1 DEF RunSettled
        <4> QED  BY <3>1, <3>2, <3>6, <4>2, <4>4 DEF FaultInv
      <3>7. CASE RunSettled(settled) /\ NoFault(rx) /\ NoFault(chunk)
        <4>1. RunSettled(settled')
          BY <3>4, <3>7 DEF RunSettled
        <4> QED  BY <3>1, <3>2, <3>7, <4>1 DEF FaultInv
      <3> QED  BY <1>1, <1>10, <3>3, <3>5, <3>6, <3>7 DEF IInv, FaultInv
    <2> QED  BY <1>4, <1>7, <1>8, <2>5, <2>6, <2>7 DEF IInv
  <1> QED  BY <1>9, <1>10 DEF IInv, TypeOK

\* A line that is nobody's is passed over.
LEMMA PassStep ==
    ASSUME IInv, chunk # <<>>, ~Heard.own, PassOver,
           Heard.kind = "img" => known' = {Heard.word},
           Heard.kind # "img" => known' = known,
           fault' = IF Heard.kind = "fault" THEN TRUE ELSE fault,
           misses' \in 0..MaxMisses, state' \in {state, "online"},
           UNCHANGED <<link, polling, identity, waiting, prog, word, timedOut>>
    PROVE  IInv'
  <1>1. /\ link = "open" /\ Heard = chunk[1] /\ Heard \in Lines
        /\ Tail(chunk) \in Seq(Lines) /\ 1 \in DOMAIN chunk
        /\ DOMAIN chunk = 1..Len(chunk) /\ Len(chunk) \in Nat
        /\ DOMAIN Tail(chunk) = 1..Len(chunk) - 1
        /\ \A i \in DOMAIN Tail(chunk): i + 1 \in DOMAIN chunk /\ Tail(chunk)[i] = chunk[i + 1]
    BY HeardIs
  <1>2. Heard.word \in Words
    BY <1>1 DEF Lines
  <1>3. chunk' = Tail(chunk) /\ UNCHANGED <<settled, queue, current, tx, rx>> /\ chunk \in Seq(Lines)
    BY DEF PassOver, IInv, TypeOK
  <1>4. \A j \in DOMAIN chunk: j = 1 \/ (j - 1 \in DOMAIN chunk' /\ chunk'[j - 1] = chunk[j])
    BY <1>1, <1>3
  <1>5. \A i \in DOMAIN chunk': i \in Nat /\ i + 1 \in DOMAIN chunk /\ chunk'[i] = chunk[i + 1]
    BY <1>1, <1>3
  <1>6. TypeOK' /\ LinkInv'
    BY <1>1, <1>2, <1>3 DEF IInv, TypeOK, LinkInv
  <1>7. CallersInv'
    BY <1>3, SameQueue DEF IInv
  <1>8. OwnInv'
    <2>1. Answered(current, chunk) => Answered(current, chunk')
      BY <1>5 DEF Answered
    <2>2. NoOwn(chunk) => NoOwn(chunk')
      BY <1>5 DEF NoOwn
    <2>3. ASSUME OneOwn(chunk)  PROVE OneOwn(chunk')
      <3>1. PICK p \in DOMAIN chunk: chunk[p].own /\ \A j \in DOMAIN chunk: chunk[j].own => j = p
        BY <2>3 DEF OneOwn
      <3>2. p # 1
        BY <1>1, <3>1
      <3>3. p - 1 \in DOMAIN chunk' /\ chunk'[p - 1].own
        BY <1>4, <3>1, <3>2
      <3>4. \A j \in DOMAIN chunk': chunk'[j].own => j = p - 1
        BY <1>1, <1>5, <3>1
      <3> QED  BY <3>3, <3>4 DEF OneOwn
    <2>4. AskedOnce(current, tx, rx, chunk) => AskedOnce(current, tx, rx, chunk')
      BY <2>2, <2>3 DEF AskedOnce
    <2> QED  BY <1>1, <1>3, <2>1, <2>4 DEF IInv, OwnInv
  <1>9. InTimeInv'
    <2>1. OwnOrFault(chunk) => OwnOrFault(chunk')
      BY <1>5 DEF OwnOrFault
    <2> QED  BY <1>3, <2>1 DEF IInv, InTimeInv
  <1>10. ~timedOut => Heard.kind = "fault" /\ ProgramImage
    BY <1>1 DEF IInv, InTimeInv, OwnOrFault
  <1>11. KnownInv'
    BY <1>10 DEF KnownInv
  <1>12. FaultInv'
    <2> SUFFICES ASSUME ~timedOut, prog = "run"  PROVE FaultInv'
      BY DEF FaultInv
    <2>1. ~NoFault(chunk)
      BY <1>1, <1>10 DEF NoFault
    <2>2. CASE current.op = "run" /\ RunAnswered(rx)
      BY <1>3, <2>2 DEF FaultInv
    <2>3. CASE current.op = "run" /\ RunAnswered(chunk) /\ NoFault(rx)
      <3>1. PICK p \in DOMAIN chunk: /\ chunk[p].own /\ chunk[p].kind = "ok"
                                     /\ \A i \in DOMAIN chunk: chunk[i].kind = "fault" => i < p
        BY <2>3 DEF RunAnswered
      <3>2. p # 1
        BY <1>1, <3>1
      <3>3. p - 1 \in DOMAIN chunk' /\ chunk'[p - 1] = chunk[p]
        BY <1>4, <3>2
      <3>4. \A i \in DOMAIN chunk': chunk'[i].kind = "fault" => i < p - 1
        BY <1>1, <1>5, <3>1
      <3>5. RunAnswered(chunk')
        BY <3>1, <3>3, <3>4 DEF RunAnswered
      <3> QED  BY <1>3, <2>3, <3>5 DEF FaultInv
    <2> QED  BY <1>1, <2>1, <2>2, <2>3 DEF IInv, FaultInv
  <1> QED  BY <1>6, <1>7, <1>8, <1>9, <1>11, <1>12 DEF IInv

LEMMA OnLineStep == IInv /\ OnLine => IInv'
  <1> SUFFICES ASSUME IInv, OnLine  PROVE IInv'
    OBVIOUS
  <1>1. /\ chunk # <<>>
        /\ UNCHANGED <<link, polling, identity, waiting, prog, word, timedOut>>
    BY DEF OnLine
  <1>2. misses \in 0..MaxMisses /\ 0 \in 0..MaxMisses /\ current \in Commands /\ fault \in BOOLEAN
    BY SessionAssumption DEF IInv, TypeOK
  <1>3. CASE Frame
    <2>1. /\ Heard.kind = "img" /\ known' = {Heard.word} /\ misses' = 0 /\ state' = "online"
          /\ UNCHANGED fault
      BY <1>3 DEF Frame, FrameState
    <2>2. CASE current.op = "img"
      <3>1. current # NoCmd /\ Settle("ok")
        BY <1>3, <2>2 DEF Frame, NoCmd, Command
      <3> QED  BY <1>1, <1>2, <2>1, <2>2, <3>1, SettleStep
    <2>3. CASE current.op # "img"
      <3>1. ~Heard.own /\ PassOver
        BY <1>1, <1>3, <2>1, <2>3, OwnIsAccepted DEF Frame
      <3> QED  BY <1>1, <1>2, <2>1, <3>1, PassStep
    <2> QED  BY <2>2, <2>3
  <1>4. CASE FaultLine
    <2>1. Heard.kind = "fault" /\ fault' = TRUE /\ PassOver /\ UNCHANGED <<known, misses, state>>
      BY <1>4 DEF FaultLine
    <2>2. ~Heard.own
      BY <1>1, <2>1, OwnIsAccepted
    <2> QED  BY <1>1, <1>2, <2>1, <2>2, PassStep
  <1>5. CASE OtherLine
    <2>1. Heard.kind \notin {"img", "fault"} /\ UNCHANGED <<known, misses, state, fault>>
      BY <1>5 DEF OtherLine
    <2>2. CASE Accepted
      <3>1. Settle(Verdict) /\ Verdict \in {"ok", "error", "rejected"}
        BY <1>5, <2>2 DEF OtherLine, Verdict
      <3>2. current # NoCmd
        BY <2>2 DEF Accepted, NoCmd, Command, Expect
      <3> HIDE DEF Verdict
      <3> QED  BY <1>1, <1>2, <2>1, <2>2, <3>1, <3>2, SettleStep
    <2>3. CASE ~Accepted
      <3>1. ~Heard.own /\ PassOver
        BY <1>1, <1>5, <2>1, <2>3, OwnIsAccepted DEF OtherLine
      <3> QED  BY <1>1, <1>2, <2>1, <3>1, PassStep
    <2> QED  BY <2>2, <2>3
  <1> QED  BY <1>3, <1>4, <1>5 DEF OnLine

-----------------------------------------------------------------------------
(***************************************************************************)
(* The continuations                                                       *)
(***************************************************************************)
LEMMA ResultIs ==
    ASSUME IInv, Turn
    PROVE  /\ settled \in Seq(Settlements) /\ settled # <<>> /\ chunk = <<>>
           /\ Result = settled[1] /\ Result \in Settlements
           /\ Result.cmd \in Issued /\ Result.prog \in Programs \cup {"none"}
           /\ Result.out = "rejected" \/ link = "open"
           /\ link # "opening"
           /\ Tail(settled) \in Seq(Settlements) /\ 1 \in DOMAIN settled
           /\ Len(settled) \in Nat /\ Len(settled) >= 1
           /\ Len(Tail(settled)) = Len(settled) - 1
           /\ \A j \in DOMAIN Tail(settled):
                j + 1 \in DOMAIN settled /\ Tail(settled)[j] = settled[j + 1]
           /\ \A j \in DOMAIN settled:
                j = 1 \/ (j - 1 \in DOMAIN Tail(settled) /\ settled[j] = Tail(settled)[j - 1])
  <1>1. settled \in Seq(Settlements) /\ settled # <<>> /\ chunk = <<>>
    BY DEF IInv, TypeOK, Turn
  <1>2. Result = settled[1] /\ Result \in Settlements /\ 1 \in DOMAIN settled
    BY <1>1, Tails DEF Result
  <1>3. Result.cmd \in Issued /\ Result.prog \in Programs \cup {"none"}
    BY <1>2 DEF Settlements
  <1>4. Result.out = "rejected" \/ link = "open"
    BY <1>2 DEF IInv, LinkInv
  <1>5. link # "opening"
    BY <1>1 DEF IInv, LinkInv
  <1>6. /\ Tail(settled) \in Seq(Settlements) /\ Len(settled) \in Nat /\ Len(settled) >= 1
        /\ Len(Tail(settled)) = Len(settled) - 1
        /\ \A j \in DOMAIN Tail(settled):
             j + 1 \in DOMAIN settled /\ Tail(settled)[j] = settled[j + 1]
        /\ \A j \in DOMAIN settled:
             j = 1 \/ (j - 1 \in DOMAIN Tail(settled) /\ settled[j] = Tail(settled)[j - 1])
    BY <1>1, Tails
  <1> QED  BY <1>1, <1>2, <1>3, <1>4, <1>5, <1>6

LEMMA NoneSettled == Len(<<>>) <= 1 /\ ~Acknowledged(<<>>)
  BY DEF Acknowledged

\* A continuation runs and sends nothing.
LEMMA PopStep ==
    ASSUME IInv, Turn, settled' = Tail(settled),
           waiting' = waiting \ {Result.cmd.by},
           known' = IF Result.cmd.op = "mw" THEN Applied(Result) ELSE known,
           identity' \in Programs \cup {"none"},
           Result.cmd.op = "run" => Result.out # "ok",
           UNCHANGED <<link, state, polling, queue, current, misses, fault, chunk, tx, rx,
                       prog, word, timedOut>>
    PROVE  IInv'
  <1> DEFINE r == Result
  <1>1. /\ settled \in Seq(Settlements) /\ settled # <<>> /\ chunk = <<>>
        /\ r = settled[1] /\ r.cmd \in Issued /\ link # "opening"
        /\ r.out = "rejected" \/ link = "open"
        /\ Tail(settled) \in Seq(Settlements)
        /\ Len(settled) \in Nat /\ Len(settled) >= 1 /\ Len(Tail(settled)) = Len(settled) - 1
        /\ \A j \in DOMAIN Tail(settled):
             j + 1 \in DOMAIN settled /\ Tail(settled)[j] = settled[j + 1]
        /\ \A j \in DOMAIN settled:
             j = 1 \/ (j - 1 \in DOMAIN Tail(settled) /\ settled[j] = Tail(settled)[j - 1])
    BY ResultIs
  <1>2. r.cmd.val \in Words
    BY <1>1, Kinds, NoCmdApart
  <1>3. known' = known \/ (r.cmd.op = "mw" /\ r.out = "ok" /\ known' = {r.cmd.val})
    BY DEF Applied
  <1>4. TypeOK'
    BY <1>1, <1>2, <1>3 DEF IInv, TypeOK
  <1>5. LinkInv'
    BY <1>1, <1>3 DEF IInv, LinkInv
  <1>6. OwnInv'
    BY SameWire DEF IInv
  <1>7. CallersInv'
    <2>1. queue \in Seq(Issued) /\ current \in Commands /\ Apart(queue, current, settled)
      BY DEF IInv, TypeOK, CallersInv
    <2>2. r = Head(settled)
      BY DEF Result
    <2>3. /\ Apart(queue, current, Tail(settled))
          /\ ~Owed(r.cmd.by, queue, current, Tail(settled))
          /\ \A b: Owed(b, queue, current, settled)
                     <=> Owed(b, queue, current, Tail(settled)) \/ b = r.cmd.by
      BY <1>1, <2>1, <2>2, ApartPopped
    <2>4. \A b \in Callers: b \in waiting <=> Owed(b, queue, current, settled)
      BY DEF IInv, CallersInv
    <2> HIDE DEF r
    <2>5. waiting' = waiting \ {r.cmd.by}
      BY DEF r
    <2> QED  BY <2>3, <2>4, <2>5 DEF CallersInv
  <1>8. InTimeInv'
    BY SameTime DEF IInv
  <1>9. KnownInv'
    <2> SUFFICES ASSUME link = "open", ~timedOut, ~ProgramImage  PROVE KnownInv'
      BY DEF KnownInv
    <2>1. /\ Fresh(rx) /\ Fresh(chunk) /\ Len(settled) <= 1
          /\ Acknowledged(settled) => r.cmd.bits # {} /\ r.cmd.val = word
          /\ known \subseteq {word} \/ Acknowledges(rx) \/ Acknowledges(chunk) \/ Acknowledged(settled)
      BY <1>1 DEF IInv, KnownInv
    <2>2. Tail(settled) = <<>>
      <3> DEFINE n == Len(settled)
                 t == Tail(settled)
      <3>1. n \in Nat /\ n >= 1 /\ n <= 1 /\ Len(t) = n - 1 /\ t \in Seq(Settlements)
        BY <1>1, <2>1
      <3> HIDE DEF n, t
      <3>2. Len(t) = 0
        BY <3>1
      <3>3. t = <<>>
        BY <3>1, <3>2
      <3> QED  BY <3>3 DEF t
    <2>3. ~Acknowledges(chunk)
      BY <1>1 DEF Acknowledges
    <2>4. Acknowledged(settled) <=> r.cmd.op = "mw" /\ r.out = "ok"
      BY <1>1 DEF Acknowledged
    <2>5. known' \subseteq {word} \/ Acknowledges(rx)
      <3>1. CASE Acknowledged(settled)
        <4>1. known' = IF known # {} THEN {word} ELSE known
          BY <2>1, <2>4, <3>1 DEF Applied
        <4> QED  BY <4>1
      <3>2. CASE ~Acknowledged(settled)
        BY <1>3, <2>1, <2>3, <2>4, <3>2
      <3> QED  BY <3>1, <3>2
    <2>6. Fresh(rx)' /\ Fresh(chunk)'
      BY <2>1 DEF Fresh
    <2>7. settled' = <<>> /\ Len(settled') <= 1 /\ ~Acknowledged(settled')
      <3>1. settled' = <<>>
        BY <2>2, Zenon
      <3> QED  BY <3>1, NoneSettled, Zenon
    <2>8. chunk' = <<>>
      BY <1>1
    <2> QED  BY <2>5, <2>6, <2>7, <2>8 DEF KnownInv
  <1>10. FaultInv'
    <2>1. RunSettled(settled) => RunSettled(Tail(settled))
      BY <1>1 DEF RunSettled
    <2> QED  BY <2>1 DEF IInv, FaultInv
  <1> QED  BY <1>4, <1>5, <1>6, <1>7, <1>8, <1>9, <1>10 DEF IInv

LEMMA PolledStep == IInv /\ Polled => IInv'
  <1> SUFFICES ASSUME IInv, Polled  PROVE IInv'
    OBVIOUS
  <1>1. Turn /\ Result.cmd.op = "img" /\ Result.cmd \in Issued
    BY ResultIs DEF Polled
  <1>2. Result.cmd.by = "poll"
    BY <1>1, Kinds, NoCmdApart
  <1>3. waiting \ {Result.cmd.by} = waiting
    BY <1>2, SessionAssumption DEF IInv, TypeOK, Bar
  <1>4. identity \in Programs \cup {"none"}
    BY DEF IInv, TypeOK
  <1> QED  BY <1>1, <1>3, <1>4, PopStep DEF Polled

LEMMA IdentifiedStep == IInv /\ Identified => IInv'
  <1> SUFFICES ASSUME IInv, Identified  PROVE IInv'
    OBVIOUS
  <1>1. Turn /\ Result.prog \in Programs \cup {"none"}
    BY ResultIs DEF Identified
  <1> QED  BY <1>1, PopStep DEF Identified

LEMMA WrittenStep == IInv /\ Written => IInv'
  <1> SUFFICES ASSUME IInv, Written  PROVE IInv'
    OBVIOUS
  <1>1. identity \in Programs \cup {"none"}
    BY DEF IInv, TypeOK
  <1> QED  BY <1>1, PopStep DEF Written

LEMMA CommandedStep == IInv /\ Commanded => IInv'
  <1> SUFFICES ASSUME IInv, Commanded  PROVE IInv'
    OBVIOUS
  <1> DEFINE r == Result
             c == Info(Bar)
             q == Append(queue, c)
             t == Tail(settled)
  <1>1. /\ Turn /\ r.cmd.op \in {"stop", "run"} /\ settled' = t
        /\ UNCHANGED <<link, state, polling, misses, known, identity, chunk, rx, prog, word,
                       timedOut>>
    BY DEF Commanded
  <1>2. /\ settled \in Seq(Settlements) /\ settled # <<>> /\ chunk = <<>>
        /\ r = Head(settled) /\ r = settled[1] /\ r.cmd \in Issued /\ 1 \in DOMAIN settled
        /\ r.out = "rejected" \/ link = "open"
        /\ t \in Seq(Settlements)
    BY <1>1, ResultIs DEF Result
  <1>3. r.cmd.by = Bar /\ ProgramImage
    BY <1>1, <1>2, Kinds, NoCmdApart
  <1>4. CASE r.out # "ok"
    <2>1. waiting' = waiting \ {r.cmd.by} /\ UNCHANGED <<fault, queue, current, tx>>
      BY <1>3, <1>4 DEF Commanded
    <2>2. identity \in Programs \cup {"none"}
      BY DEF IInv, TypeOK
    <2> QED  BY <1>1, <1>4, <2>1, <2>2, PopStep
  <1>5. CASE r.out = "ok"
    <2>1. /\ fault' = (fault /\ ~ClearsFault(r.cmd.op)) /\ Send(c) /\ UNCHANGED waiting
          /\ link = "open"
      BY <1>2, <1>5 DEF Commanded
    <2>2. /\ queue \in Seq(Issued) /\ current \in Commands /\ tx \in Seq(Requests)
          /\ rx \in Seq(Lines) /\ chunk \in Seq(Lines) /\ c \in Issued /\ c.by = Bar
      BY DEF IInv, TypeOK, Issued, Info, Command
    <2>3. q \in Seq(Issued) /\ Pump(q, current, tx)
      BY <2>1, <2>2, Appends DEF Send
    <2>4. /\ Apart(queue, current, t)
          /\ ~Owed(Bar, queue, current, t)
          /\ \A b: Owed(b, queue, current, settled) <=> Owed(b, queue, current, t) \/ b = Bar
      <3>1. Apart(queue, current, settled)
        BY DEF IInv, CallersInv
      <3> QED  BY <1>2, <1>3, <2>2, <3>1, ApartPopped
    <2>5. /\ Apart(q, current, t)
          /\ \A b: Owed(b, q, current, t) <=> Owed(b, queue, current, t) \/ b = Bar
      <3> HIDE DEF c, t
      <3> QED  BY <1>2, <2>2, <2>4, ApartAppended
    <2>6. /\ Apart(queue', current', t)
          /\ \A b \in Callers: Owed(b, queue', current', t) <=> Owed(b, q, current, t)
      <3> HIDE DEF q, t
      <3> QED  BY <1>2, <2>2, <2>3, <2>5, PumpCallers
    <2>7. CallersInv'
      <3>1. \A b \in Callers: b \in waiting <=> Owed(b, queue, current, settled)
        BY DEF IInv, CallersInv
      <3> HIDE DEF q, t
      <3> QED  BY <1>1, <2>1, <2>4, <2>5, <2>6, <3>1 DEF CallersInv
    <2> HIDE DEF q, c
    <2>8. queue' \in Seq(Issued) /\ current' \in Commands /\ tx' \in Seq(Requests)
      BY <2>2, <2>3, PumpType
    <2>9. TypeOK'
      BY <1>1, <1>2, <2>1, <2>8 DEF IInv, TypeOK
    <2>10. LinkInv'
      BY <1>1, <2>1 DEF IInv, LinkInv
    <2>11. OwnInv'
      BY <1>1, <2>2, <2>3, PumpOwn DEF IInv, OwnInv
    <2>12. InTimeInv'
      <3>1. AllOwn(tx) => AllOwn(tx')
        BY <2>2, <2>3, PumpAllOwn
      <3> QED  BY <1>1, <3>1 DEF IInv, InTimeInv
    <2>13. KnownInv'
      BY <1>3 DEF KnownInv
    <2>14. FaultInv'
      <3> SUFFICES ASSUME ~timedOut, prog = "run"  PROVE FaultInv'
        BY <1>1 DEF FaultInv
      <3>1. current.op # "run"
        <4>1. current.by # Bar
          BY <1>2, <1>3 DEF IInv, CallersInv, Apart
        <4> QED  BY <2>2, <4>1, Kinds
      <3>2. r.cmd.op = "run" \/ ~RunSettled(settled)
        <4>1. ASSUME NEW j \in DOMAIN settled, settled[j].cmd.op = "run"
              PROVE  r.cmd.op = "run"
          <5>1. settled[j].cmd \in Issued
            <6>1. settled[j] \in Settlements
              BY <1>2
            <6> QED  BY <6>1 DEF Settlements
          <5>2. settled[j].cmd.by = Bar
            BY <4>1, <5>1, Kinds, NoCmdApart
          <5>3. j = 1
            BY <1>2, <1>3, <5>2 DEF IInv, CallersInv, Apart
          <5> QED  BY <1>2, <4>1, <5>3
        <4> QED  BY <4>1 DEF RunSettled
      <3>3. NoFault(rx) /\ NoFault(chunk) /\ (~fault \/ r.cmd.op = "run")
        BY <2>1, <3>1, <3>2 DEF IInv, FaultInv
      <3>4. ~fault'
        BY <2>1, <3>3 DEF ClearsFault
      <3> QED  BY <1>1, <3>3, <3>4 DEF FaultInv
    <2> QED  BY <2>7, <2>9, <2>10, <2>11, <2>12, <2>13, <2>14 DEF IInv
  <1> QED  BY <1>4, <1>5

-----------------------------------------------------------------------------
(***************************************************************************)
(* The device                                                              *)
(***************************************************************************)
\* One more line is on its way to the session.
LEMMA AppendLine ==
    ASSUME NEW s \in Seq(Lines), NEW l \in Lines
    PROVE  /\ NoOwn(s) /\ ~l.own => NoOwn(Append(s, l))
           /\ OneOwn(s) /\ ~l.own => OneOwn(Append(s, l))
           /\ NoOwn(s) /\ l.own => OneOwn(Append(s, l))
           /\ \A c: Answered(c, s) /\ (l.own => l.kind \in Answers(c)) => Answered(c, Append(s, l))
           /\ OwnOrFault(s) /\ (l.own \/ (l.kind = "fault" /\ ProgramImage))
                => OwnOrFault(Append(s, l))
           /\ NoFault(s) /\ l.kind # "fault" => NoFault(Append(s, l))
           /\ l.own /\ l.kind = "ok" => RunAnswered(Append(s, l))
  <1> DEFINE d == Append(s, l)
             n == Len(s) + 1
  <1>1. /\ n \in DOMAIN d /\ d[n] = l
        /\ \A i \in DOMAIN d: i = n \/ (i \in DOMAIN s /\ d[i] = s[i] /\ i < n)
        /\ \A i \in DOMAIN s: i \in DOMAIN d /\ d[i] = s[i]
    BY Appends
  <1> HIDE DEF d, n
  <1>2. /\ NoOwn(s) /\ ~l.own => NoOwn(d)
        /\ OneOwn(s) /\ ~l.own => OneOwn(d)
        /\ NoOwn(s) /\ l.own => OneOwn(d)
    BY <1>1 DEF NoOwn, OneOwn
  <1>3. ASSUME NEW c, Answered(c, s), l.own => l.kind \in Answers(c)
        PROVE  Answered(c, d)
    BY <1>1, <1>3 DEF Answered
  <1>4. OwnOrFault(s) /\ (l.own \/ (l.kind = "fault" /\ ProgramImage)) => OwnOrFault(d)
    BY <1>1 DEF OwnOrFault
  <1>5. NoFault(s) /\ l.kind # "fault" => NoFault(d)
    BY <1>1 DEF NoFault
  <1>6. l.own /\ l.kind = "ok" => RunAnswered(d)
    BY <1>1 DEF RunAnswered
  <1> QED  BY <1>2, <1>3, <1>4, <1>5, <1>6 DEF d

\* The device reads the first request.
LEMMA TakeRequest ==
    ASSUME NEW t \in Seq(Requests), t # <<>>
    PROVE  /\ Head(t) = t[1] /\ 1 \in DOMAIN t /\ Head(t) \in Requests
           /\ Tail(t) \in Seq(Requests)
           /\ NoOwn(t) => NoOwn(Tail(t))
           /\ OneOwn(t) /\ Head(t).own => NoOwn(Tail(t))
           /\ OneOwn(t) /\ ~Head(t).own => OneOwn(Tail(t))
           /\ \A c: Asks(c, t) => Asks(c, Tail(t))
           /\ AllOwn(t) => AllOwn(Tail(t))
  <1> DEFINE u == Tail(t)
  <1>1. /\ Head(t) = t[1] /\ 1 \in DOMAIN t /\ Head(t) \in Requests /\ u \in Seq(Requests)
        /\ \A i \in DOMAIN u: i \in Int /\ i + 1 \in DOMAIN t /\ u[i] = t[i + 1] /\ i + 1 # 1
        /\ \A j \in DOMAIN t: j \in Int /\ (j = 1 \/ (j - 1 \in DOMAIN u /\ u[j - 1] = t[j]))
    BY Tails
  <1> HIDE DEF u
  <1>2. NoOwn(t) => NoOwn(u)
    BY <1>1 DEF NoOwn
  <1>3. OneOwn(t) /\ Head(t).own => NoOwn(u)
    BY <1>1 DEF NoOwn, OneOwn
  <1>4. ASSUME OneOwn(t), ~Head(t).own
        PROVE  OneOwn(u)
    <2>1. PICK p \in DOMAIN t: t[p].own /\ \A j \in DOMAIN t: t[j].own => j = p
      BY <1>4 DEF OneOwn
    <2>2. p - 1 \in DOMAIN u /\ u[p - 1].own
      BY <1>1, <1>4, <2>1
    <2>3. ASSUME NEW j \in DOMAIN u, u[j].own
          PROVE  j = p - 1
      <3>1. j \in Int /\ j + 1 \in DOMAIN t /\ t[j + 1].own
        BY <1>1, <2>3
      <3>2. j + 1 = p
        BY <2>1, <3>1
      <3> QED  BY <3>1, <3>2
    <2> QED  BY <2>2, <2>3 DEF OneOwn
  <1>5. ASSUME NEW c, Asks(c, t) PROVE Asks(c, u)
    <2>1. \A i \in DOMAIN u: i + 1 \in DOMAIN t /\ u[i] = t[i + 1]
      BY <1>1
    <2> QED  BY <1>5, <2>1 DEF Asks
  <1>6. AllOwn(t) => AllOwn(u)
    BY <1>1 DEF AllOwn
  <1> QED  BY <1>1, <1>2, <1>3, <1>4, <1>5, <1>6 DEF u

\* The device answers the first request with l, after a fault's line or not.
LEMMA AnswerStep ==
    ASSUME IInv, Calm, tx # <<>>, tx' = Tail(tx),
           UNCHANGED <<link, sessVars, chunk, timedOut>>,
           word' \in Words, prog' \in Programs, prog' = prog \/ ProgramImage,
           NEW r \in Seq(Lines), NEW l \in Lines, rx' = Append(r, l),
           \/ r = rx
           \/ /\ ProgramImage /\ prog' = "fault"
              /\ \E f \in Lines: f.kind = "fault" /\ ~f.own /\ r = Append(rx, f),
           l.own = Head(tx).own, l.kind \in Answers(Head(tx).cmd), l.kind # "fault",
           l.word = word',
           word' = word \/ ProgramImage \/ l.kind = "mw",
           l.kind = "mw" => Head(tx).cmd.bits # {} /\ Head(tx).cmd.val = word',
           prog' = "run" => prog = "run" \/ (Head(tx).cmd.op = "run" /\ l.kind = "ok")
    PROVE  IInv'
  <1> DEFINE h == Head(tx)
  <1>1. /\ tx \in Seq(Requests) /\ rx \in Seq(Lines) /\ chunk = <<>> /\ settled = <<>>
        /\ link = "open"
    BY DEF IInv, TypeOK, LinkInv, Calm
  <1>2. /\ h = tx[1] /\ 1 \in DOMAIN tx /\ tx' \in Seq(Requests)
        /\ NoOwn(tx) => NoOwn(tx')
        /\ OneOwn(tx) /\ h.own => NoOwn(tx')
        /\ OneOwn(tx) /\ ~h.own => OneOwn(tx')
        /\ Asks(current, tx) => Asks(current, tx')
        /\ AllOwn(tx) => AllOwn(tx')
    BY <1>1, TakeRequest
  <1>3. /\ NoOwn(rx) => NoOwn(r)
        /\ OneOwn(rx) => OneOwn(r)
        /\ Answered(current, rx) => Answered(current, r)
        /\ OwnOrFault(rx) => OwnOrFault(r)
    BY <1>1, AppendLine
  <1>4. rx' \in Seq(Lines)
    BY Appends
  <1>5. /\ UNCHANGED <<link, chunk, timedOut>>
        /\ UNCHANGED <<state, polling, queue, current, misses, fault, known, identity, waiting,
                       settled>>
    BY DEF sessVars
  <1>6. h.own => h.cmd = current /\ NoOwn(rx) /\ OneOwn(tx) /\ current # NoCmd
    <2>1. h.own => ~NoOwn(tx)
      BY <1>2 DEF NoOwn
    <2> QED  BY <1>1, <1>2, <2>1 DEF IInv, OwnInv, Asks, AskedOnce
  <1> HIDE DEF h
  <1>7. l.own = h.own /\ l.kind \in Answers(h.cmd)
        /\ (l.kind = "mw" => h.cmd.bits # {} /\ h.cmd.val = word')
        /\ (prog' = "run" => prog = "run" \/ (h.cmd.op = "run" /\ l.kind = "ok"))
    BY DEF h
  <1>8. TypeOK'
    BY <1>2, <1>4, <1>5 DEF IInv, TypeOK
  <1>9. LinkInv'
    BY <1>1, <1>5 DEF IInv, LinkInv
  <1>10. OwnInv'
    <2>1. Answered(current, rx')
      BY <1>3, <1>6, <1>7, AppendLine DEF IInv, OwnInv
    <2>2. CASE h.own
      <3>1. NoOwn(tx') /\ OneOwn(rx') /\ NoOwn(chunk)
        BY <1>1, <1>2, <1>3, <1>6, <1>7, <2>2, AppendLine DEF NoOwn
      <3> QED  BY <1>1, <1>2, <1>5, <1>6, <2>1, <2>2, <3>1 DEF IInv, OwnInv, AskedOnce
    <2>3. CASE ~h.own
      <3>1. (NoOwn(rx) => NoOwn(rx')) /\ (OneOwn(rx) => OneOwn(rx'))
        BY <1>3, <1>7, <2>3, AppendLine
      <3>2. AskedOnce(current, tx, rx, chunk) => AskedOnce(current, tx', rx', chunk)
        BY <1>2, <2>3, <3>1 DEF AskedOnce
      <3> QED  BY <1>1, <1>2, <1>5, <2>1, <3>2 DEF IInv, OwnInv
    <2> QED  BY <2>2, <2>3
  <1>11. CallersInv'
    BY <1>5, SameQueue DEF IInv
  <1>12. AllOwn(tx) => h.own
    BY <1>2 DEF AllOwn
  <1>13. InTimeInv'
    <2>1. l.own /\ OwnOrFault(rx) => OwnOrFault(rx')
      BY <1>3, AppendLine
    <2> QED  BY <1>2, <1>5, <1>7, <1>12, <2>1 DEF IInv, InTimeInv
  <1>14. KnownInv'
    <2> SUFFICES ASSUME ~timedOut, ~ProgramImage  PROVE KnownInv'
      BY <1>5 DEF KnownInv
    <2>1. h.own /\ h.cmd = current /\ NoOwn(rx)
      BY <1>1, <1>6, <1>12 DEF IInv, InTimeInv
    <2>2. \A i \in DOMAIN rx: FALSE
      BY <1>1, <2>1 DEF IInv, InTimeInv, OwnOrFault, NoOwn
    <2>3. r = rx
      OBVIOUS
    <2>4. \A i \in DOMAIN rx': rx'[i] = l
      BY <2>2, <2>3, Appends
    <2>5. \E i \in DOMAIN rx': rx'[i] = l
      <3>1. Len(rx) + 1 \in DOMAIN rx' /\ rx'[Len(rx) + 1] = l
        BY <1>1, <2>3, Appends
      <3> QED  BY <3>1
    <2>6. known \subseteq {word}
      BY <1>1, <2>2 DEF IInv, KnownInv, Acknowledges, Acknowledged
    <2>7. Fresh(rx)'
      BY <1>5, <1>7, <2>1, <2>4 DEF Fresh
    <2>8. Fresh(chunk)'
      BY <1>1, <1>5 DEF Fresh
    <2>9. known' \subseteq {word'} \/ Acknowledges(rx')
      BY <1>5, <2>5, <2>6 DEF Acknowledges
    <2> QED  BY <1>1, <1>5, <2>7, <2>8, <2>9, NoneSettled DEF KnownInv
  <1>15. FaultInv'
    <2> SUFFICES ASSUME ~timedOut, prog' = "run"  PROVE FaultInv'
      BY <1>5 DEF FaultInv
    <2>1. h.own /\ h.cmd = current /\ NoOwn(rx)
      BY <1>1, <1>6, <1>12 DEF IInv, InTimeInv
    <2>2. CASE prog = "run"
      <3>1. ~RunAnswered(rx)
        BY <2>1 DEF RunAnswered, NoOwn
      <3>2. ~RunAnswered(chunk) /\ ~RunSettled(settled)
        BY <1>1 DEF RunAnswered, RunSettled
      <3>3. ~fault /\ NoFault(rx) /\ NoFault(chunk)
        BY <1>1, <2>2, <3>1, <3>2 DEF IInv, FaultInv
      <3>4. NoFault(rx')
        BY <1>1, <3>3, AppendLine
      <3> QED  BY <1>5, <3>3, <3>4 DEF FaultInv
    <2>3. CASE prog # "run"
      <3>1. current.op = "run" /\ l.own /\ l.kind = "ok"
        BY <1>7, <2>1, <2>3
      <3>2. RunAnswered(rx')
        BY <3>1, AppendLine
      <3> QED  BY <1>5, <3>1, <3>2 DEF FaultInv
    <2> QED  BY <2>2, <2>3
  <1> QED  BY <1>8, <1>9, <1>10, <1>11, <1>13, <1>14, <1>15 DEF IInv

LEMMA AppendTwo ==
    ASSUME NEW S, NEW s \in Seq(S), NEW a \in S, NEW b \in S
    PROVE  s \o <<a, b>> = Append(Append(s, a), b)
  <1> DEFINE u == s \o <<a, b>>
             v == Append(Append(s, a), b)
             n == Len(s)
  <1>1. <<a, b>> \in Seq(S) /\ Len(<<a, b>>) = 2 /\ <<a, b>>[1] = a /\ <<a, b>>[2] = b
    OBVIOUS
  <1>2. u \in Seq(S) /\ Len(u) = n + 2 /\ n \in Nat
        /\ \A i \in 1..n + 2: u[i] = IF i <= n THEN s[i] ELSE <<a, b>>[i - n]
    BY <1>1, ConcatProperties
  <1>3. /\ v \in Seq(S) /\ Len(v) = n + 2
        /\ \A i \in 1..n: v[i] = s[i]
        /\ v[n + 1] = a /\ v[n + 2] = b
    BY Appends
  <1> HIDE DEF u, v, n
  <1>4. ASSUME NEW i \in 1..n + 2
        PROVE  u[i] = v[i]
    <2>1. CASE i \in 1..n
      BY <1>2, <1>3, <2>1
    <2>2. CASE i = n + 1
      BY <1>1, <1>2, <1>3, <2>2
    <2>3. CASE i = n + 2
      BY <1>1, <1>2, <1>3, <2>3
    <2> QED  BY <1>2, <2>1, <2>2, <2>3
  <1>5. u = v
    BY <1>2, <1>3, <1>4, SeqEqual
  <1> QED  BY <1>5 DEF u, v

LEMMA AnswersAre ==
    ASSUME NEW c
    PROVE  /\ c.op = "mw" => Answers(c) = {"mw", "?"}
           /\ c.op \in {"stop", "run"} => Answers(c) = {"ok", "error"}
           /\ c.op \in {"img", "info"} => Answers(c) = {c.op}
  BY DEF Answers

LEMMA DeviceStep ==
    ASSUME IInv, NEW op \in DeviceOps, DeviceAnswers(op)
    PROVE  IInv'
  <1> DEFINE c == Head(tx).cmd
             own == Head(tx).own
  <1>1. /\ Calm /\ tx # <<>> /\ tx' = Tail(tx) /\ UNCHANGED <<link, sessVars, chunk, timedOut>>
        /\ c.op = op
    BY DEF DeviceAnswers
  <1>2. /\ rx \in Seq(Lines) /\ word \in Words /\ prog \in Programs
        /\ c \in Issued /\ own \in BOOLEAN
    <2>1. tx \in Seq(Requests) /\ rx \in Seq(Lines) /\ word \in Words /\ prog \in Programs
      BY DEF IInv, TypeOK
    <2>2. Head(tx) \in Requests
      BY <1>1, <2>1, TakeRequest
    <2> QED  BY <2>1, <2>2 DEF Requests
  <1>3. /\ c.val \in Words
        /\ c.op \in {"stop", "run"} => ProgramImage
        /\ c.op = "none" \/ c.op \in DeviceOps
    BY <1>2, Kinds, NoCmdApart DEF DeviceOps
  <1>4. ASSUME NEW k \in {"img", "info", "mw", "ok", "error", "fault", "?"}, NEW o \in BOOLEAN,
               word' \in Words, prog' \in Programs
        PROVE  /\ Line(k, o) \in Lines /\ Line(k, o).kind = k /\ Line(k, o).own = o
               /\ Line(k, o).word = word'
    BY <1>4 DEF Line, Lines
  <1>5. ASSUME NEW k \in {"img", "info", "mw", "ok", "error", "?"}, word' \in Words, prog' \in Programs,
               rx' = rx \o <<Line(k, own)>>
        PROVE  Line(k, own) \in Lines /\ rx' = Append(rx, Line(k, own))
               /\ Line(k, own).kind = k /\ Line(k, own).own = own /\ Line(k, own).word = word'
    <2> DEFINE l == Line(k, own)
    <2>1. l \in Lines /\ l.kind = k /\ l.own = own /\ l.word = word'
      BY <1>2, <1>4, <1>5
    <2> HIDE DEF l
    <2>2. rx' = rx \o <<l>>
      BY <1>5 DEF l
    <2>3. rx' = Append(rx, l)
      BY <1>2, <2>1, <2>2, AppendIsConcat
    <2> QED  BY <2>1, <2>3 DEF l
  <1>6. CASE op \in {"img", "info"}
    <2>1. UNCHANGED <<prog, word>> /\ rx' = rx \o <<Line(op, own)>>
      BY <1>6 DEF DeviceAnswers
    <2>2. op \in Answers(c) /\ op # "mw" /\ op # "fault"
      BY <1>1, <1>6, AnswersAre
    <2>3. /\ Line(op, own) \in Lines /\ rx' = Append(rx, Line(op, own))
          /\ Line(op, own).kind = op /\ Line(op, own).own = own /\ Line(op, own).word = word'
      BY <1>2, <1>5, <1>6, <2>1
    <2> QED  BY <1>1, <1>2, <2>1, <2>2, <2>3, AnswerStep
  <1>7. CASE op = "mw"
    <2> DEFINE k == IF c.bits # {} THEN "mw" ELSE "?"
    <2>1. /\ UNCHANGED prog /\ word' = IF c.bits # {} THEN c.val ELSE word
          /\ rx' = rx \o <<Line(k, own)>>
      BY <1>7 DEF DeviceAnswers
    <2>2. k \in Answers(c) /\ k # "fault" /\ word' \in Words /\ prog' \in Programs
          /\ k \in {"img", "info", "mw", "ok", "error", "?"}
          /\ (k = "mw" => c.bits # {} /\ c.val = word') /\ (word' = word \/ k = "mw")
      <3>1. Answers(c) = {"mw", "?"}
        BY <1>1, <1>7, AnswersAre
      <3>2. word' \in Words /\ prog' \in Programs
        BY <1>2, <1>3, <2>1
      <3>3. k \in {"mw", "?"} /\ (k = "mw" <=> c.bits # {})
        OBVIOUS
      <3>4. (k = "mw" => c.val = word') /\ (word' = word \/ k = "mw")
        BY <2>1
      <3> HIDE DEF k, c
      <3> QED  BY <3>1, <3>2, <3>3, <3>4
    <2> HIDE DEF k
    <2>3. /\ Line(k, own) \in Lines /\ rx' = Append(rx, Line(k, own))
          /\ Line(k, own).kind = k /\ Line(k, own).own = own /\ Line(k, own).word = word'
      BY <1>5, <2>1, <2>2
    <2> QED  BY <1>1, <1>2, <2>1, <2>2, <2>3, AnswerStep
  <1>8. CASE op = "stop"
    <2>1. /\ prog' = (IF prog = "run" THEN "stop" ELSE prog) /\ UNCHANGED word
          /\ rx' = rx \o <<Line("ok", own)>>
      BY <1>8 DEF DeviceAnswers
    <2>2. "ok" \in Answers(c) /\ word' \in Words /\ prog' \in Programs /\ prog' # "run"
      BY <1>1, <1>2, <1>8, <2>1, AnswersAre DEF Programs
    <2>3. /\ Line("ok", own) \in Lines /\ rx' = Append(rx, Line("ok", own))
          /\ Line("ok", own).kind = "ok" /\ Line("ok", own).own = own
          /\ Line("ok", own).word = word'
      BY <1>5, <2>1, <2>2
    <2> QED  BY <1>1, <1>2, <1>3, <1>8, <2>1, <2>2, <2>3, AnswerStep
  <1>9. CASE op = "run"
    <2> DEFINE Run(k, s) == rx' = s \o <<Line(k, own)>>
    <2>1. /\ prog' \in {"run", "fault", "empty"} /\ word' \in Words
          /\ rx' = rx \o (CASE prog' = "run"   -> <<Line("ok", own)>>
                            [] prog' = "empty" -> <<Line("error", own)>>
                            [] prog' = "fault" -> <<Line("fault", FALSE), Line("error", own)>>)
      BY <1>9 DEF DeviceAnswers
    <2>2. {"ok", "error"} \subseteq Answers(c) /\ prog' \in Programs /\ ProgramImage
      <3>1. Answers(c) = {"ok", "error"} /\ ProgramImage
        BY <1>1, <1>3, <1>9, AnswersAre
      <3> QED  BY <2>1, <3>1 DEF Programs
    <2>3. ASSUME NEW k \in {"ok", "error"}, rx' = rx \o <<Line(k, own)>>,
                 prog' = "run" => k = "ok"
          PROVE  IInv'
      <3>1. /\ Line(k, own) \in Lines /\ rx' = Append(rx, Line(k, own))
            /\ Line(k, own).kind = k /\ Line(k, own).own = own /\ Line(k, own).word = word'
        BY <1>5, <2>1, <2>2, <2>3
      <3> QED  BY <1>1, <1>2, <1>9, <2>1, <2>2, <2>3, <3>1, AnswerStep
    <2>4. CASE prog' = "fault"
      <3> DEFINE f == Line("fault", FALSE)
                 l == Line("error", own)
                 r == Append(rx, f)
      <3>1. /\ f \in Lines /\ f.kind = "fault" /\ f.own = FALSE
            /\ l \in Lines /\ l.kind = "error" /\ l.own = own /\ l.word = word'
        BY <1>2, <1>4, <2>1, <2>2
      <3>2. rx' = rx \o <<f, l>>
        BY <2>1, <2>4
      <3> HIDE DEF f, l
      <3>3. r \in Seq(Lines) /\ rx' = Append(r, l)
        BY <1>2, <3>1, <3>2, AppendTwo, Appends
      <3>4. \E g \in Lines: g.kind = "fault" /\ ~g.own /\ r = Append(rx, g)
        BY <3>1
      <3> HIDE DEF r
      <3> QED  BY <1>1, <1>2, <1>9, <2>1, <2>2, <2>4, <3>1, <3>3, <3>4, AnswerStep
    <2>5. CASE prog' # "fault"
      BY <2>1, <2>3, <2>5
    <2> QED  BY <2>4, <2>5
  <1> QED  BY <1>6, <1>7, <1>8, <1>9 DEF DeviceOps

LEMMA ScanStep == IInv /\ Scan => IInv'
  <1> SUFFICES ASSUME IInv, Scan  PROVE IInv'
    OBVIOUS
  <1>1. TypeOK' /\ LinkInv'
    BY DEF IInv, TypeOK, LinkInv, Scan, sessVars
  <1>2. OwnInv' /\ CallersInv' /\ InTimeInv' /\ FaultInv'
    BY SameWire, SameQueue, SameTime, SameFault DEF IInv, Scan, sessVars
  <1>3. KnownInv'
    BY DEF KnownInv, Scan
  <1> QED  BY <1>1, <1>2, <1>3 DEF IInv

\* The program faults, or is faulted: a line that answers nothing.
LEMMA FaultPrintedStep ==
    ASSUME IInv, Calm, ProgramImage, prog' = "fault", UNCHANGED <<link, sessVars, chunk, tx, word, timedOut>>,
           rx' = rx \/ (link = "open" /\ rx' = Append(rx, Line("fault", FALSE)))
    PROVE  IInv'
  <1> DEFINE f == Line("fault", FALSE)
  <1>1. /\ UNCHANGED <<state, polling, queue, current, misses, fault, known, identity, waiting,
                       settled>>
        /\ rx \in Seq(Lines) /\ word' \in Words /\ prog' \in Programs
    BY DEF IInv, TypeOK, sessVars, Programs
  <1>2. f \in Lines /\ f.kind = "fault" /\ f.own = FALSE
    BY <1>1 DEF Line, Lines
  <1> HIDE DEF f
  <1>3. rx' = rx \/ (link = "open" /\ rx' = Append(rx, f))
    BY DEF f
  <1>4. /\ rx' \in Seq(Lines)
        /\ NoOwn(rx) => NoOwn(rx')
        /\ OneOwn(rx) => OneOwn(rx')
        /\ Answered(current, rx) => Answered(current, rx')
        /\ OwnOrFault(rx) => OwnOrFault(rx')
    <2>1. CASE rx' = rx
      BY <1>1, <2>1
    <2>2. CASE rx' = Append(rx, f)
      BY <1>1, <1>2, <2>2, AppendLine, Appends
    <2> QED  BY <1>3, <2>1, <2>2
  <1>5. TypeOK' /\ LinkInv'
    BY <1>1, <1>3, <1>4 DEF IInv, TypeOK, LinkInv
  <1>6. OwnInv'
    BY <1>1, <1>4 DEF IInv, OwnInv, AskedOnce
  <1>7. CallersInv'
    BY <1>1, SameQueue DEF IInv
  <1>8. InTimeInv' /\ KnownInv' /\ FaultInv'
    BY <1>4 DEF IInv, InTimeInv, KnownInv, FaultInv
  <1> QED  BY <1>5, <1>6, <1>7, <1>8 DEF IInv

LEMMA ScanFaultsStep == IInv /\ ScanFaults => IInv'
  BY FaultPrintedStep DEF ScanFaults

LEMMA FaultReprintStep == IInv /\ FaultReprint => IInv'
  <1> SUFFICES ASSUME IInv, FaultReprint  PROVE IInv'
    OBVIOUS
  <1>1. ProgramImage /\ prog' = "fault"
    BY SessionAssumption DEF IInv, InTimeInv, FaultReprint, ReprintDue
  <1> QED  BY <1>1, FaultPrintedStep DEF FaultReprint

-----------------------------------------------------------------------------
(***************************************************************************)
(* The invariant                                                           *)
(***************************************************************************)
LEMMA InitIInv == Init => IInv
  <1> SUFFICES ASSUME Init  PROVE IInv
    OBVIOUS
  <1>1. TypeOK
    <2>1. <<>> \in Seq(Settlements) /\ "run" \in Programs
      BY EmptySeq DEF Programs
    <2> QED  BY <2>1, Empties, SessionAssumption DEF Init, TypeOK
  <1>2. LinkInv /\ OwnInv
    BY DEF Init, LinkInv, OwnInv, AskedOnce, NoOwn, Asks, Answered
  <1>3. CallersInv
    BY NoCmdApart, SessionAssumption DEF Init, CallersInv, Apart, Owed, Callers, Bar
  <1>4. InTimeInv /\ KnownInv /\ FaultInv
    BY DEF Init, InTimeInv, KnownInv, FaultInv, AllOwn, OwnOrFault, NoFault
  <1> QED  BY <1>1, <1>2, <1>3, <1>4 DEF IInv

LEMMA StutterStep == IInv /\ UNCHANGED vars => IInv'
  <1> SUFFICES ASSUME IInv, UNCHANGED vars  PROVE IInv'
    OBVIOUS
  <1>1. TypeOK' /\ LinkInv'
    BY DEF IInv, TypeOK, LinkInv, vars, sessVars
  <1>2. OwnInv' /\ CallersInv' /\ InTimeInv' /\ FaultInv' /\ KnownInv'
    BY SameWire, SameQueue, SameTime, SameFault, SameKnown DEF IInv, vars, sessVars
  <1> QED  BY <1>1, <1>2 DEF IInv

LEMMA NextIInv == IInv /\ [Next]_vars => IInv'
  <1> SUFFICES ASSUME IInv, [Next]_vars  PROVE IInv'
    OBVIOUS
  <1>1. CASE Connect \/ Opened \/ OpenFails
    BY <1>1, ConnectStep, OpenedStep, OpenFailsStep
  <1>2. CASE Disconnect \/ Unplug \/ WriteFails \/ Closed
    BY <1>2, DisconnectStep, UnplugStep, WriteFailsStep, ClosedStep
  <1>3. CASE Poll \/ InfoTimer \/ Timeout
    BY <1>3, PollStep, InfoTimerStep, TimeoutStep
  <1>4. CASE \E w \in Writers: WriteWord(w) \/ ForceBit(w)
    BY <1>4, WriteStep
  <1>5. CASE Program("run") \/ Program("stop")
    BY <1>5, ProgramStep
  <1>6. CASE Receive \/ OnLine
    BY <1>6, ReceiveStep, OnLineStep
  <1>7. CASE Polled \/ Identified \/ Written \/ Commanded
    BY <1>7, PolledStep, IdentifiedStep, WrittenStep, CommandedStep
  <1>8. CASE \E op \in DeviceOps: DeviceAnswers(op)
    BY <1>8, DeviceStep
  <1>9. CASE Scan \/ ScanFaults \/ FaultReprint
    BY <1>9, ScanStep, ScanFaultsStep, FaultReprintStep
  <1>10. CASE UNCHANGED vars
    BY <1>10, StutterStep
  <1> QED  BY <1>1, <1>2, <1>3, <1>4, <1>5, <1>6, <1>7, <1>8, <1>9, <1>10 DEF Next

-----------------------------------------------------------------------------
(***************************************************************************)
(* What the invariant says                                                 *)
(***************************************************************************)
LEMMA OwnCounts ==
    ASSUME NEW s
    PROVE  /\ NoOwn(s) => Cardinality(Own(s)) = 0
           /\ OneOwn(s) => Cardinality(Own(s)) = 1
  <1>1. NoOwn(s) => Own(s) = {}
    BY DEF NoOwn, Own
  <1>2. OneOwn(s) => \E p: Own(s) = {p}
    <2>1. ASSUME NEW p \in DOMAIN s, s[p].own, \A j \in DOMAIN s: s[j].own => j = p
          PROVE  Own(s) = {p}
      BY <2>1 DEF Own
    <2> QED  BY <2>1 DEF OneOwn
  <1> QED  BY <1>1, <1>2, FS_EmptySet, FS_Singleton

LEMMA CountsOne == IInv => OneAtATime
  <1> SUFFICES ASSUME IInv, link = "open"
               PROVE  Cardinality(Own(tx)) + Cardinality(Own(rx)) + Cardinality(Own(chunk))
                        = IF current = NoCmd THEN 0 ELSE 1
    BY DEF OneAtATime
  <1> DEFINE t == Cardinality(Own(tx))
             r == Cardinality(Own(rx))
             c == Cardinality(Own(chunk))
  <1>1. AskedOnce(current, tx, rx, chunk)
    BY DEF IInv, OwnInv
  <1>2. CASE current = NoCmd
    <2>1. t = 0 /\ r = 0 /\ c = 0
      BY <1>1, <1>2, OwnCounts DEF AskedOnce
    <2> HIDE DEF t, r, c
    <2>2. t + r + c = 0
      BY <2>1
    <2> QED  BY <1>2, <2>2 DEF t, r, c
  <1>3. CASE current # NoCmd
    <2>1. \/ t = 1 /\ r = 0 /\ c = 0
          \/ t = 0 /\ r = 1 /\ c = 0
          \/ t = 0 /\ r = 0 /\ c = 1
      BY <1>1, <1>3, OwnCounts DEF AskedOnce
    <2> HIDE DEF t, r, c
    <2>2. t + r + c = 1
      BY <2>1
    <2> QED  BY <1>3, <2>2 DEF t, r, c
  <1> QED  BY <1>2, <1>3

LEMMA QueueIsShort == IInv => NoPileUp
  <1> SUFFICES ASSUME IInv  PROVE NoPileUp
    OBVIOUS
  <1> DEFINE T == ((Writers \cup {Bar}) \cup {"poll"}) \cup {"timer"}
             f == [i \in DOMAIN queue |-> queue[i].by]
             n == Len(queue)
             k == Cardinality(Writers)
  <1>1. /\ queue \in Seq(Issued) /\ current \in Commands /\ Apart(queue, current, settled)
        /\ DOMAIN queue = 1..n /\ n \in Nat
    BY DEF IInv, TypeOK, CallersInv
  <1>2. \A i \in DOMAIN queue: queue[i] \in Issued
    BY <1>1
  <1>3. \A c \in Issued: c.by \in T /\ (c.op = "img" => c.by = "poll")
    BY Kinds, NoCmdApart, SessionAssumption DEF Callers
  <1>4. current.op = "img" => current.by = "poll"
    BY <1>1, Kinds
  <1>5. \A i, j \in DOMAIN queue:
          queue[i].op = "img" /\ queue[j].op = "img" => i = j /\ current.op # "img"
    BY <1>1, <1>2, <1>3, <1>4 DEF Apart
  <1>6. n <= Cardinality(T)
    <2>1. IsFiniteSet(T)
      BY FS_AddElement, SessionAssumption
    <2>2. \A i \in DOMAIN queue: f[i] \in T
      BY <1>2, <1>3
    <2>3. f \in Injection(1..n, T)
      <3>1. f \in [1..n -> T]
        BY <1>1, <2>2
      <3>2. \A i, j \in 1..n: f[i] = f[j] => i = j
        BY <1>1 DEF Apart
      <3> HIDE DEF f, T, n
      <3> QED  BY <3>1, <3>2 DEF Injection, IsInjective
    <2> HIDE DEF T, f, n
    <2>4. Cardinality(1..n) <= Cardinality(T)
      BY <2>1, <2>3, FS_Injection
    <2>5. Cardinality(1..n) = n
      BY <1>1, FS_Interval
    <2> QED  BY <2>4, <2>5
  <1>7. Cardinality(T) <= 3 + k
    <2> DEFINE A == Writers \cup {Bar}
               B == A \cup {"poll"}
    <2>1. k \in Nat /\ IsFiniteSet(A) /\ Cardinality(A) \in {k, k + 1}
      BY FS_AddElement, FS_CardinalityType, SessionAssumption
    <2>2. T = B \cup {"timer"}
      OBVIOUS
    <2> HIDE DEF A, T
    <2>3. IsFiniteSet(B) /\ Cardinality(B) \in {Cardinality(A), Cardinality(A) + 1}
      BY <2>1, FS_AddElement
    <2> HIDE DEF B
    <2>4. Cardinality(T) \in {Cardinality(B), Cardinality(B) + 1}
      BY <2>2, <2>3, FS_AddElement
    <2> HIDE DEF k
    <2> QED  BY <2>1, <2>3, <2>4
  <1> HIDE DEF T
  <1>8. k \in Nat /\ Cardinality(T) \in Int
    <2>1. k \in Nat
      BY FS_CardinalityType, SessionAssumption
    <2>2. IsFiniteSet(T)
      BY FS_AddElement, SessionAssumption DEF T
    <2> QED  BY <2>1, <2>2, FS_CardinalityType
  <1>9. n <= 3 + k
    <2> DEFINE m == Cardinality(T)
    <2>1. m \in Int /\ n <= m /\ m <= 3 + k
      BY <1>6, <1>7, <1>8
    <2> HIDE DEF m, n, k
    <2> QED  BY <1>1, <1>8, <2>1
  <1> QED  BY <1>5, <1>9 DEF NoPileUp

LEMMA NobodyWaits == IInv => NobodyLeftWaiting
  <1> SUFFICES ASSUME IInv, Calm, link = "closed"
               PROVE  waiting = {}
    BY DEF NobodyLeftWaiting
  <1>1. current = NoCmd /\ queue = <<>> /\ settled = <<>>
    BY DEF IInv, LinkInv, Calm
  <1>2. \A b \in Callers: b # NoCmd.by
    BY SessionAssumption, NoCmdApart DEF Callers, Bar
  <1>3. \A b \in Callers: ~Owed(b, queue, current, settled)
    BY <1>1, <1>2 DEF Owed
  <1> QED  BY <1>3 DEF IInv, CallersInv, TypeOK, Callers

LEMMA KnownIsTrue == IInv => KnownIsDevice
  <1> SUFFICES ASSUME IInv, Calm, link = "open", known # {}, current.op # "mw", ~timedOut,
                      ~ProgramImage
               PROVE  known = {word}
    BY DEF KnownIsDevice
  <1>1. /\ known \subseteq {word} \/ Acknowledges(rx) \/ Acknowledges(chunk)
             \/ Acknowledged(settled)
    BY DEF IInv, KnownInv
  <1>2. ~Acknowledges(chunk) /\ ~Acknowledged(settled)
    BY DEF Calm, Acknowledges, Acknowledged
  <1>3. ~Acknowledges(rx)
    <2>1. \A i \in DOMAIN rx: rx[i].own
      BY DEF IInv, InTimeInv, OwnOrFault
    <2>2. \A i \in DOMAIN rx: rx[i].kind \in Answers(current)
      BY <2>1 DEF IInv, OwnInv, Answered
    <2>3. "mw" \notin Answers(current)
      <3>1. current.op \in {"none", "img", "info", "stop", "run"}
        BY Kinds DEF IInv, TypeOK
      <3> QED  BY <3>1 DEF Answers
    <2> QED  BY <2>2, <2>3 DEF Acknowledges
  <1> QED  BY <1>1, <1>2, <1>3

LEMMA FaultIsFresh == IInv => NoStaleFault
  <1> SUFFICES ASSUME IInv, Calm, link = "open", ~timedOut, fault, prog = "run"
               PROVE  Bar \in waiting
    BY DEF NoStaleFault
  <1>1. ~RunAnswered(chunk) /\ ~RunSettled(settled)
    BY DEF Calm, RunAnswered, RunSettled
  <1>2. current.op = "run"
    BY <1>1 DEF IInv, FaultInv
  <1>3. current.by = Bar
    BY <1>2, Kinds DEF IInv, TypeOK
  <1> QED  BY <1>3 DEF IInv, CallersInv, Owed, Callers

LEMMA OrderlyIs == IInv => QueueOrderly
  BY CountsOne, QueueIsShort, NobodyWaits, KnownIsTrue DEF QueueOrderly, IInv

\* Every step of the session keeps the invariant.
THEOREM SessionInvariant == Spec => []IInv
  <1>1. Init => IInv
    BY InitIInv
  <1>2. IInv /\ [Next]_vars => IInv'
    BY NextIInv
  <1> QED  BY <1>1, <1>2, PTL DEF Spec

\* One command is out at a time and exactly it is answered, timers do not pile
\* up commands, a connection that ended leaves nobody waiting, and %M is known
\* as the device has it (session.ts:205-219, 228-264, 278-320).
THEOREM QueueIsOrderly == Spec => []QueueOrderly
  BY OrderlyIs, SessionInvariant, PTL

\* No fault is shown over a program that runs, once the call that started it
\* is over - unless an answer was late (session.ts:57, 169).
THEOREM FaultIsNotStale == Spec => []NoStaleFault
  BY FaultIsFresh, SessionInvariant, PTL

-----------------------------------------------------------------------------
(***************************************************************************)
(* The studio.                                                             *)
(***************************************************************************)
DiskProofs == INSTANCE ProjectSave_proofs WITH
    mem <- link, status <- state, banner <- polling, pend <- queue, jobs <- current, tasks <- misses,
    phase <- fault, work <- known, todo <- identity, snap <- waiting, touched <- settled, disk <- chunk,
    access <- tx, edits <- rx, theirs <- prog, fails <- word, opens <- timedOut

\* With a device.
OnlineInv == Online => IInv

LEMMA OnlineStep == OnlineInv /\ [StudioNext]_<<setting, vars>> => OnlineInv'
  <1> SUFFICES ASSUME Online => IInv, [StudioNext]_<<setting, vars>>, Online'
               PROVE  IInv'
    BY DEF OnlineInv
  <1>1. setting' = setting
    BY DEF StudioNext
  <1>2. IInv /\ [Next]_vars
    BY <1>1 DEF StudioNext, Online
  <1> QED  BY <1>2, NextIInv

\* In the studio one command is out at a time, timers do not pile up commands,
\* and a connection that ended leaves nobody waiting (session.ts:228-320).
THEOREM StudioCommandsAreOrderly == StudioSteps => []CommandsOrderly
  <1>1. StudioInit => OnlineInv
    BY InitIInv DEF StudioInit, OnlineInv, Online
  <1>2. OnlineInv => CommandsOrderly
    BY OrderlyIs DEF OnlineInv, CommandsOrderly
  <1> QED  BY <1>1, <1>2, OnlineStep, PTL DEF StudioSteps

\* In the studio no fault is shown over a program that runs, once the call that
\* started it is over - unless an answer was late (session.ts:57, 169).
THEOREM StudioFaultIsFresh == StudioSpec => []FaultNotStale
  <1>1. StudioInit => OnlineInv
    BY InitIInv DEF StudioInit, OnlineInv, Online
  <1>2. OnlineInv => FaultNotStale
    BY FaultIsFresh DEF OnlineInv, FaultNotStale
  <1> QED  BY <1>1, <1>2, OnlineStep, PTL DEF StudioSpec, StudioSteps

-----------------------------------------------------------------------------
\* With a folder.  DiskProofs is Disk, word for word.
LEMMA DiskAssumptions == DiskProofs!SaveAssumption
  BY DiskAssumption DEF Disk!SaveAssumption, DiskProofs!SaveAssumption

LEMMA SameNext == (Disk!Next <=> DiskProofs!Next) /\ Disk!vars = DiskProofs!vars
  BY Zenon
     DEF Disk!memory, DiskProofs!memory, Disk!folder, DiskProofs!folder, Disk!counts,
         DiskProofs!counts, Disk!vars, DiskProofs!vars, Disk!Files, DiskProofs!Files,
         Disk!FilesOf, DiskProofs!FilesOf, Disk!ProjectIn, DiskProofs!ProjectIn,
         Disk!NoProject, DiskProofs!NoProject, Disk!Opened, DiskProofs!Opened,
         Disk!Unsaved, DiskProofs!Unsaved, Disk!ChangedOnDisk, DiskProofs!ChangedOnDisk,
         Disk!Task, DiskProofs!Task, Disk!Head1, DiskProofs!Head1, Disk!At, DiskProofs!At,
         Disk!TaskDone, DiskProofs!TaskDone, Disk!JobDone, DiskProofs!JobDone, Disk!Moves,
         DiskProofs!Moves, Disk!Schedule, DiskProofs!Schedule, Disk!Edit, DiskProofs!Edit,
         Disk!Chain, DiskProofs!Chain, Disk!StartsAtOnce, DiskProofs!StartsAtOnce,
         Disk!Run, DiskProofs!Run, Disk!AutosaveTimer, DiskProofs!AutosaveTimer,
         Disk!MayWrite, DiskProofs!MayWrite, Disk!Different, DiskProofs!Different,
         Disk!SaveStart, DiskProofs!SaveStart, Disk!SaveRefused, DiskProofs!SaveRefused,
         Disk!Rank, DiskProofs!Rank, Disk!WriteFile, DiskProofs!WriteFile,
         Disk!RemoveManifest, DiskProofs!RemoveManifest, Disk!Written, DiskProofs!Written,
         Disk!Remember, DiskProofs!Remember, Disk!AfterSave, DiskProofs!AfterSave,
         Disk!SaveDone, DiskProofs!SaveDone, Disk!WatcherFires, DiskProofs!WatcherFires,
         Disk!CheckStart, DiskProofs!CheckStart, Disk!AsksFirst, DiskProofs!AsksFirst,
         Disk!CheckStat, DiskProofs!CheckStat, Disk!LoadRead, DiskProofs!LoadRead,
         Disk!LoadDone, DiskProofs!LoadDone, Disk!Press, DiskProofs!Press,
         Disk!ReloadFromDisk, DiskProofs!ReloadFromDisk, Disk!KeepMine,
         DiskProofs!KeepMine, Disk!KeepDone, DiskProofs!KeepDone, Disk!GrantAccess,
         DiskProofs!GrantAccess, Disk!BannerFor, DiskProofs!BannerFor, Disk!MayFail,
         DiskProofs!MayFail, Disk!SaveFails, DiskProofs!SaveFails, Disk!KeepFails,
         DiskProofs!KeepFails, Disk!CheckFails, DiskProofs!CheckFails, Disk!LoadFails,
         DiskProofs!LoadFails, Disk!AccessLost, DiskProofs!AccessLost, Disk!AccessBack,
         DiskProofs!AccessBack, Disk!TheirWrite, DiskProofs!TheirWrite, Disk!Reopen,
         DiskProofs!Reopen, Disk!DiskStep, DiskProofs!DiskStep, Disk!Next, DiskProofs!Next

LEMMA SameProperties ==
    /\ Disk!Init <=> DiskProofs!Init
    /\ Disk!TypeOK <=> DiskProofs!TypeOK
    /\ Disk!UnsavedIsKnown <=> DiskProofs!UnsavedIsKnown
    /\ Disk!NoFalseConflict <=> DiskProofs!NoFalseConflict
    /\ Disk!NeverBackwards <=> DiskProofs!NeverBackwards
    /\ Disk!AlwaysReadable <=> DiskProofs!AlwaysReadable
    /\ Disk!NothingWrittenUnasked <=> DiskProofs!NothingWrittenUnasked
    /\ Disk!BlockedEditsStay <=> DiskProofs!BlockedEditsStay
  BY Zenon
     DEF Disk!Init, DiskProofs!Init, Disk!TypeOK, DiskProofs!TypeOK, Disk!UnsavedIsKnown,
         DiskProofs!UnsavedIsKnown, Disk!NoFalseConflict, DiskProofs!NoFalseConflict,
         Disk!NeverBackwards, DiskProofs!NeverBackwards, Disk!Versions,
         DiskProofs!Versions, Disk!Projects, DiskProofs!Projects, Disk!Folders,
         DiskProofs!Folders, Disk!Files, DiskProofs!Files, Disk!Tasks, DiskProofs!Tasks,
         Disk!Statuses, DiskProofs!Statuses, Disk!FilesOf, DiskProofs!FilesOf,
         Disk!NoProject, DiskProofs!NoProject, Disk!Unsaved, DiskProofs!Unsaved,
         Disk!AlwaysReadable, DiskProofs!AlwaysReadable, Disk!OneSaveOut,
         DiskProofs!OneSaveOut, Disk!WritesInOrder, DiskProofs!WritesInOrder,
         Disk!ReaderFindsManifests, DiskProofs!ReaderFindsManifests,
         Disk!NothingWrittenUnasked, DiskProofs!NothingWrittenUnasked,
         Disk!BlockedEditsStay, DiskProofs!BlockedEditsStay, Disk!At, DiskProofs!At,
         Disk!Head1, DiskProofs!Head1

\* A project in a folder: what holds whatever else goes on there, and what
\* holds when the studio is alone.
FolderInv ==
    ~Online =>
        /\ DiskProofs!TypeOK /\ DiskProofs!OneSaveOut
        /\ DiskProofs!ManifestInv /\ DiskProofs!AskInv
QuietFolderInv == ~Online => DiskProofs!QuietInv

LEMMA FolderInit == StudioInit => FolderInv /\ QuietFolderInv
  <1> SUFFICES ASSUME DiskProofs!Init
               PROVE  /\ DiskProofs!TypeOK /\ DiskProofs!OneSaveOut
                      /\ DiskProofs!ManifestInv /\ DiskProofs!AskInv /\ DiskProofs!QuietInv
    BY SameProperties DEF StudioInit, FolderInv, QuietFolderInv, Online
  <1>1. DiskProofs!TypeInv
    BY DiskAssumptions, DiskProofs!TypeInit
  <1>2. DiskProofs!QuietInv
    BY DiskAssumptions, DiskProofs!QuietInit
  <1>3. DiskProofs!ManifestInv
    BY DiskAssumptions, DiskProofs!ManifestInit
  <1>4. DiskProofs!AskInv
    BY DiskAssumptions, DiskProofs!AskInit
  <1> QED  BY <1>1, <1>2, <1>3, <1>4 DEF DiskProofs!TypeInv

\* A step of the studio without a device is one of its folder.
LEMMA FolderSteps ==
    ASSUME ~Online, [StudioNext]_<<setting, vars>>
    PROVE  setting' = setting /\ [DiskProofs!Next]_(DiskProofs!vars)
  <1>1. CASE StudioNext
    <2>1. setting' = setting /\ Disk!Next
      BY <1>1 DEF StudioNext
    <2> QED  BY <2>1, SameNext
  <1>2. CASE UNCHANGED <<setting, vars>>
    BY <1>2 DEF vars, sessVars, DiskProofs!vars, DiskProofs!memory, DiskProofs!folder, DiskProofs!counts
  <1> QED  BY <1>1, <1>2

LEMMA FolderNext ==
    ASSUME FolderInv, [StudioNext]_<<setting, vars>>
    PROVE  /\ FolderInv'
           /\ ~Online => Disk!NothingWrittenUnasked /\ Disk!BlockedEditsStay
  <1>1. setting' = setting
    BY DEF StudioNext
  <1> SUFFICES ASSUME ~Online
               PROVE  /\ DiskProofs!TypeOK' /\ DiskProofs!OneSaveOut'
                      /\ DiskProofs!ManifestInv' /\ DiskProofs!AskInv'
                      /\ DiskProofs!NothingWrittenUnasked /\ DiskProofs!BlockedEditsStay
    BY <1>1, SameProperties DEF FolderInv, Online
  <1>2. /\ DiskProofs!TypeOK /\ DiskProofs!OneSaveOut
        /\ DiskProofs!ManifestInv /\ DiskProofs!AskInv
    BY DEF FolderInv
  <1>3. [DiskProofs!Next]_(DiskProofs!vars)
    BY FolderSteps
  <1>4. DiskProofs!TypeOK' /\ DiskProofs!OneSaveOut'
    BY <1>2, <1>3, DiskAssumptions, DiskProofs!TypeStep DEF DiskProofs!TypeInv
  <1>5. DiskProofs!ManifestInv'
    BY <1>2, <1>3, DiskAssumptions, DiskProofs!ManifestStep
  <1>6. DiskProofs!AskInv'
    BY <1>2, <1>3, DiskAssumptions, DiskProofs!AskStep
  <1>7. DiskProofs!NothingWrittenUnasked /\ DiskProofs!BlockedEditsStay
    BY <1>2, <1>3, DiskAssumptions, DiskProofs!AskedBeforeWriting, DiskProofs!BlockedStays
  <1> QED  BY <1>4, <1>5, <1>6, <1>7

LEMMA QuietFolderNext ==
    ASSUME FolderInv, QuietFolderInv, [StudioNext]_<<setting, vars>>, MaxTheirs = 0, MaxFails = 0
    PROVE  QuietFolderInv' /\ (~Online => Disk!NeverBackwards)
  <1>1. setting' = setting
    BY DEF StudioNext
  <1> SUFFICES ASSUME ~Online
               PROVE  DiskProofs!QuietInv' /\ DiskProofs!NeverBackwards
    BY <1>1, SameProperties DEF QuietFolderInv, Online
  <1>2. /\ DiskProofs!TypeOK /\ DiskProofs!OneSaveOut
        /\ DiskProofs!ManifestInv /\ DiskProofs!QuietInv
    BY DEF FolderInv, QuietFolderInv
  <1>3. [DiskProofs!Next]_(DiskProofs!vars)
    BY FolderSteps
  <1> QED  BY <1>2, <1>3, DiskAssumptions, DiskProofs!QuietNext

\* Whatever interleaves, fails or crashes, whoever opens the folder finds a
\* project in it (folder.ts:164-232).
THEOREM StudioFolderIsReadable == StudioSteps => []AlwaysReadable
  <1>1. FolderInv => AlwaysReadable
    <2>1. DiskProofs!OneSaveOut /\ DiskProofs!ManifestInv /\ DiskProofs!TypeOK => DiskProofs!AlwaysReadable
      BY DEF DiskProofs!ManifestInv, DiskProofs!AlwaysReadable
    <2> QED  BY <2>1, SameProperties DEF FolderInv, AlwaysReadable
  <1>2. FolderInv /\ [StudioNext]_<<setting, vars>> => FolderInv'
    BY FolderNext
  <1> QED  BY <1>1, <1>2, FolderInit, PTL DEF StudioSteps

\* While the conflict banner asks, only Keep mine writes files, and a blocked
\* edit is replaced only by the user's own edit or reload, or by a new session
\* (persistence.ts:280, 322-326).
THEOREM StudioAsksTheUser == StudioSteps => UserIsAsked
  <1>1. FolderInv /\ [StudioNext]_<<setting, vars>>
            => FolderInv' /\ [~Online => Disk!NothingWrittenUnasked /\ Disk!BlockedEditsStay]_<<setting, vars>>
    BY FolderNext
  <1> QED  BY <1>1, FolderInit, PTL DEF StudioSteps, UserIsAsked

\* In the studio the editor knows of every edit that is not in the files, and a
\* save is not taken for another program's (persistence.ts:74, 164-168).
THEOREM StudioEditsAreKnown ==
    ASSUME MaxTheirs = 0, MaxFails = 0
    PROVE  StudioSpec => []EditsAreKnown
  <1>1. FolderInv /\ QuietFolderInv => EditsAreKnown
    <2>1. DiskProofs!QuietInv => DiskProofs!UnsavedIsKnown /\ DiskProofs!NoFalseConflict
      BY DiskAssumptions, DiskProofs!QuietKnows
    <2> QED  BY <2>1, SameProperties DEF FolderInv, QuietFolderInv, EditsAreKnown
  <1>2. FolderInv /\ QuietFolderInv /\ [StudioNext]_<<setting, vars>> => FolderInv' /\ QuietFolderInv'
    BY FolderNext, QuietFolderNext
  <1> QED  BY <1>1, <1>2, FolderInit, PTL DEF StudioSpec, StudioSteps

\* In the studio what is on disk never goes back to an earlier edit: the part of
\* EditsReachDisk that needs no fairness (repo.ts:176-184).
THEOREM StudioSavesKeepTheOrder ==
    ASSUME MaxTheirs = 0, MaxFails = 0
    PROVE  StudioSpec => [][~Online => Disk!NeverBackwards]_<<setting, vars>>
  <1>1. FolderInv /\ QuietFolderInv /\ [StudioNext]_<<setting, vars>>
            => /\ FolderInv' /\ QuietFolderInv'
               /\ [~Online => Disk!NeverBackwards]_<<setting, vars>>
    BY FolderNext, QuietFolderNext
  <1> QED  BY <1>1, FolderInit, PTL DEF StudioSpec, StudioSteps
=============================================================================
