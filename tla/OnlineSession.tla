---------------------------- MODULE OnlineSession ----------------------------
(***************************************************************************)
(* An online session of the studio (studio/src/serial/session.ts) with a   *)
(* device's console: one command is out at a time, answers are matched to  *)
(* it by their kind, a command without an answer times out.                *)
(*                                                                         *)
(* JavaScript runs to completion: a chunk of received lines is processed   *)
(* line by line, then the continuations of the commands it settled run,    *)
(* and only then another timer, click or chunk gets its turn.  chunk and   *)
(* settled hold what is left of such a turn; the device goes on between    *)
(* turns.                                                                  *)
(*                                                                         *)
(* %M is one word, a set of bits.  The console bar has one Run / Stop call *)
(* in progress at a time (MainView's busy), the inspector any number of    *)
(* writes.                                                                 *)
(***************************************************************************)
EXTENDS Naturals, SequencesExt

CONSTANTS
    Bits,           \* the bits of the %M word the session reads and writes
    Writers,        \* concurrent writes of the inspector
    ProgramImage,   \* does the device run program images, whose console has
                    \* stop and run and whose program writes the word
    DeviceHangs,    \* may the device leave a command without an answer
    MaxMisses,      \* consecutive misses before the state becomes error
    MaxWire,        \* bound: commands and lines under way
    MaxChunk        \* bound: lines the reader gets at once

\* Whoever may have a command of the session on its way has a name of its own.
ASSUME SessionAssumption ==
    /\ IsFiniteSet(Writers) /\ Writers \cap {"bar", "poll", "timer", "none"} = {}
    /\ ProgramImage \in BOOLEAN /\ DeviceHangs \in BOOLEAN
    /\ MaxMisses \in Nat \ {0} /\ MaxWire \in Nat /\ MaxChunk \in Nat

VARIABLES
    link,       \* the transport: closed, opening, open, or closing
    state,      \* SessionState
    polling,    \* are the poll timer, the info timer and the listeners set up
    queue,      \* commands waiting to be sent
    current,    \* the command that waits for its answer, or NoCmd
    misses,
    fault,      \* is a PLC STOP message shown
    known,      \* {knownM}, or {} before the first frame
    identity,   \* the program state of the last info, or "none"
    waiting,    \* writers, and the bar, whose call has not settled
    chunk,      \* received lines of this turn
    settled,    \* settled commands whose continuation has to run this turn
    tx, rx,     \* commands and lines under way
    prog,       \* the device: its program's state
    word        \* the device: the %M word

sessVars == <<state, polling, queue, current, misses, fault, known, identity,
              waiting, settled>>

\* Has a command of this connection timed out?  No code reads it.
VARIABLE timedOut

vars == <<link, sessVars, chunk, tx, rx, prog, word, timedOut>>

Bar == "bar"
Words == SUBSET Bits
Programs == {"run", "stop", "fault", "empty"}

\* bits: the bits the caller means to change; none of them: the register does
\* not exist.
Command(op, by, val, bits) == [op |-> op, by |-> by, val |-> val, bits |-> bits]
NoCmd   == Command("none", "none", {}, {})
Img     == Command("img", "poll", {}, {})
Info(by) == Command("info", by, {}, {})

\* What the session sends; stop and run only where the console has them.
Issued ==
    {Img, Info("timer"), Info(Bar)}
    \cup {Command("mw", w, v, b): w \in Writers, v \in Words, b \in Words}
    \cup {Command(op, Bar, {}, {}): op \in IF ProgramImage THEN {"stop", "run"} ELSE {}}
Commands == Issued \cup {NoCmd}

\* own: does it answer the current command?  (No code sees it.)
Line(kind, own) == [kind |-> kind, own |-> own, word |-> word', prog |-> prog']
Requests == [cmd: Issued, own: BOOLEAN]
Lines == [kind: {"img", "info", "mw", "ok", "error", "fault", "?"},
          own: BOOLEAN, word: Words, prog: Programs]

Settlements ==
    [cmd: Issued, out: {"ok", "error", "rejected"}, prog: Programs \cup {"none"}]

TypeOK ==
    /\ link \in {"closed", "opening", "open", "closing"}
    /\ state \in {"disconnected", "connecting", "online", "error"}
    /\ polling \in BOOLEAN
    /\ queue \in Seq(Issued)
    /\ current \in Commands
    /\ misses \in 0..MaxMisses
    /\ fault \in BOOLEAN
    /\ known \subseteq Words
    /\ identity \in Programs \cup {"none"}
    /\ waiting \subseteq Writers \cup {Bar}
    /\ chunk \in Seq(Lines)
    /\ settled \in Seq(Settlements)
    /\ tx \in Seq(Requests)
    /\ rx \in Seq(Lines)
    /\ prog \in Programs
    /\ word \in Words
    /\ timedOut \in BOOLEAN

-----------------------------------------------------------------------------
Init ==
    /\ link = "closed"
    /\ state = "disconnected"
    /\ polling = FALSE
    /\ queue = <<>>
    /\ current = NoCmd
    /\ misses = 0
    /\ fault = FALSE
    /\ known = {}
    /\ identity = "none"
    /\ waiting = {}
    /\ chunk = <<>>
    /\ settled = <<>>
    /\ tx = <<>>
    /\ rx = <<>>
    /\ prog \in IF ProgramImage THEN Programs ELSE {"run"}
    /\ word = {}
    /\ timedOut = FALSE

\* Nothing is left of the last turn.
Calm == chunk = <<>> /\ settled = <<>>

Disowned(s) == [i \in DOMAIN s |-> [s[i] EXCEPT !.own = FALSE]]

MaySend_Mut(q, cur) ==  \* does not look whether a command is out
    q # <<>> /\ link' = "open"

MaySend(q, cur) == cur = NoCmd /\ q # <<>> /\ link' = "open"

\* pump(), with the queue, the current command and the wire as given.
Pump(q, cur, wire) ==
    IF MaySend(q, cur)
    THEN /\ queue' = Tail(q)
         /\ current' = Head(q)
         /\ tx' = Append(wire, [cmd |-> Head(q), own |-> TRUE])
    ELSE /\ queue' = q
         /\ current' = cur
         /\ tx' = wire

Send(c) == Pump(Append(queue, c), current, tx)

\* What a settled command resolves or rejects.
Settlement(c, out, p) == [cmd |-> c, out |-> out, prog |-> p]
Outcome(c, out, p) == IF c = NoCmd THEN <<>> ELSE <<Settlement(c, out, p)>>

\* finish(): the current command settles and the next one goes out at once,
\* before the continuation runs.  What is under way answers it no longer.
Finish(out, p, rest, wire, in) ==
    /\ settled' = settled \o Outcome(current, out, p)
    /\ Pump(queue, NoCmd, Disowned(wire))
    /\ chunk' = Disowned(rest)
    /\ rx' = Disowned(in)

Expect(c) == IF c.op \in {"stop", "run"} THEN "ack" ELSE c.op

-----------------------------------------------------------------------------
(* Connecting and closing. *)

\* connect() on a new session.
Connect ==
    /\ Calm
    /\ link = "closed" /\ state = "disconnected"
    /\ link' = "opening"
    /\ state' = "connecting"
    /\ misses' = 0 /\ fault' = FALSE
    /\ known' = {} /\ identity' = "none"
    /\ timedOut' = FALSE
    /\ UNCHANGED <<polling, queue, current, waiting, chunk, settled, tx, rx,
                   prog, word>>

\* transport.open() resolved: listeners, info, the poll timer and a first poll.
Opened ==
    /\ link = "opening"
    /\ link' = "open"
    /\ polling' = TRUE
    /\ Pump(queue \o <<Info("timer"), Img>>, current, tx)
    /\ UNCHANGED <<state, misses, fault, known, identity, waiting, chunk,
                   settled, rx, prog, word, timedOut>>

OpenFails ==
    /\ link = "opening"
    /\ link' = "closed"
    /\ state' = "disconnected"
    /\ UNCHANGED <<polling, queue, current, misses, fault, known, identity,
                   waiting, chunk, settled, tx, rx, prog, word, timedOut>>

Rejections_Mut ==       \* forgets the commands still queued
    Outcome(current, "rejected", "none")

Rejections ==
    Outcome(current, "rejected", "none") \o
        [i \in DOMAIN queue |-> Settlement(queue[i], "rejected", "none")]

\* teardown(): no timers, no listeners, every command rejected.
Teardown ==
    /\ polling' = FALSE
    /\ settled' = Rejections
    /\ current' = NoCmd
    /\ queue' = <<>>

\* disconnect() by the user.
Disconnect ==
    /\ Calm
    /\ link \in {"open", "closing"} /\ state # "disconnected"
    /\ Teardown
    /\ state' = "disconnected"
    /\ link' = "closing"
    /\ tx' = <<>> /\ rx' = <<>>
    /\ UNCHANGED <<misses, fault, known, identity, waiting, chunk, prog, word,
                   timedOut>>

\* The port is gone: isOpen is false at once, the close event comes later.
Unplug ==
    /\ Calm
    /\ link = "open"
    /\ link' = "closing"
    /\ tx' = <<>> /\ rx' = <<>>
    /\ UNCHANGED <<sessVars, chunk, prog, word, timedOut>>

\* The write of the current command is rejected by a port that is gone.
WriteFails ==
    /\ Calm
    /\ link = "closing" /\ current # NoCmd
    /\ UNCHANGED link
    /\ Finish("rejected", "none", <<>>, tx, rx)
    /\ UNCHANGED <<state, polling, misses, fault, known, identity,
                   waiting, prog, word, timedOut>>

CloseMatters == state # "disconnected"

\* onTransportClose().
Closed ==
    /\ Calm
    /\ link = "closing"
    /\ link' = "closed"
    /\ IF CloseMatters
       THEN Teardown /\ state' = "disconnected"
       ELSE UNCHANGED <<polling, settled, current, queue, state>>
    /\ UNCHANGED <<misses, fault, known, identity, waiting, chunk, tx, rx,
                   prog, word, timedOut>>

-----------------------------------------------------------------------------
(* The timers and the user. *)

Pending(op) == op \in {c.op: c \in {current} \cup ToSet(queue)}

PollDue == ~Pending("img")

\* poll(): at most one img is queued or out.
Poll ==
    /\ Calm /\ polling
    /\ PollDue
    /\ UNCHANGED link
    /\ Send(Img)
    /\ UNCHANGED <<state, polling, misses, fault, known, identity, waiting,
                   chunk, settled, rx, prog, word, timedOut>>

\* The info timer of a runtime that loads program images.
InfoTimer ==
    /\ Calm /\ polling /\ ProgramImage
    /\ ~Pending("info")
    /\ UNCHANGED link
    /\ Send(Info("timer"))
    /\ UNCHANGED <<state, polling, misses, fault, known, identity, waiting,
                   chunk, settled, rx, prog, word, timedOut>>

Call(c) ==
    /\ Calm
    /\ state \in {"online", "error"}       \* requireOpen
    /\ c.by \notin waiting
    /\ waiting' = waiting \cup {c.by}
    /\ UNCHANGED link
    /\ Send(c)
    /\ UNCHANGED <<state, polling, misses, fault, known, identity, chunk,
                   settled, rx, prog, word, timedOut>>

\* writeWord(); the register may not exist.
WriteWord(w) ==
    \/ \E v \in Words: Call(Command("mw", w, v, Bits))
    \/ Call(Command("mw", w, {}, {}))

\* forceBit(): the word is computed from the known one before it is queued.
ForceBit(w) ==
    \E b \in Bits, m \in known:
        \/ Call(Command("mw", w, m \cup {b}, {b}))
        \/ Call(Command("mw", w, m \ {b}, {b}))

\* runProgram() and stopProgram(); the bar offers what the last info allows.
Program(op) ==
    /\ ProgramImage
    /\ IF op = "run" THEN identity # "run" ELSE identity = "run"
    /\ Call(Command(op, Bar, {}, {}))

\* Where the answer to the current command is.
Own(s) == {i \in DOMAIN s: s[i].own}

\* onTimeout(): the answer is late, or the device never gives one.
Timeout ==
    /\ Calm
    /\ current # NoCmd
    /\ IF current.op \in {"img", "info"}
       THEN /\ misses' = IF misses < MaxMisses THEN misses + 1 ELSE misses
            /\ state' = IF misses' >= MaxMisses THEN "error" ELSE state
       ELSE UNCHANGED <<misses, state>>
    /\ UNCHANGED link
    /\ \/ /\ Own(tx) # {} \/ Own(rx) # {} => Len(tx) + Len(rx) < MaxWire
          /\ Finish("rejected", "none", <<>>, tx, rx)
       \/ /\ DeviceHangs
          /\ \E i \in Own(tx): Finish("rejected", "none", <<>>, RemoveAt(tx, i), rx)
    /\ timedOut' = TRUE
    /\ UNCHANGED <<polling, fault, known, identity, waiting, prog, word>>

-----------------------------------------------------------------------------
(* onLine(). *)

\* The reader hands over what has arrived, one or several lines.
Receive ==
    /\ Calm
    /\ \E n \in 1..MaxChunk:
        /\ n <= Len(rx)
        /\ chunk' = SubSeq(rx, 1, n)
        /\ rx' = SubSeq(rx, n + 1, Len(rx))
    /\ UNCHANGED <<link, sessVars, tx, prog, word, timedOut>>

Heard == Head(chunk)
Settle(out) == Finish(out, Heard.prog, Tail(chunk), tx, rx)
PassOver ==
    /\ chunk' = Tail(chunk)
    /\ UNCHANGED <<settled, queue, current, tx, rx>>

FrameState == "online"

\* img: the frame counts whether or not a poll waits for it.
Frame ==
    /\ Heard.kind = "img"
    /\ known' = {Heard.word}
    /\ misses' = 0
    /\ state' = FrameState
    /\ IF current.op = "img" THEN Settle("ok") ELSE PassOver
    /\ UNCHANGED fault

FaultLine ==
    /\ Heard.kind = "fault"
    /\ fault' = TRUE
    /\ PassOver
    /\ UNCHANGED <<known, misses, state>>

\* A line settles a command that expects its kind; ? rejects any command.
Accepted ==
    \/ Heard.kind \in {"info", "mw"} /\ Heard.kind = current.op
    \/ Heard.kind \in {"ok", "error"} /\ Expect(current) = "ack"
    \/ Heard.kind = "?" /\ current # NoCmd

Verdict == CASE Heard.kind = "?"     -> "rejected"
             [] Heard.kind = "error" -> "error"
             [] OTHER                -> "ok"

OtherLine ==
    /\ Heard.kind \notin {"img", "fault"}
    /\ IF Accepted THEN Settle(Verdict) ELSE PassOver
    /\ UNCHANGED <<known, misses, state, fault>>

OnLine ==
    /\ chunk # <<>>
    /\ UNCHANGED link
    /\ Frame \/ FaultLine \/ OtherLine
    /\ UNCHANGED <<polling, identity, waiting, prog, word, timedOut>>

-----------------------------------------------------------------------------
(* The continuations of settled commands. *)

Result == Head(settled)
Turn   == chunk = <<>> /\ settled # <<>>

Polled ==               \* nothing waits for a poll
    /\ Turn /\ Result.cmd.op = "img"
    /\ settled' = Tail(settled)
    /\ UNCHANGED <<link, state, polling, queue, current, misses, fault, known,
                   identity, waiting, chunk, tx, rx, prog, word, timedOut>>

Identified ==           \* identify()
    /\ Turn /\ Result.cmd.op = "info"
    /\ settled' = Tail(settled)
    /\ identity' = IF Result.out = "ok" THEN Result.prog ELSE "none"
    /\ waiting' = waiting \ {Result.cmd.by}
    /\ UNCHANGED <<link, state, polling, queue, current, misses, fault, known,
                   chunk, tx, rx, prog, word, timedOut>>

\* applyWord(), once the write is acknowledged.
Applied(r) ==
    IF r.out = "ok" /\ r.cmd.bits # {} /\ known # {} THEN {r.cmd.val} ELSE known

Written ==              \* writeWord(), forceBit()
    /\ Turn /\ Result.cmd.op = "mw"
    /\ settled' = Tail(settled)
    /\ known' = Applied(Result)
    /\ waiting' = waiting \ {Result.cmd.by}
    /\ UNCHANGED <<link, state, polling, queue, current, misses, fault,
                   identity, chunk, tx, rx, prog, word, timedOut>>

ClearsFault_Mut(op) == FALSE

ClearsFault(op) == op = "run"

Commanded ==            \* programCommand(): on success info is read again
    /\ Turn /\ Result.cmd.op \in {"stop", "run"}
    /\ settled' = Tail(settled)
    /\ UNCHANGED link
    /\ IF Result.out = "ok"
       THEN /\ fault' = (fault /\ ~ClearsFault(Result.cmd.op))
            /\ Send(Info(Bar))
            /\ UNCHANGED waiting
       ELSE /\ waiting' = waiting \ {Bar}
            /\ UNCHANGED <<fault, queue, current, tx>>
    /\ UNCHANGED <<state, polling, misses, known, identity, chunk, rx, prog,
                   word, timedOut>>

-----------------------------------------------------------------------------
(* The device (loader.ino): the console answers in order; the program runs *)
(* between two commands.                                                   *)

DeviceAnswers(op) ==
    /\ Calm /\ tx # <<>>
    /\ LET c == Head(tx).cmd
           own == Head(tx).own
           Reply(lines) == rx' = rx \o lines
       IN  /\ c.op = op
           /\ \/ /\ op \in {"img", "info"}
                 /\ UNCHANGED <<prog, word>>
                 /\ Reply(<<Line(op, own)>>)
              \/ /\ op = "mw"
                 /\ UNCHANGED prog
                 /\ word' = IF c.bits # {} THEN c.val ELSE word
                 /\ Reply(<<Line(IF c.bits # {} THEN "mw" ELSE "?", own)>>)
              \/ /\ op = "stop"
                 /\ prog' = IF prog = "run" THEN "stop" ELSE prog
                 /\ UNCHANGED word
                 /\ Reply(<<Line("ok", own)>>)
              \/ /\ op = "run"       \* the cold start sets %M anew
                 /\ prog' \in {"run", "fault", "empty"}
                 /\ word' \in Words
                 /\ Reply(CASE prog' = "run"   -> <<Line("ok", own)>>
                            [] prog' = "empty" -> <<Line("error", own)>>
                            [] prog' = "fault" -> <<Line("fault", FALSE),
                                                    Line("error", own)>>)
    /\ tx' = Tail(tx)
    /\ UNCHANGED <<link, sessVars, chunk, timedOut>>

\* A scan writes %M.
Scan ==
    /\ Calm /\ prog = "run" /\ ProgramImage
    /\ word' \in Words
    /\ UNCHANGED <<link, sessVars, chunk, tx, rx, prog, timedOut>>

\* enter_fault(): the fault line is printed if anyone listens.
ScanFaults ==
    /\ Calm /\ prog = "run" /\ ProgramImage
    /\ Len(rx) < MaxWire
    /\ prog' = "fault"
    /\ UNCHANGED word
    /\ rx' = IF link = "open" THEN Append(rx, Line("fault", FALSE)) ELSE rx
    /\ UNCHANGED <<link, sessVars, chunk, tx, timedOut>>

ReprintDue_Mut == FALSE     \* the fault is printed once

ReprintDue == prog = "fault"

\* While faulted the loop prints the fault again and again.
FaultReprint ==
    /\ Calm /\ ReprintDue /\ link = "open"
    /\ \A i \in DOMAIN rx: rx[i].kind # "fault"
    /\ Len(rx) < MaxWire
    /\ UNCHANGED <<prog, word>>
    /\ rx' = Append(rx, Line("fault", FALSE))
    /\ UNCHANGED <<link, sessVars, chunk, tx, timedOut>>

-----------------------------------------------------------------------------
DeviceOps == {"img", "info", "mw", "stop", "run"}

Next ==
    \/ Connect \/ Opened \/ OpenFails
    \/ Disconnect \/ Unplug \/ WriteFails \/ Closed
    \/ Poll \/ InfoTimer \/ Timeout
    \/ \E w \in Writers: WriteWord(w) \/ ForceBit(w)
    \/ Program("run") \/ Program("stop")
    \/ Receive \/ OnLine
    \/ Polled \/ Identified \/ Written \/ Commanded
    \/ \E op \in DeviceOps: DeviceAnswers(op)
    \/ Scan \/ ScanFaults \/ FaultReprint

Spec == Init /\ [][Next]_vars

\* The event loop ends every turn, and every task that is ready gets a turn.
Turns == WF_vars(OnLine) /\ WF_vars(Polled) /\ WF_vars(Identified) /\ WF_vars(Written) /\ WF_vars(Commanded)
Tasks == SF_vars(Receive) /\ SF_vars(Poll) /\ SF_vars(Closed)

-----------------------------------------------------------------------------
(* Properties. *)

\* Commands go out one at a time, and none of their answers is passed over:
\* while the link is open exactly the current command has a request or an
\* answer under way that is its own (session.ts:244-264, 278-309).
OneAtATime ==
    link = "open" =>
        Cardinality(Own(tx)) + Cardinality(Own(rx)) + Cardinality(Own(chunk))
            = IF current = NoCmd THEN 0 ELSE 1

\* A device slower than the timers does not pile up polls: one img and two
\* infos (the timer's and the bar's) at most wait or are out, beside one
\* write per writer (session.ts:143, 228-235).
NoPileUp ==
    /\ \A i, j \in DOMAIN queue:
        queue[i].op = "img" /\ queue[j].op = "img" => i = j /\ current.op # "img"
    /\ Len(queue) <= 3 + Cardinality(Writers)

\* What the session believes %M to be is what the device holds, unless a write
\* is on its way - as long as no answer was late and the program leaves the
\* word alone (session.ts:311-320, 342-352).
KnownIsDevice ==
    Calm /\ link = "open" /\ known # {} /\ current.op # "mw" /\ ~timedOut
    /\ ~ProgramImage
        => known = {word}

\* No fault is shown over a program that runs, once the call that started it is
\* over - unless an answer was late (session.ts:57, 169).
NoStaleFault ==
    Calm /\ link = "open" /\ ~timedOut /\ fault /\ prog = "run" => Bar \in waiting

\* When a connection has ended, every call made over it has settled
\* (session.ts:205-219).
NobodyLeftWaiting == Calm /\ link = "closed" => waiting = {}

\* The command queue between any two turns of the event loop.
QueueOrderly == TypeOK /\ OneAtATime /\ NoPileUp /\ NobodyLeftWaiting /\ KnownIsDevice

\* "device not responding" is not the last word on a device that answers: the
\* session is online again, or it was closed (session.ts:318-319).
ErrorRecovers == state = "error" ~> state \in {"online", "disconnected"}

\* The fault of a device that stays faulted is shown in the end and stays
\* shown, even when its line came in the same chunk as the answer to run
\* (session.ts:169, 299-304; loader.ino:530-535).
FaultShown ==
    <>[](prog = "fault" /\ link = "open" /\ state \in {"online", "error"})
        => <>[]fault

\* Silence is not the last word on a device that answers, nor success on one
\* that is faulted.
DeviceIsSeen == ErrorRecovers /\ FaultShown

\* "Stops the program (outputs off)" (session.ts:154): when stop succeeds, the
\* device's program does not run.
StopConfirmed ==
    \A i \in DOMAIN settled:
        settled[i].cmd.op = "stop" /\ settled[i].out = "ok" => prog # "run"
=============================================================================
