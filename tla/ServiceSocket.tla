---------------------------- MODULE ServiceSocket ----------------------------
(***************************************************************************)
(* Calls over one socket of a device service: each is a short program of   *)
(* writes and reads (see ServiceTable), and nothing keeps two calls apart. *)
(*                                                                         *)
(* How a reply finds its call is the framing of the service:               *)
(*   "bytes"    readExactly (packages/core/src/utils/socket.ts): 4 bytes,  *)
(*              then as many as they say. Listeners of 'readable' run in   *)
(*              the order they were added and take what they want.         *)
(*   "queue"    InspectorSession: whole messages, to its waiters in order. *)
(*   "matched"  AfcService and DtxConnection: a reply carries the number   *)
(*              of its request and goes to it (see their own modules);     *)
(*              what comes unasked goes to a queue, as above; on a DTX     *)
(*              channel so do the replies no request waits for.            *)
(* Once a read has taken bytes that are not what it believes, the stream   *)
(* is broken: no later read of it parses.                                  *)
(*                                                                         *)
(* The event loop is explicit: micro holds the listeners and continuations *)
(* that run before the next event. The service is external: it answers in  *)
(* order, in chunks of its choosing, late or never.                        *)
(***************************************************************************)
EXTENDS Integers, Sequences, FiniteSets, SequencesExt

CONSTANTS
  Services,   \* the services: their rows (see Rows)
  Call,       \* the calls
  None,       \* the service itself, of what it sends unasked
  MaxPushes,  \* bound: frames it sends unasked
  MaxOverlap  \* bound: steps of calls that run beside each other

ASSUME ServiceAssumption == None \notin Call /\ MaxPushes \in Nat /\ MaxOverlap \in Nat

------------------------------------------------------------------------------
\* What a row may be. A frame says whether a request went well, that there is
\* more to come, that something happened, or is bytes of a known length.
Says == {"good", "bad", "more", "event", "raw"}
Checks == {"", "any", "status", "final", "list", "until", "tag", "name", "id", "process", "push", "ack"}
Names == {"", "GetValue", "StartService"}
Steps == [do : {"write", "read", "race", "raw", "drain"}, replies : SUBSET Seq(Says),
          name : Names, check : Checks]
Ops == [steps : Seq(Steps), loop : Nat, first : Nat, neat : BOOLEAN, ends : BOOLEAN,
        opens : Nat, finally : Nat, unread : Seq(SUBSET Seq(Says))]
Rows == [framing : {"bytes", "queue", "matched"}, timed : BOOLEAN, greets : BOOLEAN,
         pushes : BOOLEAN, tagged : BOOLEAN, channel : BOOLEAN, ops : Seq(Ops)]

ReadsAt(op, k) == op.steps[k].do \in {"read", "race", "raw"}
WantsReply(row, step) == row.framing = "matched" /\ step.check \notin {"push", "ack"}

\* Where a call can be; a greeting is a first part of a program, a file is held
\* between the read that opens it and the write that closes it, and not over data
\* that end of themselves.
InRange(op) ==
  /\ {op.loop, op.first, op.finally} \subseteq 0..Len(op.steps)
  /\ op.opens # 0 => /\ op.opens < op.finally /\ op.steps[op.finally].do = "write" /\ op.loop = 0
                    /\ \A k \in DOMAIN op.steps : op.steps[k].do # "drain"

\* What a step that reads a frame of its own call may do with it (see Takes).
Answers(check, says) ==
  CASE check = "list"            -> IF says = "good" THEN {"accept"} ELSE {"again"}
    [] check = "until"           -> {"again"}
    [] check = "status"          -> IF says # "bad" THEN {"accept"} ELSE {"throw"}
    [] check = "final"           -> IF says = "good" THEN {"accept"} ELSE IF says = "bad" THEN {"throw"} ELSE {"again"}
    [] check \in {"tag", "name"} -> IF says # "bad" THEN {"accept", "throw"} ELSE {"throw"}
    [] OTHER                     -> {"accept"}

\* An operation reads what its requests bring: op.unread[k] holds what may be
\* unread when it comes to step k, and at its end there is nothing.
ReadsWhatItAsks(op) ==
  /\ Len(op.unread) = Len(op.steps) + 1
  /\ <<>> \in op.unread[op.first + 1]
  /\ op.neat => op.unread[Len(op.steps) + 1] \subseteq {<<>>}
  /\ op.opens # 0 => <<>> \in op.unread[op.finally]
  /\ \A k \in DOMAIN op.steps : \A u \in op.unread[k] :
       /\ op.steps[k].do = "write" => \A r \in op.steps[k].replies : u \o r \in op.unread[k + 1]
       /\ ReadsAt(op, k) /\ u # <<>> =>
            /\ (Head(u) = "raw") <=> (op.steps[k].do = "raw")
            /\ op.steps[k].do = "raw" => Tail(u) \in op.unread[k + 1]
            /\ op.steps[k].do # "raw" =>
                 \A a \in Answers(op.steps[k].check, Head(u)) :
                   /\ a = "accept" => Tail(u) \in op.unread[k + 1]
                   /\ a = "again"  => Tail(u) \in op.unread[k]
                   /\ a = "throw"  => Tail(u) = <<>>

\* The greeting is one frame, taken by the first step of the program.
Greets(op) ==
  /\ op.steps[1].do = "read" /\ op.steps[1].check = "push"
  /\ \A u \in op.unread[1] : Len(u) <= 1
  /\ {<<>>, <<"event">>} \subseteq op.unread[1]

\* A stream skips nothing of a known length.
Streams(op) ==
  \A k \in DOMAIN op.steps : /\ op.steps[k].do # "raw"
                             /\ \A r \in op.steps[k].replies : "raw" \notin ToSet(r)

\* Where replies are matched, a request has one at most, for the step after it.
MatchesReplies(row, op) ==
  \A k \in DOMAIN op.steps :
    /\ op.steps[k].do \in {"write", "read"}
    /\ op.loop = 0 =>
         \A u \in op.unread[k] :
           /\ Len(u) <= 1
           /\ op.steps[k].do = "write" => u = <<>>
           /\ op.steps[k].do = "read" /\ u # <<>> =>
                ((Head(u) \in {"good", "bad"}) <=> WantsReply(row, op.steps[k]))

\* Over usbmuxd a reply is read right after its request.
Tags(op) ==
  /\ op.opens = 0 /\ op.first = 0
  /\ \A k \in DOMAIN op.steps :
       /\ op.steps[k].do \in {"write", "read"}
       /\ op.steps[k].do = "read" => op.steps[k].check \in {"tag", "push"}
       /\ op.steps[k].check = "tag" => k > 1 /\ op.steps[k - 1].do = "write" /\ op.loop # k

RowOK(row) ==
  /\ row \in Rows
  /\ row.tagged => row.framing = "bytes"
  /\ \A o \in DOMAIN row.ops :
       /\ InRange(row.ops[o])
       /\ row.ops[o].loop = 0 => ReadsWhatItAsks(row.ops[o])
       /\ row.ops[o].loop # 0 => Streams(row.ops[o])
       /\ row.ops[o].first # 0 => row.greets /\ row.ops[o].loop = 0 /\ Greets(row.ops[o])
       /\ row.framing = "matched" => MatchesReplies(row, row.ops[o])
       /\ row.tagged => Tags(row.ops[o])

ASSUME TableAssumption == \A row \in Services : RowOK(row)

------------------------------------------------------------------------------
VARIABLES
  service,  \* the row of the service whose socket this is
  open,     \* the socket is not closed
  todo,     \* the frames the service has still to send
  inbox,    \* those received and not read
  cut,      \* of the last of these only the length has arrived
  begun,    \* of the first of these the length was read
  broken,   \* the reads are out of step with the stream
  readers,  \* the reads waiting, in order
  micro,    \* what runs before the next event
  writes,   \* the calls whose write was not called back yet, in order
  calls,    \* of each call: op, pc, phase, the tag it expects, whether it has
            \* failed, holds an open file, accepted a reply not its own (stole)
  tag,      \* the tag of PlistMuxConnection
  greeted,  \* the greeting of the service was exchanged
  pushed,   \* frames sent unasked
  loose,    \* a call was cut short, ran beside another, left a reply unread or
            \* was answered before its request was on record
  crossed   \* over usbmuxd, a request was written before the last was called back

stream == <<inbox, cut, begun, broken>>
vars == <<service, open, todo, stream, readers, micro, writes, calls, tag, greeted, pushed, loose, crossed>>

NoOp == [steps |-> <<>>, loop |-> 0, first |-> 0, neat |-> TRUE, ends |-> FALSE, opens |-> 0, finally |-> 0,
         unread |-> <<>>]
Idle == [op |-> 0, pc |-> 1, phase |-> "idle", tag |-> 0, failed |-> FALSE, held |-> FALSE, stole |-> FALSE]

OpOf(c) == IF calls[c].op = 0 THEN NoOp ELSE service.ops[calls[c].op]
StepOf(c) == OpOf(c).steps[calls[c].pc]
Active(c) == calls[c].phase \in {"run", "sent", "reading", "draining"}
Quiet == micro = <<>>

\* What a reply looks like on the wire: one frame, with a length before it
\* where they are read as bytes.
Frame(c, at, says, n, name) == [for |-> c, at |-> at, says |-> says, tag |-> n, name |-> name]
Unasked == Frame(None, 0, "event", 0, "")
HasHead(f) == service.framing = "bytes" /\ f.says # "raw"
IsReply(f) == service.framing = "matched" /\ f.says \in {"good", "bad"}

\* What a read finds: nothing, or the next part of the stream.
Dry == inbox = <<>> \/ (begun /\ cut /\ Len(inbox) = 1)
NextPart ==
  IF begun THEN "body" ELSE IF HasHead(Head(inbox)) THEN "head"
  ELSE IF Head(inbox).says = "raw" THEN "raw" ELSE "frame"

Init ==
  /\ service \in Services
  /\ open = TRUE /\ readers = <<>> /\ micro = <<>>
  /\ inbox = <<>> /\ cut = FALSE /\ begun = FALSE /\ broken = FALSE
  /\ todo = IF service.greets THEN <<Unasked>> ELSE <<>>
  /\ writes = <<>> /\ calls = [c \in Call |-> Idle]
  /\ tag = 1 /\ greeted = FALSE /\ pushed = 0 /\ loose = FALSE /\ crossed = FALSE

------------------------------------------------------------------------------
Job(what, c, at, unit) == [what |-> what, who |-> c, at |-> at, unit |-> unit]
NoUnit == [part |-> "none", frame |-> Unasked]
Run(c, at) == Job("run", c, at, NoUnit)
Try(r) == Job("try", r.who, r.at, NoUnit)

\* A read of a call, or of a call that has gone on without it.
Reader(c, at, want) == [who |-> c, at |-> at, want |-> want]
Orphan(r) == r.at # calls[r.who].pc \/ calls[r.who].phase # "reading"
Wants(step) ==
  IF step.do = "raw" THEN "raw" ELSE IF service.framing = "bytes" THEN "head"
  ELSE IF WantsReply(service, step) THEN "reply" ELSE "frame"

\* (mutant) No finally around the work on a file.
FailAtOnce(c, rest) == calls' = [calls EXCEPT ![c].phase = "failed"] /\ micro' = rest

\* A call fails; with a file open it closes it first (a finally).
Fail(c, rest) ==
  LET op == OpOf(c)
      closes == calls[c].held /\ calls[c].pc < op.finally IN
  /\ calls' = IF closes THEN [calls EXCEPT ![c].pc = op.finally, ![c].phase = "run", ![c].failed = TRUE]
              ELSE [calls EXCEPT ![c].phase = "failed"]
  /\ micro' = IF closes THEN Append(rest, Run(c, op.finally)) ELSE rest

\* A call goes on with its next step, comes round again, or has ended.
GoOn(c, got, rest) ==
  LET op == OpOf(c)
      after == IF calls[c].pc = Len(op.steps) THEN op.loop ELSE calls[c].pc + 1
      ended == after = 0 IN
  /\ calls' = [calls EXCEPT ![c] = [got EXCEPT !.pc = IF ended THEN @ ELSE after,
                                              !.held = @ \/ calls[c].pc = op.opens,
                                              !.phase = IF ~ended THEN "run" ELSE IF got.failed THEN "failed" ELSE "ok"]]
  /\ micro' = IF ended THEN rest ELSE Append(rest, Run(c, after))
  /\ greeted' = (greeted \/ (op.first # 0 /\ calls[c].pc = op.first))
  /\ loose' = (loose \/ (ended /\ ~op.neat))

\* A read is registered and tries at once.
Register(r, rest) == readers' = Append(readers, r) /\ micro' = <<Try(r)>> \o rest

------------------------------------------------------------------------------
\* A caller calls. The greeting is exchanged once.
Start(c, o) ==
  /\ Quiet /\ calls[c].phase = "idle"
  /\ LET op == service.ops[o]
         pc == IF greeted THEN op.first + 1 ELSE 1 IN
     /\ op.first # 0 \/ ~service.greets \/ greeted
     /\ pc <= Len(op.steps)
     /\ \A d \in Call : Active(d) => Len(op.steps) + Len(OpOf(d).steps) <= MaxOverlap
     /\ calls' = [calls EXCEPT ![c] = [@ EXCEPT !.op = o, !.pc = pc, !.phase = "run"]]
     /\ micro' = <<Run(c, pc)>>
  /\ loose' = (loose \/ \E d \in Call : Active(d))
  /\ UNCHANGED <<service, open, todo, stream, readers, writes, tag, greeted, pushed, crossed>>

\* One step of a call, up to where it waits.
DoStep ==
  /\ micro # <<>> /\ Head(micro).what = "run"
  /\ LET c == Head(micro).who
         rest == Tail(micro)
         step == StepOf(c) IN
     /\ \/ /\ step.do = "write" /\ open
           /\ \E says \in step.replies :
                todo' = todo \o [k \in DOMAIN says |-> Frame(c, calls[c].pc + 1, says[k], tag, step.name)]
           /\ calls' = [calls EXCEPT ![c].phase = "sent", ![c].held = @ /\ calls[c].pc # OpOf(c).finally]
           /\ writes' = Append(writes, c) /\ crossed' = (crossed \/ (service.tagged /\ writes # <<>>))
           /\ micro' = rest /\ UNCHANGED readers
        \/ /\ step.do = "write" /\ ~open
           /\ Fail(c, rest) /\ UNCHANGED <<todo, readers, writes, crossed>>
        \/ /\ step.do \in {"read", "race", "raw"}
           /\ calls' = [calls EXCEPT ![c].phase = "reading"]
           /\ Register(Reader(c, calls[c].pc, Wants(step)), rest)
           /\ UNCHANGED <<todo, writes, crossed>>
        \/ /\ step.do = "drain"
           /\ calls' = [calls EXCEPT ![c].phase = "draining"]
           /\ micro' = rest /\ UNCHANGED <<todo, readers, writes, crossed>>
  /\ UNCHANGED <<service, open, stream, tag, greeted, pushed, loose>>

\* (mutant) The tag counts down.
WrittenCountsDown ==
  /\ Quiet /\ writes # <<>>
  /\ writes' = Tail(writes)
  /\ micro' = <<Job("written", writes[1], calls[writes[1]].pc, NoUnit)>>
  /\ tag' = IF service.tagged THEN tag - 1 ELSE tag
  /\ UNCHANGED <<service, open, todo, stream, readers, calls, greeted, pushed, loose, crossed>>

\* The callbacks of writes, in their order, one or several at once; a write can
\* fail only with its socket (Close). Each send of PlistMuxConnection counts the
\* tag up, and only then does each sendReceive look at what to expect.
Written ==
  /\ Quiet /\ writes # <<>>
  /\ \E k \in 1..Len(writes) :
       /\ writes' = SubSeq(writes, k + 1, Len(writes))
       /\ micro' = [j \in 1..k |-> Job("written", writes[j], calls[writes[j]].pc, NoUnit)]
       /\ tag' = IF service.tagged THEN tag + k ELSE tag
  /\ UNCHANGED <<service, open, todo, stream, readers, calls, greeted, pushed, loose, crossed>>

Sent ==
  /\ micro # <<>> /\ Head(micro).what = "written"
  /\ LET c == Head(micro).who IN GoOn(c, [calls[c] EXCEPT !.tag = tag - 1], Tail(micro))
  /\ UNCHANGED <<service, open, todo, stream, readers, writes, tag, pushed, crossed>>

\* tryRead: what it wants, nothing yet, or bytes that are something else. A read
\* for a matched reply is told of it (ArriveMatched).
TryRead ==
  /\ micro # <<>> /\ Head(micro).what = "try"
  /\ LET job == Head(micro)
         mine == {k \in DOMAIN readers : readers[k].who = job.who /\ readers[k].at = job.at /\ readers[k].want # "reply"}
     IN
     \/ /\ mine = {} \/ Dry \/ broken
        /\ micro' = Tail(micro) /\ UNCHANGED <<stream, readers>>
     \/ \E k \in mine :
          /\ ~Dry /\ ~broken /\ readers[k].want = NextPart
          /\ begun' = (NextPart = "head")
          /\ inbox' = IF NextPart = "head" THEN inbox ELSE Tail(inbox)
          /\ readers' = RemoveAt(readers, k)
          /\ micro' = Append(Tail(micro), Job("got", job.who, job.at, [part |-> NextPart, frame |-> Head(inbox)]))
          /\ UNCHANGED <<cut, broken>>
     \/ \E k \in mine :
          /\ ~Dry /\ ~broken /\ readers[k].want # NextPart
          /\ broken' = TRUE /\ inbox' = <<>> /\ cut' = FALSE /\ begun' = FALSE
          /\ micro' = Tail(micro) /\ UNCHANGED readers
  /\ UNCHANGED <<service, open, todo, writes, calls, tag, greeted, pushed, loose, crossed>>

\* (mutant) receive() is called without the expected tag.
TakesAnyTag(c, f) == IF f.says # "bad" THEN "accept" ELSE "throw"

\* (mutant) The first status ends an installation.
TakesFirst(c, f) == IF f.says = "bad" THEN "throw" ELSE "accept"

\* Whether a step takes a frame as its answer, reads on, or throws.
Takes(c, f) ==
  LET step == StepOf(c) IN
  CASE step.check = "list"       -> IF f.says = "good" /\ f.for # None THEN "accept" ELSE "again"
    [] step.check = "until"      -> "again"
    [] step.check = "status"     -> IF f.says # "bad" THEN "accept" ELSE "throw"
    [] step.check = "final"      -> CASE f.says = "good" -> "accept" [] f.says = "bad" -> "throw" [] OTHER -> "again"
    [] step.check = "tag"        -> IF f.tag = calls[c].tag /\ f.says # "bad" THEN "accept" ELSE "throw"
    [] step.check = "name"       -> IF f.name = step.name /\ f.says # "bad" THEN "accept" ELSE "throw"
    [] step.check = "id"         -> IF f.for = c THEN "accept" ELSE "again"
    [] step.check = "process"    -> IF f.for = None THEN "again" ELSE "accept"
    [] OTHER                     -> "accept"

\* The continuation of a read.
Got ==
  /\ micro # <<>> /\ Head(micro).what = "got"
  /\ LET job == Head(micro)
         c == job.who
         rest == Tail(micro)
         f == job.unit.frame
         again == Reader(c, job.at, Wants(StepOf(c)))
         takes == Takes(c, f)
         stole == f.for # c /\ StepOf(c).do = "read" /\ StepOf(c).check # "push"
         mine == job.at = calls[c].pc /\ calls[c].phase = "reading" IN
     \/ /\ job.unit.part = "head" /\ Register(Reader(c, job.at, "body"), rest)
        /\ UNCHANGED <<calls, greeted, loose>>
     \/ /\ job.unit.part # "head" /\ ~mine /\ micro' = rest
        /\ UNCHANGED <<readers, calls, greeted, loose>>
     \/ /\ job.unit.part = "raw" /\ mine /\ GoOn(c, calls[c], rest) /\ UNCHANGED readers
     \/ /\ job.unit.part \in {"body", "frame", "reply"} /\ mine
        /\ \/ /\ takes = "accept" /\ UNCHANGED readers
              /\ GoOn(c, [calls[c] EXCEPT !.stole = @ \/ stole], rest)
           \/ /\ takes = "again" /\ Register(again, rest)
              /\ UNCHANGED <<calls, greeted, loose>>
           \/ /\ takes = "throw" /\ Fail(c, rest)
              /\ loose' = (loose \/ f.for # c \/ OpOf(c).loop # 0) /\ UNCHANGED <<readers, greeted>>
  /\ UNCHANGED <<service, open, todo, stream, writes, tag, pushed, crossed>>

------------------------------------------------------------------------------
\* A chunk arrives, all of a frame or a part of it, and every listener runs.
Arrive ==
  /\ Quiet /\ open
  /\ \/ cut /\ cut' = FALSE /\ UNCHANGED <<todo, inbox>>
     \/ /\ ~cut /\ todo # <<>> /\ ~IsReply(Head(todo))
        /\ todo' = Tail(todo)
        /\ inbox' = IF broken THEN <<>> ELSE Append(inbox, Head(todo))
        /\ cut' \in (IF HasHead(Head(todo)) /\ ~broken THEN BOOLEAN ELSE {FALSE})
  /\ micro' = [j \in DOMAIN readers |-> Try(readers[j])]
  /\ UNCHANGED <<service, open, begun, broken, readers, writes, calls, tag, greeted, pushed, loose, crossed>>

\* A matched reply goes to its own call, if that waits for it. AfcService puts a
\* request on record before it writes it, and drops what nobody waits for; a
\* DtxConnection does so after the write callback, and hands what nobody waits for
\* to its channel, as an event.
ArriveMatched ==
  /\ Quiet /\ open /\ todo # <<>> /\ IsReply(Head(todo))
  /\ LET f == Head(todo)
         own == {k \in DOMAIN readers : readers[k].who = f.for /\ readers[k].want = "reply" /\ readers[k].at = f.at} IN
     \/ \E k \in own :
          /\ readers' = RemoveAt(readers, k)
          /\ micro' = <<Job("got", f.for, readers[k].at, [part |-> "reply", frame |-> f])>>
          /\ UNCHANGED <<inbox, loose>>
     \/ own = {} /\ ~service.channel /\ calls[f.for].phase # "sent" /\ UNCHANGED <<inbox, readers, micro, loose>>
     \/ /\ own = {} /\ service.channel /\ loose' = TRUE
        /\ inbox' = IF broken THEN <<>> ELSE Append(inbox, [f EXCEPT !.says = "event"])
        /\ micro' = [j \in DOMAIN readers |-> Try(readers[j])] /\ UNCHANGED readers
  /\ todo' = Tail(todo)
  /\ UNCHANGED <<service, open, cut, begun, broken, writes, calls, tag, greeted, pushed, crossed>>

\* The service sends a frame unasked: an event, a log entry, a Marco.
Push ==
  /\ Quiet /\ open /\ service.pushes /\ pushed < MaxPushes
  /\ todo' = Append(todo, Unasked) /\ pushed' = pushed + 1
  /\ loose' = (loose \/ ~\E c \in Call : Active(c) /\ OpOf(c).loop # 0)
  /\ UNCHANGED <<service, open, stream, readers, micro, writes, calls, tag, greeted, crossed>>

\* (mutant) The timer takes the listeners off and does not reject.
TimeOutSilent(k) ==
  /\ Quiet /\ k \in DOMAIN readers /\ service.timed
  /\ readers' = RemoveAt(readers, k) /\ loose' = TRUE
  /\ UNCHANGED <<service, open, todo, stream, micro, writes, calls, tag, greeted, pushed, crossed>>

\* The timer of a read, or bytes of a broken stream that do not parse. The recv of
\* a DTX channel leaves its waiter in the line.
TimeOut(k) ==
  /\ Quiet /\ k \in DOMAIN readers /\ service.timed
  /\ IF service.channel /\ readers[k].want = "frame"
     THEN ~Orphan(readers[k]) /\ UNCHANGED readers
     ELSE readers' = RemoveAt(readers, k)
  /\ IF Orphan(readers[k]) THEN UNCHANGED <<calls, micro>> ELSE Fail(readers[k].who, <<>>)
  /\ loose' = TRUE
  /\ UNCHANGED <<service, open, todo, stream, writes, tag, greeted, pushed, crossed>>

\* Promise.race in getOpenPages: at the deadline the call goes on and its read
\* stays where it is.
Abandon(c) ==
  /\ Quiet /\ calls[c].phase = "reading" /\ StepOf(c).do = "race"
  /\ \E k \in DOMAIN readers : readers[k].who = c /\ ~Orphan(readers[k])
  /\ LET op == OpOf(c)
         last == calls[c].pc = Len(op.steps) IN
     /\ calls' = [calls EXCEPT ![c].pc = IF last THEN @ ELSE @ + 1, ![c].phase = IF last THEN "ok" ELSE "run"]
     /\ micro' = IF last THEN <<>> ELSE <<Run(c, calls[c].pc + 1)>>
  /\ loose' = TRUE
  /\ UNCHANGED <<service, open, todo, stream, readers, writes, tag, greeted, pushed, crossed>>

\* DebugServerAppListService has read the end of its list or of the connection, and
\* parses what it has; what comes after is left unread.
DrainEnds(c) ==
  /\ Quiet /\ calls[c].phase = "draining" /\ ~OpOf(c).ends
  /\ \E phase \in {"ok", "failed"} : calls' = [calls EXCEPT ![c].phase = phase]
  /\ loose' = TRUE
  /\ UNCHANGED <<service, open, todo, stream, readers, micro, writes, tag, greeted, pushed, crossed>>

\* What takes the end of the connection for an answer: requestSources for the end
\* of its data, a DTX stream for the end of the stream, a wait for an ack for that.
TakesEnd(c) ==
  \/ OpOf(c).ends /\ (calls[c].phase = "draining" \/ (OpOf(c).loop # 0 /\ Active(c)))
  \/ calls[c].phase = "reading" /\ StepOf(c).check = "ack"

\* The socket closes, by close() or by the other end. InspectorSession does not
\* listen for it.
Close ==
  /\ Quiet /\ open
  /\ open' = FALSE /\ todo' = <<>> /\ loose' = TRUE
  /\ calls' = [c \in Call |->
       IF TakesEnd(c) THEN [calls[c] EXCEPT !.phase = "ok"]
       ELSE IF calls[c].phase = "sent" \/ (service.framing # "queue" /\
               \E k \in DOMAIN readers : readers[k].who = c /\ ~Orphan(readers[k]))
            THEN [calls[c] EXCEPT !.phase = "failed"]
       ELSE calls[c]]
  /\ readers' = IF service.framing = "queue" THEN readers ELSE <<>>
  /\ writes' = <<>>
  /\ UNCHANGED <<service, stream, micro, tag, greeted, pushed, crossed>>

------------------------------------------------------------------------------
Micro == DoStep \/ Sent \/ TryRead \/ Got

Next ==
  \/ Micro \/ Written \/ Arrive \/ ArriveMatched \/ Push \/ Close
  \/ \E c \in Call : Abandon(c) \/ DrainEnds(c) \/ \E o \in DOMAIN service.ops : Start(c, o)
  \/ \E k \in DOMAIN readers : TimeOut(k)

\* The event loop, and the timers; never the service.
Fairness ==
  /\ WF_vars(Micro) /\ WF_vars(Written)
  /\ \A c \in Call : WF_vars(Abandon(c))
  /\ WF_vars(\E k \in DOMAIN readers : TimeOut(k))

Spec == Init /\ [][Next]_vars /\ Fairness

------------------------------------------------------------------------------
Frames == [for : Call \cup {None}, at : Nat, says : Says, tag : Nat, name : Names]
Units == [part : {"none", "head", "body", "raw", "frame", "reply"}, frame : Frames]
Calls == [op : Nat, pc : Nat, phase : {"idle", "run", "sent", "reading", "draining", "ok", "failed"},
          tag : Nat, failed : BOOLEAN, held : BOOLEAN, stole : BOOLEAN]

Reads == [who : Call, at : Nat, want : {"head", "body", "raw", "frame", "reply"}]
Jobs == [what : {"run", "written", "try", "got"}, who : Call, at : Nat, unit : Units]

\* A call is at a step of its operation, and so are its reads.
TypeOK ==
  /\ service \in Services /\ open \in BOOLEAN
  /\ todo \in Seq(Frames) /\ inbox \in Seq(Frames)
  /\ cut \in BOOLEAN /\ begun \in BOOLEAN /\ broken \in BOOLEAN
  /\ readers \in Seq(Reads) /\ micro \in Seq(Jobs)
  /\ writes \in Seq(Call) /\ calls \in [Call -> Calls]
  /\ \A c \in Call : IF calls[c].phase = "idle" THEN calls[c] = Idle
                     ELSE calls[c].op \in DOMAIN service.ops /\ calls[c].pc \in DOMAIN OpOf(c).steps
  /\ \A k \in DOMAIN readers : readers[k].at \in DOMAIN OpOf(readers[k].who).steps
  /\ tag \in Nat \ {0} /\ greeted \in BOOLEAN /\ pushed \in 0..MaxPushes
  /\ loose \in BOOLEAN /\ crossed \in BOOLEAN

\* A call that succeeds has taken the reply to its own request, as long as no
\* call before it was cut short, ran beside another or left a reply behind. Beside
\* others it has so over usbmuxd (by its tag), unless a request was written before
\* the callback of another, whose tag it then carries; and over AFC and DTX (by
\* their numbers), an ack apart, which is whatever comes next.
OwnReply ==
  \A c \in Call : calls[c].phase = "ok" /\ calls[c].stole =>
    /\ loose
    /\ service.tagged => crossed
    /\ service.framing = "matched" => \E k \in DOMAIN OpOf(c).steps : OpOf(c).steps[k].check = "ack"

\* A file that was opened is closed: once an operation has ended, whatever failed
\* on the way, the FILE_CLOSE of what it opened was sent, or the socket is gone.
FilesClosed ==
  \A c \in Call : calls[c].phase \in {"ok", "failed"} /\ open => ~calls[c].held

\* Every operation reads exactly what its requests bring: between calls none of
\* which was disturbed, nothing is left unread or to be sent, no read waits, and
\* the reads are in step with the stream.
InStep ==
  ~loose => /\ ~broken
            /\ (\A c \in Call : ~Active(c)) /\ (greeted \/ ~service.greets) =>
                 inbox = <<>> /\ todo = <<>> /\ readers = <<>>

\* A call ends, whatever the service answers or leaves unanswered, when the reads of
\* its service are timed, unless it is a stream or takes data until the end. No
\* write has a timer: the kernel takes what is written, or fails it with the socket.
EveryCallEnds ==
  \A c \in Call : (Active(c) /\ service.timed) ~>
    (~Active(c) \/ OpOf(c).loop # 0 \/ calls[c].phase = "draining")
==============================================================================
