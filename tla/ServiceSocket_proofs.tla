------------------------ MODULE ServiceSocket_proofs ------------------------
(* What holds of the calls over one socket for every table of services that  *)
(* is one (TableAssumption), every number of calls and of what comes unasked, *)
(* however the calls run beside each other, are cut short or fail.            *)
(*                                                                            *)
(* The inductive invariant Whole is, from the bottom up:                      *)
(*   Base     types, the place of each call (Places), what its reads want     *)
(*            (Wanted), the file it holds (Holds)                             *)
(*   Numbers  which frames carry which tag, over usbmuxd                      *)
(*   Solo     as long as no call was disturbed, where the only call is        *)
(*            (Where) and that what is unread is what it has to read (Owed)   *)
(*   Stolen   what a call has taken that was not its own                      *)
EXTENDS ServiceSocket, SequenceTheorems, TLAPS

\* A call waits for what its step waits for.
AtStep(c) ==
  /\ calls[c].phase = "sent" => OpOf(c).steps[calls[c].pc].do = "write"
  /\ calls[c].phase = "reading" => ReadsAt(OpOf(c), calls[c].pc)
  /\ calls[c].phase = "draining" => OpOf(c).steps[calls[c].pc].do = "drain"

\* A call goes on in one place: as a job that runs it, or as a write that is
\* not called back yet.
Places ==
  /\ \A i \in DOMAIN micro : /\ micro[i].what = "run" => calls[micro[i].who].phase = "run"
                             /\ micro[i].what = "written" => calls[micro[i].who].phase = "sent"
  /\ \A i, j \in DOMAIN micro :
       micro[i].what \in {"run", "written"} /\ micro[j].what \in {"run", "written"}
         /\ micro[i].who = micro[j].who => i = j
  /\ \A k \in DOMAIN writes : open /\ calls[writes[k]].phase = "sent"
  /\ \A k, l \in DOMAIN writes : writes[k] = writes[l] => k = l
  /\ \A k \in DOMAIN writes, i \in DOMAIN micro : micro[i].what = "written" => micro[i].who # writes[k]
  /\ \A c \in Call : AtStep(c)

\* While a call goes on, it holds a file between the step that opened it and the
\* one that closes it, and has not closed it yet.
Holds ==
  \A c \in Call : calls[c].held /\ Active(c) =>
    /\ OpOf(c).opens # 0 /\ OpOf(c).opens < calls[c].pc
    /\ calls[c].pc <= OpOf(c).finally
    /\ calls[c].pc = OpOf(c).finally => calls[c].phase = "run"

\* A read wants what its step reads, and is given that.
Wanted ==
  /\ \A k \in DOMAIN readers :
       \/ readers[k].want = Wants(OpOf(readers[k].who).steps[readers[k].at])
       \/ readers[k].want = "body" /\ service.framing = "bytes"
  /\ \A i \in DOMAIN micro : micro[i].what = "got" =>
       LET j == micro[i] IN
       /\ j.at \in DOMAIN OpOf(j.who).steps
       /\ j.unit.part \in {"head", "body", "raw", "frame", "reply"}
       /\ j.unit.part \in {"head", "body"} => service.framing = "bytes"
       /\ j.unit.part \in {"raw", "frame"} => j.unit.part = Wants(OpOf(j.who).steps[j.at])
       /\ j.unit.part = "reply" => j.unit.frame.for = j.who
  /\ \A k \in DOMAIN inbox : ~IsReply(inbox[k])

\* Every frame there is.
InPlay == {todo[k] : k \in DOMAIN todo} \cup {inbox[k] : k \in DOMAIN inbox}
            \cup {micro[i].unit.frame : i \in DOMAIN micro}

\* Over usbmuxd no two requests carry the same tag, and what comes unasked has none.
Numbers ==
  service.tagged /\ ~crossed =>
    /\ Len(writes) <= 1
    /\ \A f \in InPlay :
         /\ f.tag <= tag /\ (f.tag = 0 <=> f.for = None)
         /\ f.tag = tag /\ open => writes # <<>> /\ Head(writes) = f.for
    /\ \A i \in DOMAIN micro : micro[i].what = "written" =>
         tag > 1 /\ \A f \in InPlay : f.tag = tag - 1 => f.for = micro[i].who
    /\ \A c \in Call :
         /\ calls[c].tag # 0 => calls[c].tag < tag /\ \A f \in InPlay : f.tag = calls[c].tag => f.for = c
         /\ calls[c].phase \in {"run", "reading"} /\ StepOf(c).check = "tag" => calls[c].tag # 0

\* What a call has taken that was not its own.
Stolen ==
  \A c \in Call : /\ calls[c].stole =>
                       /\ loose \/ OpOf(c).loop # 0
                       /\ service.tagged => crossed
                       /\ service.framing = "matched" => \E k \in DOMAIN OpOf(c).steps : OpOf(c).steps[k].check = "ack"
                  /\ calls[c].phase = "ok" /\ OpOf(c).loop # 0 => loose

\* The only job.
Only(what, c) == Len(micro) = 1 /\ micro[1].what = what /\ micro[1].who = c /\ micro[1].at = calls[c].pc

\* Where the only call is.
Where(c) ==
  /\ calls[c].phase = "run" => Only("run", c) /\ readers = <<>> /\ writes = <<>> /\ ~begun
  /\ calls[c].phase = "sent" =>
       /\ readers = <<>> /\ ~begun
       /\ \/ micro = <<>> /\ Len(writes) = 1 /\ writes[1] = c
          \/ Only("written", c) /\ writes = <<>>
  /\ calls[c].phase = "draining" => micro = <<>> /\ readers = <<>> /\ writes = <<>> /\ ~begun
  /\ calls[c].phase = "reading" =>
       /\ writes = <<>>
       /\ \/ /\ Len(readers) = 1 /\ readers[1].who = c /\ readers[1].at = calls[c].pc
             /\ readers[1].want = IF begun THEN "body" ELSE Wants(StepOf(c))
             /\ micro = <<>> \/ Only("try", c)
          \/ /\ readers = <<>> /\ Only("got", c)
             /\ micro[1].unit.part = "head" <=> begun
             /\ micro[1].unit.part = "raw" <=> StepOf(c).do = "raw"

\* What the frames say that are on their way or not read.
Told(s) == [k \in DOMAIN s |-> s[k].says]
Flow == inbox \o todo
Taken == micro # <<>> /\ micro[1].what = "got" /\ micro[1].unit.part # "head"
Due(c) == IF calls[c].phase = "sent" THEN calls[c].pc + 1 ELSE calls[c].pc

\* A frame of the only call, or the greeting.
Mine(c, f) ==
  \/ f.for = c /\ (service.framing = "matched" => f.at = Due(c))
  \/ f.for = None /\ f.says = "event" /\ OpOf(c).first # 0 /\ calls[c].pc = 1

\* What is unread is what the only call has still to read.
Owed(c) ==
  IF OpOf(c).loop # 0
  THEN \A k \in DOMAIN Flow : Flow[k].says # "raw"
  ELSE /\ \A k \in DOMAIN Flow : Mine(c, Flow[k])
       /\ Taken => Mine(c, micro[1].unit.frame)
       /\ IF Taken
          THEN \E u \in OpOf(c).unread[Due(c)] :
                 u # <<>> /\ Head(u) = micro[1].unit.frame.says /\ Tail(u) = Told(Flow)
          ELSE Told(Flow) \in OpOf(c).unread[Due(c)]

\* Between calls there is nothing, or the greeting that was not taken yet.
AtRest ==
  /\ micro = <<>> /\ readers = <<>> /\ writes = <<>> /\ ~begun
  /\ \/ Flow = <<>>
     \/ service.greets /\ ~greeted /\ Told(Flow) = <<"event">> /\ \A k \in DOMAIN Flow : Flow[k].for = None

\* As long as no call was disturbed.
Solo ==
  ~loose =>
    /\ open /\ ~broken
    /\ begun => inbox # <<>> /\ HasHead(Head(inbox))
    /\ (service.greets \/ ~greeted)
    /\ \A c, d \in Call : Active(c) /\ Active(d) => c = d
    /\ \A c \in Call : Active(c) => Where(c) /\ Owed(c)
    /\ (\A c \in Call : ~Active(c)) => AtRest

------------------------------------------------------------------------------
LEMMA AppendIs ==
  ASSUME NEW T, NEW s \in Seq(T), NEW e \in T
  PROVE  /\ Append(s, e) \in Seq(T) /\ Append(s, e) # <<>>
         /\ Len(s) \in Nat /\ Len(Append(s, e)) = Len(s) + 1
         /\ \A i \in 1..Len(s) : Append(s, e)[i] = s[i]
         /\ Append(s, e)[Len(s) + 1] = e
OBVIOUS

LEMMA TailIs ==
  ASSUME NEW T, NEW s \in Seq(T), s # <<>>
  PROVE  /\ Head(s) \in T /\ Head(s) = s[1]
         /\ Len(s) \in Nat /\ Len(s) >= 1
         /\ Tail(s) \in Seq(T) /\ Len(Tail(s)) = Len(s) - 1
         /\ \A i \in 1..(Len(s) - 1) : Tail(s)[i] = s[i + 1]
OBVIOUS

LEMMA RemoveAtIs ==
  ASSUME NEW T, NEW s \in Seq(T), NEW k \in 1..Len(s)
  PROVE  /\ RemoveAt(s, k) \in Seq(T) /\ Len(s) \in Nat
         /\ Len(RemoveAt(s, k)) = Len(s) - 1
         /\ \A i \in 1..(Len(s) - 1) : RemoveAt(s, k)[i] = IF i < k THEN s[i] ELSE s[i + 1]
<1> DEFINE a == SubSeq(s, 1, k - 1)
           b == SubSeq(s, k + 1, Len(s))
<1>1. Len(s) \in Nat /\ k \in Nat /\ k >= 1 /\ k <= Len(s)
  OBVIOUS
<1>2. a \in Seq(T) /\ Len(a) = k - 1 /\ \A i \in 1..(k - 1) : a[i] = s[i]
  BY <1>1
<1>3. b \in Seq(T) /\ Len(b) = Len(s) - k /\ \A i \in 1..(Len(s) - k) : b[i] = s[k + i]
  BY <1>1
<1> HIDE DEF a, b
<1>4. a \o b \in Seq(T) /\ Len(a \o b) = Len(s) - 1
  <2>1. a \o b \in Seq(T)
    BY <1>2, <1>3
  <2>2. Len(a \o b) = Len(a) + Len(b)
    BY <1>2, <1>3, ConcatProperties
  <2>3. Len(a) + Len(b) = Len(s) - 1
    BY <1>1, <1>2, <1>3
  <2> QED
    BY <2>1, <2>2, <2>3
<1>5. \A i \in 1..(Len(s) - 1) : (a \o b)[i] = IF i < k THEN a[i] ELSE b[i - (k - 1)]
  BY <1>1, <1>2, <1>3
<1>6. \A i \in 1..(Len(s) - 1) : (a \o b)[i] = IF i < k THEN s[i] ELSE s[i + 1]
  BY <1>1, <1>2, <1>3, <1>5
<1> QED
  BY <1>1, <1>4, <1>6 DEF RemoveAt, a, b

\* What is left when the first k are taken.
LEMMA RestIs ==
  ASSUME NEW T, NEW s \in Seq(T), NEW k \in 1..Len(s)
  PROVE  /\ SubSeq(s, k + 1, Len(s)) \in Seq(T) /\ Len(s) \in Nat
         /\ Len(SubSeq(s, k + 1, Len(s))) = Len(s) - k
         /\ \A i \in 1..(Len(s) - k) : SubSeq(s, k + 1, Len(s))[i] = s[k + i]
OBVIOUS

------------------------------------------------------------------------------
\* Every row of the table is one.
LEMMA RowIs == ASSUME service \in Services PROVE RowOK(service) /\ service \in Rows
BY TableAssumption DEF RowOK

\* The operation of a call that was made.
LEMMA OpIs ==
  ASSUME TypeOK, NEW c \in Call, calls[c].phase # "idle"
  PROVE  /\ calls[c].op \in DOMAIN service.ops /\ calls[c].op # 0 /\ OpOf(c) = service.ops[calls[c].op]
         /\ OpOf(c) \in Ops /\ InRange(OpOf(c)) /\ RowOK(service)
         /\ calls[c] \in Calls /\ OpOf(c).steps \in Seq(Steps) /\ Len(OpOf(c).steps) \in Nat
         /\ calls[c].pc \in 1..Len(OpOf(c).steps) /\ StepOf(c) \in Steps /\ StepOf(c) = OpOf(c).steps[calls[c].pc]
<1>1. RowOK(service) /\ service \in Rows
  BY RowIs DEF TypeOK
<1>2. calls[c] \in Calls /\ calls[c].op \in DOMAIN service.ops /\ calls[c].pc \in DOMAIN OpOf(c).steps
  BY DEF TypeOK
<1>3. service.ops \in Seq(Ops)
  BY <1>1 DEF Rows
<1>4. calls[c].op # 0 /\ OpOf(c) = service.ops[calls[c].op]
  BY <1>2, <1>3 DEF OpOf
<1>5. OpOf(c) \in Ops
  BY <1>2, <1>3, <1>4
<1>6. OpOf(c).steps \in Seq(Steps)
  BY <1>5 DEF Ops
<1>7. StepOf(c) \in Steps
  BY <1>2, <1>6, ElementOfSeq DEF StepOf
<1>8. InRange(OpOf(c))
  BY <1>1, <1>2, <1>4 DEF RowOK
<1>9. calls[c].pc \in 1..Len(OpOf(c).steps) /\ Len(OpOf(c).steps) \in Nat
  BY <1>2, <1>6
<1>10. StepOf(c) = OpOf(c).steps[calls[c].pc]
  BY DEF StepOf
<1> QED
  BY <1>1, <1>2, <1>4, <1>5, <1>6, <1>7, <1>8, <1>9, <1>10

\* A call that was not made has no operation, and a stage of a call is of its own.
LEMMA SameOp ==
  ASSUME NEW c \in Call, service' = service, calls'[c].op = calls[c].op
  PROVE  service' = service /\ OpOf(c)' = OpOf(c)
BY DEF OpOf

\* Of the calls only this one has changed, and it is still of the same operation.
Moves(c, n) ==
  /\ n \in Calls /\ n.op = calls[c].op /\ n.phase # "idle" /\ n.pc \in DOMAIN OpOf(c).steps
  /\ calls' = [calls EXCEPT ![c] = n]

\* What a call becomes that goes on: it comes to its next step or has ended.
NextPc(c) == IF calls[c].pc = Len(OpOf(c).steps) THEN OpOf(c).loop ELSE calls[c].pc + 1

Goes(c, n, rest) ==
  \/ /\ NextPc(c) # 0 /\ n.pc = NextPc(c) /\ n.phase = "run"
     /\ micro' = Append(rest, Run(c, n.pc)) /\ loose' = loose
  \/ /\ NextPc(c) = 0 /\ calls[c].pc = Len(OpOf(c).steps) /\ OpOf(c).loop = 0
     /\ n.pc = calls[c].pc /\ n.phase \in {"ok", "failed"}
     /\ micro' = rest /\ loose' = (loose \/ ~OpOf(c).neat)

LEMMA GoOnIs ==
  ASSUME TypeOK, NEW c \in Call, calls[c].phase # "idle", NEW got \in Calls, NEW rest \in Seq(Jobs),
         got.op = calls[c].op, got.pc = calls[c].pc, GoOn(c, got, rest)
  PROVE  \E n \in Calls :
           /\ Moves(c, n)
           /\ n.tag = got.tag /\ n.failed = got.failed /\ n.stole = got.stole
           /\ n.held = (got.held \/ calls[c].pc = OpOf(c).opens)
           /\ Goes(c, n, rest)
           /\ greeted' = (greeted \/ (OpOf(c).first # 0 /\ calls[c].pc = OpOf(c).first))
<1> DEFINE op == OpOf(c)
           ended == NextPc(c) = 0
           n == [got EXCEPT !.pc = IF ended THEN @ ELSE NextPc(c),
                            !.held = @ \/ calls[c].pc = op.opens,
                            !.phase = IF ~ended THEN "run" ELSE IF got.failed THEN "failed" ELSE "ok"]
<1>1. /\ op \in Ops /\ op.steps \in Seq(Steps) /\ Len(op.steps) \in Nat
      /\ calls[c].pc \in 1..Len(op.steps) /\ op.loop \in 0..Len(op.steps)
  BY OpIs DEF InRange
<1>2. NextPc(c) \in Nat /\ (NextPc(c) # 0 => NextPc(c) \in 1..Len(op.steps))
      /\ (NextPc(c) = 0 => calls[c].pc = Len(op.steps) /\ op.loop = 0)
  BY <1>1 DEF NextPc
<1>3. n \in Calls
  <2>1. (got.held \/ calls[c].pc = op.opens) \in BOOLEAN
    BY DEF Calls
  <2> QED
    BY <1>2, <2>1 DEF Calls
<1>4. /\ n.op = calls[c].op /\ n.tag = got.tag /\ n.failed = got.failed /\ n.stole = got.stole
      /\ n.held = (got.held \/ calls[c].pc = op.opens)
      /\ n.pc = (IF ended THEN calls[c].pc ELSE NextPc(c))
      /\ n.phase = (IF ~ended THEN "run" ELSE IF got.failed THEN "failed" ELSE "ok")
  BY DEF Calls
<1>5. calls' = [calls EXCEPT ![c] = n] /\ micro' = (IF ended THEN rest ELSE Append(rest, Run(c, NextPc(c))))
      /\ loose' = (loose \/ (ended /\ ~op.neat))
  BY DEF GoOn, NextPc
<1>6. n.pc \in DOMAIN op.steps
  BY <1>1, <1>2, <1>4
<1> HIDE DEF n
<1>7. Moves(c, n)
  BY <1>3, <1>4, <1>5, <1>6 DEF Moves
<1>8. Goes(c, n, rest)
  <2>1. CASE ended
    BY <1>2, <1>4, <1>5, <2>1 DEF Goes
  <2>2. CASE ~ended
    BY <1>4, <1>5, <2>2 DEF Goes, TypeOK
  <2> QED
    BY <2>1, <2>2
<1>9. greeted' = (greeted \/ (op.first # 0 /\ calls[c].pc = op.first))
  BY DEF GoOn
<1> QED
  BY <1>3, <1>4, <1>7, <1>8, <1>9

Fails(c, n, rest) ==
  \/ /\ calls[c].held /\ calls[c].pc < OpOf(c).finally /\ n.pc = OpOf(c).finally
     /\ n.phase = "run" /\ micro' = Append(rest, Run(c, n.pc))
  \/ /\ ~(calls[c].held /\ calls[c].pc < OpOf(c).finally) /\ n.pc = calls[c].pc
     /\ n.phase = "failed" /\ micro' = rest

\* A call that fails goes to the write that closes its file, or has ended.
LEMMA FailIs ==
  ASSUME TypeOK, NEW c \in Call, calls[c].phase # "idle", NEW rest \in Seq(Jobs), Fail(c, rest)
  PROVE  \E n \in Calls :
           /\ Moves(c, n)
           /\ n.tag = calls[c].tag /\ n.held = calls[c].held /\ n.stole = calls[c].stole
           /\ Fails(c, n, rest)
<1> DEFINE op == OpOf(c)
           closes == calls[c].held /\ calls[c].pc < op.finally
           m == [calls[c] EXCEPT !.pc = op.finally, !.phase = "run", !.failed = TRUE]
           n == [calls[c] EXCEPT !.phase = "failed"]
<1>1. /\ op \in Ops /\ Len(op.steps) \in Nat /\ DOMAIN op.steps = 1..Len(op.steps)
      /\ calls[c].pc \in 1..Len(op.steps) /\ op.finally \in 0..Len(op.steps) /\ calls[c] \in Calls
  BY OpIs DEF InRange
<1>2. CASE closes
  <2>1. op.finally \in 1..Len(op.steps) /\ op.finally \in Nat
    BY <1>1, <1>2
  <2>2. m \in Calls /\ m.op = calls[c].op /\ m.tag = calls[c].tag /\ m.held = calls[c].held
        /\ m.stole = calls[c].stole /\ m.pc = op.finally /\ m.phase = "run"
    BY <1>1, <2>1 DEF Calls
  <2>3. calls' = [calls EXCEPT ![c] = m] /\ micro' = Append(rest, Run(c, op.finally))
    BY <1>2 DEF Fail, TypeOK
  <2> HIDE DEF m
  <2>4. Moves(c, m)
    BY <1>1, <2>1, <2>2, <2>3 DEF Moves
  <2> QED
    BY <1>2, <2>2, <2>3, <2>4 DEF Fails
<1>3. CASE ~closes
  <2>1. n \in Calls /\ n.op = calls[c].op /\ n.tag = calls[c].tag /\ n.held = calls[c].held
        /\ n.stole = calls[c].stole /\ n.pc = calls[c].pc /\ n.phase = "failed"
    BY <1>1 DEF Calls
  <2>2. calls' = [calls EXCEPT ![c] = n] /\ micro' = rest
    BY <1>3 DEF Fail, TypeOK
  <2> HIDE DEF n
  <2>3. Moves(c, n)
    BY <1>1, <2>1, <2>2 DEF Moves
  <2> QED
    BY <1>3, <2>1, <2>2, <2>3 DEF Fails
<1> QED
  BY <1>2, <1>3

\* What the jobs, reads and frames are.
LEMMA JobIs ==
  ASSUME TypeOK, NEW c \in Call, NEW k \in Nat
  PROVE  /\ Unasked \in Frames /\ NoUnit \in Units
         /\ Run(c, k) \in Jobs /\ Job("written", c, k, NoUnit) \in Jobs
         /\ \A u \in Units : Job("got", c, k, u) \in Jobs
         /\ \A r \in Reads : Try(r) \in Jobs
         /\ \A w \in {"head", "body", "raw", "frame", "reply"} : Reader(c, k, w) \in Reads
<1>1. Unasked \in Frames
  BY DEF Unasked, Frame, Frames, Says, Names
<1>2. NoUnit \in Units
  BY <1>1 DEF NoUnit, Units
<1>3. Run(c, k) \in Jobs /\ Job("written", c, k, NoUnit) \in Jobs
  BY <1>2 DEF Run, Job, Jobs
<1>4. \A u \in Units : Job("got", c, k, u) \in Jobs
  BY DEF Job, Jobs
<1>5. \A r \in Reads : Try(r) \in Jobs
  BY <1>2 DEF Try, Job, Jobs, Reads
<1>6. \A w \in {"head", "body", "raw", "frame", "reply"} : Reader(c, k, w) \in Reads
  BY DEF Reader, Reads
<1> QED
  BY <1>1, <1>2, <1>3, <1>4, <1>5, <1>6

LEMMA WantsIs == \A step : Wants(step) \in {"head", "raw", "frame", "reply"}
BY DEF Wants

------------------------------------------------------------------------------
\* TypeOK, in two parts: of the calls and their reads, and of the rest.
CallsOK ==
  /\ calls \in [Call -> Calls]
  /\ \A c \in Call : IF calls[c].phase = "idle" THEN calls[c] = Idle
                     ELSE calls[c].op \in DOMAIN service.ops /\ calls[c].pc \in DOMAIN OpOf(c).steps
  /\ readers \in Seq(Reads)
  /\ \A k \in DOMAIN readers : readers[k].at \in DOMAIN OpOf(readers[k].who).steps

\* Every call is still of its operation.
SameOps == service' = service /\ \A c \in Call : OpOf(c)' = OpOf(c)

LEMMA MovesOps ==
  ASSUME TypeOK, NEW c \in Call, calls[c].phase # "idle", NEW n \in Calls, Moves(c, n), service' = service
  PROVE  /\ SameOps /\ service' = service
         /\ calls'[c] = n /\ \A d \in Call \ {c} : calls'[d] = calls[d]
<1>1. calls'[c] = n /\ \A d \in Call \ {c} : calls'[d] = calls[d]
  BY DEF Moves, TypeOK
<1>2. \A d \in Call : calls'[d].op = calls[d].op
  BY <1>1 DEF Moves
<1>3. \A d \in Call : OpOf(d)' = OpOf(d)
  BY <1>2, SameOp
<1> QED
  BY <1>1, <1>3 DEF SameOps

\* The operation of a call after a step.
NewOp(c) == IF calls'[c].op = 0 THEN NoOp ELSE service'.ops[calls'[c].op]

\* The reads stay, are one more or less, or none.
ReadersMove(c) ==
  \/ readers' = readers
  \/ \E k \in DOMAIN readers : readers' = RemoveAt(readers, k)
  \/ \E k \in DOMAIN OpOf(c).steps, w \in {"head", "body", "raw", "frame", "reply"} :
       readers' = Append(readers, Reader(c, k, w))
  \/ readers' = <<>>

\* A call moves, and its reads stay, or one is added to them or taken away.
LEMMA MovesOK ==
  ASSUME TypeOK, NEW c \in Call, calls[c].phase # "idle", NEW n \in Calls, Moves(c, n), service' = service,
         ReadersMove(c)
  PROVE  CallsOK'
<1>1. SameOps /\ service' = service /\ calls'[c] = n /\ \A d \in Call \ {c} : calls'[d] = calls[d]
  BY MovesOps
<1>2. calls' \in [Call -> Calls]
  BY DEF Moves, TypeOK
<1>3. \A d \in Call : IF calls'[d].phase = "idle" THEN calls'[d] = Idle
                      ELSE calls'[d].op \in DOMAIN service'.ops /\ calls'[d].pc \in DOMAIN (OpOf(d)').steps
  <2>1. CASE TRUE
    <3> TAKE d \in Call
    <3>1. CASE d = c
      BY <1>1, <3>1, OpIs DEF Moves, SameOps
    <3>2. CASE d # c
      BY <1>1, <3>2 DEF TypeOK, SameOps
    <3> QED
      BY <3>1, <3>2
  <2> QED
    BY <2>1
<1>4. readers \in Seq(Reads) /\ Len(readers) \in Nat /\ DOMAIN readers = 1..Len(readers)
      /\ (\A k \in 1..Len(readers) : readers[k].who \in Call /\ readers[k].at \in DOMAIN OpOf(readers[k].who).steps)
  <2>1. readers \in Seq(Reads) /\ Len(readers) \in Nat /\ DOMAIN readers = 1..Len(readers)
    BY DEF TypeOK
  <2>2. \A k \in 1..Len(readers) : readers[k] \in Reads
    BY <2>1, ElementOfSeq
  <2> QED
    BY <2>1, <2>2 DEF TypeOK, Reads
<1>op. \A d \in Call : NewOp(d) = OpOf(d)
  BY <1>1 DEF Moves, OpOf, NewOp
<1> DEFINE Good == readers' \in Seq(Reads) /\ \A i \in DOMAIN readers' : readers'[i].at \in DOMAIN NewOp(readers'[i].who).steps
<1>5. Good
  <2>1. CASE readers' = readers
    BY <2>1, <1>op, <1>4
  <2>2. ASSUME NEW k \in DOMAIN readers, readers' = RemoveAt(readers, k)
        PROVE  Good
    <3>0. k \in 1..Len(readers)
      BY <1>4
    <3>1. /\ readers' \in Seq(Reads) /\ Len(readers') = Len(readers) - 1
          /\ \A i \in 1..(Len(readers) - 1) : readers'[i] = IF i < k THEN readers[i] ELSE readers[i + 1]
      BY <1>4, <2>2, <3>0, RemoveAtIs
    <3>4. DOMAIN readers' = 1..(Len(readers) - 1)
      BY <3>1
    <3>2. ASSUME NEW i \in DOMAIN readers' PROVE readers'[i].at \in DOMAIN NewOp(readers'[i].who).steps
      <4>1. i \in 1..Len(readers) /\ i + 1 \in 1..Len(readers) /\ i \in 1..(Len(readers) - 1)
        BY <1>4, <3>4
      <4>2. PICK j \in 1..Len(readers) : readers'[i] = readers[j]
        BY <3>1, <4>1
      <4> QED
        BY <1>op, <1>4, <4>2
    <3> QED
      BY <3>1, <3>2
  <2>3. ASSUME NEW k \in DOMAIN OpOf(c).steps, NEW w \in {"head", "body", "raw", "frame", "reply"},
               readers' = Append(readers, Reader(c, k, w))
        PROVE  Good
    <3>0. k \in Nat
      BY OpIs
    <3>1. Reader(c, k, w) \in Reads
      BY <3>0, JobIs
    <3>2. /\ readers' \in Seq(Reads) /\ Len(readers') = Len(readers) + 1
          /\ \A i \in 1..Len(readers) : readers'[i] = readers[i]
          /\ readers'[Len(readers) + 1] = Reader(c, k, w)
      BY <1>4, <2>3, <3>1, AppendIs
    <3>3. \A i \in DOMAIN readers' : i \in 1..Len(readers) \/ i = Len(readers) + 1
      BY <1>4, <3>2
    <3>4. Reader(c, k, w).who = c /\ Reader(c, k, w).at = k
      BY DEF Reader
    <3> QED
      BY <1>op, <1>4, <3>2, <3>3, <3>4
  <2>4. CASE readers' = <<>>
    BY <2>4
  <2> QED
    BY <2>1, <2>2, <2>3, <2>4 DEF ReadersMove
<1> QED
  BY <1>1, <1>2, <1>3, <1>5 DEF CallsOK, SameOps, NewOp, OpOf

------------------------------------------------------------------------------
OtherOK ==
  /\ service \in Services /\ open \in BOOLEAN
  /\ todo \in Seq(Frames) /\ inbox \in Seq(Frames)
  /\ cut \in BOOLEAN /\ begun \in BOOLEAN /\ broken \in BOOLEAN
  /\ micro \in Seq(Jobs) /\ writes \in Seq(Call)
  /\ tag \in Nat \ {0} /\ greeted \in BOOLEAN /\ pushed \in 0..MaxPushes
  /\ loose \in BOOLEAN /\ crossed \in BOOLEAN

LEMMA TypeParts == TypeOK <=> CallsOK /\ OtherOK
BY DEF TypeOK, CallsOK, OtherOK

\* What is at the front, and that a job or a read is of a call that was made.
LEMMA FrontIs ==
  ASSUME TypeOK, Places, Wanted
  PROVE  /\ micro # <<>> => /\ Head(micro) \in Jobs /\ Tail(micro) \in Seq(Jobs) /\ Head(micro) = micro[1]
                            /\ Head(micro).who \in Call /\ Head(micro).at \in Nat /\ Head(micro).unit \in Units
                            /\ Head(micro).unit.frame \in Frames
                            /\ Head(micro).what = "run" => calls[Head(micro).who].phase = "run"
                            /\ Head(micro).what = "written" => calls[Head(micro).who].phase = "sent"
                            /\ Head(micro).what = "got" =>
                                 /\ calls[Head(micro).who].phase # "idle"
                                 /\ Head(micro).at \in DOMAIN OpOf(Head(micro).who).steps
         /\ \A k \in DOMAIN readers : /\ readers[k] \in Reads /\ readers[k].who \in Call
                                      /\ readers[k].at \in Nat /\ calls[readers[k].who].phase # "idle"
                                      /\ readers[k].at \in DOMAIN OpOf(readers[k].who).steps
         /\ \A k \in DOMAIN writes : writes[k] \in Call /\ calls[writes[k]].phase = "sent"
         /\ inbox # <<>> => Head(inbox) \in Frames /\ Tail(inbox) \in Seq(Frames) /\ Head(inbox) = inbox[1]
         /\ todo # <<>> => Head(todo) \in Frames /\ Tail(todo) \in Seq(Frames) /\ Head(todo) = todo[1]
<1>0. \A c \in Call : calls[c].phase = "idle" => DOMAIN OpOf(c).steps = {}
  BY DEF TypeOK, OpOf, NoOp, Idle
<1>1. ASSUME micro # <<>>
      PROVE  /\ Head(micro) \in Jobs /\ Tail(micro) \in Seq(Jobs) /\ Head(micro) = micro[1] /\ 1 \in DOMAIN micro
             /\ Head(micro).who \in Call /\ Head(micro).at \in Nat /\ Head(micro).unit \in Units
             /\ Head(micro).unit.frame \in Frames
  <2>1. micro \in Seq(Jobs)
    BY DEF TypeOK
  <2>2. /\ Head(micro) \in Jobs /\ Tail(micro) \in Seq(Jobs) /\ Head(micro) = micro[1] /\ 1 \in DOMAIN micro
    BY <1>1, <2>1, TailIs
  <2>3. Head(micro).who \in Call /\ Head(micro).at \in Nat /\ Head(micro).unit \in Units
    BY <2>2 DEF Jobs
  <2> QED
    BY <2>2, <2>3 DEF Units
<1>2. micro # <<>> => /\ Head(micro).what = "run" => calls[Head(micro).who].phase = "run"
                      /\ Head(micro).what = "written" => calls[Head(micro).who].phase = "sent"
  BY <1>1 DEF Places
<1>3. micro # <<>> /\ Head(micro).what = "got" =>
        /\ calls[Head(micro).who].phase # "idle" /\ Head(micro).at \in DOMAIN OpOf(Head(micro).who).steps
  BY <1>0, <1>1 DEF Wanted
<1>4. ASSUME NEW k \in DOMAIN readers
      PROVE  /\ readers[k] \in Reads /\ readers[k].who \in Call
             /\ readers[k].at \in Nat /\ calls[readers[k].who].phase # "idle"
             /\ readers[k].at \in DOMAIN OpOf(readers[k].who).steps
  <2>1. readers[k] \in Reads
    BY DEF TypeOK
  <2>2. readers[k].at \in DOMAIN OpOf(readers[k].who).steps
    BY DEF TypeOK
  <2> QED
    BY <1>0, <2>1, <2>2 DEF Reads
<1>5. \A k \in DOMAIN writes : writes[k] \in Call /\ calls[writes[k]].phase = "sent"
  BY DEF TypeOK, Places
<1>6. inbox # <<>> => Head(inbox) \in Frames /\ Tail(inbox) \in Seq(Frames) /\ Head(inbox) = inbox[1]
  BY DEF TypeOK
<1>7. todo # <<>> => Head(todo) \in Frames /\ Tail(todo) \in Seq(Frames) /\ Head(todo) = todo[1]
  BY DEF TypeOK
<1> QED
  BY <1>1, <1>2, <1>3, <1>4, <1>5, <1>6, <1>7

\* Reads come and go, and the calls stay as they are.
LEMMA StaysOK ==
  ASSUME TypeOK, service' = service, calls' = calls,
         readers' = readers \/ \E c \in Call : calls[c].phase # "idle" /\ ReadersMove(c)
  PROVE  CallsOK' /\ SameOps /\ service' = service
<1>1. SameOps /\ service' = service
  BY SameOp DEF SameOps
<1>2. CASE readers' = readers
  <2>1. CallsOK
    BY TypeParts
  <2> QED
    BY <1>1, <1>2, <2>1 DEF CallsOK, OpOf
<1>3. CASE \E c \in Call : calls[c].phase # "idle" /\ ReadersMove(c)
  <2>1. PICK c \in Call : calls[c].phase # "idle" /\ ReadersMove(c)
    BY <1>3
  <2>2. Moves(c, calls[c]) /\ calls[c] \in Calls
    BY <2>1, OpIs DEF Moves, TypeOK
  <2> QED
    BY <1>1, <2>1, <2>2, MovesOK
<1> QED
  BY <1>1, <1>2, <1>3

LEMMA StartType == ASSUME TypeOK, NEW c \in Call, NEW o \in DOMAIN service.ops, Start(c, o) PROVE TypeOK'
<1> DEFINE op == service.ops[o]
           pc == IF greeted THEN op.first + 1 ELSE 1
           n == [Idle EXCEPT !.op = o, !.pc = pc, !.phase = "run"]
<1>1. RowOK(service) /\ service.ops \in Seq(Ops) /\ op \in Ops /\ o \in Nat /\ o # 0
  <2>1. RowOK(service) /\ service.ops \in Seq(Ops)
    BY RowIs DEF TypeOK, Rows
  <2> QED
    BY <2>1
<1>2. Len(op.steps) \in Nat /\ DOMAIN op.steps = 1..Len(op.steps) /\ op.first \in Nat
  <2>1. op.steps \in Seq(Steps) /\ op.first \in Nat
    BY <1>1 DEF Ops
  <2> QED
    BY <2>1
<1>3. pc \in Nat /\ pc \in 1..Len(op.steps)
  BY <1>2 DEF Start
<1>4. calls[c] = Idle /\ calls' = [calls EXCEPT ![c] = n]
  BY DEF Start, TypeOK
<1>5. n \in Calls /\ n.op = o /\ n.pc = pc /\ n.phase = "run"
  BY <1>1, <1>3 DEF Idle, Calls
<1>6. service' = service /\ readers' = readers
  BY DEF Start
<1> HIDE DEF n
<1>7. calls'[c] = n /\ \A d \in Call : d # c => calls'[d] = calls[d]
  BY <1>4, <1>5 DEF TypeOK
<1>8. \A d \in Call : d # c => OpOf(d)' = OpOf(d)
  BY <1>6, <1>7, SameOp
<1>9. OpOf(c)' = op
  BY <1>1, <1>5, <1>6, <1>7 DEF OpOf
<1>10. calls' \in [Call -> Calls]
  BY <1>4, <1>5 DEF TypeOK
<1>11. \A d \in Call : (IF calls[d].phase = "idle" THEN calls[d] = Idle
                      ELSE calls[d].op \in DOMAIN service.ops /\ calls[d].pc \in DOMAIN OpOf(d).steps)'
  <2> TAKE d \in Call
  <2>1. CASE d = c
    BY <2>1, <1>1, <1>2, <1>3, <1>5, <1>6, <1>7, <1>9
  <2>2. CASE d # c
    BY <2>2, <1>6, <1>7, <1>8 DEF TypeOK
  <2> QED
    BY <2>1, <2>2
<1>12. \A k \in DOMAIN readers : readers[k].who # c
  <2>1. \A k \in DOMAIN readers : readers[k].at \in DOMAIN OpOf(readers[k].who).steps
    BY DEF TypeOK
  <2>2. DOMAIN OpOf(c).steps = {}
    BY <1>4 DEF OpOf, Idle, NoOp
  <2> QED
    BY <2>1, <2>2
<1>13. \A k \in DOMAIN readers : readers[k].at \in DOMAIN (IF calls'[readers[k].who].op = 0 THEN NoOp ELSE service.ops[calls'[readers[k].who].op]).steps
  <2> TAKE k \in DOMAIN readers
  <2>1. readers[k].who \in Call /\ readers[k].who # c /\ readers[k].at \in DOMAIN OpOf(readers[k].who).steps
    <3>1. readers[k] \in Reads
      BY DEF TypeOK
    <3> QED
      BY <3>1, <1>12 DEF TypeOK, Reads
  <2>2. calls'[readers[k].who] = calls[readers[k].who]
    BY <2>1, <1>7
  <2> QED
    BY <2>1, <2>2 DEF OpOf
<1>14. CallsOK'
  BY <1>6, <1>10, <1>11, <1>13 DEF CallsOK, OpOf, TypeOK
<1>15. OtherOK'
  <2>1. Run(c, pc) \in Jobs
    BY <1>3, JobIs
  <2>2. micro' = <<Run(c, pc)>>
    BY DEF Start
  <2>3. micro' \in Seq(Jobs)
    BY <2>1, <2>2
  <2> QED
    BY <2>3 DEF Start, TypeOK, OtherOK, stream
<1> QED
  BY <1>14, <1>15 DEF TypeOK, CallsOK, OtherOK

------------------------------------------------------------------------------
\* The actions, by what becomes of their call: the cases the invariants are
\* shown for.
Wrote(c, n) ==
  /\ StepOf(c).do = "write" /\ open /\ n.pc = calls[c].pc /\ n.phase = "sent"
  /\ n.held = (calls[c].held /\ calls[c].pc # OpOf(c).finally)
  /\ \E says \in StepOf(c).replies :
       todo' = todo \o [k \in DOMAIN says |-> Frame(c, calls[c].pc + 1, says[k], tag, StepOf(c).name)]
  /\ writes' = Append(writes, c) /\ crossed' = (crossed \/ (service.tagged /\ writes # <<>>))
  /\ micro' = Tail(micro) /\ readers' = readers
Refused(c, n) ==
  /\ StepOf(c).do = "write" /\ ~open /\ n.held = calls[c].held /\ Fails(c, n, Tail(micro))
  /\ UNCHANGED <<todo, readers, writes, crossed>>
Asked(c, n) ==
  /\ ReadsAt(OpOf(c), calls[c].pc) /\ n.pc = calls[c].pc /\ n.phase = "reading" /\ n.held = calls[c].held
  /\ Register(Reader(c, calls[c].pc, Wants(StepOf(c))), Tail(micro))
  /\ UNCHANGED <<todo, writes, crossed>>
Drains(c, n) ==
  /\ StepOf(c).do = "drain" /\ n.pc = calls[c].pc /\ n.phase = "draining" /\ n.held = calls[c].held
  /\ micro' = Tail(micro) /\ UNCHANGED <<todo, readers, writes, crossed>>

LEMMA DoStepIs ==
  ASSUME TypeOK, Places, Wanted, DoStep
  PROVE  \E c \in Call, n \in Calls :
           /\ micro # <<>> /\ c = Head(micro).who /\ Head(micro).what = "run" /\ calls[c].phase = "run"
           /\ Moves(c, n) /\ n.tag = calls[c].tag /\ n.stole = calls[c].stole
           /\ Wrote(c, n) \/ Refused(c, n) \/ Asked(c, n) \/ Drains(c, n)
           /\ UNCHANGED <<service, open, stream, tag, greeted, pushed, loose>>
<1> DEFINE c == Head(micro).who
           step == StepOf(c)
<1>1. micro # <<>> /\ Head(micro).what = "run" /\ c \in Call /\ calls[c].phase = "run" /\ Tail(micro) \in Seq(Jobs)
  BY FrontIs DEF DoStep
<1>2. UNCHANGED <<service, open, stream, tag, greeted, pushed, loose>>
  BY DEF DoStep
<1>3. calls[c] \in Calls /\ calls[c].pc \in DOMAIN OpOf(c).steps
  BY <1>1, OpIs
<1> DEFINE Goal(n) ==
  /\ Moves(c, n) /\ n.tag = calls[c].tag /\ n.stole = calls[c].stole
  /\ Wrote(c, n) \/ Refused(c, n) \/ Asked(c, n) \/ Drains(c, n)
<1>4. CASE step.do = "write" /\ open
  <2> DEFINE n == [calls[c] EXCEPT !.phase = "sent", !.held = @ /\ calls[c].pc # OpOf(c).finally]
  <2>1. n \in Calls /\ n.op = calls[c].op /\ n.tag = calls[c].tag /\ n.stole = calls[c].stole
        /\ n.pc = calls[c].pc /\ n.phase = "sent" /\ n.held = (calls[c].held /\ calls[c].pc # OpOf(c).finally)
    <3>1. (calls[c].held /\ calls[c].pc # OpOf(c).finally) \in BOOLEAN
      OBVIOUS
    <3> QED
      BY <1>3, <3>1 DEF Calls
  <2>2. calls' = [calls EXCEPT ![c] = n]
    BY <1>1, <1>4 DEF DoStep, TypeOK
  <2>3. Wrote(c, n)
    <3> HIDE DEF n
    <3> QED
      BY <1>4, <2>1 DEF DoStep, Wrote
  <2> HIDE DEF n
  <2>4. Goal(n)
    BY <1>3, <2>1, <2>2, <2>3 DEF Moves
  <2> QED
    BY <1>1, <1>2, <2>1, <2>4
<1>5. CASE step.do = "write" /\ ~open
  <2>1. Fail(c, Tail(micro)) /\ UNCHANGED <<todo, readers, writes, crossed>>
    BY <1>5 DEF DoStep
  <2>2. PICK n \in Calls : /\ Moves(c, n) /\ n.tag = calls[c].tag /\ n.held = calls[c].held
                           /\ n.stole = calls[c].stole /\ Fails(c, n, Tail(micro))
    BY <1>1, <2>1, FailIs
  <2>3. Refused(c, n)
    BY <1>5, <2>1, <2>2 DEF Refused
  <2> QED
    BY <1>1, <1>2, <2>2, <2>3
<1>6. CASE step.do \in {"read", "race", "raw"}
  <2> DEFINE n == [calls[c] EXCEPT !.phase = "reading"]
  <2>1. n \in Calls /\ n.op = calls[c].op /\ n.tag = calls[c].tag /\ n.stole = calls[c].stole
        /\ n.pc = calls[c].pc /\ n.phase = "reading" /\ n.held = calls[c].held
    BY <1>3 DEF Calls
  <2>2. calls' = [calls EXCEPT ![c] = n]
    BY <1>1, <1>6 DEF DoStep, TypeOK
  <2> HIDE DEF n
  <2>3. Asked(c, n)
    BY <1>6, <2>1 DEF DoStep, Asked, ReadsAt, StepOf
  <2>4. Goal(n)
    BY <1>3, <2>1, <2>2, <2>3 DEF Moves
  <2> QED
    BY <1>1, <1>2, <2>1, <2>4
<1>7. CASE step.do = "drain"
  <2> DEFINE n == [calls[c] EXCEPT !.phase = "draining"]
  <2>1. n \in Calls /\ n.op = calls[c].op /\ n.tag = calls[c].tag /\ n.stole = calls[c].stole
        /\ n.pc = calls[c].pc /\ n.phase = "draining" /\ n.held = calls[c].held
    BY <1>3 DEF Calls
  <2>2. calls' = [calls EXCEPT ![c] = n]
    BY <1>1, <1>7 DEF DoStep, TypeOK
  <2> HIDE DEF n
  <2>3. Drains(c, n)
    BY <1>7, <2>1 DEF DoStep, Drains
  <2>4. Goal(n)
    BY <1>3, <2>1, <2>2, <2>3 DEF Moves
  <2> QED
    BY <1>1, <1>2, <2>1, <2>4
<1> QED
  BY <1>4, <1>5, <1>6, <1>7 DEF DoStep

LEMMA SentIs ==
  ASSUME TypeOK, Places, Wanted, Sent
  PROVE  \E c \in Call, n \in Calls :
           /\ micro # <<>> /\ c = Head(micro).who /\ Head(micro).what = "written" /\ calls[c].phase = "sent"
           /\ Moves(c, n) /\ Goes(c, n, Tail(micro))
           /\ n.tag = tag - 1 /\ n.failed = calls[c].failed /\ n.stole = calls[c].stole
           /\ n.held = (calls[c].held \/ calls[c].pc = OpOf(c).opens)
           /\ greeted' = (greeted \/ (OpOf(c).first # 0 /\ calls[c].pc = OpOf(c).first))
           /\ UNCHANGED <<service, open, todo, stream, readers, writes, tag, pushed, crossed>>
<1> DEFINE c == Head(micro).who
           got == [calls[c] EXCEPT !.tag = tag - 1]
<1>1. micro # <<>> /\ Head(micro).what = "written" /\ c \in Call /\ calls[c].phase = "sent" /\ Tail(micro) \in Seq(Jobs)
  BY FrontIs DEF Sent
<1>2. tag - 1 \in Nat /\ calls[c] \in Calls
  BY <1>1 DEF TypeOK
<1>3. got \in Calls /\ got.op = calls[c].op /\ got.pc = calls[c].pc /\ got.tag = tag - 1
      /\ got.failed = calls[c].failed /\ got.stole = calls[c].stole /\ got.held = calls[c].held
  BY <1>2 DEF Calls
<1>4. GoOn(c, got, Tail(micro))
  BY DEF Sent
<1>5. UNCHANGED <<service, open, todo, stream, readers, writes, tag, pushed, crossed>>
  BY DEF Sent
<1> HIDE DEF got
<1>6. PICK n \in Calls :
           /\ Moves(c, n)
           /\ n.tag = got.tag /\ n.failed = got.failed /\ n.stole = got.stole
           /\ n.held = (got.held \/ calls[c].pc = OpOf(c).opens)
           /\ Goes(c, n, Tail(micro))
           /\ greeted' = (greeted \/ (OpOf(c).first # 0 /\ calls[c].pc = OpOf(c).first))
  BY <1>1, <1>3, <1>4, GoOnIs
<1> QED
  BY <1>1, <1>3, <1>5, <1>6

\* A read has its answer.
Awaits(c) == Head(micro).at = calls[c].pc /\ calls[c].phase = "reading"
Got1(c) == Head(micro).unit.frame
Headed(c) ==
  /\ Head(micro).unit.part = "head" /\ Register(Reader(c, Head(micro).at, "body"), Tail(micro))
  /\ UNCHANGED <<calls, greeted, loose>>
Strayed(c) ==
  /\ Head(micro).unit.part # "head" /\ ~Awaits(c) /\ micro' = Tail(micro)
  /\ UNCHANGED <<calls, readers, greeted, loose>>
Repeated(c) ==
  /\ Head(micro).unit.part \in {"body", "frame", "reply"} /\ Awaits(c) /\ Takes(c, Got1(c)) = "again"
  /\ Register(Reader(c, calls[c].pc, Wants(StepOf(c))), Tail(micro))
  /\ UNCHANGED <<calls, greeted, loose>>
Accepted(c, n) ==
  /\ Head(micro).unit.part # "head" /\ Awaits(c) /\ Moves(c, n) /\ Goes(c, n, Tail(micro))
  /\ Head(micro).unit.part # "raw" => Takes(c, Got1(c)) = "accept"
  /\ n.tag = calls[c].tag /\ n.failed = calls[c].failed
  /\ n.held = (calls[c].held \/ calls[c].pc = OpOf(c).opens)
  /\ n.stole => \/ calls[c].stole
                \/ /\ Head(micro).unit.part # "raw" /\ Got1(c).for # c
                   /\ StepOf(c).do = "read" /\ StepOf(c).check # "push"
  /\ greeted' = (greeted \/ (OpOf(c).first # 0 /\ calls[c].pc = OpOf(c).first))
  /\ readers' = readers
Threw(c, n) ==
  /\ Head(micro).unit.part \in {"body", "frame", "reply"} /\ Awaits(c) /\ Takes(c, Got1(c)) = "throw"
  /\ Moves(c, n) /\ Fails(c, n, Tail(micro))
  /\ n.tag = calls[c].tag /\ n.held = calls[c].held /\ n.stole = calls[c].stole
  /\ loose' = (loose \/ Got1(c).for # c \/ OpOf(c).loop # 0)
  /\ UNCHANGED <<readers, greeted>>

LEMMA GotIs ==
  ASSUME TypeOK, Places, Wanted, Got
  PROVE  \E c \in Call :
           /\ micro # <<>> /\ c = Head(micro).who /\ Head(micro).what = "got" /\ calls[c].phase # "idle"
           /\ \/ Headed(c) \/ Strayed(c) \/ Repeated(c)
              \/ \E n \in Calls : Accepted(c, n) \/ Threw(c, n)
           /\ UNCHANGED <<service, open, todo, stream, writes, tag, pushed, crossed>>
<1> DEFINE j == Head(micro)
           c == j.who
           f == j.unit.frame
           part == j.unit.part
<1>1. micro # <<>> /\ j.what = "got" /\ c \in Call /\ calls[c].phase # "idle" /\ Tail(micro) \in Seq(Jobs)
  BY FrontIs DEF Got
<1>2. UNCHANGED <<service, open, todo, stream, writes, tag, pushed, crossed>>
  BY DEF Got
<1>3. calls[c] \in Calls
  BY <1>1, OpIs
<1>4. CASE part = "head"
  <2>1. Headed(c)
    BY <1>4 DEF Got, Headed
  <2> QED
    BY <1>1, <1>2, <2>1
<1>5. CASE part # "head" /\ ~Awaits(c)
  <2>1. Strayed(c)
    BY <1>5 DEF Got, Strayed, Awaits
  <2> QED
    BY <1>1, <1>2, <2>1
<1>6. CASE part = "raw" /\ Awaits(c)
  <2>1. GoOn(c, calls[c], Tail(micro)) /\ readers' = readers
    BY <1>6 DEF Got, Awaits
  <2>2. PICK n \in Calls :
           /\ Moves(c, n)
           /\ n.tag = calls[c].tag /\ n.failed = calls[c].failed /\ n.stole = calls[c].stole
           /\ n.held = (calls[c].held \/ calls[c].pc = OpOf(c).opens)
           /\ Goes(c, n, Tail(micro))
           /\ greeted' = (greeted \/ (OpOf(c).first # 0 /\ calls[c].pc = OpOf(c).first))
    BY <1>1, <1>3, <2>1, GoOnIs
  <2>3. Accepted(c, n)
    BY <1>6, <2>1, <2>2 DEF Accepted
  <2> QED
    BY <1>1, <1>2, <2>3
<1>7. CASE part \in {"body", "frame", "reply"} /\ Awaits(c)
  <2>1. CASE Takes(c, f) = "accept"
    <3> DEFINE stole == f.for # c /\ StepOf(c).do = "read" /\ StepOf(c).check # "push"
               got == [calls[c] EXCEPT !.stole = @ \/ stole]
    <3>1. GoOn(c, got, Tail(micro)) /\ readers' = readers
      BY <1>7, <2>1 DEF Got, Awaits
    <3>2. got \in Calls /\ got.op = calls[c].op /\ got.pc = calls[c].pc /\ got.tag = calls[c].tag
          /\ got.failed = calls[c].failed /\ got.held = calls[c].held /\ got.stole = (calls[c].stole \/ stole)
      <4>1. (calls[c].stole \/ stole) \in BOOLEAN
        OBVIOUS
      <4> QED
        BY <1>3, <4>1 DEF Calls
    <3> HIDE DEF got
    <3>3. PICK n \in Calls :
           /\ Moves(c, n)
           /\ n.tag = got.tag /\ n.failed = got.failed /\ n.stole = got.stole
           /\ n.held = (got.held \/ calls[c].pc = OpOf(c).opens)
           /\ Goes(c, n, Tail(micro))
           /\ greeted' = (greeted \/ (OpOf(c).first # 0 /\ calls[c].pc = OpOf(c).first))
      BY <1>1, <3>1, <3>2, GoOnIs
    <3>4. Accepted(c, n)
      BY <1>7, <2>1, <3>1, <3>2, <3>3 DEF Accepted, Got1
    <3> QED
      BY <1>1, <1>2, <3>4
  <2>2. CASE Takes(c, f) = "again"
    <3>1. Repeated(c)
      BY <1>7, <2>2 DEF Got, Awaits, Repeated, Got1
    <3> QED
      BY <1>1, <1>2, <3>1
  <2>3. CASE Takes(c, f) = "throw"
    <3>1. /\ Fail(c, Tail(micro)) /\ UNCHANGED <<readers, greeted>>
          /\ loose' = (loose \/ Got1(c).for # c \/ OpOf(c).loop # 0)
      BY <1>7, <2>3 DEF Got, Awaits, Got1
    <3>2. PICK n \in Calls : /\ Moves(c, n) /\ n.tag = calls[c].tag /\ n.held = calls[c].held
                             /\ n.stole = calls[c].stole /\ Fails(c, n, Tail(micro))
      BY <1>1, <3>1, FailIs
    <3>3. Threw(c, n)
      BY <1>7, <2>3, <3>1, <3>2 DEF Threw, Got1
    <3> QED
      BY <1>1, <1>2, <3>3
  <2> QED
    BY <1>7, <2>1, <2>2, <2>3 DEF Got, Awaits
<1>8. part = "head" \/ ~Awaits(c) \/ part \in {"raw", "body", "frame", "reply"}
  BY DEF Got, Awaits
<1> QED
  BY <1>4, <1>5, <1>6, <1>7, <1>8

\* A read runs out of time.
Expired(k, c, n) ==
  \/ Orphan(readers[k]) /\ UNCHANGED <<calls, micro>>
  \/ /\ ~Orphan(readers[k]) /\ Moves(c, n) /\ Fails(c, n, <<>>)
     /\ n.tag = calls[c].tag /\ n.held = calls[c].held /\ n.stole = calls[c].stole

LEMMA TimeOutIs ==
  ASSUME TypeOK, Places, Wanted, NEW k \in DOMAIN readers, TimeOut(k)
  PROVE  \E c \in Call, n \in Calls :
           /\ micro = <<>> /\ c = readers[k].who /\ calls[c].phase # "idle"
           /\ Expired(k, c, n) /\ loose' = TRUE
           /\ readers' = readers \/ readers' = RemoveAt(readers, k)
           /\ UNCHANGED <<service, open, todo, stream, writes, tag, greeted, pushed, crossed>>
<1> DEFINE c == readers[k].who
<1>1. c \in Call /\ calls[c].phase # "idle" /\ calls[c] \in Calls
  BY FrontIs, OpIs
<1>2. micro = <<>> /\ (readers' = readers \/ readers' = RemoveAt(readers, k)) /\ loose' = TRUE
      /\ UNCHANGED <<service, open, todo, stream, writes, tag, greeted, pushed, crossed>>
  BY DEF TimeOut, Quiet
<1>3. CASE Orphan(readers[k])
  <2>1. Expired(k, c, calls[c])
    BY <1>3 DEF TimeOut, Expired
  <2> QED
    BY <1>1, <1>2, <2>1
<1>4. CASE ~Orphan(readers[k])
  <2>1. Fail(c, <<>>) /\ <<>> \in Seq(Jobs)
    BY <1>4 DEF TimeOut
  <2>2. PICK n \in Calls : /\ Moves(c, n) /\ n.tag = calls[c].tag /\ n.held = calls[c].held
                           /\ n.stole = calls[c].stole /\ Fails(c, n, <<>>)
    BY <1>1, <2>1, FailIs
  <2>3. Expired(k, c, n)
    BY <1>4, <2>2 DEF Expired
  <2> QED
    BY <1>1, <1>2, <2>2, <2>3
<1> QED
  BY <1>3, <1>4

\* A call goes on without its read.
LEMMA AbandonIs ==
  ASSUME TypeOK, Places, Wanted, NEW c \in Call, Abandon(c)
  PROVE  \E n \in Calls :
           /\ micro = <<>> /\ calls[c].phase = "reading" /\ StepOf(c).do = "race"
           /\ Moves(c, n) /\ n.tag = calls[c].tag /\ n.held = calls[c].held /\ n.stole = calls[c].stole
           /\ \/ calls[c].pc = Len(OpOf(c).steps) /\ n.pc = calls[c].pc /\ n.phase = "ok" /\ micro' = <<>>
              \/ n.pc = calls[c].pc + 1 /\ n.phase = "run" /\ micro' = <<Run(c, n.pc)>>
           /\ loose' = TRUE
           /\ UNCHANGED <<service, open, todo, stream, readers, writes, tag, greeted, pushed, crossed>>
<1> DEFINE last == calls[c].pc = Len(OpOf(c).steps)
           n == [calls[c] EXCEPT !.pc = IF last THEN @ ELSE @ + 1, !.phase = IF last THEN "ok" ELSE "run"]
<1>1. calls[c].phase = "reading" /\ StepOf(c).do = "race" /\ micro = <<>>
  BY DEF Abandon, Quiet
<1>2. /\ calls[c] \in Calls /\ Len(OpOf(c).steps) \in Nat /\ DOMAIN OpOf(c).steps = 1..Len(OpOf(c).steps)
      /\ calls[c].pc \in 1..Len(OpOf(c).steps)
  BY <1>1, OpIs
<1>3. /\ n \in Calls /\ n.op = calls[c].op /\ n.tag = calls[c].tag /\ n.held = calls[c].held /\ n.stole = calls[c].stole
      /\ n.pc = (IF last THEN calls[c].pc ELSE calls[c].pc + 1) /\ n.phase = (IF last THEN "ok" ELSE "run")
  <2>1. (IF last THEN calls[c].pc ELSE calls[c].pc + 1) \in Nat
    BY <1>2
  <2>2. (IF last THEN "ok" ELSE "run") \in {"ok", "run"}
    OBVIOUS
  <2> QED
    BY <1>2, <2>1, <2>2 DEF Calls
<1>4. /\ calls' = [calls EXCEPT ![c] = n] /\ micro' = (IF last THEN <<>> ELSE <<Run(c, calls[c].pc + 1)>>)
      /\ loose' = TRUE
      /\ UNCHANGED <<service, open, todo, stream, readers, writes, tag, greeted, pushed, crossed>>
  BY DEF Abandon, TypeOK
<1> HIDE DEF n
<1>5. Moves(c, n)
  BY <1>2, <1>3, <1>4 DEF Moves
<1> QED
  BY <1>1, <1>3, <1>4, <1>5

\* Data that end of themselves end the call.
LEMMA DrainEndsIs ==
  ASSUME TypeOK, NEW c \in Call, DrainEnds(c)
  PROVE  \E n \in Calls :
           /\ micro = <<>> /\ calls[c].phase = "draining"
           /\ Moves(c, n) /\ n.pc = calls[c].pc /\ n.tag = calls[c].tag /\ n.stole = calls[c].stole
           /\ n.phase \in {"ok", "failed"} /\ n.held = calls[c].held /\ loose' = TRUE
           /\ UNCHANGED <<service, open, todo, stream, readers, micro, writes, tag, greeted, pushed, crossed>>
<1>1. PICK phase \in {"ok", "failed"} : calls' = [calls EXCEPT ![c].phase = phase]
  BY DEF DrainEnds
<1>2. micro = <<>> /\ calls[c].phase = "draining" /\ loose' = TRUE
      /\ UNCHANGED <<service, open, todo, stream, readers, micro, writes, tag, greeted, pushed, crossed>>
  BY DEF DrainEnds, Quiet
<1>3. calls[c] \in Calls /\ calls[c].pc \in DOMAIN OpOf(c).steps
  BY <1>2 DEF TypeOK
<1> DEFINE n == [calls[c] EXCEPT !.phase = phase]
<1>4. /\ n \in Calls /\ n.op = calls[c].op /\ n.pc = calls[c].pc /\ n.tag = calls[c].tag
      /\ n.stole = calls[c].stole /\ n.held = calls[c].held /\ n.phase = phase
  BY <1>3 DEF Calls
<1>5. calls' = [calls EXCEPT ![c] = n]
  BY <1>1 DEF TypeOK
<1> HIDE DEF n
<1>6. Moves(c, n)
  BY <1>1, <1>3, <1>4, <1>5 DEF Moves
<1> QED
  BY <1>1, <1>2, <1>4, <1>6

\* A read tries.
Found(k) ==
  /\ ~Dry /\ ~broken /\ readers[k].want = NextPart
  /\ begun' = (NextPart = "head")
  /\ inbox' = IF NextPart = "head" THEN inbox ELSE Tail(inbox)
  /\ readers' = RemoveAt(readers, k)
  /\ micro' = Append(Tail(micro), Job("got", readers[k].who, readers[k].at,
                                      [part |-> NextPart, frame |-> Head(inbox)]))
  /\ UNCHANGED <<cut, broken>>
Breaks(k) ==
  /\ ~Dry /\ ~broken /\ readers[k].want # NextPart
  /\ broken' = TRUE /\ inbox' = <<>> /\ cut' = FALSE /\ begun' = FALSE
  /\ micro' = Tail(micro) /\ UNCHANGED readers

LEMMA TryReadIs ==
  ASSUME TypeOK, Places, Wanted, TryRead
  PROVE  /\ micro # <<>> /\ Head(micro).what = "try"
         /\ \/ micro' = Tail(micro) /\ UNCHANGED <<stream, readers>>
            \/ \E k \in DOMAIN readers :
                 /\ readers[k].who = Head(micro).who /\ readers[k].at = Head(micro).at /\ readers[k].want # "reply"
                 /\ Found(k) \/ Breaks(k)
         /\ UNCHANGED <<service, open, todo, writes, calls, tag, greeted, pushed, loose, crossed>>
<1>1. micro # <<>> /\ Head(micro).what = "try"
      /\ UNCHANGED <<service, open, todo, writes, calls, tag, greeted, pushed, loose, crossed>>
  BY DEF TryRead
<1>2. CASE micro' = Tail(micro) /\ UNCHANGED <<stream, readers>>
  BY <1>1, <1>2
<1>3. ASSUME NEW k \in DOMAIN readers, readers[k].who = Head(micro).who, readers[k].at = Head(micro).at,
             readers[k].want # "reply",
             /\ ~Dry /\ ~broken /\ readers[k].want = NextPart
             /\ begun' = (NextPart = "head")
             /\ inbox' = IF NextPart = "head" THEN inbox ELSE Tail(inbox)
             /\ readers' = RemoveAt(readers, k)
             /\ micro' = Append(Tail(micro), Job("got", Head(micro).who, Head(micro).at,
                                                 [part |-> NextPart, frame |-> Head(inbox)]))
             /\ UNCHANGED <<cut, broken>>
      PROVE  Found(k)
  BY <1>3 DEF Found
<1>4. ASSUME NEW k \in DOMAIN readers,
             /\ ~Dry /\ ~broken /\ readers[k].want # NextPart
             /\ broken' = TRUE /\ inbox' = <<>> /\ cut' = FALSE /\ begun' = FALSE
             /\ micro' = Tail(micro) /\ UNCHANGED readers
      PROVE  Breaks(k)
  BY <1>4 DEF Breaks
<1> QED
  BY <1>1, <1>2, <1>3, <1>4 DEF TryRead

\* What closing does to a call.
Closed(c) ==
  /\ TakesEnd(c)
  /\ calls'[c] = [calls[c] EXCEPT !.phase = "ok"]
CutShort(c) ==
  /\ calls[c].phase = "sent" \/ \E k \in DOMAIN readers : readers[k].who = c /\ ~Orphan(readers[k])
  /\ calls'[c] = [calls[c] EXCEPT !.phase = "failed"]

LEMMA CloseIs ==
  ASSUME TypeOK, Places, Wanted, Close
  PROVE  /\ micro = <<>> /\ micro' = <<>> /\ open' = FALSE /\ todo' = <<>> /\ loose' = TRUE /\ writes' = <<>>
         /\ readers' = readers \/ readers' = <<>>
         /\ \A c \in Call : calls'[c] = calls[c] \/ Closed(c) \/ CutShort(c)
         /\ \A c \in Call : calls'[c].phase # "sent"
         /\ DOMAIN calls' = Call /\ calls' = [c \in Call |-> calls'[c]]
         /\ UNCHANGED <<service, stream, tag, greeted, pushed, crossed>>
<1>1. /\ micro = <<>> /\ micro' = <<>> /\ open' = FALSE /\ todo' = <<>> /\ loose' = TRUE /\ writes' = <<>>
      /\ UNCHANGED <<service, stream, tag, greeted, pushed, crossed>>
      /\ readers' = readers \/ readers' = <<>>
  BY DEF Close, Quiet
<1>2. calls' = [c \in Call |->
       IF TakesEnd(c) THEN [calls[c] EXCEPT !.phase = "ok"]
       ELSE IF calls[c].phase = "sent" \/ (service.framing # "queue" /\
               \E k \in DOMAIN readers : readers[k].who = c /\ ~Orphan(readers[k]))
            THEN [calls[c] EXCEPT !.phase = "failed"]
       ELSE calls[c]]
  BY DEF Close
<1>3. \A c \in Call : calls'[c] = calls[c] \/ Closed(c) \/ CutShort(c)
  BY <1>2 DEF Closed, CutShort
<1>4. \A c \in Call : calls'[c].phase # "sent"
  <2> TAKE c \in Call
  <2>1. calls[c] \in Calls
    BY DEF TypeOK
  <2> QED
    BY <1>2, <2>1 DEF Calls
<1>5. DOMAIN calls' = Call /\ calls' = [c \in Call |-> calls'[c]]
  BY <1>2
<1> QED
  BY <1>1, <1>3, <1>4, <1>5

------------------------------------------------------------------------------
\* The frames of an answer, and the jobs of reads.
LEMMA SaysIs ==
  ASSUME TypeOK, NEW c \in Call, calls[c].phase # "idle", NEW says \in StepOf(c).replies
  PROVE  /\ says \in Seq(Says) /\ DOMAIN says = 1..Len(says) /\ Len(says) \in Nat
         /\ LET s == [k \in DOMAIN says |-> Frame(c, calls[c].pc + 1, says[k], tag, StepOf(c).name)] IN
            s \in Seq(Frames) /\ Len(s) = Len(says) /\ todo \o s \in Seq(Frames)
<1> DEFINE s == [k \in DOMAIN says |-> Frame(c, calls[c].pc + 1, says[k], tag, StepOf(c).name)]
<1>1. StepOf(c) \in Steps /\ calls[c].pc \in 1..Len(OpOf(c).steps) /\ Len(OpOf(c).steps) \in Nat
  BY OpIs
<1>2. says \in Seq(Says) /\ StepOf(c).name \in Names
  BY <1>1 DEF Steps
<1>3. DOMAIN says = 1..Len(says) /\ Len(says) \in Nat
  BY <1>2
<1>4. ASSUME NEW k \in DOMAIN says PROVE s[k] \in Frames
  <2>1. says[k] \in Says /\ calls[c].pc + 1 \in Nat /\ tag \in Nat
    BY <1>1, <1>2, ElementOfSeq DEF TypeOK
  <2> QED
    BY <1>2, <2>1 DEF Frame, Frames
<1>5. s \in Seq(Frames) /\ Len(s) = Len(says)
  <2>1. s \in [1..Len(says) -> Frames]
    BY <1>3, <1>4
  <2> HIDE DEF s
  <2>2. s \in Seq(Frames) /\ DOMAIN s = 1..Len(s) /\ DOMAIN s = 1..Len(says)
    BY <1>3, <2>1, SeqDef
  <2> QED
    BY <1>3, <2>1, <2>2, LenProperties
<1> HIDE DEF s
<1>6. todo \in Seq(Frames)
  BY DEF TypeOK
<1>7. todo \o s \in Seq(Frames)
  BY <1>5, <1>6, ConcatProperties
<1> QED
  BY <1>2, <1>3, <1>5, <1>7 DEF s

LEMMA MicroIs ==
  ASSUME TypeOK, NEW rest \in Seq(Jobs), NEW c \in Call, NEW k \in Nat
  PROVE  /\ Append(rest, Run(c, k)) \in Seq(Jobs)
         /\ \A w \in {"head", "body", "raw", "frame", "reply"} : <<Try(Reader(c, k, w))>> \o rest \in Seq(Jobs)
         /\ \A u \in Units : Append(rest, Job("got", c, k, u)) \in Seq(Jobs)
<1>1. Append(rest, Run(c, k)) \in Seq(Jobs)
  BY JobIs, AppendIs
<1>2. ASSUME NEW w \in {"head", "body", "raw", "frame", "reply"} PROVE <<Try(Reader(c, k, w))>> \o rest \in Seq(Jobs)
  <2>1. Try(Reader(c, k, w)) \in Jobs
    BY JobIs
  <2>2. <<Try(Reader(c, k, w))>> \in Seq(Jobs)
    BY <2>1
  <2> QED
    BY <2>2, ConcatProperties
<1>3. ASSUME NEW u \in Units PROVE Append(rest, Job("got", c, k, u)) \in Seq(Jobs)
  BY JobIs, AppendIs
<1> QED
  BY <1>1, <1>2, <1>3

LEMMA DoStepType == ASSUME TypeOK, Places, Wanted, DoStep PROVE TypeOK'
<1>1. PICK c \in Call, n \in Calls :
           /\ micro # <<>> /\ c = Head(micro).who /\ Head(micro).what = "run" /\ calls[c].phase = "run"
           /\ Moves(c, n) /\ n.tag = calls[c].tag /\ n.stole = calls[c].stole
           /\ Wrote(c, n) \/ Refused(c, n) \/ Asked(c, n) \/ Drains(c, n)
           /\ UNCHANGED <<service, open, stream, tag, greeted, pushed, loose>>
  BY DoStepIs
<1>2. calls[c].phase # "idle" /\ service' = service /\ Tail(micro) \in Seq(Jobs)
  BY <1>1, FrontIs
<1>3. calls[c].pc \in DOMAIN OpOf(c).steps /\ calls[c].pc \in Nat /\ n.pc \in Nat
  <2>1. calls[c] \in Calls
    BY <1>2, OpIs
  <2> QED
    BY <1>2, <2>1, OpIs DEF Calls
<1>4. ReadersMove(c)
  BY <1>1, <1>3, WantsIs DEF Wrote, Refused, Asked, Drains, Register, ReadersMove
<1>5. CallsOK'
  BY <1>1, <1>2, <1>4, MovesOK
<1>6. micro' \in Seq(Jobs)
  BY <1>1, <1>2, <1>3, WantsIs, MicroIs DEF Wrote, Refused, Asked, Drains, Register, Fails
<1>7. todo' \in Seq(Frames)
  <2>1. CASE todo' = todo
    BY <2>1 DEF TypeOK
  <2>2. CASE Wrote(c, n)
    <3>1. PICK says \in StepOf(c).replies :
              todo' = todo \o [k \in DOMAIN says |-> Frame(c, calls[c].pc + 1, says[k], tag, StepOf(c).name)]
      BY <2>2 DEF Wrote
    <3> QED
      BY <1>2, <3>1, SaysIs
  <2> QED
    BY <1>1, <2>1, <2>2 DEF Refused, Asked, Drains
<1>8. writes' \in Seq(Call) /\ crossed' \in BOOLEAN
  <2>1. writes \in Seq(Call) /\ crossed \in BOOLEAN /\ Append(writes, c) \in Seq(Call)
    BY DEF TypeOK
  <2> QED
    BY <1>1, <2>1 DEF Wrote, Refused, Asked, Drains
<1>9. OtherOK'
  BY <1>1, <1>6, <1>7, <1>8 DEF OtherOK, TypeOK, stream
<1> QED
  BY <1>5, <1>9 DEF TypeOK, CallsOK, OtherOK

LEMMA SentType == ASSUME TypeOK, Places, Wanted, Sent PROVE TypeOK'
<1>1. PICK c \in Call, n \in Calls :
           /\ micro # <<>> /\ c = Head(micro).who /\ Head(micro).what = "written" /\ calls[c].phase = "sent"
           /\ Moves(c, n) /\ Goes(c, n, Tail(micro))
           /\ n.tag = tag - 1 /\ n.failed = calls[c].failed /\ n.stole = calls[c].stole
           /\ n.held = (calls[c].held \/ calls[c].pc = OpOf(c).opens)
           /\ greeted' = (greeted \/ (OpOf(c).first # 0 /\ calls[c].pc = OpOf(c).first))
           /\ UNCHANGED <<service, open, todo, stream, readers, writes, tag, pushed, crossed>>
  BY SentIs
<1>2. calls[c].phase # "idle" /\ service' = service /\ Tail(micro) \in Seq(Jobs)
  BY <1>1, FrontIs
<1>3. CallsOK'
  BY <1>1, <1>2, MovesOK DEF ReadersMove
<1>4. n.pc \in Nat
  BY DEF Calls
<1>5. micro' \in Seq(Jobs) /\ loose' \in BOOLEAN /\ greeted' \in BOOLEAN
  <2>1. loose \in BOOLEAN /\ greeted \in BOOLEAN
    BY DEF TypeOK
  <2> QED
    BY <1>1, <1>2, <1>4, <2>1, MicroIs DEF Goes
<1>6. OtherOK'
  BY <1>1, <1>5 DEF OtherOK, TypeOK, stream
<1> QED
  BY <1>3, <1>6 DEF TypeOK, CallsOK, OtherOK

LEMMA GotType == ASSUME TypeOK, Places, Wanted, Got PROVE TypeOK'
<1>1. PICK c \in Call :
           /\ micro # <<>> /\ c = Head(micro).who /\ Head(micro).what = "got" /\ calls[c].phase # "idle"
           /\ \/ Headed(c) \/ Strayed(c) \/ Repeated(c)
              \/ \E n \in Calls : Accepted(c, n) \/ Threw(c, n)
           /\ UNCHANGED <<service, open, todo, stream, writes, tag, pushed, crossed>>
  BY GotIs
<1>2. service' = service /\ Tail(micro) \in Seq(Jobs) /\ loose \in BOOLEAN /\ greeted \in BOOLEAN
      /\ Head(micro).at \in DOMAIN OpOf(c).steps /\ Head(micro).at \in Nat
      /\ calls[c].pc \in DOMAIN OpOf(c).steps /\ calls[c].pc \in Nat
  <2>1. calls[c].pc \in 1..Len(OpOf(c).steps) /\ OpOf(c).steps \in Seq(Steps) /\ Len(OpOf(c).steps) \in Nat
    BY <1>1, OpIs
  <2>2. service' = service /\ Tail(micro) \in Seq(Jobs) /\ Head(micro).at \in DOMAIN OpOf(c).steps /\ Head(micro).at \in Nat
    BY <1>1, FrontIs
  <2> QED
    BY <2>1, <2>2 DEF TypeOK
<1>3. CallsOK' /\ micro' \in Seq(Jobs) /\ loose' \in BOOLEAN /\ greeted' \in BOOLEAN
  <2>1. CASE Headed(c) \/ Strayed(c) \/ Repeated(c)
    <3>1. readers' = readers \/ ReadersMove(c)
      BY <1>2, <2>1, WantsIs DEF Headed, Strayed, Repeated, Register, ReadersMove
    <3>2. calls' = calls /\ greeted' = greeted /\ loose' = loose
      BY <2>1 DEF Headed, Strayed, Repeated
    <3>3. CallsOK'
      BY <1>1, <1>2, <3>1, <3>2, StaysOK
    <3>4. micro' \in Seq(Jobs)
      BY <1>2, <2>1, WantsIs, MicroIs DEF Headed, Strayed, Repeated, Register
    <3> QED
      BY <1>2, <3>2, <3>3, <3>4
  <2>2. ASSUME NEW n \in Calls, Accepted(c, n) \/ Threw(c, n)
        PROVE  CallsOK' /\ micro' \in Seq(Jobs) /\ loose' \in BOOLEAN /\ greeted' \in BOOLEAN
    <3>1. Moves(c, n) /\ readers' = readers
      BY <2>2 DEF Accepted, Threw
    <3>2. CallsOK'
      BY <1>1, <1>2, <3>1, MovesOK DEF ReadersMove
    <3>3. n.pc \in Nat
      BY DEF Calls
    <3>4. micro' \in Seq(Jobs)
      BY <1>2, <2>2, <3>3, MicroIs DEF Accepted, Threw, Goes, Fails
    <3>5. loose' \in BOOLEAN /\ greeted' \in BOOLEAN
      BY <1>2, <2>2 DEF Accepted, Threw, Goes
    <3> QED
      BY <3>2, <3>4, <3>5
  <2> QED
    BY <1>1, <2>1, <2>2
<1>4. OtherOK'
  BY <1>1, <1>3 DEF OtherOK, TypeOK, stream
<1> QED
  BY <1>3, <1>4 DEF TypeOK, CallsOK, OtherOK

LEMMA WrittenType == ASSUME TypeOK, Places, Wanted, Written PROVE TypeOK'
<1>1. PICK k \in 1..Len(writes) :
       /\ writes' = SubSeq(writes, k + 1, Len(writes))
       /\ micro' = [j \in 1..k |-> Job("written", writes[j], calls[writes[j]].pc, NoUnit)]
       /\ tag' = IF service.tagged THEN tag + k ELSE tag
  BY DEF Written
<1>2. UNCHANGED <<service, open, todo, stream, readers, calls, greeted, pushed, loose, crossed>>
  BY DEF Written
<1>3. writes \in Seq(Call) /\ Len(writes) \in Nat /\ k \in Nat /\ tag \in Nat \ {0}
  BY DEF TypeOK
<1>4. writes' \in Seq(Call)
  BY <1>1, <1>3, RestIs
<1>5. micro' \in Seq(Jobs)
  <2>1. ASSUME NEW j \in 1..k PROVE Job("written", writes[j], calls[writes[j]].pc, NoUnit) \in Jobs
    <3>1. j \in DOMAIN writes
      BY <1>3
    <3>2. writes[j] \in Call /\ calls[writes[j]] \in Calls
      BY <1>3, <3>1 DEF TypeOK
    <3>3. calls[writes[j]].pc \in Nat
      BY <3>2 DEF Calls
    <3> QED
      BY <3>2, <3>3, JobIs
  <2>2. micro' \in [1..k -> Jobs]
    BY <1>1, <2>1
  <2> QED
    BY <1>3, <2>2, SeqDef
<1>6. tag' \in Nat \ {0}
  BY <1>1, <1>3
<1>7. CallsOK'
  BY <1>2, StaysOK DEF TypeOK
<1>8. OtherOK'
  BY <1>2, <1>4, <1>5, <1>6 DEF OtherOK, TypeOK, stream
<1> QED
  BY <1>7, <1>8 DEF TypeOK, CallsOK, OtherOK

LEMMA TryReadType == ASSUME TypeOK, Places, Wanted, TryRead PROVE TypeOK'
<1>1. UNCHANGED <<service, open, todo, writes, calls, tag, greeted, pushed, loose, crossed>> /\ micro # <<>>
  BY TryReadIs
<1>2. Tail(micro) \in Seq(Jobs) /\ inbox \in Seq(Frames)
  BY <1>1, FrontIs DEF TypeOK
<1>3. CASE micro' = Tail(micro) /\ UNCHANGED <<stream, readers>>
  <2>1. CallsOK'
    BY <1>1, <1>3, StaysOK
  <2>2. OtherOK'
    BY <1>1, <1>2, <1>3 DEF OtherOK, TypeOK, stream
  <2> QED
    BY <2>1, <2>2 DEF TypeOK, CallsOK, OtherOK
<1>4. ASSUME NEW k \in DOMAIN readers, Found(k) PROVE TypeOK'
  <2>1. readers[k].who \in Call /\ readers[k].at \in Nat /\ calls[readers[k].who].phase # "idle"
    BY FrontIs
  <2>2. inbox # <<>>
    BY <1>4 DEF Found, Dry
  <2>3. [part |-> NextPart, frame |-> Head(inbox)] \in Units
    BY <2>2, FrontIs DEF Units, NextPart
  <2>4. micro' \in Seq(Jobs)
    BY <1>2, <1>4, <2>1, <2>3, MicroIs DEF Found
  <2>5. inbox' \in Seq(Frames) /\ begun' \in BOOLEAN /\ cut' \in BOOLEAN /\ broken' \in BOOLEAN
    BY <1>2, <1>4, <2>2, FrontIs DEF Found, TypeOK
  <2>6. CallsOK'
    <3>1. ReadersMove(readers[k].who)
      BY <1>4 DEF Found, ReadersMove
    <3> QED
      BY <1>1, <2>1, <3>1, StaysOK
  <2>7. OtherOK'
    BY <1>1, <2>4, <2>5 DEF OtherOK, TypeOK
  <2> QED
    BY <2>6, <2>7 DEF TypeOK, CallsOK, OtherOK
<1>5. ASSUME NEW k \in DOMAIN readers, Breaks(k) PROVE TypeOK'
  <2>1. readers' = readers
    BY <1>5 DEF Breaks
  <2>2. CallsOK'
    BY <1>1, <2>1, StaysOK
  <2>3. micro' \in Seq(Jobs) /\ inbox' \in Seq(Frames)
    BY <1>2, <1>5 DEF Breaks
  <2>5. broken' \in BOOLEAN /\ cut' \in BOOLEAN /\ begun' \in BOOLEAN
    BY <1>5 DEF Breaks
  <2>4. OtherOK'
    BY <1>1, <2>3, <2>5 DEF OtherOK, TypeOK
  <2> QED
    BY <2>2, <2>4 DEF TypeOK, CallsOK, OtherOK
<1> QED
  BY <1>3, <1>4, <1>5, TryReadIs

\* The listeners that run, one for each read.
LEMMA TriesIs ==
  ASSUME TypeOK
  PROVE  LET s == [j \in DOMAIN readers |-> Try(readers[j])] IN
         s \in Seq(Jobs) /\ Len(s) = Len(readers) /\ DOMAIN s = DOMAIN readers
<1> DEFINE s == [j \in DOMAIN readers |-> Try(readers[j])]
<1>1. readers \in Seq(Reads) /\ Len(readers) \in Nat /\ DOMAIN readers = 1..Len(readers)
  BY DEF TypeOK
<1>2. ASSUME NEW j \in 1..Len(readers) PROVE Try(readers[j]) \in Jobs
  <2>1. readers[j] \in Reads
    BY <1>1, ElementOfSeq
  <2>2. readers[j].who \in Call /\ readers[j].at \in Nat
    BY <2>1 DEF Reads
  <2> QED
    BY <2>1, <2>2, JobIs
<1>3. s \in [1..Len(readers) -> Jobs]
  BY <1>1, <1>2
<1> HIDE DEF s
<1>4. s \in Seq(Jobs) /\ DOMAIN s = 1..Len(readers)
  BY <1>1, <1>3, SeqDef
<1> QED
  BY <1>1, <1>3, <1>4, LenProperties DEF s

LEMMA ArriveType == ASSUME TypeOK, Places, Wanted, Arrive PROVE TypeOK'
<1>1. micro' = [j \in DOMAIN readers |-> Try(readers[j])]
      /\ UNCHANGED <<service, open, begun, broken, readers, writes, calls, tag, greeted, pushed, loose, crossed>>
  BY DEF Arrive
<1>2. micro' \in Seq(Jobs)
  BY <1>1, TriesIs
<1>3. todo' \in Seq(Frames) /\ inbox' \in Seq(Frames) /\ cut' \in BOOLEAN
  <2>1. todo \in Seq(Frames) /\ inbox \in Seq(Frames)
    BY DEF TypeOK
  <2>2. todo # <<>> => Head(todo) \in Frames /\ Tail(todo) \in Seq(Frames) /\ Append(inbox, Head(todo)) \in Seq(Frames)
    BY <2>1
  <2>3. <<>> \in Seq(Frames)
    OBVIOUS
  <2> QED
    BY <2>1, <2>2, <2>3 DEF Arrive
<1>4. CallsOK'
  BY <1>1, StaysOK
<1>5. OtherOK'
  BY <1>1, <1>2, <1>3 DEF OtherOK, TypeOK
<1> QED
  BY <1>4, <1>5 DEF TypeOK, CallsOK, OtherOK

\* What a reply comes to: the read of its call, nothing, or the channel.
Answered(k) ==
  /\ readers[k].who = Head(todo).for /\ readers[k].want = "reply" /\ readers[k].at = Head(todo).at
  /\ readers' = RemoveAt(readers, k) /\ UNCHANGED <<inbox, loose>>
  /\ micro' = <<Job("got", Head(todo).for, readers[k].at, [part |-> "reply", frame |-> Head(todo)])>>
Handed ==
  /\ service.channel /\ loose' = TRUE /\ readers' = readers
  /\ inbox' = IF broken THEN <<>> ELSE Append(inbox, [Head(todo) EXCEPT !.says = "event"])
  /\ micro' = [j \in DOMAIN readers |-> Try(readers[j])]

LEMMA ArriveMatchedIs ==
  ASSUME ArriveMatched
  PROVE  /\ micro = <<>> /\ open /\ todo # <<>> /\ IsReply(Head(todo)) /\ todo' = Tail(todo)
         /\ \/ \E k \in DOMAIN readers : Answered(k)
            \/ UNCHANGED <<inbox, readers, micro, loose>>
            \/ Handed
         /\ UNCHANGED <<service, open, cut, begun, broken, writes, calls, tag, greeted, pushed, crossed>>
BY DEF ArriveMatched, Quiet, Answered, Handed

\* The channel is handed an event.
LEMMA HandedIs ==
  ASSUME TypeOK, todo # <<>>, Handed
  PROVE  /\ inbox' \in Seq(Frames)
         /\ \A k \in DOMAIN inbox' :
              (k \in DOMAIN inbox /\ inbox'[k] = inbox[k]) \/ inbox'[k].says = "event"
<1> DEFINE e == [Head(todo) EXCEPT !.says = "event"]
<1>1. inbox \in Seq(Frames) /\ todo \in Seq(Frames) /\ DOMAIN inbox = 1..Len(inbox)
  BY DEF TypeOK
<1>2. Head(todo) \in Frames
  BY <1>1, TailIs
<1>3. e \in Frames /\ e.says = "event"
  BY <1>2 DEF Frames, Says
<1> HIDE DEF e
<1>4. CASE inbox' = <<>>
  BY <1>4
<1>5. CASE inbox' = Append(inbox, e)
  <2>1. /\ inbox' \in Seq(Frames) /\ Len(inbox') = Len(inbox) + 1 /\ Len(inbox) \in Nat
        /\ \A i \in 1..Len(inbox) : inbox'[i] = inbox[i]
        /\ inbox'[Len(inbox) + 1] = e
    BY <1>1, <1>3, <1>5, AppendIs
  <2>2. \A k \in DOMAIN inbox' : k \in 1..Len(inbox) \/ k = Len(inbox) + 1
    BY <2>1
  <2> QED
    BY <1>1, <1>3, <2>1, <2>2
<1> QED
  BY <1>4, <1>5 DEF Handed, e

LEMMA ArriveMatchedType == ASSUME TypeOK, Places, Wanted, ArriveMatched PROVE TypeOK'
<1>1. /\ todo # <<>> /\ todo' = Tail(todo) /\ micro = <<>>
      /\ UNCHANGED <<service, open, cut, begun, broken, writes, calls, tag, greeted, pushed, crossed>>
  BY ArriveMatchedIs
<1>2. Head(todo) \in Frames /\ Tail(todo) \in Seq(Frames)
  BY <1>1, FrontIs
<1>3. CASE UNCHANGED <<inbox, readers, micro, loose>>
  <2>1. CallsOK'
    BY <1>1, <1>3, StaysOK
  <2>2. OtherOK'
    BY <1>1, <1>2, <1>3 DEF OtherOK, TypeOK
  <2> QED
    BY <2>1, <2>2 DEF TypeOK, CallsOK, OtherOK
<1>5. CASE Handed
  <2>1. CallsOK'
    BY <1>1, <1>5, StaysOK DEF Handed
  <2>2. micro' \in Seq(Jobs) /\ inbox' \in Seq(Frames)
    BY <1>1, <1>5, TriesIs, HandedIs DEF Handed
  <2>3. OtherOK'
    BY <1>1, <1>2, <1>5, <2>2 DEF OtherOK, TypeOK, Handed
  <2> QED
    BY <2>1, <2>3 DEF TypeOK, CallsOK, OtherOK
<1>4. ASSUME NEW k \in DOMAIN readers, readers[k].who = Head(todo).for, readers' = RemoveAt(readers, k),
             UNCHANGED <<inbox, loose>>,
             micro' = <<Job("got", Head(todo).for, readers[k].at, [part |-> "reply", frame |-> Head(todo)])>>
      PROVE  TypeOK'
  <2>1. readers[k].who \in Call /\ readers[k].at \in Nat /\ calls[readers[k].who].phase # "idle"
    BY FrontIs
  <2>2. [part |-> "reply", frame |-> Head(todo)] \in Units
    BY <1>2 DEF Units
  <2>3. micro' \in Seq(Jobs)
    <3>1. Job("got", Head(todo).for, readers[k].at, [part |-> "reply", frame |-> Head(todo)]) \in Jobs
      BY <1>4, <2>1, <2>2, JobIs
    <3> QED
      BY <1>4, <3>1
  <2>4. ReadersMove(readers[k].who)
    BY <1>4 DEF ReadersMove
  <2>5. CallsOK'
    BY <1>1, <2>1, <2>4, StaysOK
  <2>6. OtherOK'
    BY <1>1, <1>2, <1>4, <2>3 DEF OtherOK, TypeOK
  <2> QED
    BY <2>5, <2>6 DEF TypeOK, CallsOK, OtherOK
<1> QED
  BY <1>3, <1>4, <1>5, ArriveMatchedIs DEF Answered

LEMMA PushType == ASSUME TypeOK, Push PROVE TypeOK'
<1>1. /\ todo' = Append(todo, Unasked) /\ pushed' = pushed + 1 /\ pushed < MaxPushes
      /\ loose' = (loose \/ ~\E c \in Call : Active(c) /\ OpOf(c).loop # 0)
      /\ UNCHANGED <<service, open, stream, readers, micro, writes, calls, tag, greeted, crossed>>
  BY DEF Push
<1>2. Unasked \in Frames
  BY DEF Unasked, Frame, Frames, Says, Names
<1>3. todo' \in Seq(Frames)
  BY <1>1, <1>2, AppendIs DEF TypeOK
<1>4. pushed' \in 0..MaxPushes
  BY <1>1, ServiceAssumption DEF TypeOK
<1>5. CallsOK'
  BY <1>1, StaysOK
<1>6. OtherOK'
  BY <1>1, <1>3, <1>4 DEF OtherOK, TypeOK, stream
<1> QED
  BY <1>5, <1>6 DEF TypeOK, CallsOK, OtherOK

LEMMA TimeOutType == ASSUME TypeOK, Places, Wanted, NEW k \in DOMAIN readers, TimeOut(k) PROVE TypeOK'
<1>1. PICK c \in Call, n \in Calls :
           /\ micro = <<>> /\ c = readers[k].who /\ calls[c].phase # "idle"
           /\ Expired(k, c, n) /\ loose' = TRUE
           /\ readers' = readers \/ readers' = RemoveAt(readers, k)
           /\ UNCHANGED <<service, open, todo, stream, writes, tag, greeted, pushed, crossed>>
  BY TimeOutIs
<1>2. ReadersMove(c)
  BY <1>1 DEF ReadersMove
<1>3. CallsOK'
  <2>1. CASE calls' = calls
    BY <1>1, <1>2, <2>1, StaysOK
  <2>2. CASE Moves(c, n)
    BY <1>1, <1>2, <2>2, MovesOK
  <2> QED
    BY <1>1, <2>1, <2>2 DEF Expired
<1>4. micro' \in Seq(Jobs)
  <2>1. n.pc \in Nat /\ <<>> \in Seq(Jobs)
    BY DEF Calls
  <2> QED
    BY <1>1, <2>1, MicroIs DEF Expired, Fails
<1>5. OtherOK'
  BY <1>1, <1>4 DEF OtherOK, TypeOK, stream
<1> QED
  BY <1>3, <1>5 DEF TypeOK, CallsOK, OtherOK

LEMMA AbandonType == ASSUME TypeOK, Places, Wanted, NEW c \in Call, Abandon(c) PROVE TypeOK'
<1>1. PICK n \in Calls :
           /\ micro = <<>> /\ calls[c].phase = "reading" /\ StepOf(c).do = "race"
           /\ Moves(c, n) /\ n.tag = calls[c].tag /\ n.held = calls[c].held /\ n.stole = calls[c].stole
           /\ \/ calls[c].pc = Len(OpOf(c).steps) /\ n.pc = calls[c].pc /\ n.phase = "ok" /\ micro' = <<>>
              \/ n.pc = calls[c].pc + 1 /\ n.phase = "run" /\ micro' = <<Run(c, n.pc)>>
           /\ loose' = TRUE
           /\ UNCHANGED <<service, open, todo, stream, readers, writes, tag, greeted, pushed, crossed>>
  BY AbandonIs
<1>2. CallsOK'
  BY <1>1, MovesOK DEF ReadersMove
<1>3. micro' \in Seq(Jobs)
  <2>1. n.pc \in Nat
    BY DEF Calls
  <2>2. Run(c, n.pc) \in Jobs
    BY <2>1, JobIs
  <2>3. <<>> \in Seq(Jobs) /\ <<Run(c, n.pc)>> \in Seq(Jobs)
    BY <2>2
  <2> QED
    BY <1>1, <2>3
<1>4. OtherOK'
  BY <1>1, <1>3 DEF OtherOK, TypeOK, stream
<1> QED
  BY <1>2, <1>4 DEF TypeOK, CallsOK, OtherOK

LEMMA DrainEndsType == ASSUME TypeOK, NEW c \in Call, DrainEnds(c) PROVE TypeOK'
<1>1. PICK n \in Calls :
           /\ micro = <<>> /\ calls[c].phase = "draining" /\ Moves(c, n) /\ loose' = TRUE
           /\ UNCHANGED <<service, open, todo, stream, readers, micro, writes, tag, greeted, pushed, crossed>>
  BY DrainEndsIs
<1>2. CallsOK'
  BY <1>1, MovesOK DEF ReadersMove
<1>3. OtherOK'
  BY <1>1 DEF OtherOK, TypeOK, stream
<1> QED
  BY <1>2, <1>3 DEF TypeOK, CallsOK, OtherOK

LEMMA CloseType == ASSUME TypeOK, Places, Wanted, Close PROVE TypeOK'
<1>1. /\ micro = <<>> /\ micro' = <<>> /\ open' = FALSE /\ todo' = <<>> /\ loose' = TRUE /\ writes' = <<>>
      /\ readers' = readers \/ readers' = <<>>
      /\ UNCHANGED <<service, stream, tag, greeted, pushed, crossed>>
  BY CloseIs
<1>2. ASSUME NEW c \in Call
      PROVE  /\ calls'[c] \in Calls /\ calls'[c].op = calls[c].op /\ calls'[c].pc = calls[c].pc
             /\ calls'[c].phase = "idle" => calls'[c] = calls[c]
             /\ calls[c].phase = "idle" => calls'[c] = calls[c]
  <2>1. calls[c] \in Calls
    BY DEF TypeOK
  <2>2. calls[c].phase = "idle" => DOMAIN OpOf(c).steps = {} /\ ~OpOf(c).ends /\ ~TakesEnd(c)
    BY DEF TypeOK, OpOf, Idle, NoOp, TakesEnd
  <2>3. \A k \in DOMAIN readers : readers[k].who = c => calls[c].phase # "idle"
    BY FrontIs
  <2> QED
    BY <2>1, <2>2, <2>3, CloseIs DEF Calls, Closed, CutShort
<1>3. \A c \in Call : OpOf(c)' = OpOf(c)
  BY <1>1, <1>2, SameOp
<1>4. calls' \in [Call -> Calls]
  BY <1>2, CloseIs
<1>5. service' = service
  BY <1>1
<1>6. \A c \in Call : IF calls'[c].phase = "idle" THEN calls'[c] = Idle
                      ELSE calls'[c].op \in DOMAIN service'.ops /\ calls'[c].pc \in DOMAIN (OpOf(c)').steps
  BY <1>2, <1>3, <1>5 DEF TypeOK
<1>0. /\ micro' \in Seq(Jobs) /\ todo' \in Seq(Frames) /\ writes' \in Seq(Call)
      /\ open' \in BOOLEAN /\ loose' \in BOOLEAN
  <2>1. micro' \in Seq(Jobs) /\ todo' \in Seq(Frames) /\ writes' \in Seq(Call)
    BY <1>1
  <2>2. open' \in BOOLEAN /\ loose' \in BOOLEAN
    BY <1>1
  <2> QED
    BY <2>1, <2>2
<1>7. CASE readers' = <<>>
  <2>1. CallsOK'
    BY <1>4, <1>6, <1>7 DEF CallsOK
  <2>2. OtherOK'
    BY <1>0, <1>1 DEF OtherOK, TypeOK, stream
  <2> QED
    BY <2>1, <2>2 DEF TypeOK, CallsOK, OtherOK
<1>8. CASE readers' = readers
  <2>1. \A k \in DOMAIN readers : readers[k].at \in DOMAIN (IF calls'[readers[k].who].op = 0 THEN NoOp ELSE service.ops[calls'[readers[k].who].op]).steps
    <3> TAKE k \in DOMAIN readers
    <3>1. readers[k].who \in Call /\ readers[k].at \in DOMAIN OpOf(readers[k].who).steps
      BY FrontIs
    <3> QED
      BY <3>1, <1>2 DEF OpOf
  <2>2. CallsOK'
    BY <1>4, <1>5, <1>6, <1>8, <2>1 DEF CallsOK, OpOf, TypeOK
  <2>3. OtherOK'
    BY <1>0, <1>1 DEF OtherOK, TypeOK, stream
  <2> QED
    BY <2>2, <2>3 DEF TypeOK, CallsOK, OtherOK
<1> QED
  BY <1>1, <1>7, <1>8

LEMMA InitType == Init => TypeOK
<1> SUFFICES ASSUME Init PROVE TypeOK
  OBVIOUS
<1>1. Unasked \in Frames
  BY DEF Unasked, Frame, Frames, Says, Names
<1>2. todo \in Seq(Frames) /\ inbox \in Seq(Frames) /\ readers \in Seq(Reads) /\ micro \in Seq(Jobs) /\ writes \in Seq(Call)
  BY <1>1 DEF Init
<1>3. Idle \in Calls
  BY DEF Idle, Calls
<1>4. calls \in [Call -> Calls] /\ \A c \in Call : calls[c] = Idle
  BY <1>3 DEF Init
<1>5. Idle.phase = "idle"
  BY DEF Idle
<1>6. CallsOK
  BY <1>2, <1>4, <1>5 DEF CallsOK, Init
<1>7. 0 \in 0..MaxPushes
  BY ServiceAssumption
<1>8. OtherOK
  <2>1. /\ open \in BOOLEAN /\ cut \in BOOLEAN /\ begun \in BOOLEAN /\ broken \in BOOLEAN
        /\ greeted \in BOOLEAN /\ loose \in BOOLEAN /\ crossed \in BOOLEAN
    BY DEF Init
  <2>2. service \in Services /\ tag \in Nat \ {0} /\ pushed \in 0..MaxPushes
    BY <1>7 DEF Init
  <2> QED
    BY <1>2, <2>1, <2>2 DEF OtherOK
<1> QED
  BY <1>6, <1>8, TypeParts

\* Every step keeps the types.
LEMMA TypeKept == ASSUME TypeOK, Places, Wanted, [Next]_vars PROVE TypeOK'
<1>1. CASE UNCHANGED vars
  <2>1. CallsOK'
    BY <1>1, StaysOK DEF vars
  <2>2. OtherOK'
    BY <1>1 DEF OtherOK, TypeOK, stream, vars
  <2> QED
    BY <2>1, <2>2 DEF TypeOK, CallsOK, OtherOK
<1>2. CASE Micro
  BY <1>2, DoStepType, SentType, TryReadType, GotType DEF Micro
<1>3. CASE Written \/ Arrive \/ ArriveMatched \/ Push \/ Close
  BY <1>3, WrittenType, ArriveType, ArriveMatchedType, PushType, CloseType
<1>4. ASSUME NEW c \in Call, Abandon(c) \/ DrainEnds(c) \/ \E o \in DOMAIN service.ops : Start(c, o) PROVE TypeOK'
  BY <1>4, DrainEndsType, AbandonType, StartType
<1>5. ASSUME NEW k \in DOMAIN readers, TimeOut(k) PROVE TypeOK'
  BY <1>5, TimeOutType
<1> QED
  BY <1>1, <1>2, <1>3, <1>4, <1>5 DEF Next

------------------------------------------------------------------------------
\* The first job has run, and there is one more, at the end or in front, or none.
Follows(e) ==
  \/ micro' = Tail(micro)
  \/ micro' = Append(Tail(micro), e)
  \/ micro' = <<e>> \o Tail(micro)

LEMMA FollowsIs ==
  ASSUME TypeOK, micro # <<>>, NEW e \in Jobs, Follows(e)
  PROVE  /\ micro' \in Seq(Jobs) /\ micro \in Seq(Jobs) /\ Len(micro) \in Nat /\ Head(micro) = micro[1]
         /\ DOMAIN micro = 1..Len(micro) /\ 1 \in DOMAIN micro
         /\ \E m \in [DOMAIN micro' -> Nat] :
           /\ \A i \in DOMAIN micro' : \/ m[i] = 1 /\ micro'[i] = e
                                       \/ m[i] \in 2..Len(micro) /\ m[i] \in DOMAIN micro /\ micro'[i] = micro[m[i]]
           /\ \A i, j \in DOMAIN micro' : m[i] = m[j] => i = j
<1> DEFINE t == Tail(micro)
           L == Len(micro)
           G(m) == /\ \A i \in DOMAIN micro' : \/ m[i] = 1 /\ micro'[i] = e
                                               \/ m[i] \in 2..L /\ m[i] \in DOMAIN micro /\ micro'[i] = micro[m[i]]
                   /\ \A i, j \in DOMAIN micro' : m[i] = m[j] => i = j
<1>1. /\ L \in Nat /\ L >= 1 /\ t \in Seq(Jobs) /\ Len(t) = L - 1 /\ DOMAIN micro = 1..L
      /\ \A i \in 1..(L - 1) : t[i] = micro[i + 1]
      /\ micro \in Seq(Jobs) /\ Head(micro) = micro[1]
  <2>1. micro \in Seq(Jobs)
    BY DEF TypeOK
  <2> QED
    BY <2>1, TailIs
<1> HIDE DEF t, L
<1>2. CASE micro' = t
  <2> DEFINE m == [i \in 1..(L - 1) |-> i + 1]
  <2>1. DOMAIN micro' = 1..(L - 1)
    BY <1>1, <1>2
  <2>2. m \in [DOMAIN micro' -> Nat]
    BY <1>1, <2>1
  <2>3. G(m)
    BY <1>1, <1>2, <2>1
  <2> HIDE DEF m
  <2> QED
    BY <1>1, <1>2, <2>2, <2>3 DEF L
<1>3. CASE micro' = Append(t, e)
  <2> DEFINE m == [i \in 1..L |-> IF i = L THEN 1 ELSE i + 1]
  <2>1. /\ micro' \in Seq(Jobs) /\ Len(micro') = (L - 1) + 1 /\ micro'[(L - 1) + 1] = e
        /\ \A i \in 1..(L - 1) : micro'[i] = t[i]
    BY <1>1, <1>3, AppendIs
  <2>2. DOMAIN micro' = 1..L /\ micro'[L] = e
    BY <1>1, <2>1
  <2>3. m \in [DOMAIN micro' -> Nat]
    BY <1>1, <2>2
  <2>4. ASSUME NEW i \in DOMAIN micro'
        PROVE  \/ m[i] = 1 /\ micro'[i] = e
               \/ m[i] \in 2..L /\ m[i] \in DOMAIN micro /\ micro'[i] = micro[m[i]]
    <3>1. CASE i = L
      BY <2>2, <3>1
    <3>2. CASE i # L
      <4>1. i \in 1..(L - 1) /\ i + 1 \in 1..L /\ i + 1 \in 2..L
        BY <1>1, <2>2, <3>2
      <4>2. m[i] = i + 1
        BY <2>2, <3>2
      <4>3. micro'[i] = t[i] /\ t[i] = micro[i + 1]
        BY <1>1, <2>1, <4>1
      <4> QED
        BY <1>1, <4>1, <4>2, <4>3
    <3> QED
      BY <3>1, <3>2
  <2>5. ASSUME NEW i \in DOMAIN micro', NEW j \in DOMAIN micro', m[i] = m[j] PROVE i = j
    BY <1>1, <2>2, <2>5
  <2>6. G(m)
    BY <2>4, <2>5
  <2> HIDE DEF m
  <2> QED
    BY <1>1, <2>1, <2>3, <2>6 DEF L
<1>4. CASE micro' = <<e>> \o t
  <2> DEFINE m == [i \in 1..L |-> i]
  <2>1. micro' \in Seq(Jobs) /\ Len(micro') = L /\ micro'[1] = e
        /\ \A i \in 2..L : micro'[i] = t[i - 1]
    <3>1. <<e>> \in Seq(Jobs) /\ Len(<<e>>) = 1 /\ <<e>>[1] = e
      OBVIOUS
    <3>2. <<e>> \o t \in Seq(Jobs) /\ Len(<<e>> \o t) = 1 + (L - 1)
      BY <1>1, <3>1, ConcatProperties
    <3>3. \A i \in 1..(1 + (L - 1)) : (<<e>> \o t)[i] = IF i <= 1 THEN <<e>>[i] ELSE t[i - 1]
      BY <1>1, <3>1, ConcatProperties
    <3>4. 1 + (L - 1) = L
      BY <1>1
    <3>5. \A i \in 1..L : micro'[i] = IF i <= 1 THEN <<e>>[i] ELSE t[i - 1]
      BY <1>4, <3>3, <3>4
    <3> QED
      BY <1>1, <1>4, <3>1, <3>2, <3>4, <3>5
  <2>2. DOMAIN micro' = 1..L
    BY <2>1
  <2>3. m \in [DOMAIN micro' -> Nat]
    BY <1>1, <2>2
  <2>4. ASSUME NEW i \in DOMAIN micro'
        PROVE  \/ m[i] = 1 /\ micro'[i] = e
               \/ m[i] \in 2..L /\ m[i] \in DOMAIN micro /\ micro'[i] = micro[m[i]]
    <3>1. CASE i = 1
      BY <2>1, <2>2, <3>1
    <3>2. CASE i # 1
      <4>1. i \in 2..L /\ i \in 1..L /\ i - 1 \in 1..(L - 1) /\ (i - 1) + 1 = i
        BY <1>1, <2>2, <3>2
      <4>2. micro'[i] = t[i - 1] /\ t[i - 1] = micro[i]
        BY <1>1, <2>1, <4>1
      <4> QED
        BY <1>1, <4>1, <4>2
    <3> QED
      BY <3>1, <3>2
  <2>5. G(m)
    BY <2>2, <2>4
  <2>6. micro' \in Seq(Jobs)
    BY <2>1
  <2> HIDE DEF m
  <2> QED
    BY <1>1, <2>3, <2>5, <2>6 DEF L
<1> QED
  BY <1>2, <1>3, <1>4 DEF Follows, t

\* No job and no write is left of a call but the job that runs.
Freed(c) ==
  /\ \A i \in 2..Len(micro) : micro[i].what \in {"run", "written"} => micro[i].who # c
  /\ \A k \in DOMAIN writes : writes[k] # c

WritesMove(c) ==
  \/ writes' = writes
  \/ /\ writes' = Append(writes, c) /\ open /\ Freed(c)
     /\ calls'[c].phase = "sent" /\ micro' = Tail(micro)

LEMMA PlacesJob ==
  ASSUME TypeOK, Places, micro # <<>>, NEW e \in Jobs, Follows(e), NEW c \in Call, e.who = c,
         SameOps, open' = open, \A d \in Call \ {c} : calls'[d] = calls[d],
         e.what # "written", e.what = "run" => calls'[c].phase = "run" /\ Freed(c),
         calls'[c] = calls[c] \/ Freed(c), WritesMove(c), AtStep(c)'
  PROVE  Places'
<1> DEFINE L == Len(micro)
           Tok(j) == j.what \in {"run", "written"}
<1>1. /\ micro' \in Seq(Jobs) /\ micro \in Seq(Jobs) /\ L \in Nat /\ DOMAIN micro = 1..L /\ 1 \in DOMAIN micro
  BY FollowsIs
<1>2. PICK m \in [DOMAIN micro' -> Nat] :
           /\ \A i \in DOMAIN micro' : \/ m[i] = 1 /\ micro'[i] = e
                                       \/ m[i] \in 2..L /\ m[i] \in DOMAIN micro /\ micro'[i] = micro[m[i]]
           /\ \A i, j \in DOMAIN micro' : m[i] = m[j] => i = j
  BY FollowsIs
<1>3. \A i \in DOMAIN micro : micro[i].who \in Call
  <2> TAKE i \in DOMAIN micro
  <2>1. micro[i] \in Jobs
    BY <1>1, ElementOfSeq
  <2> QED
    BY <2>1 DEF Jobs
<1>4. ASSUME NEW i \in DOMAIN micro' PROVE micro'[i].what = "run" => calls'[micro'[i].who].phase = "run"
  <2>1. CASE micro'[i] = e
    BY <2>1
  <2>2. CASE m[i] \in 2..L /\ m[i] \in DOMAIN micro /\ micro'[i] = micro[m[i]]
    BY <2>2, <1>3 DEF Places, Freed
  <2> QED
    BY <1>2, <2>1, <2>2
<1>5. ASSUME NEW i \in DOMAIN micro' PROVE micro'[i].what = "written" => calls'[micro'[i].who].phase = "sent"
  <2>1. CASE micro'[i] = e
    BY <2>1
  <2>2. CASE m[i] \in 2..L /\ m[i] \in DOMAIN micro /\ micro'[i] = micro[m[i]]
    BY <2>2, <1>3 DEF Places, Freed
  <2> QED
    BY <1>2, <2>1, <2>2
<1>6. ASSUME NEW i \in DOMAIN micro', NEW j \in DOMAIN micro', Tok(micro'[i]), Tok(micro'[j]),
             micro'[i].who = micro'[j].who
      PROVE  i = j
  <2>1. CASE m[i] = 1 /\ micro'[i] = e /\ m[j] = 1
    BY <2>1, <1>2
  <2>2. CASE m[i] = 1 /\ micro'[i] = e /\ m[j] # 1
    BY <2>2, <1>2, <1>6 DEF Freed
  <2>3. CASE m[j] = 1 /\ micro'[j] = e /\ m[i] # 1
    BY <2>3, <1>2, <1>6 DEF Freed
  <2>4. CASE m[i] # 1 /\ m[j] # 1
    <3>1. /\ m[i] \in DOMAIN micro /\ m[j] \in DOMAIN micro /\ micro'[i] = micro[m[i]] /\ micro'[j] = micro[m[j]]
      BY <2>4, <1>2
    <3>2. m[i] = m[j]
      BY <3>1, <1>6 DEF Places
    <3> QED
      BY <3>2, <1>2
  <2> QED
    BY <1>2, <2>1, <2>2, <2>3, <2>4
<1>10. \A d \in Call : AtStep(d)'
  <2> TAKE d \in Call
  <2>1. CASE d = c
    BY <2>1
  <2>2. CASE d # c
    <3>1. calls'[d] = calls[d] /\ OpOf(d)' = OpOf(d)
      BY <2>2 DEF SameOps
    <3> QED
      BY <3>1 DEF Places, AtStep, ReadsAt
  <2> QED
    BY <2>1, <2>2
<1>7. writes \in Seq(Call) /\ Len(writes) \in Nat /\ DOMAIN writes = 1..Len(writes)
      /\ \A k \in DOMAIN writes : writes[k] \in Call
  BY ElementOfSeq DEF TypeOK
<1>8. CASE writes' = writes
  <2>1. \A k \in DOMAIN writes' : open' /\ calls'[writes'[k]].phase = "sent"
    BY <1>7, <1>8 DEF Places, Freed
  <2>2. \A k, l \in DOMAIN writes' : writes'[k] = writes'[l] => k = l
    BY <1>8 DEF Places
  <2>3. ASSUME NEW k \in DOMAIN writes', NEW i \in DOMAIN micro', micro'[i].what = "written"
        PROVE  micro'[i].who # writes'[k]
    <3>1. m[i] \in DOMAIN micro /\ micro'[i] = micro[m[i]]
      BY <1>2, <2>3
    <3> QED
      BY <3>1, <2>3, <1>8 DEF Places
  <2> QED
    BY <1>4, <1>5, <1>6, <2>1, <2>2, <2>3, <1>10 DEF Places
<1>9. CASE writes' = Append(writes, c) /\ open /\ Freed(c) /\ calls'[c].phase = "sent" /\ micro' = Tail(micro)
  <2>1. /\ writes' \in Seq(Call) /\ Len(writes') = Len(writes) + 1
        /\ \A k \in 1..Len(writes) : writes'[k] = writes[k]
        /\ writes'[Len(writes) + 1] = c
    BY <1>7, <1>9, AppendIs
  <2>2. \A k \in DOMAIN writes' : \/ k \in DOMAIN writes /\ writes'[k] = writes[k]
                                  \/ k = Len(writes) + 1 /\ writes'[k] = c
    <3>1. DOMAIN writes' = 1..(Len(writes) + 1)
      BY <2>1
    <3> TAKE k \in DOMAIN writes'
    <3>2. CASE k \in 1..Len(writes)
      <4>1. k \in DOMAIN writes
        BY <1>7, <3>2
      <4>2. writes'[k] = writes[k]
        BY <2>1, <3>2
      <4> QED
        BY <4>1, <4>2
    <3>3. CASE k = Len(writes) + 1
      BY <2>1, <3>3
    <3> QED
      BY <1>7, <3>1, <3>2, <3>3
  <2>3. \A k \in DOMAIN writes' : open' /\ calls'[writes'[k]].phase = "sent"
    BY <1>7, <1>9, <2>2 DEF Places, Freed
  <2>4. \A k, l \in DOMAIN writes' : writes'[k] = writes'[l] => k = l
    BY <1>7, <1>9, <2>2 DEF Places, Freed
  <2>5. ASSUME NEW k \in DOMAIN writes', NEW i \in DOMAIN micro', micro'[i].what = "written"
        PROVE  micro'[i].who # writes'[k]
    <3>1. m[i] \in DOMAIN micro /\ m[i] \in 2..L /\ micro'[i] = micro[m[i]]
      BY <1>2, <2>5
    <3> QED
      BY <3>1, <2>2, <2>5, <1>9 DEF Places, Freed
  <2> QED
    BY <1>4, <1>5, <1>6, <2>3, <2>4, <2>5, <1>10 DEF Places
<1> QED
  BY <1>8, <1>9 DEF WritesMove

LEMMA FreedIs ==
  ASSUME TypeOK, Places, Wanted, micro # <<>>, NEW c \in Call, c = Head(micro).who,
         Head(micro).what \in {"run", "written"} \/ calls[c].phase \notin {"run", "sent"}
  PROVE  Freed(c)
<1>1. micro \in Seq(Jobs) /\ Len(micro) \in Nat /\ DOMAIN micro = 1..Len(micro) /\ 1 \in DOMAIN micro /\ Head(micro) = micro[1]
  <2>1. micro \in Seq(Jobs)
    BY DEF TypeOK
  <2> QED
    BY <2>1, TailIs
<1>2. ASSUME NEW i \in 2..Len(micro), micro[i].what \in {"run", "written"}, micro[i].who = c PROVE FALSE
  <2>1. i \in DOMAIN micro /\ i # 1
    BY <1>1
  <2> QED
    BY <1>1, <1>2, <2>1 DEF Places
<1>3. ASSUME NEW k \in DOMAIN writes, writes[k] = c PROVE FALSE
  BY <1>1, <1>3 DEF Places
<1> QED
  BY <1>2, <1>3 DEF Freed

\* The job of an action that adds none.
NoJob(c) == Try(Reader(c, 1, "head"))

LEMMA NoJobIs == ASSUME TypeOK, NEW c \in Call PROVE NoJob(c) \in Jobs /\ NoJob(c).who = c /\ NoJob(c).what = "try"
<1>1. 1 \in Nat /\ Reader(c, 1, "head") \in Reads
  BY JobIs
<1> QED
  BY <1>1, JobIs DEF NoJob, Try, Job, Reader

LEMMA RunIs == \A c, k : Run(c, k).who = c /\ Run(c, k).what = "run" /\ Run(c, k).at = k /\ Run(c, k).unit = NoUnit
BY DEF Run, Job

LEMMA TryIs == \A r : Try(r).who = r.who /\ Try(r).what = "try" /\ Try(r).at = r.at /\ Try(r).unit = NoUnit
BY DEF Try, Job

\* A call that goes on runs, or has ended, and so does one that fails.
LEMMA PlacesGoes ==
  ASSUME TypeOK, Places, Wanted, micro # <<>>, NEW c \in Call, c = Head(micro).who, calls[c].phase # "idle",
         Head(micro).what \in {"run", "written"} \/ calls[c].phase \notin {"run", "sent"},
         NEW n \in Calls, Moves(c, n), Goes(c, n, Tail(micro)) \/ Fails(c, n, Tail(micro)),
         service' = service, open' = open, writes' = writes
  PROVE  Places'
<1>1. SameOps /\ calls'[c] = n /\ \A d \in Call \ {c} : calls'[d] = calls[d]
  BY MovesOps
<1>2. Freed(c) /\ WritesMove(c)
  BY FreedIs DEF WritesMove
<1>3. n.phase \in {"run", "ok", "failed"}
  BY DEF Goes, Fails
<1>4. AtStep(c)'
  BY <1>1, <1>3 DEF AtStep
<1>5. CASE micro' = Tail(micro)
  <2>1. Follows(NoJob(c))
    BY <1>5 DEF Follows
  <2> QED
    BY <1>1, <1>2, <1>4, <2>1, NoJobIs, PlacesJob
<1>6. CASE n.phase = "run" /\ micro' = Append(Tail(micro), Run(c, n.pc))
  <2>1. Follows(Run(c, n.pc))
    BY <1>6 DEF Follows
  <2>2. n.pc \in Nat
    BY DEF Calls
  <2>3. Run(c, n.pc) \in Jobs
    BY <2>2, JobIs
  <2> QED
    BY <1>1, <1>2, <1>4, <1>6, <2>1, <2>3, RunIs, PlacesJob
<1> QED
  BY <1>5, <1>6 DEF Goes, Fails

LEMMA PlacesDoStep == ASSUME TypeOK, Places, Wanted, DoStep PROVE Places'
<1>1. PICK c \in Call, n \in Calls :
           /\ micro # <<>> /\ c = Head(micro).who /\ Head(micro).what = "run" /\ calls[c].phase = "run"
           /\ Moves(c, n)
           /\ Wrote(c, n) \/ Refused(c, n) \/ Asked(c, n) \/ Drains(c, n)
           /\ service' = service /\ open' = open
  BY DoStepIs
<1>2. SameOps /\ calls'[c] = n /\ \A d \in Call \ {c} : calls'[d] = calls[d]
  BY <1>1, MovesOps
<1>3. Freed(c)
  BY <1>1, FreedIs
<1>4. NoJob(c) \in Jobs /\ NoJob(c).who = c /\ NoJob(c).what = "try"
  BY NoJobIs
<1>5. CASE Wrote(c, n)
  <2>1. Follows(NoJob(c))
    BY <1>5 DEF Follows, Wrote
  <2>2. AtStep(c)'
    BY <1>2, <1>5 DEF AtStep, Wrote, SameOps, StepOf
  <2>3. WritesMove(c)
    BY <1>2, <1>3, <1>5 DEF WritesMove, Wrote
  <2> QED
    BY <1>1, <1>2, <1>3, <1>4, <2>1, <2>2, <2>3, PlacesJob
<1>6. CASE Refused(c, n)
  BY <1>1, <1>6, PlacesGoes DEF Refused
<1>7. CASE Asked(c, n)
  <2>1. calls[c].pc \in Nat
    BY DEF TypeOK, Calls
  <2>2. Wants(StepOf(c)) \in {"head", "body", "raw", "frame", "reply"}
    BY WantsIs
  <2> DEFINE r == Reader(c, calls[c].pc, Wants(StepOf(c)))
  <2>3. r \in Reads
    BY <2>1, <2>2, JobIs
  <2>4. Try(r) \in Jobs /\ Try(r).who = c /\ Try(r).what = "try"
    BY <2>1, <2>3, JobIs, TryIs DEF Reader
  <2>5. Follows(Try(r))
    BY <1>7 DEF Follows, Asked, Register
  <2>6. AtStep(c)'
    BY <1>2, <1>7 DEF AtStep, Asked, SameOps, ReadsAt
  <2>7. WritesMove(c)
    BY <1>7 DEF WritesMove, Asked
  <2> HIDE DEF r
  <2> QED
    BY <1>1, <1>2, <1>3, <2>4, <2>5, <2>6, <2>7, PlacesJob
<1>8. CASE Drains(c, n)
  <2>1. Follows(NoJob(c))
    BY <1>8 DEF Follows, Drains
  <2>2. AtStep(c)'
    BY <1>2, <1>8 DEF AtStep, Drains, SameOps, StepOf
  <2>3. WritesMove(c)
    BY <1>8 DEF WritesMove, Drains
  <2> QED
    BY <1>1, <1>2, <1>3, <1>4, <2>1, <2>2, <2>3, PlacesJob
<1> QED
  BY <1>1, <1>5, <1>6, <1>7, <1>8

LEMMA PlacesSent == ASSUME TypeOK, Places, Wanted, Sent PROVE Places'
<1>1. PICK c \in Call, n \in Calls :
           /\ micro # <<>> /\ c = Head(micro).who /\ Head(micro).what = "written" /\ calls[c].phase = "sent"
           /\ Moves(c, n) /\ Goes(c, n, Tail(micro))
           /\ service' = service /\ open' = open /\ writes' = writes
  BY SentIs
<1> QED
  BY <1>1, PlacesGoes

\* A job has run and the calls are as they were.
LEMMA PlacesIdles ==
  ASSUME TypeOK, Places, Wanted, micro # <<>>, NEW c \in Call, NEW e \in Jobs, Follows(e), e.who = c,
         e.what \in {"try", "got"}, calls' = calls, service' = service, open' = open, writes' = writes
  PROVE  Places'
<1>1. SameOps
  BY SameOp DEF SameOps
<1>2. AtStep(c)'
  BY <1>1 DEF Places, AtStep, SameOps, ReadsAt
<1> QED
  BY <1>1, <1>2, PlacesJob DEF WritesMove

LEMMA PlacesGot == ASSUME TypeOK, Places, Wanted, Got PROVE Places'
<1>1. PICK c \in Call :
           /\ micro # <<>> /\ c = Head(micro).who /\ Head(micro).what = "got" /\ calls[c].phase # "idle"
           /\ \/ Headed(c) \/ Strayed(c) \/ Repeated(c)
              \/ \E n \in Calls : Accepted(c, n) \/ Threw(c, n)
           /\ service' = service /\ open' = open /\ writes' = writes
  BY GotIs
<1>2. Head(micro).at \in Nat /\ calls[c].pc \in Nat
  BY <1>1, FrontIs DEF TypeOK, Calls
<1>3. CASE Headed(c)
  <2> DEFINE r == Reader(c, Head(micro).at, "body")
  <2>1. r \in Reads
    BY <1>2, JobIs
  <2>2. Try(r) \in Jobs /\ Try(r).who = c /\ Try(r).what = "try"
    BY <2>1, <1>2, JobIs, TryIs DEF Reader
  <2>3. Follows(Try(r)) /\ calls' = calls
    BY <1>3 DEF Follows, Headed, Register
  <2> HIDE DEF r
  <2> QED
    BY <1>1, <2>2, <2>3, PlacesIdles
<1>4. CASE Strayed(c)
  <2>1. Follows(NoJob(c)) /\ calls' = calls
    BY <1>4 DEF Follows, Strayed
  <2> QED
    BY <1>1, <2>1, NoJobIs, PlacesIdles
<1>5. CASE Repeated(c)
  <2> DEFINE r == Reader(c, calls[c].pc, Wants(StepOf(c)))
  <2>0. Wants(StepOf(c)) \in {"head", "body", "raw", "frame", "reply"}
    BY WantsIs
  <2>1. r \in Reads
    BY <1>2, <2>0, JobIs
  <2>2. Try(r) \in Jobs /\ Try(r).who = c /\ Try(r).what = "try"
    BY <2>1, <1>2, JobIs, TryIs DEF Reader
  <2>3. Follows(Try(r)) /\ calls' = calls
    BY <1>5 DEF Follows, Repeated, Register
  <2> HIDE DEF r
  <2> QED
    BY <1>1, <2>2, <2>3, PlacesIdles
<1>6. ASSUME NEW n \in Calls, Accepted(c, n) \/ Threw(c, n) PROVE Places'
  <2>1. calls[c].phase = "reading" /\ Moves(c, n) /\ (Goes(c, n, Tail(micro)) \/ Fails(c, n, Tail(micro)))
    BY <1>6 DEF Accepted, Threw, Awaits
  <2> QED
    BY <1>1, <2>1, PlacesGoes
<1> QED
  BY <1>1, <1>3, <1>4, <1>5, <1>6

LEMMA PlacesTryRead == ASSUME TypeOK, Places, Wanted, TryRead PROVE Places'
<1>1. /\ micro # <<>> /\ Head(micro).who \in Call
      /\ calls' = calls /\ service' = service /\ open' = open /\ writes' = writes
  BY TryReadIs, FrontIs
<1> DEFINE c == Head(micro).who
<1>2. CASE micro' = Tail(micro)
  <2>1. Follows(NoJob(c))
    BY <1>2 DEF Follows
  <2> QED
    BY <1>1, <2>1, NoJobIs, PlacesIdles
<1>3. ASSUME NEW k \in DOMAIN readers, readers[k].who = c, Found(k) PROVE Places'
  <2> DEFINE u == [part |-> NextPart, frame |-> Head(inbox)]
             e == Job("got", c, readers[k].at, u)
  <2>1. inbox # <<>> /\ NextPart \in {"head", "body", "raw", "frame"}
    BY <1>3 DEF Found, Dry, NextPart
  <2>2. Head(inbox) \in Frames /\ readers[k].at \in Nat
    BY <2>1, FrontIs
  <2>3. u \in Units
    BY <2>1, <2>2 DEF Units
  <2> HIDE DEF u
  <2>4. e \in Jobs
    BY <1>1, <2>2, <2>3, JobIs
  <2>5. e.who = c /\ e.what = "got"
    BY DEF Job
  <2>6. Follows(e)
    BY <1>3 DEF Found, Follows, u
  <2> HIDE DEF e
  <2> QED
    BY <1>1, <2>4, <2>5, <2>6, PlacesIdles
<1> QED
  BY <1>2, <1>3, TryReadIs DEF Breaks

\* What runs next are reads and their continuations.
Reading == \A i \in DOMAIN micro' : micro'[i].what \notin {"run", "written"}

LEMMA PlacesStill ==
  ASSUME TypeOK, Places, service' = service, calls' = calls, open' = open, writes' = writes, Reading
  PROVE  Places'
<1>1. \A d \in Call : AtStep(d)'
  <2> TAKE d \in Call
  <2>1. OpOf(d)' = OpOf(d)
    BY SameOp
  <2> QED
    BY <2>1 DEF Places, AtStep, ReadsAt
<1> QED
  BY <1>1 DEF Places, Reading

\* One call has changed, and runs if it has a job.
LEMMA PlacesQuiet ==
  ASSUME TypeOK, Places, service' = service, open' = open, writes' = writes, NEW c \in Call,
         \A d \in Call \ {c} : calls'[d] = calls[d], calls[c].phase # "sent", AtStep(c)',
         NEW k \in Nat, Reading \/ (micro' = <<Run(c, k)>> /\ calls'[c].phase = "run")
  PROVE  Places'
<1>1. \A d \in Call : AtStep(d)'
  <2> TAKE d \in Call
  <2>1. CASE d # c
    <3>1. OpOf(d)' = OpOf(d) /\ calls'[d] = calls[d]
      BY <2>1, SameOp
    <3> QED
      BY <3>1 DEF Places, AtStep, ReadsAt
  <2> QED
    BY <2>1
<1>2. \A l \in DOMAIN writes : writes[l] \in Call /\ writes[l] # c
  BY ElementOfSeq DEF TypeOK, Places
<1>3. \A l \in DOMAIN writes' : open' /\ calls'[writes'[l]].phase = "sent"
  BY <1>2 DEF Places
<1>4. CASE Reading
  BY <1>1, <1>2, <1>3, <1>4 DEF Places, Reading
<1>5. CASE micro' = <<Run(c, k)>> /\ calls'[c].phase = "run"
  <2>1. \A i \in DOMAIN micro' : i = 1 /\ micro'[i].who = c /\ micro'[i].what = "run"
    BY <1>5, RunIs
  <2> QED
    BY <1>1, <1>2, <1>3, <1>5, <2>1 DEF Places
<1> QED
  BY <1>4, <1>5

LEMMA PlacesStart == ASSUME TypeOK, Places, NEW c \in Call, NEW o \in DOMAIN service.ops, Start(c, o) PROVE Places'
<1>1. calls[c].phase = "idle" /\ calls[c] \in Calls
  BY DEF Start, TypeOK
<1> DEFINE pc == IF greeted THEN service.ops[o].first + 1 ELSE 1
<1>2. /\ calls' = [calls EXCEPT ![c] = [@ EXCEPT !.op = o, !.pc = pc, !.phase = "run"]]
      /\ micro' = <<Run(c, pc)>>
      /\ service' = service /\ open' = open /\ writes' = writes
  BY DEF Start
<1>3. calls'[c].phase = "run" /\ \A d \in Call \ {c} : calls'[d] = calls[d]
  BY <1>1, <1>2 DEF TypeOK, Calls
<1>4. pc \in Nat
  <2>1. service.ops \in Seq(Ops)
    BY RowIs DEF TypeOK, Rows
  <2>2. service.ops[o] \in Ops
    BY <2>1, ElementOfSeq
  <2> QED
    BY <2>2 DEF Ops
<1>5. AtStep(c)'
  BY <1>3 DEF AtStep
<1> HIDE DEF pc
<1> QED
  BY <1>1, <1>2, <1>3, <1>4, <1>5, PlacesQuiet

\* Of the writes that are called back the calls go on, one after another.
LEMMA PlacesWritten == ASSUME TypeOK, Places, Written PROVE Places'
<1>1. PICK k \in 1..Len(writes) :
       /\ writes' = SubSeq(writes, k + 1, Len(writes))
       /\ micro' = [j \in 1..k |-> Job("written", writes[j], calls[writes[j]].pc, NoUnit)]
  BY DEF Written
<1>2. service' = service /\ open' = open /\ calls' = calls
  BY DEF Written
<1>3. writes \in Seq(Call) /\ Len(writes) \in Nat /\ k \in Nat /\ k >= 1 /\ DOMAIN writes = 1..Len(writes)
  BY DEF TypeOK
<1>4. /\ writes' \in Seq(Call) /\ Len(writes') = Len(writes) - k
      /\ \A i \in 1..(Len(writes) - k) : writes'[i] = writes[k + i]
  BY <1>1, <1>3, RestIs
<1>5. DOMAIN writes' = 1..(Len(writes) - k)
  BY <1>4
<1>6. \A i \in DOMAIN writes' : k + i \in DOMAIN writes /\ k + i \notin 1..k /\ writes'[i] = writes[k + i] /\ i \in Nat
  BY <1>3, <1>4, <1>5
<1>7. \A j \in DOMAIN micro' : j \in 1..k /\ j \in DOMAIN writes /\ micro'[j].what = "written" /\ micro'[j].who = writes[j]
  BY <1>1, <1>3 DEF Job
<1>8. \A d \in Call : AtStep(d)'
  <2> TAKE d \in Call
  <2>1. OpOf(d)' = OpOf(d)
    BY <1>2, SameOp
  <2> QED
    BY <1>2, <2>1 DEF Places, AtStep, ReadsAt
<1>9. \A i, j \in DOMAIN micro' : micro'[i].who = micro'[j].who => i = j
  BY <1>7 DEF Places
<1>10. \A i \in DOMAIN micro' : micro'[i].what = "written" /\ calls'[micro'[i].who].phase = "sent"
  BY <1>2, <1>7 DEF Places
<1>11. \A i, j \in DOMAIN writes' : writes'[i] = writes'[j] => i = j
  <2> TAKE i, j \in DOMAIN writes'
  <2>1. writes'[i] = writes'[j] => k + i = k + j
    BY <1>6 DEF Places
  <2> QED
    BY <1>3, <1>6, <2>1
<1>12. \A i \in DOMAIN writes' : open' /\ calls'[writes'[i]].phase = "sent"
  BY <1>2, <1>6 DEF Places
<1>13. \A i \in DOMAIN writes', j \in DOMAIN micro' : micro'[j].who # writes'[i]
  BY <1>6, <1>7 DEF Places
<1> QED
  BY <1>8, <1>9, <1>10, <1>11, <1>12, <1>13 DEF Places

LEMMA PlacesArrive == ASSUME TypeOK, Places, Arrive PROVE Places'
<1>1. micro' = [j \in DOMAIN readers |-> Try(readers[j])]
      /\ service' = service /\ open' = open /\ writes' = writes /\ calls' = calls
  BY DEF Arrive
<1>2. Reading
  BY <1>1, TryIs DEF Reading
<1> QED
  BY <1>1, <1>2, PlacesStill

LEMMA PlacesArriveMatched == ASSUME TypeOK, Places, ArriveMatched PROVE Places'
<1>1. micro = <<>> /\ service' = service /\ open' = open /\ writes' = writes /\ calls' = calls
  BY ArriveMatchedIs
<1>2. Reading
  <2>1. CASE Handed
    BY <2>1, TryIs DEF Handed, Reading
  <2> QED
    BY <1>1, <2>1, ArriveMatchedIs DEF Answered, Reading, Job
<1> QED
  BY <1>1, <1>2, PlacesStill

LEMMA PlacesPush == ASSUME TypeOK, Places, Push PROVE Places'
<1>1. micro = <<>> /\ micro' = micro /\ service' = service /\ open' = open /\ writes' = writes /\ calls' = calls
  BY DEF Push, Quiet
<1>2. Reading
  BY <1>1 DEF Reading
<1> QED
  BY <1>1, <1>2, PlacesStill

LEMMA PlacesTimeOut == ASSUME TypeOK, Places, Wanted, NEW k \in DOMAIN readers, TimeOut(k) PROVE Places'
<1>1. PICK c \in Call, n \in Calls :
           /\ micro = <<>> /\ c = readers[k].who /\ calls[c].phase # "idle"
           /\ Expired(k, c, n)
           /\ service' = service /\ open' = open /\ writes' = writes
  BY TimeOutIs
<1>2. CASE calls' = calls /\ micro' = micro
  <2>1. Reading
    BY <1>1, <1>2 DEF Reading
  <2> QED
    BY <1>1, <1>2, <2>1, PlacesStill
<1>3. CASE ~Orphan(readers[k]) /\ Moves(c, n) /\ Fails(c, n, <<>>)
  <2>1. calls[c].phase = "reading"
    BY <1>1, <1>3 DEF Orphan
  <2>2. calls'[c] = n /\ \A d \in Call \ {c} : calls'[d] = calls[d]
    BY <1>1, <1>3, MovesOps
  <2>3. AtStep(c)' /\ n.pc \in Nat
    BY <1>3, <2>2 DEF Fails, AtStep, Calls
  <2>4. Reading \/ (micro' = <<Run(c, n.pc)>> /\ n.phase = "run")
    BY <1>3 DEF Fails, Reading
  <2> QED
    BY <1>1, <2>1, <2>2, <2>3, <2>4, PlacesQuiet
<1> QED
  BY <1>1, <1>2, <1>3 DEF Expired

LEMMA PlacesAbandon == ASSUME TypeOK, Places, Wanted, NEW c \in Call, Abandon(c) PROVE Places'
<1>1. PICK n \in Calls :
           /\ micro = <<>> /\ calls[c].phase = "reading" /\ Moves(c, n)
           /\ \/ n.phase = "ok" /\ micro' = <<>>
              \/ n.phase = "run" /\ micro' = <<Run(c, n.pc)>>
           /\ service' = service /\ open' = open /\ writes' = writes
  BY AbandonIs
<1>2. calls'[c] = n /\ \A d \in Call \ {c} : calls'[d] = calls[d]
  BY <1>1, MovesOps
<1>3. AtStep(c)' /\ n.pc \in Nat
  BY <1>1, <1>2 DEF AtStep, Calls
<1>4. Reading \/ (micro' = <<Run(c, n.pc)>> /\ n.phase = "run")
  BY <1>1 DEF Reading
<1> QED
  BY <1>1, <1>2, <1>3, <1>4, PlacesQuiet

LEMMA PlacesDrainEnds == ASSUME TypeOK, Places, NEW c \in Call, DrainEnds(c) PROVE Places'
<1>1. PICK n \in Calls :
           /\ micro = <<>> /\ micro' = micro /\ calls[c].phase = "draining" /\ Moves(c, n)
           /\ n.phase \in {"ok", "failed"}
           /\ service' = service /\ open' = open /\ writes' = writes
  BY DrainEndsIs
<1>2. calls'[c] = n /\ \A d \in Call \ {c} : calls'[d] = calls[d]
  BY <1>1, MovesOps
<1>3. AtStep(c)' /\ Reading
  BY <1>1, <1>2 DEF AtStep, Reading
<1> QED
  BY <1>1, <1>2, <1>3, PlacesQuiet

LEMMA PlacesClose == ASSUME TypeOK, Places, Wanted, Close PROVE Places'
<1>1. /\ micro' = <<>> /\ writes' = <<>> /\ service' = service
      /\ \A c \in Call : calls'[c] = calls[c] \/ Closed(c) \/ CutShort(c)
      /\ \A c \in Call : calls'[c].phase # "sent"
  BY CloseIs
<1>2. \A d \in Call : AtStep(d)'
  <2> TAKE d \in Call
  <2>1. calls[d] \in Calls
    BY DEF TypeOK
  <2>2. calls'[d].phase \in {"reading", "draining"} => calls'[d] = calls[d]
    BY <1>1, <2>1 DEF Closed, CutShort, Calls
  <2>3. calls'[d] = calls[d] => OpOf(d)' = OpOf(d)
    BY <1>1, SameOp
  <2> QED
    BY <1>1, <2>2, <2>3 DEF Places, AtStep, ReadsAt
<1> QED
  BY <1>1, <1>2 DEF Places

LEMMA PlacesInit == Init => Places
BY DEF Init, Places, AtStep, Idle

LEMMA PlacesKept == ASSUME TypeOK, Places, Wanted, [Next]_vars PROVE Places'
<1>1. CASE UNCHANGED vars
  <2>1. \A d \in Call : OpOf(d)' = OpOf(d)
    BY <1>1, SameOp DEF vars
  <2> QED
    BY <1>1, <2>1 DEF Places, AtStep, ReadsAt, vars
<1>2. CASE Micro
  BY <1>2, PlacesDoStep, PlacesSent, PlacesTryRead, PlacesGot DEF Micro
<1>3. CASE Written \/ Arrive \/ ArriveMatched \/ Push \/ Close
  BY <1>3, PlacesWritten, PlacesArrive, PlacesArriveMatched, PlacesPush, PlacesClose
<1>4. ASSUME NEW c \in Call, Abandon(c) \/ DrainEnds(c) \/ \E o \in DOMAIN service.ops : Start(c, o) PROVE Places'
  BY <1>4, PlacesDrainEnds, PlacesAbandon, PlacesStart
<1>5. ASSUME NEW k \in DOMAIN readers, TimeOut(k) PROVE Places'
  BY <1>5, PlacesTimeOut
<1> QED
  BY <1>1, <1>2, <1>3, <1>4, <1>5 DEF Next

------------------------------------------------------------------------------
\* What is said of a call and its file.
FileOf(c) ==
  /\ calls[c].held /\ Active(c) =>
       /\ OpOf(c).opens # 0 /\ OpOf(c).opens < calls[c].pc
       /\ calls[c].pc <= OpOf(c).finally
       /\ calls[c].pc = OpOf(c).finally => calls[c].phase = "run"
  /\ calls[c].phase \in {"ok", "failed"} /\ open => ~calls[c].held

LEMMA FileParts == (Holds /\ FilesClosed) <=> \A c \in Call : FileOf(c)
BY DEF Holds, FilesClosed, FileOf

LEMMA FilesStep ==
  ASSUME Holds, FilesClosed, service' = service, open' = open, NEW c \in Call,
         \A d \in Call \ {c} : calls'[d] = calls[d], FileOf(c)'
  PROVE  Holds' /\ FilesClosed'
<1>1. \A d \in Call : FileOf(d)'
  <2> TAKE d \in Call
  <2>1. CASE d # c
    <3>1. OpOf(d)' = OpOf(d) /\ calls'[d] = calls[d]
      BY <2>1, SameOp
    <3> QED
      BY <3>1, FileParts DEF FileOf, Active
  <2> QED
    BY <2>1
<1> QED
  BY <1>1 DEF Holds, FilesClosed, FileOf

\* What is known of the operation of a call that was made.
LEMMA RangeIs ==
  ASSUME TypeOK, NEW c \in Call, calls[c].phase # "idle"
  PROVE  /\ OpOf(c).opens \in Nat /\ OpOf(c).finally \in Nat /\ OpOf(c).loop \in Nat /\ OpOf(c).first \in Nat
         /\ Len(OpOf(c).steps) \in Nat /\ OpOf(c).finally <= Len(OpOf(c).steps)
         /\ calls[c].pc \in Nat /\ calls[c].pc >= 1 /\ calls[c].pc <= Len(OpOf(c).steps)
         /\ OpOf(c).opens # 0 => /\ OpOf(c).opens < OpOf(c).finally
                                 /\ OpOf(c).steps[OpOf(c).finally].do = "write"
                                 /\ OpOf(c).loop = 0
<1>1. /\ OpOf(c) \in Ops /\ InRange(OpOf(c)) /\ Len(OpOf(c).steps) \in Nat
      /\ calls[c].pc \in 1..Len(OpOf(c).steps)
  BY OpIs
<1>2. OpOf(c).opens \in Nat /\ OpOf(c).finally \in Nat /\ OpOf(c).loop \in Nat /\ OpOf(c).first \in Nat
  BY <1>1 DEF Ops
<1> QED
  BY <1>1, <1>2 DEF InRange

LEMMA FilesGoes ==
  ASSUME TypeOK, Holds, FilesClosed, service' = service, open' = open, NEW c \in Call,
         calls[c].phase \in {"sent", "reading"}, NEW n \in Calls, Moves(c, n), NEW rest, Goes(c, n, rest),
         n.held = (calls[c].held \/ calls[c].pc = OpOf(c).opens)
  PROVE  Holds' /\ FilesClosed'
<1>1. SameOps /\ calls'[c] = n /\ \A d \in Call \ {c} : calls'[d] = calls[d]
  BY MovesOps
<1>2. calls[c].held => /\ OpOf(c).opens # 0 /\ OpOf(c).opens < calls[c].pc
                       /\ calls[c].pc <= OpOf(c).finally /\ calls[c].pc # OpOf(c).finally
  BY DEF Holds, Active
<1>3. n.held => /\ OpOf(c).opens # 0 /\ OpOf(c).opens <= calls[c].pc /\ calls[c].pc < OpOf(c).finally
  <2>0. calls[c].phase # "idle"
    OBVIOUS
  <2>1. CASE calls[c].held
    BY <1>2, <2>0, <2>1, RangeIs
  <2>2. CASE calls[c].pc = OpOf(c).opens
    BY <2>0, <2>2, RangeIs
  <2> QED
    BY <2>1, <2>2
<1>4. n.held => n.pc = calls[c].pc + 1 /\ n.phase = "run"
  BY <1>3, RangeIs DEF Goes, NextPc
<1>5. FileOf(c)'
  BY <1>1, <1>3, <1>4, RangeIs DEF FileOf, SameOps
<1> QED
  BY <1>1, <1>5, FilesStep

LEMMA FilesFails ==
  ASSUME TypeOK, Holds, FilesClosed, service' = service, open' = open, NEW c \in Call,
         calls[c].phase = "reading" \/ (calls[c].phase = "run" /\ ~open),
         NEW n \in Calls, Moves(c, n), NEW rest, Fails(c, n, rest), n.held = calls[c].held
  PROVE  Holds' /\ FilesClosed'
<1>1. SameOps /\ calls'[c] = n /\ \A d \in Call \ {c} : calls'[d] = calls[d]
  BY MovesOps
<1>2. calls[c].held => /\ OpOf(c).opens # 0 /\ OpOf(c).opens < calls[c].pc
                       /\ calls[c].pc <= OpOf(c).finally
                       /\ open => calls[c].pc # OpOf(c).finally
  BY DEF Holds, Active
<1>3. calls[c].held /\ open => n.phase = "run"
  BY <1>2, RangeIs DEF Fails
<1>4. (n.phase = "run" /\ n.pc = OpOf(c).finally) \/ n.phase = "failed"
  BY DEF Fails
<1>5. FileOf(c)'
  BY <1>1, <1>2, <1>3, <1>4, RangeIs DEF FileOf, SameOps, Active
<1> QED
  BY <1>1, <1>5, FilesStep

LEMMA FilesDoStep == ASSUME TypeOK, Places, Wanted, Holds, FilesClosed, DoStep PROVE Holds' /\ FilesClosed'
<1>1. PICK c \in Call, n \in Calls :
           /\ calls[c].phase = "run" /\ Moves(c, n)
           /\ Wrote(c, n) \/ Refused(c, n) \/ Asked(c, n) \/ Drains(c, n)
           /\ service' = service /\ open' = open
  BY DoStepIs
<1>2. SameOps /\ calls'[c] = n /\ \A d \in Call \ {c} : calls'[d] = calls[d]
  BY <1>1, MovesOps
<1>3. calls[c].held => /\ OpOf(c).opens # 0 /\ OpOf(c).opens < calls[c].pc
                       /\ calls[c].pc <= OpOf(c).finally
  BY <1>1 DEF Holds, Active
<1>4. CASE Wrote(c, n)
  <2>1. FileOf(c)'
    BY <1>1, <1>2, <1>3, <1>4 DEF Wrote, FileOf, SameOps
  <2> QED
    BY <1>1, <1>2, <2>1, FilesStep
<1>5. CASE Refused(c, n)
  BY <1>1, <1>5, FilesFails DEF Refused
<1>6. CASE Asked(c, n) \/ Drains(c, n)
  <2>1. n.held = calls[c].held /\ n.pc = calls[c].pc /\ n.phase \in {"reading", "draining"}
    BY <1>6 DEF Asked, Drains
  <2>2. OpOf(c).steps[calls[c].pc].do # "write"
    BY <1>6 DEF Asked, Drains, ReadsAt, StepOf
  <2>3. calls[c].held => calls[c].pc # OpOf(c).finally
    BY <1>1, <1>3, <2>2, RangeIs
  <2>4. FileOf(c)'
    BY <1>1, <1>2, <1>3, <2>1, <2>3 DEF FileOf, SameOps
  <2> QED
    BY <1>1, <1>2, <2>4, FilesStep
<1> QED
  BY <1>1, <1>4, <1>5, <1>6

LEMMA FilesSent == ASSUME TypeOK, Places, Wanted, Holds, FilesClosed, Sent PROVE Holds' /\ FilesClosed'
<1>1. PICK c \in Call, n \in Calls :
           /\ calls[c].phase = "sent" /\ Moves(c, n) /\ Goes(c, n, Tail(micro))
           /\ n.held = (calls[c].held \/ calls[c].pc = OpOf(c).opens)
           /\ service' = service /\ open' = open
  BY SentIs
<1> QED
  BY <1>1, FilesGoes

\* The calls are as they were.
LEMMA FilesStill ==
  ASSUME Holds, FilesClosed, calls' = calls, service' = service, open' = open
  PROVE  Holds' /\ FilesClosed'
<1>1. \A d \in Call : OpOf(d)' = OpOf(d)
  BY SameOp
<1> QED
  BY <1>1 DEF Holds, FilesClosed, Active

LEMMA FilesGot == ASSUME TypeOK, Places, Wanted, Holds, FilesClosed, Got PROVE Holds' /\ FilesClosed'
<1>1. PICK c \in Call :
           /\ \/ Headed(c) \/ Strayed(c) \/ Repeated(c)
              \/ \E n \in Calls : Accepted(c, n) \/ Threw(c, n)
           /\ service' = service /\ open' = open
  BY GotIs
<1>2. CASE Headed(c) \/ Strayed(c) \/ Repeated(c)
  BY <1>1, <1>2, FilesStill DEF Headed, Strayed, Repeated
<1>3. ASSUME NEW n \in Calls, Accepted(c, n) PROVE Holds' /\ FilesClosed'
  <2>1. /\ calls[c].phase = "reading" /\ Moves(c, n) /\ Goes(c, n, Tail(micro))
        /\ n.held = (calls[c].held \/ calls[c].pc = OpOf(c).opens)
    BY <1>3 DEF Accepted, Awaits
  <2> QED
    BY <1>1, <2>1, FilesGoes
<1>4. ASSUME NEW n \in Calls, Threw(c, n) PROVE Holds' /\ FilesClosed'
  <2>1. calls[c].phase = "reading" /\ Moves(c, n) /\ Fails(c, n, Tail(micro)) /\ n.held = calls[c].held
    BY <1>4 DEF Threw, Awaits
  <2> QED
    BY <1>1, <2>1, FilesFails
<1> QED
  BY <1>1, <1>2, <1>3, <1>4

LEMMA FilesTimeOut ==
  ASSUME TypeOK, Places, Wanted, Holds, FilesClosed, NEW k \in DOMAIN readers, TimeOut(k)
  PROVE  Holds' /\ FilesClosed'
<1>1. PICK c \in Call, n \in Calls :
           /\ c = readers[k].who /\ calls[c].phase # "idle" /\ Expired(k, c, n)
           /\ service' = service /\ open' = open
  BY TimeOutIs
<1>2. CASE calls' = calls
  BY <1>1, <1>2, FilesStill
<1>3. CASE ~Orphan(readers[k]) /\ Moves(c, n) /\ Fails(c, n, <<>>) /\ n.held = calls[c].held
  <2>1. calls[c].phase = "reading"
    BY <1>1, <1>3 DEF Orphan
  <2> QED
    BY <1>1, <1>3, <2>1, FilesFails
<1> QED
  BY <1>1, <1>2, <1>3 DEF Expired

LEMMA FilesAbandon ==
  ASSUME TypeOK, Places, Wanted, Holds, FilesClosed, NEW c \in Call, Abandon(c)
  PROVE  Holds' /\ FilesClosed'
<1>1. PICK n \in Calls :
           /\ calls[c].phase = "reading" /\ Moves(c, n) /\ n.held = calls[c].held
           /\ \/ calls[c].pc = Len(OpOf(c).steps) /\ n.pc = calls[c].pc /\ n.phase = "ok"
              \/ n.pc = calls[c].pc + 1 /\ n.phase = "run"
           /\ service' = service /\ open' = open
  BY AbandonIs
<1>2. SameOps /\ calls'[c] = n /\ \A d \in Call \ {c} : calls'[d] = calls[d]
  BY <1>1, MovesOps
<1>3. calls[c].held => /\ OpOf(c).opens # 0 /\ OpOf(c).opens < calls[c].pc
                       /\ calls[c].pc <= OpOf(c).finally /\ calls[c].pc # OpOf(c).finally
  BY <1>1 DEF Holds, Active
<1>4. FileOf(c)'
  BY <1>1, <1>2, <1>3, RangeIs DEF FileOf, SameOps, Active
<1> QED
  BY <1>1, <1>2, <1>4, FilesStep

LEMMA FilesDrainEnds ==
  ASSUME TypeOK, Places, Holds, FilesClosed, NEW c \in Call, DrainEnds(c)
  PROVE  Holds' /\ FilesClosed'
<1>1. PICK n \in Calls :
           /\ calls[c].phase = "draining" /\ Moves(c, n) /\ n.held = calls[c].held
           /\ n.phase \in {"ok", "failed"} /\ service' = service /\ open' = open
  BY DrainEndsIs
<1>2. calls'[c] = n /\ \A d \in Call \ {c} : calls'[d] = calls[d]
  BY <1>1, MovesOps
<1>3. OpOf(c).opens = 0
  <2>1. OpOf(c).steps[calls[c].pc].do = "drain" /\ InRange(OpOf(c)) /\ calls[c].pc \in DOMAIN OpOf(c).steps
    BY <1>1, OpIs DEF Places, AtStep
  <2> QED
    BY <2>1 DEF InRange
<1>4. ~calls[c].held
  BY <1>1, <1>3 DEF Holds, Active
<1>5. FileOf(c)'
  BY <1>1, <1>2, <1>4 DEF FileOf
<1> QED
  BY <1>1, <1>2, <1>5, FilesStep

LEMMA FilesClose ==
  ASSUME TypeOK, Places, Wanted, Holds, FilesClosed, Close
  PROVE  Holds' /\ FilesClosed'
<1>1. /\ service' = service /\ open' = FALSE
      /\ \A c \in Call : calls'[c] = calls[c] \/ Closed(c) \/ CutShort(c)
  BY CloseIs
<1>2. \A d \in Call : FileOf(d)'
  <2> TAKE d \in Call
  <2>1. calls[d] \in Calls
    BY DEF TypeOK
  <2>2. calls'[d] = calls[d] \/ calls'[d].phase \in {"ok", "failed"}
    BY <1>1, <2>1 DEF Closed, CutShort, Calls
  <2>3. calls'[d] = calls[d] => OpOf(d)' = OpOf(d)
    BY <1>1, SameOp
  <2> QED
    BY <1>1, <2>2, <2>3 DEF Holds, FileOf, Active
<1> QED
  BY <1>2 DEF Holds, FilesClosed, FileOf

LEMMA FilesStart ==
  ASSUME TypeOK, Holds, FilesClosed, NEW c \in Call, NEW o \in DOMAIN service.ops, Start(c, o)
  PROVE  Holds' /\ FilesClosed'
<1> DEFINE pc == IF greeted THEN service.ops[o].first + 1 ELSE 1
<1>1. calls[c] = Idle /\ service' = service /\ open' = open
      /\ calls' = [calls EXCEPT ![c] = [@ EXCEPT !.op = o, !.pc = pc, !.phase = "run"]]
  BY DEF Start, TypeOK
<1>2. ~calls'[c].held /\ \A d \in Call \ {c} : calls'[d] = calls[d]
  BY <1>1 DEF TypeOK, Idle
<1>3. FileOf(c)'
  BY <1>2 DEF FileOf
<1> QED
  BY <1>1, <1>2, <1>3, FilesStep

LEMMA FilesInit == Init => Holds /\ FilesClosed
BY DEF Init, Holds, FilesClosed, Active, Idle

LEMMA FilesKept ==
  ASSUME TypeOK, Places, Wanted, Holds, FilesClosed, [Next]_vars
  PROVE  Holds' /\ FilesClosed'
<1>1. CASE UNCHANGED vars \/ TryRead \/ Written \/ Arrive \/ ArriveMatched \/ Push
  <2>1. calls' = calls /\ service' = service /\ open' = open
    BY <1>1 DEF vars, TryRead, Written, Arrive, ArriveMatched, Push
  <2> QED
    BY <2>1, FilesStill
<1>2. CASE DoStep \/ Sent \/ Got \/ Close
  BY <1>2, FilesDoStep, FilesSent, FilesGot, FilesClose
<1>3. ASSUME NEW c \in Call, Abandon(c) \/ DrainEnds(c) \/ \E o \in DOMAIN service.ops : Start(c, o)
      PROVE  Holds' /\ FilesClosed'
  BY <1>3, FilesDrainEnds, FilesAbandon, FilesStart
<1>4. ASSUME NEW k \in DOMAIN readers, TimeOut(k) PROVE Holds' /\ FilesClosed'
  BY <1>4, FilesTimeOut
<1> QED
  BY <1>1, <1>2, <1>3, <1>4 DEF Next, Micro

------------------------------------------------------------------------------
\* A read that wants what its step reads, and the continuation of one.
GoodRead(r) ==
  \/ r.want = Wants(OpOf(r.who).steps[r.at])
  \/ r.want = "body" /\ service.framing = "bytes"
GoodGot(j) ==
  /\ j.at \in DOMAIN OpOf(j.who).steps
  /\ j.unit.part \in {"head", "body", "raw", "frame", "reply"}
  /\ j.unit.part \in {"head", "body"} => service.framing = "bytes"
  /\ j.unit.part \in {"raw", "frame"} => j.unit.part = Wants(OpOf(j.who).steps[j.at])
  /\ j.unit.part = "reply" => j.unit.frame.for = j.who

LEMMA WantedParts ==
  Wanted <=> /\ \A k \in DOMAIN readers : GoodRead(readers[k])
             /\ \A i \in DOMAIN micro : micro[i].what = "got" => GoodGot(micro[i])
             /\ \A k \in DOMAIN inbox : ~IsReply(inbox[k])
BY DEF Wanted, GoodRead, GoodGot

\* One read is added, or one is taken away.
ReadsChange(r) ==
  \/ readers' = readers
  \/ \E k \in DOMAIN readers : readers' = RemoveAt(readers, k)
  \/ readers' = Append(readers, r)
  \/ readers' = <<>>

LEMMA ReadsChangeIs ==
  ASSUME TypeOK, NEW r \in Reads, ReadsChange(r)
  PROVE  /\ readers' \in Seq(Reads)
         /\ \A k \in DOMAIN readers' :
              \/ readers' = Append(readers, r) /\ readers'[k] = r
              \/ \E l \in DOMAIN readers : readers'[k] = readers[l]
<1>1. readers \in Seq(Reads) /\ Len(readers) \in Nat /\ DOMAIN readers = 1..Len(readers)
  BY DEF TypeOK
<1>2. ASSUME NEW k \in DOMAIN readers, readers' = RemoveAt(readers, k)
      PROVE  /\ readers' \in Seq(Reads)
             /\ \A i \in DOMAIN readers' : \E l \in DOMAIN readers : readers'[i] = readers[l]
  <2>1. /\ readers' \in Seq(Reads) /\ Len(readers') = Len(readers) - 1
        /\ \A i \in 1..(Len(readers) - 1) : readers'[i] = IF i < k THEN readers[i] ELSE readers[i + 1]
    BY <1>1, <1>2, RemoveAtIs
  <2>2. DOMAIN readers' = 1..(Len(readers) - 1)
    BY <2>1
  <2>3. ASSUME NEW i \in DOMAIN readers' PROVE \E l \in DOMAIN readers : readers'[i] = readers[l]
    <3>1. i \in 1..Len(readers) /\ i + 1 \in 1..Len(readers)
      BY <1>1, <2>2
    <3> QED
      BY <1>1, <2>1, <2>2, <3>1
  <2> QED
    BY <2>1, <2>3
<1>3. ASSUME readers' = Append(readers, r)
      PROVE  /\ readers' \in Seq(Reads)
             /\ \A i \in DOMAIN readers' : readers'[i] = r \/ \E l \in DOMAIN readers : readers'[i] = readers[l]
  <2>1. /\ readers' \in Seq(Reads) /\ Len(readers') = Len(readers) + 1
        /\ \A i \in 1..Len(readers) : readers'[i] = readers[i]
        /\ readers'[Len(readers) + 1] = r
    BY <1>1, <1>3, AppendIs
  <2>2. DOMAIN readers' = 1..(Len(readers) + 1)
    BY <2>1
  <2>3. ASSUME NEW i \in DOMAIN readers'
        PROVE  readers'[i] = r \/ \E l \in DOMAIN readers : readers'[i] = readers[l]
    <3>1. i \in 1..Len(readers) \/ i = Len(readers) + 1
      BY <1>1, <2>2
    <3> QED
      BY <1>1, <2>1, <3>1
  <2> QED
    BY <2>1, <2>3
<1>4. CASE readers' = readers
  BY <1>1, <1>4
<1>5. CASE readers' = <<>>
  BY <1>5
<1> QED
  BY <1>2, <1>3, <1>4, <1>5 DEF ReadsChange

\* The operations of the calls that have reads or continuations are the same.
LEMMA WantedSame ==
  ASSUME service' = service,
         \A k \in DOMAIN readers' : GoodRead(readers'[k]) /\ NewOp(readers'[k].who) = OpOf(readers'[k].who),
         \A i \in DOMAIN micro' : micro'[i].what = "got" =>
           GoodGot(micro'[i]) /\ NewOp(micro'[i].who) = OpOf(micro'[i].who),
         \A k \in DOMAIN inbox' : ~IsReply(inbox'[k])
  PROVE  Wanted'
<1>1. \A k \in DOMAIN readers' :
        \/ readers'[k].want = Wants(NewOp(readers'[k].who).steps[readers'[k].at])
        \/ readers'[k].want = "body" /\ service.framing = "bytes"
  BY DEF GoodRead
<1>2. \A i \in DOMAIN micro' : micro'[i].what = "got" =>
         /\ micro'[i].at \in DOMAIN NewOp(micro'[i].who).steps
         /\ micro'[i].unit.part \in {"head", "body", "raw", "frame", "reply"}
         /\ micro'[i].unit.part \in {"head", "body"} => service.framing = "bytes"
         /\ micro'[i].unit.part \in {"raw", "frame"} =>
              micro'[i].unit.part = Wants(NewOp(micro'[i].who).steps[micro'[i].at])
         /\ micro'[i].unit.part = "reply" => micro'[i].unit.frame.for = micro'[i].who
  BY DEF GoodGot
<1>3. (\A k \in DOMAIN readers : readers[k].want = Wants(OpOf(readers[k].who).steps[readers[k].at])
                                   \/ (readers[k].want = "body" /\ service.framing = "bytes"))'
  BY <1>1 DEF NewOp, OpOf, Wants, WantsReply
<1>4. (\A i \in DOMAIN micro : micro[i].what = "got" => GoodGot(micro[i]))'
  BY <1>2 DEF NewOp, OpOf, Wants, WantsReply, GoodGot
<1>5. (\A k \in DOMAIN inbox : ~IsReply(inbox[k]))'
  BY DEF IsReply
<1> QED
  BY <1>3, <1>4, <1>5 DEF Wanted, GoodGot

\* What is of jobs and reads, of a call.
LEMMA WhoIs ==
  ASSUME TypeOK
  PROVE  /\ \A k \in DOMAIN readers : readers[k] \in Reads /\ readers[k].who \in Call
         /\ \A i \in DOMAIN micro : micro[i] \in Jobs /\ micro[i].who \in Call
<1>1. \A k \in DOMAIN readers : readers[k] \in Reads
  BY ElementOfSeq DEF TypeOK
<1>2. \A i \in DOMAIN micro : micro[i] \in Jobs
  BY ElementOfSeq DEF TypeOK
<1> QED
  BY <1>1, <1>2 DEF Reads, Jobs

LEMMA WantedStep ==
  ASSUME TypeOK, Wanted, SameOps, NEW r \in Reads, ReadsChange(r), readers' = Append(readers, r) => GoodRead(r),
         \A i \in DOMAIN micro' : micro'[i].what = "got" =>
            (micro'[i].who \in Call /\ GoodGot(micro'[i])) \/ \E l \in DOMAIN micro : micro'[i] = micro[l],
         \A k \in DOMAIN inbox' : ~IsReply(inbox'[k])
  PROVE  Wanted'
<1>1. \A d \in Call : NewOp(d) = OpOf(d)
  BY DEF NewOp, OpOf, SameOps
<1>2. \A k \in DOMAIN readers' : GoodRead(readers'[k]) /\ readers'[k].who \in Call
  <2> TAKE k \in DOMAIN readers'
  <2>1. CASE readers' = Append(readers, r) /\ readers'[k] = r
    BY <2>1 DEF Reads
  <2>2. ASSUME NEW l \in DOMAIN readers, readers'[k] = readers[l] PROVE GoodRead(readers'[k]) /\ readers'[k].who \in Call
    BY <2>2, WhoIs, WantedParts
  <2> QED
    BY <2>1, <2>2, ReadsChangeIs
<1>3. \A i \in DOMAIN micro' : micro'[i].what = "got" => GoodGot(micro'[i]) /\ micro'[i].who \in Call
  BY WhoIs, WantedParts
<1> QED
  BY <1>1, <1>2, <1>3, WantedSame DEF SameOps

\* A job has run.
LEMMA WantedJob ==
  ASSUME TypeOK, Wanted, SameOps, micro # <<>>, NEW r \in Reads, ReadsChange(r),
         readers' = Append(readers, r) => GoodRead(r),
         NEW e \in Jobs, Follows(e), e.what # "got", inbox' = inbox
  PROVE  Wanted'
<1>1. \A i \in DOMAIN micro' : micro'[i] = e \/ \E l \in DOMAIN micro : micro'[i] = micro[l]
  BY FollowsIs
<1>2. \A k \in DOMAIN inbox' : ~IsReply(inbox'[k])
  BY WantedParts
<1> QED
  BY <1>1, <1>2, WantedStep

\* The read of an action that adds none.
NoRead(c) == Reader(c, 1, "head")

LEMMA NoReadIs == ASSUME NEW c \in Call, TypeOK PROVE NoRead(c) \in Reads
BY JobIs DEF NoRead

LEMMA WantedGoes ==
  ASSUME TypeOK, Wanted, micro # <<>>, NEW c \in Call, calls[c].phase # "idle", NEW n \in Calls, Moves(c, n),
         Goes(c, n, Tail(micro)) \/ Fails(c, n, Tail(micro)),
         service' = service, readers' = readers, inbox' = inbox
  PROVE  Wanted'
<1>1. SameOps
  BY MovesOps
<1>2. NoRead(c) \in Reads /\ ReadsChange(NoRead(c))
  BY NoReadIs DEF ReadsChange
<1>3. readers' # Append(readers, NoRead(c))
  <2>1. readers \in Seq(Reads)
    BY DEF TypeOK
  <2>2. Len(Append(readers, NoRead(c))) = Len(readers) + 1 /\ Len(readers) \in Nat
    BY <1>2, <2>1, AppendIs
  <2> QED
    BY <2>2
<1>4. CASE micro' = Tail(micro)
  <2>1. Follows(NoJob(c)) /\ NoJob(c) \in Jobs /\ NoJob(c).what # "got"
    BY <1>4, NoJobIs DEF Follows
  <2> QED
    BY <1>1, <1>2, <1>3, <2>1, WantedJob
<1>5. CASE micro' = Append(Tail(micro), Run(c, n.pc))
  <2>1. n.pc \in Nat
    BY DEF Calls
  <2>2. Follows(Run(c, n.pc)) /\ Run(c, n.pc) \in Jobs /\ Run(c, n.pc).what # "got"
    BY <1>5, <2>1, JobIs, RunIs DEF Follows
  <2> QED
    BY <1>1, <1>2, <1>3, <2>2, WantedJob
<1> QED
  BY <1>4, <1>5 DEF Goes, Fails

\* Nothing is added that is read or goes on from a read.
LEMMA WantedStill ==
  ASSUME TypeOK, Wanted, SameOps, readers' = readers,
         \A i \in DOMAIN micro' : micro'[i].what # "got",
         \A k \in DOMAIN inbox' : ~IsReply(inbox'[k])
  PROVE  Wanted'
<1>1. \A d \in Call : NewOp(d) = OpOf(d)
  BY DEF NewOp, OpOf, SameOps
<1>2. \A k \in DOMAIN readers' : GoodRead(readers'[k]) /\ readers'[k].who \in Call
  BY WhoIs, WantedParts
<1> QED
  BY <1>1, <1>2, WantedSame DEF SameOps

\* A step asks for what it reads.
LEMMA AskIs ==
  ASSUME TypeOK, NEW c \in Call
  PROVE  LET r == Reader(c, calls[c].pc, Wants(StepOf(c))) IN
         /\ r \in Reads /\ GoodRead(r) /\ Try(r) \in Jobs /\ Try(r).what = "try" /\ Try(r).who = c
<1> DEFINE r == Reader(c, calls[c].pc, Wants(StepOf(c)))
<1>1. calls[c].pc \in Nat
  BY DEF TypeOK, Calls
<1>2. Wants(StepOf(c)) \in {"head", "body", "raw", "frame", "reply"}
  BY WantsIs
<1>3. r \in Reads
  BY <1>1, <1>2, JobIs
<1>4. Try(r) \in Jobs /\ Try(r).what = "try" /\ Try(r).who = c
  BY <1>1, <1>3, JobIs, TryIs DEF Reader
<1>5. GoodRead(r)
  BY DEF GoodRead, Reader, StepOf
<1> QED
  BY <1>3, <1>4, <1>5

LEMMA WantedDoStep == ASSUME TypeOK, Places, Wanted, DoStep PROVE Wanted'
<1>1. PICK c \in Call, n \in Calls :
           /\ micro # <<>> /\ calls[c].phase = "run" /\ Moves(c, n)
           /\ Wrote(c, n) \/ Refused(c, n) \/ Asked(c, n) \/ Drains(c, n)
           /\ service' = service /\ inbox' = inbox
  BY DoStepIs DEF stream
<1>2. SameOps
  BY <1>1, MovesOps
<1> DEFINE r == Reader(c, calls[c].pc, Wants(StepOf(c)))
<1>3. r \in Reads /\ GoodRead(r) /\ Try(r) \in Jobs /\ Try(r).what = "try" /\ NoJob(c) \in Jobs /\ NoJob(c).what = "try"
  BY AskIs, NoJobIs
<1>4. CASE Wrote(c, n) \/ Drains(c, n)
  <2>1. ReadsChange(r) /\ Follows(NoJob(c))
    BY <1>4 DEF Wrote, Drains, ReadsChange, Follows
  <2> HIDE DEF r
  <2> QED
    BY <1>1, <1>2, <1>3, <2>1, WantedJob
<1>5. CASE Refused(c, n)
  <2>1. Fails(c, n, Tail(micro)) /\ readers' = readers
    BY <1>5 DEF Refused
  <2> HIDE DEF r
  <2> QED
    BY <1>1, <2>1, WantedGoes
<1>6. CASE Asked(c, n)
  <2>1. ReadsChange(r) /\ Follows(Try(r))
    BY <1>6 DEF Asked, ReadsChange, Follows, Register
  <2> HIDE DEF r
  <2> QED
    BY <1>1, <1>2, <1>3, <2>1, WantedJob
<1> QED
  BY <1>1, <1>4, <1>5, <1>6

LEMMA WantedSent == ASSUME TypeOK, Places, Wanted, Sent PROVE Wanted'
<1>1. PICK c \in Call, n \in Calls :
           /\ micro # <<>> /\ calls[c].phase = "sent" /\ Moves(c, n) /\ Goes(c, n, Tail(micro))
           /\ service' = service /\ inbox' = inbox /\ readers' = readers
  BY SentIs DEF stream
<1> QED
  BY <1>1, WantedGoes

LEMMA WantedGot == ASSUME TypeOK, Places, Wanted, Got PROVE Wanted'
<1>1. PICK c \in Call :
           /\ micro # <<>> /\ c = Head(micro).who /\ Head(micro).what = "got" /\ calls[c].phase # "idle"
           /\ \/ Headed(c) \/ Strayed(c) \/ Repeated(c)
              \/ \E n \in Calls : Accepted(c, n) \/ Threw(c, n)
           /\ service' = service /\ inbox' = inbox
  BY GotIs DEF stream
<1>2. Head(micro).at \in Nat /\ Head(micro) = micro[1] /\ 1 \in DOMAIN micro
  <2>1. micro \in Seq(Jobs)
    BY DEF TypeOK
  <2> QED
    BY <1>1, <2>1, FrontIs, TailIs
<1>3. CASE Headed(c)
  <2> DEFINE r == Reader(c, Head(micro).at, "body")
  <2>1. r \in Reads
    BY <1>2, JobIs
  <2>2. Try(r) \in Jobs /\ Try(r).what = "try"
    BY <2>1, JobIs, TryIs
  <2>3. Follows(Try(r)) /\ calls' = calls /\ ReadsChange(r)
    BY <1>3 DEF Follows, Headed, Register, ReadsChange
  <2>4. service.framing = "bytes"
    BY <1>1, <1>2, <1>3 DEF Wanted, Headed
  <2>5. GoodRead(r)
    BY <2>4 DEF GoodRead, Reader
  <2>6. SameOps
    BY <1>1, <2>3, SameOp DEF SameOps
  <2> HIDE DEF r
  <2> QED
    BY <1>1, <2>1, <2>2, <2>3, <2>5, <2>6, WantedJob
<1>4. CASE Strayed(c)
  <2>1. Follows(NoJob(c)) /\ calls' = calls /\ readers' = readers
    BY <1>4 DEF Follows, Strayed
  <2>2. SameOps
    BY <1>1, <2>1, SameOp DEF SameOps
  <2>3. NoJob(c) \in Jobs /\ NoJob(c).what # "got"
    BY NoJobIs
  <2> DEFINE r == Reader(c, calls[c].pc, Wants(StepOf(c)))
  <2>4. ReadsChange(r) /\ r \in Reads /\ GoodRead(r)
    BY <2>1, AskIs DEF ReadsChange
  <2> HIDE DEF r
  <2> QED
    BY <1>1, <2>1, <2>2, <2>3, <2>4, WantedJob
<1>5. CASE Repeated(c)
  <2> DEFINE r == Reader(c, calls[c].pc, Wants(StepOf(c)))
  <2>1. Follows(Try(r)) /\ calls' = calls /\ ReadsChange(r)
    BY <1>5 DEF Follows, Repeated, Register, ReadsChange
  <2>2. r \in Reads /\ GoodRead(r) /\ Try(r) \in Jobs /\ Try(r).what = "try"
    BY AskIs
  <2>3. SameOps
    BY <1>1, <2>1, SameOp DEF SameOps
  <2> HIDE DEF r
  <2> QED
    BY <1>1, <2>1, <2>2, <2>3, WantedJob
<1>6. ASSUME NEW n \in Calls, Accepted(c, n) \/ Threw(c, n) PROVE Wanted'
  <2>1. Moves(c, n) /\ (Goes(c, n, Tail(micro)) \/ Fails(c, n, Tail(micro))) /\ readers' = readers
    BY <1>6 DEF Accepted, Threw
  <2> QED
    BY <1>1, <2>1, WantedGoes
<1> QED
  BY <1>1, <1>3, <1>4, <1>5, <1>6

LEMMA WantedTryRead == ASSUME TypeOK, Places, Wanted, TryRead PROVE Wanted'
<1>1. /\ micro # <<>> /\ Head(micro).who \in Call /\ calls' = calls /\ service' = service
  BY TryReadIs, FrontIs
<1> DEFINE c == Head(micro).who
<1>2. SameOps
  BY <1>1, SameOp DEF SameOps
<1>3. NoJob(c) \in Jobs /\ NoJob(c).what # "got" /\ NoJob(c).who = c
  BY <1>1, NoJobIs
<1>4. micro' = Tail(micro) => \A i \in DOMAIN micro' : \E l \in DOMAIN micro : micro'[i] = micro[l]
  <2>1. micro \in Seq(Jobs)
    BY DEF TypeOK
  <2>2. /\ Len(micro) \in Nat /\ Tail(micro) \in Seq(Jobs) /\ Len(Tail(micro)) = Len(micro) - 1
        /\ \A i \in 1..(Len(micro) - 1) : Tail(micro)[i] = micro[i + 1]
    BY <1>1, <2>1, TailIs
  <2>3. DOMAIN Tail(micro) = 1..(Len(micro) - 1) /\ DOMAIN micro = 1..Len(micro)
    BY <2>1, <2>2
  <2>4. ASSUME NEW i \in DOMAIN Tail(micro) PROVE \E l \in DOMAIN micro : Tail(micro)[i] = micro[l]
    <3>1. i + 1 \in DOMAIN micro
      BY <2>2, <2>3
    <3> QED
      BY <2>2, <2>3, <3>1
  <2> QED
    BY <2>4
<1>5. CASE micro' = Tail(micro) /\ readers' = readers /\ (inbox' = inbox \/ inbox' = <<>>)
  <2>1. \A k \in DOMAIN inbox' : ~IsReply(inbox'[k])
    BY <1>5, WantedParts
  <2>2. ReadsChange(NoRead(c)) /\ NoRead(c) \in Reads
    BY <1>1, <1>5, NoReadIs DEF ReadsChange
  <2>3. readers' # Append(readers, NoRead(c))
    <3>1. readers \in Seq(Reads)
      BY DEF TypeOK
    <3>2. Len(Append(readers, NoRead(c))) = Len(readers) + 1 /\ Len(readers) \in Nat
      BY <2>2, <3>1, AppendIs
    <3> QED
      BY <1>5, <3>2
  <2> QED
    BY <1>2, <1>4, <1>5, <2>1, <2>2, <2>3, WantedStep
<1>6. ASSUME NEW k \in DOMAIN readers, readers[k].who = c, readers[k].want # "reply", Found(k) PROVE Wanted'
  <2> DEFINE u == [part |-> NextPart, frame |-> Head(inbox)]
             e == Job("got", c, readers[k].at, u)
  <2>1. inbox # <<>> /\ NextPart \in {"head", "body", "raw", "frame"} /\ NextPart = readers[k].want
        /\ (NextPart = "head" => service.framing = "bytes")
    BY <1>6 DEF Found, Dry, NextPart, HasHead
  <2>2. Head(inbox) \in Frames /\ readers[k].at \in Nat /\ readers[k].at \in DOMAIN OpOf(c).steps
        /\ Head(inbox) = inbox[1] /\ Tail(inbox) \in Seq(Frames)
    BY <1>6, <2>1, FrontIs
  <2>3. u \in Units /\ u.part = NextPart
    BY <2>1, <2>2 DEF Units
  <2>4. GoodRead(readers[k]) /\ Wants(OpOf(c).steps[readers[k].at]) # "body"
    BY WantedParts, WantsIs
  <2>5. e \in Jobs /\ e.who = c /\ e.what = "got" /\ e.at = readers[k].at /\ e.unit = u
    BY <1>1, <2>2, <2>3, JobIs DEF Job
  <2>6. GoodGot(e)
    <3>1. u.part = "body" => service.framing = "bytes"
      BY <1>6, <2>1, <2>3, <2>4 DEF GoodRead
    <3>2. u.part \in {"raw", "frame"} => u.part = Wants(OpOf(c).steps[readers[k].at])
      BY <1>6, <2>1, <2>3, <2>4 DEF GoodRead
    <3> HIDE DEF u, e
    <3> QED
      BY <2>1, <2>2, <2>3, <2>5, <3>1, <3>2 DEF GoodGot
  <2>7. Follows(e)
    BY <1>6 DEF Found, Follows
  <2> HIDE DEF e, u
  <2>8. \A i \in DOMAIN micro' : micro'[i] = e \/ \E l \in DOMAIN micro : micro'[i] = micro[l]
    BY <1>1, <2>5, <2>7, FollowsIs
  <2>9. \A l \in DOMAIN inbox' : ~IsReply(inbox'[l])
    <3>1. CASE inbox' = inbox
      BY <3>1, WantedParts
    <3>2. CASE inbox' = Tail(inbox)
      <4>1. inbox \in Seq(Frames)
        BY DEF TypeOK
      <4>2. /\ Len(inbox) \in Nat /\ Tail(inbox) \in Seq(Frames) /\ Len(Tail(inbox)) = Len(inbox) - 1
            /\ \A i \in 1..(Len(inbox) - 1) : Tail(inbox)[i] = inbox[i + 1]
        BY <2>1, <4>1, TailIs
      <4>3. \A i \in DOMAIN Tail(inbox) : i + 1 \in DOMAIN inbox /\ i \in 1..(Len(inbox) - 1)
        <5>1. DOMAIN Tail(inbox) = 1..(Len(inbox) - 1) /\ DOMAIN inbox = 1..Len(inbox)
          BY <4>1, <4>2
        <5> QED
          BY <4>2, <5>1
      <4>4. \A i \in DOMAIN Tail(inbox) : Tail(inbox)[i] = inbox[i + 1]
        BY <4>2, <4>3
      <4> QED
        BY <3>2, <4>3, <4>4, WantedParts
    <3> QED
      BY <1>6, <3>1, <3>2 DEF Found
  <2>10. ReadsChange(NoRead(c)) /\ NoRead(c) \in Reads
    BY <1>1, <1>6, NoReadIs DEF ReadsChange, Found
  <2>11. readers' # Append(readers, NoRead(c))
    <3>1. readers \in Seq(Reads) /\ Len(readers) \in Nat /\ k \in 1..Len(readers)
      BY DEF TypeOK
    <3>2. Len(Append(readers, NoRead(c))) = Len(readers) + 1
      BY <2>10, <3>1, AppendIs
    <3>3. Len(RemoveAt(readers, k)) = Len(readers) - 1
      BY <3>1, RemoveAtIs
    <3> QED
      BY <1>6, <3>1, <3>2, <3>3 DEF Found
  <2> QED
    BY <1>1, <1>2, <2>5, <2>6, <2>8, <2>9, <2>10, <2>11, WantedStep
<1>7. ASSUME NEW k \in DOMAIN readers, Breaks(k) PROVE Wanted'
  BY <1>5, <1>7 DEF Breaks
<1>8. micro' = Tail(micro) /\ UNCHANGED <<stream, readers>> => Wanted'
  BY <1>5 DEF stream
<1> QED
  BY <1>6, <1>7, <1>8, TryReadIs

LEMMA SameCalls == ASSUME service' = service, calls' = calls PROVE SameOps
BY SameOp DEF SameOps

LEMMA WantedStart ==
  ASSUME TypeOK, Wanted, NEW c \in Call, NEW o \in DOMAIN service.ops, Start(c, o)
  PROVE  Wanted'
<1> DEFINE pc == IF greeted THEN service.ops[o].first + 1 ELSE 1
<1>1. calls[c] = Idle /\ service' = service /\ readers' = readers /\ inbox' = inbox /\ micro' = <<Run(c, pc)>>
      /\ calls' = [calls EXCEPT ![c] = [@ EXCEPT !.op = o, !.pc = pc, !.phase = "run"]]
  BY DEF Start, TypeOK, stream
<1>2. \A d \in Call : d # c => NewOp(d) = OpOf(d)
  BY <1>1 DEF NewOp, OpOf, TypeOK
<1>3. \A k \in DOMAIN readers : readers[k].who # c
  <2>1. \A k \in DOMAIN readers : readers[k].at \in DOMAIN OpOf(readers[k].who).steps
    BY DEF TypeOK
  <2>2. DOMAIN OpOf(c).steps = {}
    BY <1>1 DEF OpOf, Idle, NoOp
  <2> QED
    BY <2>1, <2>2
<1>4. \A i \in DOMAIN micro' : micro'[i].what # "got"
  BY <1>1, RunIs
<1> QED
  BY <1>1, <1>2, <1>3, <1>4, WhoIs, WantedParts, WantedSame

LEMMA WantedWritten == ASSUME TypeOK, Wanted, Written PROVE Wanted'
<1>1. SameOps /\ readers' = readers /\ inbox' = inbox
  BY SameCalls DEF Written, stream
<1>2. \A i \in DOMAIN micro' : micro'[i].what # "got"
  BY DEF Written, Job
<1> QED
  BY <1>1, <1>2, WantedParts, WantedStill

LEMMA WantedArrive == ASSUME TypeOK, Wanted, Arrive PROVE Wanted'
<1>1. SameOps /\ readers' = readers
  BY SameCalls DEF Arrive
<1>2. \A i \in DOMAIN micro' : micro'[i].what # "got"
  BY TryIs DEF Arrive
<1>3. \A k \in DOMAIN inbox : ~IsReply(inbox[k])
  BY WantedParts
<1>4. CASE inbox' = inbox \/ inbox' = <<>>
  <2>1. \A k \in DOMAIN inbox' : ~IsReply(inbox'[k])
    BY <1>3, <1>4
  <2> QED
    BY <1>1, <1>2, <2>1, WantedStill
<1>5. CASE todo # <<>> /\ ~IsReply(Head(todo)) /\ inbox' = Append(inbox, Head(todo))
  <2>1. inbox \in Seq(Frames) /\ todo \in Seq(Frames)
    BY DEF TypeOK
  <2>2. Head(todo) \in Frames /\ DOMAIN inbox = 1..Len(inbox)
    BY <1>5, <2>1, TailIs
  <2>3. /\ inbox' \in Seq(Frames) /\ Len(inbox') = Len(inbox) + 1
        /\ \A i \in 1..Len(inbox) : inbox'[i] = inbox[i]
        /\ inbox'[Len(inbox) + 1] = Head(todo) /\ Len(inbox) \in Nat
    BY <1>5, <2>1, <2>2, AppendIs
  <2>4. ASSUME NEW k \in DOMAIN inbox' PROVE ~IsReply(inbox'[k])
    <3>1. k \in 1..Len(inbox) \/ k = Len(inbox) + 1
      BY <2>3
    <3>2. k \in DOMAIN inbox => inbox'[k] = inbox[k]
      BY <2>2, <2>3
    <3> QED
      BY <1>3, <1>5, <2>2, <2>3, <3>1, <3>2
  <2> QED
    BY <1>1, <1>2, <2>4, WantedStill
<1> QED
  BY <1>4, <1>5 DEF Arrive

LEMMA WantedArriveMatched == ASSUME TypeOK, Places, Wanted, ArriveMatched PROVE Wanted'
<1>1. SameOps /\ service' = service
  BY SameCalls, ArriveMatchedIs
<1>2. micro = <<>> /\ todo # <<>>
  BY ArriveMatchedIs
<1>5. CASE Handed
  <2>1. \A i \in DOMAIN micro' : micro'[i].what # "got"
    BY <1>5, TryIs DEF Handed
  <2>2. \A k \in DOMAIN inbox' : ~IsReply(inbox'[k])
    BY <1>1, <1>2, <1>5, HandedIs, WantedParts DEF IsReply
  <2> QED
    BY <1>1, <1>5, <2>1, <2>2, WantedStill DEF Handed
<1>3. CASE UNCHANGED <<inbox, readers, micro>>
  <2>1. \A i \in DOMAIN micro' : micro'[i].what # "got"
    BY <1>2, <1>3
  <2> QED
    BY <1>1, <1>3, <2>1, WantedParts, WantedStill
<1> DEFINE f == Head(todo)
<1>4. ASSUME NEW k \in DOMAIN readers, readers[k].who = f.for, readers' = RemoveAt(readers, k), inbox' = inbox,
             micro' = <<Job("got", f.for, readers[k].at, [part |-> "reply", frame |-> f])>>
      PROVE  Wanted'
  <2>1. readers[k] \in Reads /\ f.for \in Call /\ readers[k].at \in DOMAIN OpOf(f.for).steps
    BY <1>4, FrontIs
  <2> DEFINE u == [part |-> "reply", frame |-> f]
             e == Job("got", f.for, readers[k].at, u)
  <2>2. u.part = "reply" /\ u.frame = f /\ e.at = readers[k].at /\ e.who = f.for /\ e.unit = u
    BY DEF Job
  <2>3. \A i \in DOMAIN micro' : micro'[i] = e
    BY <1>4
  <2> HIDE DEF e, u
  <2>4. GoodGot(e)
    BY <2>1, <2>2 DEF GoodGot
  <2>5. ReadsChange(readers[k])
    BY <1>4 DEF ReadsChange
  <2>6. GoodRead(readers[k])
    BY WantedParts
  <2> QED
    BY <1>1, <1>4, <2>1, <2>2, <2>3, <2>4, <2>5, <2>6, WantedParts, WantedStep
<1> QED
  BY <1>3, <1>4, <1>5, ArriveMatchedIs DEF Answered

LEMMA WantedPush == ASSUME TypeOK, Wanted, Push PROVE Wanted'
<1>1. SameOps /\ readers' = readers /\ inbox' = inbox /\ micro' = <<>>
  BY SameCalls DEF Push, stream, Quiet
<1> QED
  BY <1>1, WantedParts, WantedStill

LEMMA WantedTimeOut == ASSUME TypeOK, Places, Wanted, NEW k \in DOMAIN readers, TimeOut(k) PROVE Wanted'
<1>1. PICK c \in Call, n \in Calls :
           /\ micro = <<>> /\ c = readers[k].who /\ calls[c].phase # "idle"
           /\ Expired(k, c, n) /\ (readers' = readers \/ readers' = RemoveAt(readers, k))
           /\ service' = service /\ inbox' = inbox
  BY TimeOutIs DEF stream
<1>2. SameOps
  BY <1>1, MovesOps, SameCalls DEF Expired
<1>3. \A i \in DOMAIN micro' : micro'[i].what # "got"
  <2>1. CASE micro' = <<>>
    BY <2>1
  <2>2. CASE micro' = <<Run(c, n.pc)>>
    BY <2>2, RunIs
  <2> QED
    BY <1>1, <2>1, <2>2 DEF Expired, Fails
<1>4. readers[k] \in Reads /\ GoodRead(readers[k]) /\ ReadsChange(readers[k])
  BY <1>1, WhoIs, WantedParts DEF ReadsChange
<1> QED
  BY <1>1, <1>2, <1>3, <1>4, WantedParts, WantedStep

LEMMA WantedAbandon == ASSUME TypeOK, Places, Wanted, NEW c \in Call, Abandon(c) PROVE Wanted'
<1>1. PICK n \in Calls :
           /\ calls[c].phase = "reading" /\ Moves(c, n)
           /\ micro' = <<>> \/ micro' = <<Run(c, n.pc)>>
           /\ service' = service /\ readers' = readers /\ inbox' = inbox
  BY AbandonIs DEF stream
<1>2. SameOps
  BY <1>1, MovesOps
<1>3. \A i \in DOMAIN micro' : micro'[i].what # "got"
  BY <1>1, RunIs
<1> QED
  BY <1>1, <1>2, <1>3, WantedParts, WantedStill

LEMMA WantedDrainEnds == ASSUME TypeOK, Wanted, NEW c \in Call, DrainEnds(c) PROVE Wanted'
<1>1. PICK n \in Calls :
           /\ calls[c].phase = "draining" /\ Moves(c, n) /\ micro = <<>> /\ micro' = micro
           /\ service' = service /\ readers' = readers /\ inbox' = inbox
  BY DrainEndsIs DEF stream
<1>2. SameOps
  BY <1>1, MovesOps
<1>3. \A i \in DOMAIN micro' : micro'[i].what # "got"
  BY <1>1
<1> QED
  BY <1>1, <1>2, <1>3, WantedParts, WantedStill

LEMMA CloseOps == ASSUME TypeOK, Places, Wanted, Close PROVE SameOps
<1>1. /\ service' = service
      /\ \A c \in Call : calls'[c] = calls[c] \/ Closed(c) \/ CutShort(c)
  BY CloseIs
<1>2. \A c \in Call : calls'[c].op = calls[c].op
  <2> TAKE c \in Call
  <2>1. calls[c] \in Calls
    BY DEF TypeOK
  <2> QED
    BY <1>1, <2>1 DEF Closed, CutShort, Calls
<1> QED
  BY <1>1, <1>2, SameOp DEF SameOps

LEMMA WantedClose == ASSUME TypeOK, Places, Wanted, Close PROVE Wanted'
<1>1. /\ micro' = <<>> /\ inbox' = inbox /\ SameOps
      /\ readers' = readers \/ readers' = <<>>
  BY CloseIs, CloseOps DEF stream
<1>2. CASE readers' = readers
  BY <1>1, <1>2, WantedParts, WantedStill
<1>3. CASE readers' = <<>>
  BY <1>1, <1>3, WantedParts, WantedSame DEF SameOps
<1> QED
  BY <1>1, <1>2, <1>3

LEMMA WantedInit == Init => Wanted
BY DEF Init, Wanted

LEMMA WantedKept == ASSUME TypeOK, Places, Wanted, [Next]_vars PROVE Wanted'
<1>1. CASE UNCHANGED vars
  <2>1. SameOps /\ readers' = readers /\ micro' = micro /\ inbox' = inbox
    BY <1>1, SameCalls DEF vars, stream
  <2>2. \A d \in Call : NewOp(d) = OpOf(d)
    BY <2>1 DEF NewOp, OpOf, SameOps
  <2> QED
    BY <2>1, <2>2, WhoIs, WantedParts, WantedSame DEF SameOps
<1>2. CASE Micro
  BY <1>2, WantedDoStep, WantedSent, WantedTryRead, WantedGot DEF Micro
<1>3. CASE Written \/ Arrive \/ ArriveMatched \/ Push \/ Close
  BY <1>3, WantedWritten, WantedArrive, WantedArriveMatched, WantedPush, WantedClose
<1>4. ASSUME NEW c \in Call, Abandon(c) \/ DrainEnds(c) \/ \E o \in DOMAIN service.ops : Start(c, o) PROVE Wanted'
  BY <1>4, WantedDrainEnds, WantedAbandon, WantedStart
<1>5. ASSUME NEW k \in DOMAIN readers, TimeOut(k) PROVE Wanted'
  BY <1>5, WantedTimeOut
<1> QED
  BY <1>1, <1>2, <1>3, <1>4, <1>5 DEF Next

------------------------------------------------------------------------------
Base == TypeOK /\ Places /\ Wanted /\ Holds /\ FilesClosed

LEMMA BaseInit == Init => Base
BY InitType, PlacesInit, WantedInit, FilesInit DEF Base

LEMMA BaseKept == Base /\ [Next]_vars => Base'
BY TypeKept, PlacesKept, WantedKept, FilesKept DEF Base

LEMMA BaseHolds == Spec => []Base
BY BaseInit, BaseKept, PTL DEF Spec

\* Every state variable has its type, and every call is at a step of its operation.
THEOREM TypeCorrect == Spec => []TypeOK
<1>1. Base => TypeOK
  BY DEF Base
<1> QED
  BY <1>1, BaseHolds, PTL

\* Whatever fails on the way, an AFC operation that ends with its socket open has
\* sent the FILE_CLOSE of every file it opened.
THEOREM FilesTheorem == Spec => []FilesClosed
<1>1. Base => FilesClosed
  BY DEF Base
<1> QED
  BY <1>1, BaseHolds, PTL

------------------------------------------------------------------------------
LEMMA TailElems ==
  ASSUME NEW T, NEW s \in Seq(T), s # <<>>
  PROVE  /\ 1 \in DOMAIN s /\ Head(s) = s[1]
         /\ \A i \in DOMAIN Tail(s) : i + 1 \in DOMAIN s /\ Tail(s)[i] = s[i + 1]
<1>1. /\ Len(s) \in Nat /\ Len(s) >= 1 /\ Tail(s) \in Seq(T) /\ Len(Tail(s)) = Len(s) - 1 /\ Head(s) = s[1]
      /\ \A i \in 1..(Len(s) - 1) : Tail(s)[i] = s[i + 1]
  BY TailIs
<1>2. DOMAIN s = 1..Len(s) /\ DOMAIN Tail(s) = 1..(Len(s) - 1)
  BY <1>1
<1> QED
  BY <1>1, <1>2

LEMMA AppendElems ==
  ASSUME NEW T, NEW s \in Seq(T), NEW e \in T
  PROVE  \A i \in DOMAIN Append(s, e) : (i \in DOMAIN s /\ Append(s, e)[i] = s[i]) \/ Append(s, e)[i] = e
<1>1. /\ Append(s, e) \in Seq(T) /\ Len(s) \in Nat /\ Len(Append(s, e)) = Len(s) + 1
      /\ \A i \in 1..Len(s) : Append(s, e)[i] = s[i]
      /\ Append(s, e)[Len(s) + 1] = e
  BY AppendIs
<1>2. DOMAIN s = 1..Len(s) /\ DOMAIN Append(s, e) = 1..(Len(s) + 1)
  BY <1>1
<1> TAKE i \in DOMAIN Append(s, e)
<1>3. i \in 1..Len(s) \/ i = Len(s) + 1
  BY <1>1, <1>2
<1> QED
  BY <1>1, <1>2, <1>3

LEMMA JoinElems ==
  ASSUME NEW T, NEW s \in Seq(T), NEW t \in Seq(T)
  PROVE  \A i \in DOMAIN (s \o t) : \/ i \in DOMAIN s /\ (s \o t)[i] = s[i]
                                    \/ i - Len(s) \in DOMAIN t /\ (s \o t)[i] = t[i - Len(s)]
<1>1. /\ s \o t \in Seq(T) /\ Len(s) \in Nat /\ Len(t) \in Nat /\ Len(s \o t) = Len(s) + Len(t)
      /\ \A i \in 1..(Len(s) + Len(t)) : (s \o t)[i] = IF i <= Len(s) THEN s[i] ELSE t[i - Len(s)]
  BY ConcatProperties
<1>2. DOMAIN s = 1..Len(s) /\ DOMAIN t = 1..Len(t) /\ DOMAIN (s \o t) = 1..(Len(s) + Len(t))
  BY <1>1
<1> TAKE i \in DOMAIN (s \o t)
<1>3. (i \in 1..Len(s) /\ i <= Len(s)) \/ (i - Len(s) \in 1..Len(t) /\ ~(i <= Len(s)))
  BY <1>1, <1>2
<1> QED
  BY <1>1, <1>2, <1>3

LEMMA FrameType == TypeOK => \A f \in InPlay : f \in Frames
<1>1. ASSUME TypeOK, NEW i \in DOMAIN micro PROVE micro[i].unit.frame \in Frames
  <2>1. micro[i] \in Jobs
    BY <1>1, WhoIs
  <2> QED
    BY <2>1 DEF Jobs, Units
<1>2. ASSUME TypeOK, NEW i \in DOMAIN todo PROVE todo[i] \in Frames
  BY <1>2, ElementOfSeq DEF TypeOK
<1>3. ASSUME TypeOK, NEW i \in DOMAIN inbox PROVE inbox[i] \in Frames
  BY <1>3, ElementOfSeq DEF TypeOK
<1> QED
  BY <1>1, <1>2, <1>3 DEF InPlay

\* No frame comes from nowhere.
TodoMoves ==
  \/ todo' = todo \/ todo' = <<>> \/ todo' = Append(todo, Unasked)
  \/ todo # <<>> /\ todo' = Tail(todo)
InboxMoves ==
  \/ inbox' = inbox \/ inbox' = <<>>
  \/ inbox # <<>> /\ inbox' = Tail(inbox)
  \/ todo # <<>> /\ inbox' = Append(inbox, Head(todo))
MicroMoves ==
  \A i \in DOMAIN micro' :
    \/ \E l \in DOMAIN micro : micro'[i] = micro[l]
    \/ micro'[i].unit.frame = Unasked
    \/ inbox # <<>> /\ micro'[i].unit.frame = Head(inbox)
    \/ todo # <<>> /\ micro'[i].unit.frame = Head(todo)

LEMMA InPlayMoves ==
  ASSUME TypeOK, TodoMoves, InboxMoves, MicroMoves
  PROVE  \A f \in InPlay' : f \in InPlay \/ f = Unasked
<1>1. todo \in Seq(Frames) /\ inbox \in Seq(Frames) /\ Unasked \in Frames
  BY DEF TypeOK, Unasked, Frame, Frames, Says, Names
<1>2. /\ \A k \in DOMAIN todo : todo[k] \in InPlay
      /\ \A k \in DOMAIN inbox : inbox[k] \in InPlay
      /\ \A i \in DOMAIN micro : micro[i].unit.frame \in InPlay
  BY DEF InPlay
<1>3. todo # <<>> => Head(todo) \in InPlay /\ Head(todo) \in Frames
  <2>1. ASSUME todo # <<>> PROVE 1 \in DOMAIN todo /\ Head(todo) = todo[1]
    BY <1>1, <2>1, TailElems
  <2> QED
    BY <1>1, <1>2, <2>1, ElementOfSeq
<1>4. inbox # <<>> => Head(inbox) \in InPlay
  <2>1. ASSUME inbox # <<>> PROVE 1 \in DOMAIN inbox /\ Head(inbox) = inbox[1]
    BY <1>1, <2>1, TailElems
  <2> QED
    BY <1>2, <2>1
<1>5. ASSUME NEW k \in DOMAIN todo' PROVE todo'[k] \in InPlay \/ todo'[k] = Unasked
  <2>1. CASE todo' = todo
    BY <2>1, <1>2
  <2>2. CASE todo' = <<>>
    BY <2>2
  <2>3. CASE todo' = Append(todo, Unasked)
    <3>1. (k \in DOMAIN todo /\ Append(todo, Unasked)[k] = todo[k]) \/ Append(todo, Unasked)[k] = Unasked
      BY <1>1, <2>3, AppendElems
    <3> QED
      BY <1>2, <2>3, <3>1
  <2>4. CASE todo # <<>> /\ todo' = Tail(todo)
    <3>1. k + 1 \in DOMAIN todo /\ Tail(todo)[k] = todo[k + 1]
      BY <1>1, <2>4, TailElems
    <3> QED
      BY <1>2, <2>4, <3>1
  <2> QED
    BY <2>1, <2>2, <2>3, <2>4 DEF TodoMoves
<1>6. ASSUME NEW k \in DOMAIN inbox' PROVE inbox'[k] \in InPlay
  <2>1. CASE inbox' = inbox
    BY <2>1, <1>2
  <2>2. CASE inbox' = <<>>
    BY <2>2
  <2>3. CASE todo # <<>> /\ inbox' = Append(inbox, Head(todo))
    <3>1. (k \in DOMAIN inbox /\ Append(inbox, Head(todo))[k] = inbox[k]) \/ Append(inbox, Head(todo))[k] = Head(todo)
      BY <1>1, <1>3, <2>3, AppendElems
    <3> QED
      BY <1>2, <1>3, <2>3, <3>1
  <2>4. CASE inbox # <<>> /\ inbox' = Tail(inbox)
    <3>1. k + 1 \in DOMAIN inbox /\ Tail(inbox)[k] = inbox[k + 1]
      BY <1>1, <2>4, TailElems
    <3> QED
      BY <1>2, <2>4, <3>1
  <2> QED
    BY <2>1, <2>2, <2>3, <2>4 DEF InboxMoves
<1>7. ASSUME NEW i \in DOMAIN micro' PROVE micro'[i].unit.frame \in InPlay \/ micro'[i].unit.frame = Unasked
  BY <1>2, <1>3, <1>4 DEF MicroMoves
<1> QED
  BY <1>5, <1>6, <1>7 DEF InPlay

\* A call that reads a reply by its tag knows which.
Expects(c) == calls[c].phase \in {"run", "reading"} /\ StepOf(c).check = "tag" => calls[c].tag # 0

LEMMA UnaskedIs == Unasked \in Frames /\ Unasked.tag = 0 /\ Unasked.for = None /\ Unasked.says = "event"
BY DEF Unasked, Frame, Frames, Says, Names

\* The tag stays, and a call at most learns the last.
LEMMA NumbersStep ==
  ASSUME TypeOK, Numbers, service' = service, tag' = tag, crossed' = crossed,
         (open' = open /\ writes' = writes) \/ (open' = FALSE /\ writes' = <<>>),
         \A f \in InPlay' : f \in InPlay \/ f = Unasked,
         \A i \in DOMAIN micro' : micro'[i].what = "written" => \E l \in DOMAIN micro : micro'[i] = micro[l],
         \A d \in Call : \/ calls'[d].tag = calls[d].tag
                         \/ /\ tag > 1 /\ calls'[d].tag = tag - 1
                            /\ service.tagged /\ ~crossed => \A f \in InPlay : f.tag = tag - 1 => f.for = d,
         service.tagged /\ ~crossed => \A d \in Call : Expects(d)'
  PROVE  Numbers'
<1> SUFFICES ASSUME service.tagged, ~crossed
             PROVE  Numbers'
  BY DEF Numbers
<1>1. tag \in Nat /\ tag >= 1 /\ \A f \in InPlay : f.tag \in Nat
  BY FrameType DEF TypeOK, Frames
<1>2. /\ Len(writes) <= 1
      /\ \A f \in InPlay :
           /\ f.tag <= tag /\ (f.tag = 0 <=> f.for = None)
           /\ f.tag = tag /\ open => writes # <<>> /\ Head(writes) = f.for
      /\ \A i \in DOMAIN micro : micro[i].what = "written" =>
           tag > 1 /\ \A f \in InPlay : f.tag = tag - 1 => f.for = micro[i].who
      /\ \A c \in Call :
           calls[c].tag # 0 => calls[c].tag < tag /\ \A f \in InPlay : f.tag = calls[c].tag => f.for = c
  BY DEF Numbers
<1>3. Len(writes') <= 1
  BY <1>2
<1>4. \A f \in InPlay' : /\ f.tag <= tag' /\ (f.tag = 0 <=> f.for = None)
                         /\ f.tag = tag' /\ open' => writes' # <<>> /\ Head(writes') = f.for
  BY <1>1, <1>2, UnaskedIs
<1>5. \A i \in DOMAIN micro' : micro'[i].what = "written" =>
         tag' > 1 /\ \A f \in InPlay' : f.tag = tag' - 1 => f.for = micro'[i].who
  BY <1>1, <1>2, UnaskedIs
<1>6. ASSUME NEW c \in Call, calls'[c].tag # 0
      PROVE  calls'[c].tag < tag' /\ \A f \in InPlay' : f.tag = calls'[c].tag => f.for = c
  <2>1. CASE calls'[c].tag = calls[c].tag
    BY <1>1, <1>2, <1>6, <2>1, UnaskedIs
  <2>2. CASE tag > 1 /\ calls'[c].tag = tag - 1 /\ \A f \in InPlay : f.tag = tag - 1 => f.for = c
    BY <1>1, <1>2, <1>6, <2>2, UnaskedIs
  <2> QED
    BY <2>1, <2>2
<1> QED
  BY <1>3, <1>4, <1>5, <1>6 DEF Numbers, Expects

\* Over usbmuxd a reply is read right after its request.
LEMMA TagsIs ==
  ASSUME TypeOK, service.tagged, NEW c \in Call, calls[c].phase # "idle"
  PROVE  /\ OpOf(c).opens = 0 /\ OpOf(c).first = 0 /\ DOMAIN OpOf(c).steps = 1..Len(OpOf(c).steps)
         /\ \A k \in DOMAIN OpOf(c).steps :
              /\ OpOf(c).steps[k].do \in {"write", "read"}
              /\ OpOf(c).steps[k].do = "read" => OpOf(c).steps[k].check \in {"tag", "push"}
              /\ OpOf(c).steps[k].check = "tag" => k > 1 /\ OpOf(c).steps[k - 1].do = "write" /\ OpOf(c).loop # k
<1>1. RowOK(service) /\ calls[c].op \in DOMAIN service.ops /\ OpOf(c) = service.ops[calls[c].op] /\ OpOf(c).steps \in Seq(Steps)
  BY OpIs
<1>2. Tags(OpOf(c))
  BY <1>1 DEF RowOK
<1>3. DOMAIN OpOf(c).steps = 1..Len(OpOf(c).steps)
  BY <1>1
<1> QED
  BY <1>2, <1>3 DEF Tags

LEMMA ExpectsStep ==
  ASSUME Numbers, service' = service, service.tagged, ~crossed, NEW c \in Call,
         \A d \in Call \ {c} : calls'[d] = calls[d], Expects(c)'
  PROVE  \A d \in Call : Expects(d)'
<1> TAKE d \in Call
<1>1. CASE d # c
  <2>1. calls'[d] = calls[d] /\ OpOf(d)' = OpOf(d)
    BY <1>1, SameOp
  <2>2. Expects(d)
    BY DEF Numbers, Expects
  <2> QED
    BY <2>1, <2>2 DEF Expects, StepOf
<1> QED
  BY <1>1

\* No call that goes on from a write or a read comes to a reply it does not know.
LEMMA GoesExpects ==
  ASSUME TypeOK, Places, service.tagged, service' = service, NEW c \in Call,
         (calls[c].phase = "reading") \/ (calls[c].phase = "sent" /\ calls'[c].tag # 0),
         NEW n \in Calls, Moves(c, n), NEW rest, Goes(c, n, rest)
  PROVE  Expects(c)'
<1>1. SameOps /\ calls'[c] = n
  BY MovesOps
<1>2. CASE n.phase # "run"
  BY <1>1, <1>2 DEF Expects, Goes
<1>3. CASE calls'[c].tag # 0
  BY <1>3 DEF Expects
<1>4. CASE calls[c].phase = "reading" /\ n.phase = "run"
  <2>1. OpOf(c).steps[calls[c].pc].do # "write"
    BY <1>4 DEF Places, AtStep, ReadsAt
  <2>2. n.pc = OpOf(c).loop \/ n.pc = calls[c].pc + 1
    BY <1>4 DEF Goes, NextPc
  <2>3. n.pc \in DOMAIN OpOf(c).steps /\ calls[c].pc \in Nat
    BY <1>4, RangeIs DEF Moves
  <2>4. OpOf(c).steps[n.pc].check # "tag"
    <3>1. CASE n.pc = OpOf(c).loop
      BY <1>4, <2>3, <3>1, TagsIs
    <3>2. CASE n.pc = calls[c].pc + 1
      <4>1. n.pc - 1 = calls[c].pc
        BY <2>3, <3>2
      <4> QED
        BY <1>4, <2>1, <2>3, <4>1, TagsIs
    <3> QED
      BY <2>2, <3>1, <3>2
  <2> QED
    BY <1>1, <2>4 DEF Expects, StepOf, SameOps
<1> QED
  BY <1>2, <1>3, <1>4

\* Over usbmuxd nothing is opened, and a call that fails has ended.
LEMMA FailsEnds ==
  ASSUME TypeOK, Holds, service.tagged, service' = service, NEW c \in Call, Active(c), calls[c].phase # "idle",
         NEW n \in Calls, Moves(c, n), NEW rest, Fails(c, n, rest)
  PROVE  n.phase = "failed" /\ Expects(c)'
<1>1. calls'[c] = n
  BY MovesOps
<1>2. ~calls[c].held
  BY TagsIs DEF Holds
<1> QED
  BY <1>1, <1>2 DEF Fails, Expects

LEMMA MicroFollows ==
  ASSUME TypeOK, micro # <<>>, NEW e \in Jobs, Follows(e), e.what # "written",
         \/ e.unit.frame = Unasked
         \/ inbox # <<>> /\ e.unit.frame = Head(inbox)
  PROVE  /\ MicroMoves
         /\ \A i \in DOMAIN micro' : micro'[i].what = "written" => \E l \in DOMAIN micro : micro'[i] = micro[l]
<1>1. \A i \in DOMAIN micro' : micro'[i] = e \/ \E l \in DOMAIN micro : micro'[i] = micro[l]
  BY FollowsIs
<1> QED
  BY <1>1 DEF MicroMoves

LEMMA NoUnitIs ==
  /\ NoUnit.frame = Unasked /\ \A c, k : Run(c, k).unit.frame = Unasked
  /\ \A r : Try(r).unit.frame = Unasked
  /\ \A c : NoJob(c).unit.frame = Unasked
BY RunIs, TryIs DEF NoUnit, NoJob

\* The job that runs is of a call that goes on, and no frame comes or goes.
LEMMA MicroRun ==
  ASSUME TypeOK, micro # <<>>, NEW c \in Call, NEW n \in Calls,
         \/ micro' = Tail(micro)
         \/ micro' = Append(Tail(micro), Run(c, n.pc))
         \/ \E r \in Reads : micro' = <<Try(r)>> \o Tail(micro)
  PROVE  /\ MicroMoves
         /\ \A i \in DOMAIN micro' : micro'[i].what = "written" => \E l \in DOMAIN micro : micro'[i] = micro[l]
<1>1. CASE micro' = Tail(micro)
  BY <1>1, NoJobIs, NoUnitIs, MicroFollows DEF Follows
<1>2. CASE micro' = Append(Tail(micro), Run(c, n.pc))
  <2>1. Run(c, n.pc) \in Jobs
    BY JobIs DEF Calls
  <2>2. Follows(Run(c, n.pc)) /\ Run(c, n.pc).what # "written" /\ Run(c, n.pc).unit.frame = Unasked
    BY <1>2, RunIs, NoUnitIs DEF Follows
  <2> QED
    BY <2>1, <2>2, MicroFollows
<1>3. ASSUME NEW r \in Reads, micro' = <<Try(r)>> \o Tail(micro)
      PROVE  /\ MicroMoves
             /\ \A i \in DOMAIN micro' : micro'[i].what = "written" => \E l \in DOMAIN micro : micro'[i] = micro[l]
  <2>1. Try(r) \in Jobs
    <3>1. 1 \in Nat
      OBVIOUS
    <3> QED
      BY <3>1, JobIs
  <2> QED
    BY <1>3, <2>1, TryIs, NoUnitIs, MicroFollows DEF Follows
<1> QED
  BY <1>1, <1>2, <1>3

\* A step that moves no frame in or out.
LEMMA InPlayRun ==
  ASSUME TypeOK, MicroMoves, todo' = todo, inbox' = inbox
  PROVE  \A f \in InPlay' : f \in InPlay \/ f = Unasked
BY InPlayMoves DEF TodoMoves, InboxMoves

LEMMA NumbersSent == ASSUME TypeOK, Places, Wanted, Numbers, Sent PROVE Numbers'
<1>1. PICK c \in Call, n \in Calls :
           /\ micro # <<>> /\ c = Head(micro).who /\ Head(micro).what = "written" /\ calls[c].phase = "sent"
           /\ Moves(c, n) /\ Goes(c, n, Tail(micro)) /\ n.tag = tag - 1
           /\ service' = service /\ open' = open /\ todo' = todo /\ inbox' = inbox /\ writes' = writes
           /\ tag' = tag /\ crossed' = crossed
  BY SentIs DEF stream
<1>2. SameOps /\ calls'[c] = n /\ \A d \in Call \ {c} : calls'[d] = calls[d]
  BY <1>1, MovesOps
<1>3. /\ MicroMoves
      /\ \A i \in DOMAIN micro' : micro'[i].what = "written" => \E l \in DOMAIN micro : micro'[i] = micro[l]
  BY <1>1, MicroRun DEF Goes
<1>4. \A f \in InPlay' : f \in InPlay \/ f = Unasked
  BY <1>1, <1>3, InPlayRun
<1>5. micro \in Seq(Jobs) /\ 1 \in DOMAIN micro /\ Head(micro) = micro[1]
  <2>1. micro \in Seq(Jobs)
    BY DEF TypeOK
  <2> QED
    BY <1>1, <2>1, TailElems
<1>6. service.tagged /\ ~crossed => tag > 1 /\ \A f \in InPlay : f.tag = tag - 1 => f.for = c
  BY <1>1, <1>5 DEF Numbers
<1>7. CASE service.tagged /\ ~crossed
  <2>1. n.tag # 0
    BY <1>1, <1>6, <1>7 DEF TypeOK
  <2>2. Expects(c)'
    BY <1>2, <2>1 DEF Expects
  <2>3. \A d \in Call : Expects(d)'
    BY <1>1, <1>2, <1>7, <2>2, ExpectsStep
  <2> QED
    BY <1>1, <1>2, <1>3, <1>4, <1>6, <1>7, <2>3, NumbersStep
<1>8. CASE ~(service.tagged /\ ~crossed)
  BY <1>1, <1>8 DEF Numbers
<1> QED
  BY <1>7, <1>8

\* A step that leaves the tags as they are.
LEMMA NumbersStill ==
  ASSUME TypeOK, Numbers, service' = service, tag' = tag, crossed' = crossed,
         (open' = open /\ writes' = writes) \/ (open' = FALSE /\ writes' = <<>>),
         service.tagged /\ ~crossed => \A f \in InPlay' : f \in InPlay \/ f = Unasked,
         \A i \in DOMAIN micro' : micro'[i].what = "written" => \E l \in DOMAIN micro : micro'[i] = micro[l],
         NEW c \in Call, \A d \in Call \ {c} : calls'[d] = calls[d], calls'[c].tag = calls[c].tag,
         service.tagged /\ ~crossed => Expects(c)'
  PROVE  Numbers'
<1>1. CASE service.tagged /\ ~crossed
  <2>1. \A d \in Call : Expects(d)'
    BY <1>1, ExpectsStep
  <2>2. \A d \in Call : calls'[d].tag = calls[d].tag
    OBVIOUS
  <2> QED
    BY <1>1, <2>1, <2>2, NumbersStep
<1>2. CASE ~(service.tagged /\ ~crossed)
  BY <1>2 DEF Numbers
<1> QED
  BY <1>1, <1>2

LEMMA NumbersGot == ASSUME TypeOK, Places, Wanted, Holds, Numbers, Got PROVE Numbers'
<1>1. PICK c \in Call :
           /\ micro # <<>> /\ c = Head(micro).who /\ Head(micro).what = "got" /\ calls[c].phase # "idle"
           /\ \/ Headed(c) \/ Strayed(c) \/ Repeated(c)
              \/ \E n \in Calls : Accepted(c, n) \/ Threw(c, n)
           /\ service' = service /\ open' = open /\ todo' = todo /\ inbox' = inbox /\ writes' = writes
           /\ tag' = tag /\ crossed' = crossed
  BY GotIs DEF stream
<1>2. Head(micro).at \in Nat /\ calls[c].pc \in Nat /\ calls[c] \in Calls
  BY <1>1, FrontIs DEF TypeOK, Calls
<1>3. Wants(StepOf(c)) \in {"head", "body", "raw", "frame", "reply"}
  BY WantsIs
<1>4. CASE Headed(c) \/ Strayed(c) \/ Repeated(c)
  <2>1. calls' = calls
    BY <1>4 DEF Headed, Strayed, Repeated
  <2>2. Reader(c, Head(micro).at, "body") \in Reads /\ Reader(c, calls[c].pc, Wants(StepOf(c))) \in Reads
    BY <1>2, <1>3, JobIs
  <2>3. micro' = Tail(micro) \/ \E r \in Reads : micro' = <<Try(r)>> \o Tail(micro)
    BY <1>4, <2>2 DEF Headed, Strayed, Repeated, Register
  <2>4. /\ MicroMoves
        /\ \A i \in DOMAIN micro' : micro'[i].what = "written" => \E l \in DOMAIN micro : micro'[i] = micro[l]
    BY <1>1, <1>2, <2>3, MicroRun
  <2>5. \A f \in InPlay' : f \in InPlay \/ f = Unasked
    BY <1>1, <2>4, InPlayRun
  <2>6. service.tagged /\ ~crossed => Expects(c)'
    <3>1. OpOf(c)' = OpOf(c)
      BY <1>1, <2>1, SameOp
    <3> QED
      BY <2>1, <3>1 DEF Numbers, Expects, StepOf
  <2> QED
    BY <1>1, <2>1, <2>4, <2>5, <2>6, NumbersStill
<1>5. ASSUME NEW n \in Calls, Accepted(c, n) \/ Threw(c, n) PROVE Numbers'
  <2>1. /\ Moves(c, n) /\ calls[c].phase = "reading" /\ n.tag = calls[c].tag
        /\ Goes(c, n, Tail(micro)) \/ Fails(c, n, Tail(micro))
    BY <1>5 DEF Accepted, Threw, Awaits
  <2>2. calls'[c] = n /\ \A d \in Call \ {c} : calls'[d] = calls[d]
    BY <1>1, <2>1, MovesOps
  <2>3. /\ MicroMoves
        /\ \A i \in DOMAIN micro' : micro'[i].what = "written" => \E l \in DOMAIN micro : micro'[i] = micro[l]
    BY <1>1, <2>1, MicroRun DEF Goes, Fails
  <2>4. \A f \in InPlay' : f \in InPlay \/ f = Unasked
    BY <1>1, <2>3, InPlayRun
  <2>5. service.tagged => Expects(c)'
    <3>1. CASE Goes(c, n, Tail(micro))
      BY <1>1, <2>1, <3>1, GoesExpects
    <3>2. CASE Fails(c, n, Tail(micro))
      <4>1. Active(c)
        BY <2>1 DEF Active
      <4> QED
        BY <1>1, <2>1, <3>2, <4>1, FailsEnds
    <3> QED
      BY <2>1, <3>1, <3>2
  <2> QED
    BY <1>1, <2>1, <2>2, <2>3, <2>4, <2>5, NumbersStill
<1> QED
  BY <1>1, <1>4, <1>5

\* A request carries the tag, and is the one that waits for its callback.
LEMMA NumbersWrote ==
  ASSUME TypeOK, Places, Numbers, service.tagged, micro # <<>>, NEW c \in Call, calls[c].phase = "run",
         NEW n \in Calls, Moves(c, n), Wrote(c, n), n.tag = calls[c].tag,
         service' = service, open' = open, inbox' = inbox, tag' = tag
  PROVE  Numbers'
<1> SUFFICES ASSUME ~crossed' PROVE Numbers'
  BY DEF Numbers
<1>1. ~crossed /\ writes = <<>> /\ writes' = <<c>> /\ open /\ n.phase = "sent" /\ micro' = Tail(micro)
  <2>1. ~crossed /\ writes = <<>> /\ writes' = Append(writes, c)
    BY DEF Wrote
  <2> QED
    BY <2>1 DEF Wrote
<1>2. SameOps /\ calls'[c] = n /\ \A d \in Call \ {c} : calls'[d] = calls[d] /\ service' = service
  BY MovesOps
<1>3. PICK says \in StepOf(c).replies :
        todo' = todo \o [k \in DOMAIN says |-> Frame(c, calls[c].pc + 1, says[k], tag, StepOf(c).name)]
  BY DEF Wrote
<1> DEFINE s == [k \in DOMAIN says |-> Frame(c, calls[c].pc + 1, says[k], tag, StepOf(c).name)]
<1>4. s \in Seq(Frames) /\ todo \in Seq(Frames)
  BY SaysIs DEF TypeOK
<1>5. \A k \in DOMAIN s : s[k].for = c /\ s[k].tag = tag
  BY DEF Frame
<1> HIDE DEF s
<1>6. \A f \in InPlay' : f \in InPlay \/ (f.for = c /\ f.tag = tag)
  <2>1. ASSUME NEW k \in DOMAIN todo' PROVE todo'[k] \in InPlay \/ (todo'[k].for = c /\ todo'[k].tag = tag)
    <3>1. \/ k \in DOMAIN todo /\ (todo \o s)[k] = todo[k]
          \/ k - Len(todo) \in DOMAIN s /\ (todo \o s)[k] = s[k - Len(todo)]
      BY <1>3, <1>4, JoinElems DEF s
    <3> QED
      BY <1>3, <1>5, <3>1 DEF InPlay, s
  <2>2. ASSUME NEW i \in DOMAIN micro' PROVE \E l \in DOMAIN micro : micro'[i] = micro[l]
    <3>1. micro \in Seq(Jobs)
      BY DEF TypeOK
    <3>2. i + 1 \in DOMAIN micro /\ Tail(micro)[i] = micro[i + 1]
      BY <1>1, <3>1, TailElems
    <3> QED
      BY <1>1, <3>2
  <2> QED
    BY <2>1, <2>2 DEF InPlay
<1>7. \A i \in DOMAIN micro' : \E l \in DOMAIN micro : micro'[i] = micro[l]
  <2> TAKE i \in DOMAIN micro'
  <2>1. micro \in Seq(Jobs)
    BY DEF TypeOK
  <2>2. i + 1 \in DOMAIN micro /\ Tail(micro)[i] = micro[i + 1]
    BY <1>1, <2>1, TailElems
  <2> QED
    BY <1>1, <2>2
<1>8. tag \in Nat /\ tag >= 1 /\ (\A f \in InPlay : f.tag \in Nat) /\ c # None /\ \A d \in Call : calls[d].tag \in Nat
  BY FrameType, ServiceAssumption DEF TypeOK, Frames, Calls
<1>9. /\ \A f \in InPlay :
           /\ f.tag <= tag /\ (f.tag = 0 <=> f.for = None)
           /\ f.tag # tag
      /\ \A i \in DOMAIN micro : micro[i].what = "written" =>
           tag > 1 /\ \A f \in InPlay : f.tag = tag - 1 => f.for = micro[i].who
      /\ \A d \in Call :
           calls[d].tag # 0 => calls[d].tag < tag /\ \A f \in InPlay : f.tag = calls[d].tag => f.for = d
  BY <1>1 DEF Numbers
<1>10. \A d \in Call : Expects(d)'
  <2>1. Expects(c)'
    BY <1>1, <1>2 DEF Expects
  <2> QED
    BY <1>1, <1>2, <2>1, ExpectsStep
<1>11. Len(writes') <= 1 /\ writes' # <<>> /\ Head(writes') = c
  BY <1>1
<1>12. \A f \in InPlay' : /\ f.tag <= tag' /\ (f.tag = 0 <=> f.for = None)
                          /\ f.tag = tag' /\ open' => f.for = c
  BY <1>6, <1>8, <1>9
<1>13. \A i \in DOMAIN micro' : micro'[i].what = "written" =>
         tag' > 1 /\ \A f \in InPlay' : f.tag = tag' - 1 => f.for = micro'[i].who
  BY <1>6, <1>7, <1>8, <1>9
<1>14. \A d \in Call : calls'[d].tag = calls[d].tag
  BY <1>2
<1>15. \A d \in Call : calls'[d].tag # 0 =>
         calls'[d].tag < tag' /\ \A f \in InPlay' : f.tag = calls'[d].tag => f.for = d
  BY <1>6, <1>8, <1>9, <1>14
<1> QED
  BY <1>10, <1>11, <1>12, <1>13, <1>15 DEF Numbers, Expects

LEMMA NumbersDoStep == ASSUME TypeOK, Places, Wanted, Holds, Numbers, DoStep PROVE Numbers'
<1>1. PICK c \in Call, n \in Calls :
           /\ micro # <<>> /\ calls[c].phase = "run" /\ Moves(c, n) /\ n.tag = calls[c].tag
           /\ Wrote(c, n) \/ Refused(c, n) \/ Asked(c, n) \/ Drains(c, n)
           /\ service' = service /\ open' = open /\ inbox' = inbox /\ tag' = tag
  BY DoStepIs DEF stream
<1>2. calls'[c] = n /\ (\A d \in Call \ {c} : calls'[d] = calls[d]) /\ SameOps
  BY <1>1, MovesOps
<1>3. CASE Wrote(c, n) /\ service.tagged
  BY <1>1, <1>3, NumbersWrote
<1>4. CASE ~service.tagged
  BY <1>1, <1>4 DEF Numbers
<1>5. CASE Refused(c, n)
  <2>1. Fails(c, n, Tail(micro)) /\ todo' = todo /\ writes' = writes /\ crossed' = crossed
    BY <1>5 DEF Refused
  <2>2. /\ MicroMoves
        /\ \A i \in DOMAIN micro' : micro'[i].what = "written" => \E l \in DOMAIN micro : micro'[i] = micro[l]
    BY <1>1, <2>1, MicroRun DEF Fails
  <2>3. \A f \in InPlay' : f \in InPlay \/ f = Unasked
    BY <1>1, <2>1, <2>2, InPlayRun
  <2>4. service.tagged => Expects(c)'
    BY <1>1, <2>1, FailsEnds DEF Active
  <2> QED
    BY <1>1, <1>2, <2>1, <2>2, <2>3, <2>4, NumbersStill
<1>6. CASE Asked(c, n) \/ Drains(c, n)
  <2>0. Reader(c, calls[c].pc, Wants(StepOf(c))) \in Reads
    BY AskIs
  <2>1. /\ todo' = todo /\ writes' = writes /\ crossed' = crossed /\ n.pc = calls[c].pc
        /\ micro' = Tail(micro) \/ \E r \in Reads : micro' = <<Try(r)>> \o Tail(micro)
    BY <1>6, <2>0 DEF Asked, Drains, Register
  <2>2. /\ MicroMoves
        /\ \A i \in DOMAIN micro' : micro'[i].what = "written" => \E l \in DOMAIN micro : micro'[i] = micro[l]
    BY <1>1, <2>1, MicroRun
  <2>3. \A f \in InPlay' : f \in InPlay \/ f = Unasked
    BY <1>1, <2>1, <2>2, InPlayRun
  <2>4. service.tagged /\ ~crossed => Expects(c)'
    <3>1. service.tagged /\ ~crossed => (StepOf(c).check = "tag" => calls[c].tag # 0)
      BY <1>1 DEF Numbers
    <3> QED
      BY <1>1, <1>2, <2>1, <3>1 DEF Expects, StepOf, SameOps
  <2> QED
    BY <1>1, <1>2, <2>1, <2>2, <2>3, <2>4, NumbersStill
<1> QED
  BY <1>1, <1>3, <1>4, <1>5, <1>6

LEMMA NumbersTryRead == ASSUME TypeOK, Places, Wanted, Numbers, TryRead PROVE Numbers'
<1>1. PICK c \in Call :
      /\ micro # <<>> /\ Head(micro).who = c
      /\ service' = service /\ open' = open /\ todo' = todo /\ writes' = writes /\ calls' = calls
      /\ tag' = tag /\ crossed' = crossed
  BY TryReadIs, FrontIs
<1> DEFINE Jobs1 == \A i \in DOMAIN micro' : micro'[i].what = "written" => \E l \in DOMAIN micro : micro'[i] = micro[l]
<1>2. TodoMoves
  BY <1>1 DEF TodoMoves
<1>3. InboxMoves /\ MicroMoves /\ Jobs1
  <2>1. micro' = Tail(micro) => MicroMoves /\ Jobs1
    BY <1>1, NoJobIs, NoUnitIs, MicroFollows DEF Follows
  <2>2. CASE micro' = Tail(micro) /\ inbox' \in {inbox, <<>>}
    BY <2>1, <2>2 DEF InboxMoves
  <2>3. ASSUME NEW k \in DOMAIN readers, readers[k].who = c, Found(k) PROVE InboxMoves /\ MicroMoves /\ Jobs1
    <3> DEFINE u == [part |-> NextPart, frame |-> Head(inbox)]
               e == Job("got", c, readers[k].at, u)
    <3>1. inbox # <<>> /\ NextPart \in {"head", "body", "raw", "frame"}
      BY <2>3 DEF Found, Dry, NextPart
    <3>2. Head(inbox) \in Frames /\ readers[k].at \in Nat
      BY <3>1, FrontIs
    <3>3. u \in Units /\ u.frame = Head(inbox)
      BY <3>1, <3>2 DEF Units
    <3> HIDE DEF u
    <3>4. e \in Jobs /\ e.what = "got" /\ e.unit.frame = Head(inbox)
      BY <1>1, <3>2, <3>3, JobIs DEF Job
    <3>5. Follows(e)
      BY <2>3 DEF Found, Follows, u
    <3> HIDE DEF e
    <3>6. MicroMoves /\ Jobs1
      BY <1>1, <3>1, <3>4, <3>5, MicroFollows
    <3>7. InboxMoves
      BY <2>3, <3>1 DEF Found, InboxMoves
    <3> QED
      BY <3>6, <3>7
  <2>4. ASSUME NEW k \in DOMAIN readers, Breaks(k) PROVE InboxMoves /\ MicroMoves /\ Jobs1
    BY <2>2, <2>4 DEF Breaks
  <2>5. micro' = Tail(micro) /\ UNCHANGED <<stream, readers>> => InboxMoves /\ MicroMoves /\ Jobs1
    BY <2>2 DEF stream
  <2> QED
    BY <2>3, <2>4, <2>5, TryReadIs, <1>1
<1>4. \A f \in InPlay' : f \in InPlay \/ f = Unasked
  BY <1>2, <1>3, InPlayMoves
<1>5. service.tagged /\ ~crossed => Expects(c)'
  <2>1. OpOf(c)' = OpOf(c)
    BY <1>1, SameOp
  <2> QED
    BY <1>1, <2>1 DEF Numbers, Expects, StepOf
<1> QED
  BY <1>1, <1>3, <1>4, <1>5, NumbersStill

\* The calls are as they were.
LEMMA NumbersCalls ==
  ASSUME TypeOK, Numbers, service' = service, open' = open, writes' = writes, tag' = tag, crossed' = crossed,
         calls' = calls, \A f \in InPlay' : f \in InPlay \/ f = Unasked,
         \A i \in DOMAIN micro' : micro'[i].what # "written"
  PROVE  Numbers'
<1>1. service.tagged /\ ~crossed => \A d \in Call : Expects(d)'
  <2> SUFFICES ASSUME service.tagged, ~crossed, NEW d \in Call PROVE Expects(d)'
    OBVIOUS
  <2>1. OpOf(d)' = OpOf(d)
    BY SameOp
  <2> QED
    BY <2>1 DEF Numbers, Expects, StepOf
<1> QED
  BY <1>1, NumbersStep

LEMMA NumbersArrive == ASSUME TypeOK, Numbers, Arrive PROVE Numbers'
<1>1. /\ service' = service /\ open' = open /\ writes' = writes /\ tag' = tag /\ crossed' = crossed /\ calls' = calls
      /\ micro' = [j \in DOMAIN readers |-> Try(readers[j])]
  BY DEF Arrive
<1>2. \A i \in DOMAIN micro' : micro'[i].what # "written" /\ micro'[i].unit.frame = Unasked
  BY <1>1, TryIs, NoUnitIs
<1>3. MicroMoves
  BY <1>2 DEF MicroMoves
<1>4. TodoMoves /\ InboxMoves
  BY DEF Arrive, TodoMoves, InboxMoves
<1> QED
  BY <1>1, <1>2, <1>3, <1>4, InPlayMoves, NumbersCalls

\* Over usbmuxd no reply is matched.
LEMMA NumbersArriveMatched == ASSUME TypeOK, Numbers, ArriveMatched PROVE Numbers'
<1>1. service.framing = "matched" /\ service' = service
  BY ArriveMatchedIs DEF IsReply
<1>2. ~service.tagged
  BY <1>1, RowIs DEF TypeOK, RowOK
<1> QED
  BY <1>1, <1>2 DEF Numbers

LEMMA NumbersPush == ASSUME TypeOK, Numbers, Push PROVE Numbers'
<1>1. /\ service' = service /\ open' = open /\ writes' = writes /\ tag' = tag /\ crossed' = crossed /\ calls' = calls
      /\ micro = <<>> /\ micro' = <<>> /\ todo' = Append(todo, Unasked) /\ inbox' = inbox
  BY DEF Push, Quiet, stream
<1>2. TodoMoves /\ InboxMoves /\ MicroMoves
  BY <1>1 DEF TodoMoves, InboxMoves, MicroMoves
<1> QED
  BY <1>1, <1>2, InPlayMoves, NumbersCalls

LEMMA NumbersTimeOut ==
  ASSUME TypeOK, Places, Wanted, Holds, Numbers, NEW k \in DOMAIN readers, TimeOut(k)
  PROVE  Numbers'
<1>1. PICK c \in Call, n \in Calls :
           /\ micro = <<>> /\ c = readers[k].who /\ calls[c].phase # "idle" /\ Expired(k, c, n)
           /\ service' = service /\ open' = open /\ todo' = todo /\ inbox' = inbox /\ writes' = writes
           /\ tag' = tag /\ crossed' = crossed
  BY TimeOutIs DEF stream
<1>2. \A i \in DOMAIN micro' : micro'[i].what # "written" /\ micro'[i].unit.frame = Unasked
  <2>1. CASE micro' = <<>>
    BY <2>1
  <2>2. CASE micro' = <<Run(c, n.pc)>>
    BY <2>2, RunIs, NoUnitIs
  <2> QED
    BY <1>1, <2>1, <2>2 DEF Expired, Fails
<1>3. MicroMoves
  BY <1>2 DEF MicroMoves
<1>4. \A f \in InPlay' : f \in InPlay \/ f = Unasked
  BY <1>1, <1>3, InPlayRun
<1>5. CASE calls' = calls
  BY <1>1, <1>2, <1>4, <1>5, NumbersCalls
<1>6. CASE ~Orphan(readers[k]) /\ Moves(c, n) /\ Fails(c, n, <<>>) /\ n.tag = calls[c].tag
  <2>1. Active(c)
    BY <1>1, <1>6 DEF Orphan, Active
  <2>2. calls'[c] = n /\ \A d \in Call \ {c} : calls'[d] = calls[d]
    BY <1>1, <1>6, MovesOps
  <2>3. service.tagged => Expects(c)'
    BY <1>1, <1>6, <2>1, FailsEnds
  <2> QED
    BY <1>1, <1>2, <1>4, <1>6, <2>2, <2>3, NumbersStill
<1> QED
  BY <1>1, <1>5, <1>6 DEF Expired

LEMMA NumbersAbandon ==
  ASSUME TypeOK, Places, Wanted, Numbers, NEW c \in Call, Abandon(c)
  PROVE  Numbers'
<1>1. PICK n \in Calls :
           /\ micro = <<>> /\ calls[c].phase = "reading" /\ StepOf(c).do = "race"
           /\ Moves(c, n) /\ n.tag = calls[c].tag
           /\ micro' = <<>> \/ micro' = <<Run(c, n.pc)>>
           /\ service' = service /\ open' = open /\ todo' = todo /\ inbox' = inbox /\ writes' = writes
           /\ tag' = tag /\ crossed' = crossed
  BY AbandonIs DEF stream
<1>2. \A i \in DOMAIN micro' : micro'[i].what # "written" /\ micro'[i].unit.frame = Unasked
  BY <1>1, RunIs, NoUnitIs
<1>3. MicroMoves
  BY <1>2 DEF MicroMoves
<1>4. \A f \in InPlay' : f \in InPlay \/ f = Unasked
  BY <1>1, <1>3, InPlayRun
<1>5. ~service.tagged
  <2>1. calls[c].pc \in DOMAIN OpOf(c).steps
    BY <1>1 DEF TypeOK
  <2> QED
    BY <1>1, <2>1, TagsIs DEF StepOf
<1> QED
  BY <1>1, <1>5 DEF Numbers

LEMMA NumbersDrainEnds ==
  ASSUME TypeOK, Numbers, NEW c \in Call, DrainEnds(c)
  PROVE  Numbers'
<1>1. PICK n \in Calls :
           /\ micro = <<>> /\ micro' = micro /\ calls[c].phase = "draining"
           /\ Moves(c, n) /\ n.tag = calls[c].tag /\ n.phase \in {"ok", "failed"}
           /\ service' = service /\ open' = open /\ todo' = todo /\ inbox' = inbox /\ writes' = writes
           /\ tag' = tag /\ crossed' = crossed
  BY DrainEndsIs DEF stream
<1>2. calls'[c] = n /\ \A d \in Call \ {c} : calls'[d] = calls[d]
  BY <1>1, MovesOps
<1>3. Expects(c)'
  BY <1>1, <1>2 DEF Expects
<1>4. (\A f \in InPlay' : f \in InPlay) /\ \A i \in DOMAIN micro' : micro'[i].what # "written"
  BY <1>1 DEF InPlay
<1> QED
  BY <1>1, <1>2, <1>3, <1>4, NumbersStill

LEMMA NumbersStart ==
  ASSUME TypeOK, Numbers, NEW c \in Call, NEW o \in DOMAIN service.ops, Start(c, o)
  PROVE  Numbers'
<1> DEFINE pc == IF greeted THEN service.ops[o].first + 1 ELSE 1
<1>1. /\ calls[c] = Idle /\ micro = <<>> /\ micro' = <<Run(c, pc)>>
      /\ calls' = [calls EXCEPT ![c] = [@ EXCEPT !.op = o, !.pc = pc, !.phase = "run"]]
      /\ service' = service /\ open' = open /\ todo' = todo /\ inbox' = inbox /\ writes' = writes
      /\ tag' = tag /\ crossed' = crossed /\ pc <= Len(service.ops[o].steps)
  BY DEF Start, Quiet, TypeOK, stream
<1>2. /\ \A d \in Call \ {c} : calls'[d] = calls[d]
      /\ calls'[c].tag = calls[c].tag /\ calls'[c].op = o /\ calls'[c].pc = pc
  BY <1>1 DEF TypeOK, Idle
<1>3. \A i \in DOMAIN micro' : micro'[i].what # "written" /\ micro'[i].unit.frame = Unasked
  BY <1>1, RunIs, NoUnitIs
<1>4. MicroMoves
  BY <1>3 DEF MicroMoves
<1>5. \A f \in InPlay' : f \in InPlay \/ f = Unasked
  BY <1>1, <1>4, InPlayRun
<1>6. service.tagged => Expects(c)'
  <2> SUFFICES ASSUME service.tagged PROVE Expects(c)'
    OBVIOUS
  <2>1. RowOK(service) /\ service.ops \in Seq(Ops) /\ o \in Nat /\ o # 0 /\ service.ops[o] \in Ops
    <3>1. RowOK(service) /\ service.ops \in Seq(Ops)
      BY RowIs DEF TypeOK, Rows
    <3> QED
      BY <3>1, ElementOfSeq
  <2>2. Tags(service.ops[o]) /\ service.ops[o].steps \in Seq(Steps)
    BY <2>1 DEF RowOK, Ops
  <2>3. pc = 1 /\ DOMAIN service.ops[o].steps = 1..Len(service.ops[o].steps) /\ Len(service.ops[o].steps) \in Nat
    BY <2>2 DEF Tags
  <2>4. 1 \in DOMAIN service.ops[o].steps
    BY <1>1, <2>3
  <2>5. service.ops[o].steps[1].check # "tag"
    BY <2>2, <2>4 DEF Tags
  <2>6. StepOf(c)' = service.ops[o].steps[1]
    BY <1>1, <1>2, <2>1, <2>3 DEF StepOf, OpOf
  <2> QED
    BY <2>5, <2>6 DEF Expects
<1> QED
  BY <1>1, <1>2, <1>3, <1>5, <1>6, NumbersStill

LEMMA NumbersClose == ASSUME TypeOK, Places, Wanted, Numbers, Close PROVE Numbers'
<1>1. /\ micro = <<>> /\ micro' = <<>> /\ open' = FALSE /\ todo' = <<>> /\ writes' = <<>>
      /\ \A c \in Call : calls'[c] = calls[c] \/ Closed(c) \/ CutShort(c)
      /\ service' = service /\ inbox' = inbox /\ tag' = tag /\ crossed' = crossed
  BY CloseIs DEF stream
<1>2. TodoMoves /\ InboxMoves /\ MicroMoves
  BY <1>1 DEF TodoMoves, InboxMoves, MicroMoves
<1>3. \A f \in InPlay' : f \in InPlay \/ f = Unasked
  BY <1>2, InPlayMoves
<1>4. \A d \in Call : calls'[d].tag = calls[d].tag /\ (calls'[d] = calls[d] \/ calls'[d].phase \in {"ok", "failed"})
  <2> TAKE d \in Call
  <2>1. calls[d] \in Calls
    BY DEF TypeOK
  <2> QED
    BY <1>1, <2>1 DEF Closed, CutShort, Calls
<1>5. service.tagged /\ ~crossed => \A d \in Call : Expects(d)'
  <2> SUFFICES ASSUME service.tagged, ~crossed, NEW d \in Call PROVE Expects(d)'
    OBVIOUS
  <2>1. OpOf(d)' = OpOf(d)
    BY CloseOps DEF SameOps
  <2> QED
    BY <1>4, <2>1 DEF Numbers, Expects, StepOf
<1> QED
  BY <1>1, <1>3, <1>4, <1>5, NumbersStep

\* The request of the write that is called back carries the tag before.
LEMMA NumbersWritten == ASSUME TypeOK, Places, Numbers, Written PROVE Numbers'
<1> SUFFICES ASSUME service.tagged, ~crossed PROVE Numbers'
  BY DEF Numbers, Written
<1>1. PICK k \in 1..Len(writes) :
       /\ writes' = SubSeq(writes, k + 1, Len(writes))
       /\ micro' = [j \in 1..k |-> Job("written", writes[j], calls[writes[j]].pc, NoUnit)]
       /\ tag' = tag + k
  BY DEF Written
<1>2. /\ service' = service /\ open' = open /\ todo' = todo /\ inbox' = inbox /\ calls' = calls
      /\ crossed' = crossed
  BY DEF Written, stream
<1>3. writes \in Seq(Call) /\ Len(writes) = 1 /\ k = 1 /\ Len(writes) \in Nat /\ writes # <<>>
      /\ Head(writes) = writes[1] /\ writes[1] \in Call
  <2>1. writes \in Seq(Call) /\ Len(writes) \in Nat /\ Len(writes) <= 1
    BY DEF TypeOK, Numbers
  <2> DEFINE L == Len(writes)
  <2>0. L \in Nat /\ L <= 1 /\ k \in 1..L
    BY <2>1
  <2> HIDE DEF L
  <2>a. L = 1 /\ k = 1
    BY <2>0
  <2>2. Len(writes) = 1 /\ k = 1
    BY <2>a DEF L
  <2>b. DOMAIN writes = 1..1
    BY <2>1, <2>2
  <2>3. writes # <<>> /\ 1 \in DOMAIN writes
    BY <2>b
  <2> QED
    BY <2>1, <2>2, <2>3, ElementOfSeq, TailElems
<1>4. writes' \in Seq(Call) /\ Len(writes') = 0 /\ writes' = <<>>
  <2>1. writes' \in Seq(Call) /\ Len(writes') = Len(writes) - k
    BY <1>1, <1>3, RestIs
  <2> QED
    BY <1>3, <2>1
<1>5. open
  BY <1>3 DEF Places
<1>6. \A i \in DOMAIN micro' : micro'[i].who = writes[1] /\ micro'[i].unit.frame = Unasked
  <2>1. \A i \in DOMAIN micro' : i = 1 /\ micro'[i] = Job("written", writes[i], calls[writes[i]].pc, NoUnit)
    BY <1>1, <1>3
  <2> QED
    BY <2>1, NoUnitIs DEF Job
<1>7. \A f \in InPlay' : f \in InPlay \/ f = Unasked
  <2>1. MicroMoves
    BY <1>6 DEF MicroMoves
  <2> QED
    BY <1>2, <2>1, InPlayRun
<1>8. tag \in Nat /\ tag >= 1 /\ tag' = tag + 1 /\ (\A f \in InPlay : f.tag \in Nat) /\ \A d \in Call : calls[d].tag \in Nat
  BY <1>1, <1>3, FrameType DEF TypeOK, Frames, Calls
<1>9. /\ \A f \in InPlay : /\ f.tag <= tag /\ (f.tag = 0 <=> f.for = None)
                           /\ f.tag = tag => writes[1] = f.for
      /\ \A d \in Call :
           calls[d].tag # 0 => calls[d].tag < tag /\ \A f \in InPlay : f.tag = calls[d].tag => f.for = d
      /\ \A d \in Call : Expects(d)
  BY <1>3, <1>5 DEF Numbers, Expects
<1>10. \A d \in Call : Expects(d)'
  <2> TAKE d \in Call
  <2>1. OpOf(d)' = OpOf(d)
    BY <1>2, SameOp
  <2> QED
    BY <1>2, <1>9, <2>1 DEF Expects, StepOf
<1>11. \A f \in InPlay' : f.tag <= tag /\ (f.tag = 0 <=> f.for = None) /\ (f.tag = tag => f.for = writes[1])
                          /\ f.tag \in Nat
  BY <1>7, <1>8, <1>9, UnaskedIs
<1>12. \A f \in InPlay' : /\ f.tag <= tag' /\ (f.tag = 0 <=> f.for = None)
                          /\ f.tag # tag'
  BY <1>8, <1>11
<1>13. \A i \in DOMAIN micro' : tag' > 1 /\ \A f \in InPlay' : f.tag = tag' - 1 => f.for = micro'[i].who
  BY <1>6, <1>8, <1>11
<1>14. \A d \in Call : calls'[d].tag # 0 =>
         calls'[d].tag < tag' /\ \A f \in InPlay' : f.tag = calls'[d].tag => f.for = d
  BY <1>2, <1>7, <1>8, <1>9, UnaskedIs
<1>15. Len(writes') <= 1
  BY <1>4
<1> QED
  BY <1>10, <1>12, <1>13, <1>14, <1>15 DEF Numbers, Expects

LEMMA NumbersInit == Init => Numbers
<1> SUFFICES ASSUME Init PROVE Numbers
  OBVIOUS
<1>1. \A f \in InPlay : f = Unasked
  BY DEF Init, InPlay
<1>2. writes = <<>> /\ micro = <<>> /\ tag = 1 /\ \A c \in Call : calls[c] = Idle
  BY DEF Init
<1> QED
  BY <1>1, <1>2, UnaskedIs DEF Numbers, Idle

LEMMA NumbersKept == ASSUME Base, Numbers, [Next]_vars PROVE Numbers'
<1> USE DEF Base
<1>1. CASE UNCHANGED vars
  <2>1. /\ service' = service /\ open' = open /\ todo' = todo /\ inbox' = inbox /\ writes' = writes
        /\ micro' = micro /\ calls' = calls /\ tag' = tag /\ crossed' = crossed
    BY <1>1 DEF vars, stream
  <2> QED
    BY <2>1 DEF Numbers, InPlay, StepOf, OpOf
<1>2. CASE Micro
  BY <1>2, NumbersDoStep, NumbersSent, NumbersTryRead, NumbersGot DEF Micro
<1>3. CASE Written \/ Arrive \/ ArriveMatched \/ Push \/ Close
  BY <1>3, NumbersWritten, NumbersArrive, NumbersArriveMatched, NumbersPush, NumbersClose
<1>4. ASSUME NEW c \in Call, Abandon(c) \/ DrainEnds(c) \/ \E o \in DOMAIN service.ops : Start(c, o) PROVE Numbers'
  BY <1>4, NumbersDrainEnds, NumbersAbandon, NumbersStart
<1>5. ASSUME NEW k \in DOMAIN readers, TimeOut(k) PROVE Numbers'
  BY <1>5, NumbersTimeOut
<1> QED
  BY <1>1, <1>2, <1>3, <1>4, <1>5 DEF Next

------------------------------------------------------------------------------
StolenOf(c) ==
  /\ calls[c].stole =>
       /\ loose \/ OpOf(c).loop # 0
       /\ service.tagged => crossed
       /\ service.framing = "matched" => \E k \in DOMAIN OpOf(c).steps : OpOf(c).steps[k].check = "ack"
  /\ calls[c].phase = "ok" /\ OpOf(c).loop # 0 => loose

LEMMA StolenParts == Stolen <=> \A c \in Call : StolenOf(c)
BY DEF Stolen, StolenOf

LEMMA StolenStep ==
  ASSUME Stolen, service' = service, loose => loose', crossed => crossed', NEW c \in Call,
         \A d \in Call \ {c} : calls'[d] = calls[d], StolenOf(c)'
  PROVE  Stolen'
<1>1. \A d \in Call : StolenOf(d)'
  <2> TAKE d \in Call
  <2>1. CASE d # c
    <3>1. OpOf(d)' = OpOf(d) /\ calls'[d] = calls[d] /\ service' = service
      BY <2>1, SameOp
    <3>2. StolenOf(d)
      BY StolenParts
    <3> QED
      BY <3>1, <3>2 DEF StolenOf
  <2> QED
    BY <2>1
<1> QED
  BY <1>1 DEF Stolen, StolenOf

\* The call has taken nothing more, and has not succeeded.
LEMMA StolenSame ==
  ASSUME Stolen, service' = service, loose => loose', crossed => crossed', NEW c \in Call,
         \A d \in Call \ {c} : calls'[d] = calls[d], OpOf(c)' = OpOf(c),
         calls'[c].stole => calls[c].stole, calls'[c].phase = "ok" /\ OpOf(c).loop # 0 => loose'
  PROVE  Stolen'
<1>1. StolenOf(c)
  BY StolenParts
<1>2. StolenOf(c)'
  BY <1>1 DEF StolenOf
<1> QED
  BY <1>2, StolenStep

LEMMA StolenCalls ==
  ASSUME Stolen, service' = service, loose => loose', crossed => crossed', calls' = calls
  PROVE  Stolen'
<1>1. service' = service /\ \A d \in Call : OpOf(d)' = OpOf(d)
  BY SameOp
<1> QED
  BY <1>1 DEF Stolen

\* A reply that is not its own is taken only where the reads tell nothing apart.
LEMMA TakenIs ==
  ASSUME Base, Numbers, Solo, micro # <<>>, NEW c \in Call, c = Head(micro).who, Head(micro).what = "got",
         Head(micro).unit.part # "head", Awaits(c),
         Got1(c).for # c, StepOf(c).do = "read", StepOf(c).check # "push",
         Head(micro).unit.part # "raw", Takes(c, Got1(c)) = "accept"
  PROVE  /\ loose \/ OpOf(c).loop # 0
         /\ service.tagged => crossed
         /\ service.framing = "matched" => \E k \in DOMAIN OpOf(c).steps : OpOf(c).steps[k].check = "ack"
<1> USE DEF Base
<1>1. micro \in Seq(Jobs) /\ 1 \in DOMAIN micro /\ Head(micro) = micro[1] /\ calls[c].phase = "reading"
      /\ Head(micro).at = calls[c].pc
  <2>1. micro \in Seq(Jobs)
    BY DEF TypeOK
  <2> QED
    BY <2>1, TailElems DEF Awaits
<1>2. /\ calls[c].op \in DOMAIN service.ops /\ OpOf(c) = service.ops[calls[c].op] /\ RowOK(service)
      /\ calls[c].pc \in DOMAIN OpOf(c).steps /\ StepOf(c) = OpOf(c).steps[calls[c].pc]
  BY <1>1, OpIs DEF TypeOK
<1>3. ASSUME ~loose, OpOf(c).loop = 0 PROVE FALSE
  <2>1. Owed(c)
    BY <1>1, <1>3 DEF Solo, Active
  <2>2. Taken
    BY <1>1 DEF Taken
  <2>3. Mine(c, Got1(c))
    BY <1>1, <1>3, <2>1, <2>2 DEF Owed, Got1
  <2>4. OpOf(c).first # 0 /\ calls[c].pc = 1
    BY <2>3 DEF Mine
  <2>5. OpOf(c).steps[1].check = "push"
    BY <1>2, <2>4 DEF RowOK, Greets
  <2> QED
    BY <1>2, <2>4, <2>5
<1>4. ASSUME service.tagged, ~crossed PROVE FALSE
  <2>1. StepOf(c).check = "tag"
    BY <1>1, <1>2, <1>4, TagsIs
  <2>2. Got1(c).tag = calls[c].tag
    BY <2>1 DEF Takes
  <2>3. calls[c].tag # 0
    BY <1>1, <1>4, <2>1 DEF Numbers
  <2>4. Got1(c) \in InPlay
    BY <1>1 DEF InPlay, Got1
  <2> QED
    BY <1>4, <2>2, <2>3, <2>4 DEF Numbers
<1>5. ASSUME service.framing = "matched" PROVE StepOf(c).check = "ack"
  <2>1. GoodGot(micro[1])
    BY <1>1, WantedParts
  <2>2. micro[1].unit.part = "frame"
    BY <1>1, <1>5, <2>1 DEF GoodGot, Got1
  <2>3. Wants(StepOf(c)) = "frame"
    BY <1>1, <1>2, <2>1, <2>2 DEF GoodGot
  <2>4. ~WantsReply(service, StepOf(c))
    BY <1>5, <2>3 DEF Wants
  <2> QED
    BY <1>5, <2>4 DEF WantsReply
<1> QED
  BY <1>2, <1>3, <1>4, <1>5

\* Nothing makes a stream of calls that was disturbed one that was not.
LEMMA GoesLoose ==
  ASSUME NEW c, NEW n, NEW rest, Goes(c, n, rest)
  PROVE  (loose => loose') /\ (n.phase = "ok" => OpOf(c).loop = 0)
<1>1. CASE n.phase = "run" /\ loose' = loose
  BY <1>1
<1>2. CASE OpOf(c).loop = 0 /\ loose' = (loose \/ ~OpOf(c).neat)
  BY <1>2
<1> QED
  BY <1>1, <1>2 DEF Goes

LEMMA StolenGot == ASSUME Base, Numbers, Solo, Stolen, Got PROVE Stolen'
<1> USE DEF Base
<1>1. PICK c \in Call :
           /\ micro # <<>> /\ c = Head(micro).who /\ Head(micro).what = "got" /\ calls[c].phase # "idle"
           /\ \/ Headed(c) \/ Strayed(c) \/ Repeated(c)
              \/ \E n \in Calls : Accepted(c, n) \/ Threw(c, n)
           /\ service' = service /\ crossed' = crossed
  BY GotIs
<1>2. CASE Headed(c) \/ Strayed(c) \/ Repeated(c)
  BY <1>1, <1>2, StolenCalls DEF Headed, Strayed, Repeated
<1>3. ASSUME NEW n \in Calls, Accepted(c, n) PROVE Stolen'
  <2>1. Moves(c, n) /\ Goes(c, n, Tail(micro))
    BY <1>3 DEF Accepted
  <2>2. (\A d \in Call \ {c} : calls'[d] = calls[d]) /\ OpOf(c)' = OpOf(c) /\ calls'[c] = n /\ service' = service
    BY <1>1, <2>1, MovesOps DEF SameOps
  <2>3. (loose => loose') /\ (n.phase = "ok" => OpOf(c).loop = 0)
    BY <2>1, GoesLoose
  <2>4. CASE n.stole /\ ~calls[c].stole
    <3>1. /\ loose \/ OpOf(c).loop # 0
          /\ service.tagged => crossed
          /\ service.framing = "matched" => \E k \in DOMAIN OpOf(c).steps : OpOf(c).steps[k].check = "ack"
      BY <1>1, <1>3, <2>4, TakenIs DEF Accepted
    <3>2. StolenOf(c)'
      BY <1>1, <2>2, <2>3, <3>1 DEF StolenOf
    <3> QED
      BY <1>1, <2>2, <2>3, <3>2, StolenStep
  <2>5. CASE ~(n.stole /\ ~calls[c].stole)
    BY <1>1, <2>2, <2>3, <2>5, StolenSame
  <2> QED
    BY <2>4, <2>5
<1>4. ASSUME NEW n \in Calls, Threw(c, n) PROVE Stolen'
  <2>1. Moves(c, n) /\ n.phase # "ok" /\ n.stole = calls[c].stole /\ (loose => loose')
    BY <1>4 DEF Threw, Fails
  <2>2. (\A d \in Call \ {c} : calls'[d] = calls[d]) /\ OpOf(c)' = OpOf(c) /\ calls'[c] = n
    BY <1>1, <2>1, MovesOps DEF SameOps
  <2> QED
    BY <1>1, <2>1, <2>2, StolenSame
<1> QED
  BY <1>1, <1>2, <1>3, <1>4

LEMMA StolenKept == ASSUME Base, Numbers, Solo, Stolen, [Next]_vars PROVE Stolen'
<1> USE DEF Base
<1>1. CASE UNCHANGED vars \/ TryRead \/ Written \/ Arrive \/ ArriveMatched \/ Push
  <2>1. calls' = calls /\ service' = service /\ crossed' = crossed
    BY <1>1 DEF vars, TryRead, Written, Arrive, ArriveMatched, Push
  <2>2. CASE loose' = loose
    BY <2>1, <2>2, StolenCalls
  <2>3. CASE Push \/ ArriveMatched
    <3>1. loose => loose'
      BY <2>3 DEF Push, ArriveMatched
    <3> QED
      BY <2>1, <3>1, StolenCalls
  <2> QED
    BY <1>1, <2>2, <2>3 DEF vars, TryRead, Written, Arrive
<1>2. CASE DoStep
  <2>1. PICK c \in Call, n \in Calls :
           /\ calls[c].phase = "run" /\ Moves(c, n) /\ n.stole = calls[c].stole
           /\ Wrote(c, n) \/ Refused(c, n) \/ Asked(c, n) \/ Drains(c, n)
           /\ service' = service /\ loose' = loose
    BY <1>2, DoStepIs
  <2>a. n.phase # "ok"
    BY <2>1 DEF Wrote, Refused, Asked, Drains, Fails
  <2>b. crossed' = (crossed \/ (service.tagged /\ writes # <<>>)) \/ crossed' = crossed
    BY <2>1 DEF Wrote, Refused, Asked, Drains
  <2>c. crossed => crossed'
    BY <2>b
  <2>2. n.phase # "ok" /\ (crossed => crossed')
    BY <2>a, <2>c
  <2>3. (\A d \in Call \ {c} : calls'[d] = calls[d]) /\ OpOf(c)' = OpOf(c) /\ calls'[c] = n
    BY <2>1, MovesOps DEF SameOps
  <2> QED
    BY <2>1, <2>2, <2>3, StolenSame
<1>3. CASE Sent
  <2>1. PICK c \in Call, n \in Calls :
           /\ calls[c].phase = "sent" /\ Moves(c, n) /\ Goes(c, n, Tail(micro)) /\ n.stole = calls[c].stole
           /\ service' = service /\ crossed' = crossed
    BY <1>3, SentIs
  <2>2. (n.phase = "ok" => OpOf(c).loop = 0) /\ (loose => loose')
    BY <2>1, GoesLoose
  <2>3. (\A d \in Call \ {c} : calls'[d] = calls[d]) /\ OpOf(c)' = OpOf(c) /\ calls'[c] = n
    BY <2>1, MovesOps DEF SameOps
  <2> QED
    BY <2>1, <2>2, <2>3, StolenSame
<1>4. CASE Got
  BY <1>4, StolenGot
<1>5. CASE Close
  <2>1. /\ service' = service /\ loose' = TRUE /\ crossed' = crossed
        /\ \A c \in Call : calls'[c] = calls[c] \/ Closed(c) \/ CutShort(c)
    BY <1>5, CloseIs
  <2>2. \A d \in Call : calls'[d].stole = calls[d].stole
    <3> TAKE d \in Call
    <3>1. calls[d] \in Calls
      BY DEF TypeOK
    <3>2. \/ calls'[d] = calls[d] \/ calls'[d] = [calls[d] EXCEPT !.phase = "ok"]
          \/ calls'[d] = [calls[d] EXCEPT !.phase = "failed"]
      BY <2>1 DEF Closed, CutShort
    <3> QED
      BY <3>1, <3>2 DEF Calls
  <2>3. service' = service /\ \A d \in Call : OpOf(d)' = OpOf(d)
    BY <1>5, <2>1, CloseOps DEF SameOps
  <2> QED
    BY <2>1, <2>2, <2>3 DEF Stolen
<1>6. ASSUME NEW c \in Call, Abandon(c) PROVE Stolen'
  <2>1. PICK n \in Calls :
           /\ calls[c].phase = "reading" /\ Moves(c, n) /\ n.stole = calls[c].stole
           /\ service' = service /\ crossed' = crossed /\ loose' = TRUE
    BY <1>6, AbandonIs
  <2>2. (\A d \in Call \ {c} : calls'[d] = calls[d]) /\ OpOf(c)' = OpOf(c) /\ calls'[c] = n
    BY <2>1, MovesOps DEF SameOps
  <2> QED
    BY <2>1, <2>2, StolenSame
<1>7. ASSUME NEW c \in Call, NEW o \in DOMAIN service.ops, Start(c, o) PROVE Stolen'
  <2>1. /\ calls[c] = Idle /\ service' = service /\ (loose => loose') /\ crossed' = crossed
        /\ calls' = [calls EXCEPT ![c] = [@ EXCEPT !.op = o, !.pc = IF greeted THEN service.ops[o].first + 1 ELSE 1, !.phase = "run"]]
    BY <1>7 DEF Start, TypeOK
  <2>2. (\A d \in Call \ {c} : calls'[d] = calls[d]) /\ calls'[c].stole = FALSE /\ calls'[c].phase = "run"
    BY <2>1 DEF TypeOK, Idle
  <2>3. StolenOf(c)'
    BY <2>2 DEF StolenOf
  <2> QED
    BY <2>1, <2>2, <2>3, StolenStep
<1>8. ASSUME NEW k \in DOMAIN readers, TimeOut(k) PROVE Stolen'
  <2>1. PICK c \in Call, n \in Calls :
           /\ calls[c].phase # "idle" /\ Expired(k, c, n)
           /\ service' = service /\ loose' = TRUE /\ crossed' = crossed
    BY <1>8, TimeOutIs
  <2>2. CASE calls' = calls
    BY <2>1, <2>2, StolenCalls
  <2>3. CASE Moves(c, n) /\ Fails(c, n, <<>>) /\ n.stole = calls[c].stole
    <3>1. (\A d \in Call \ {c} : calls'[d] = calls[d]) /\ OpOf(c)' = OpOf(c) /\ calls'[c] = n
      BY <2>1, <2>3, MovesOps DEF SameOps
    <3> QED
      BY <2>1, <2>3, <3>1, StolenSame
  <2> QED
    BY <2>1, <2>2, <2>3 DEF Expired
<1>9. ASSUME NEW c \in Call, DrainEnds(c) PROVE Stolen'
  <2>1. PICK n \in Calls :
           /\ calls[c].phase = "draining" /\ Moves(c, n) /\ n.stole = calls[c].stole
           /\ service' = service /\ crossed' = crossed /\ loose' = TRUE
    BY <1>9, DrainEndsIs
  <2>2. (\A d \in Call \ {c} : calls'[d] = calls[d]) /\ OpOf(c)' = OpOf(c) /\ calls'[c] = n
    BY <2>1, MovesOps DEF SameOps
  <2> QED
    BY <2>1, <2>2, StolenSame
<1> QED
  BY <1>1, <1>2, <1>3, <1>4, <1>5, <1>6, <1>7, <1>8, <1>9 DEF Next, Micro

LEMMA StolenInit == Init => Stolen
BY DEF Init, Stolen, Idle

------------------------------------------------------------------------------
\* What frames say, of a part of them.
LEMMA ToldIs ==
  ASSUME NEW s \in Seq(Frames)
  PROVE  /\ Told(s) \in Seq(Says) /\ Len(Told(s)) = Len(s) /\ DOMAIN Told(s) = DOMAIN s
         /\ \A k \in DOMAIN s : Told(s)[k] = s[k].says
         /\ Told(s) = <<>> <=> s = <<>>
<1> DEFINE L == Len(s)
<1>1. L \in Nat /\ DOMAIN s = 1..L /\ \A k \in 1..L : s[k] \in Frames
  BY ElementOfSeq
<1>2. Told(s) = [k \in 1..L |-> s[k].says]
  BY <1>1 DEF Told
<1>3. \A k \in 1..L : s[k].says \in Says
  BY <1>1 DEF Frames
<1>4. (L = 0 <=> s = <<>>)
  BY <1>1
<1> HIDE DEF L
<1>5. Told(s) \in [1..L -> Says]
  BY <1>2, <1>3
<1> DEFINE t == Told(s)
<1> HIDE DEF t
<1>6. t \in [1..L -> Says]
  BY <1>5 DEF t
<1>7. t \in Seq(Says)
  BY <1>1, <1>6, SeqDef
<1>8. Len(t) = L /\ DOMAIN t = 1..L
  BY <1>1, <1>6, <1>7, LenProperties
<1>9. (t = <<>>) <=> L = 0
  BY <1>7, <1>8, EmptySeq
<1>10. \A k \in 1..L : t[k] = s[k].says
  BY <1>2 DEF t
<1> QED
  BY <1>1, <1>4, <1>7, <1>8, <1>9, <1>10 DEF t, L

LEMMA ToldTail ==
  ASSUME NEW s \in Seq(Frames), s # <<>>
  PROVE  /\ Told(s) # <<>> /\ Head(Told(s)) = Head(s).says
         /\ Tail(s) \in Seq(Frames) /\ Tail(Told(s)) = Told(Tail(s))
<1>1. /\ Told(s) \in Seq(Says) /\ Len(Told(s)) = Len(s) /\ Told(s) # <<>>
      /\ \A k \in DOMAIN s : Told(s)[k] = s[k].says
  BY ToldIs
<1>2. /\ Len(s) \in Nat /\ Len(s) >= 1 /\ Tail(s) \in Seq(Frames) /\ Len(Tail(s)) = Len(s) - 1 /\ Head(s) = s[1]
      /\ \A i \in 1..(Len(s) - 1) : Tail(s)[i] = s[i + 1]
  BY TailIs
<1> DEFINE t == Told(s)
           a == Tail(t)
           b == Told(Tail(s))
<1>3. /\ Head(t) = t[1] /\ a \in Seq(Says) /\ Len(a) = Len(s) - 1
      /\ \A i \in 1..(Len(s) - 1) : a[i] = t[i + 1]
  BY <1>1, TailIs
<1>4. DOMAIN s = 1..Len(s) /\ DOMAIN Tail(s) = 1..(Len(s) - 1)
  BY <1>2
<1>5. b \in Seq(Says) /\ Len(b) = Len(s) - 1 /\ \A i \in 1..(Len(s) - 1) : b[i] = Tail(s)[i].says
  BY <1>2, <1>4, ToldIs
<1>6. \A i \in 1..(Len(s) - 1) : a[i] = b[i]
  <2> TAKE i \in 1..(Len(s) - 1)
  <2>1. i + 1 \in DOMAIN s
    BY <1>2, <1>4
  <2> QED
    BY <1>1, <1>2, <1>3, <1>5, <2>1
<1>7. Head(t) = Head(s).says
  <2>1. 1 \in DOMAIN s
    BY <1>2, <1>4
  <2> QED
    BY <1>1, <1>2, <1>3, <2>1
<1> HIDE DEF a, b
<1>8. a = b
  BY <1>2, <1>3, <1>5, <1>6, SeqEqual
<1> QED
  BY <1>1, <1>2, <1>7, <1>8 DEF a, b

LEMMA ToldJoin ==
  ASSUME NEW s \in Seq(Frames), NEW t \in Seq(Frames)
  PROVE  s \o t \in Seq(Frames) /\ Told(s \o t) = Told(s) \o Told(t)
<1> DEFINE a == Told(s \o t)
           b == Told(s) \o Told(t)
<1>1. /\ s \o t \in Seq(Frames) /\ Len(s) \in Nat /\ Len(t) \in Nat /\ Len(s \o t) = Len(s) + Len(t)
      /\ \A i \in 1..(Len(s) + Len(t)) : (s \o t)[i] = IF i <= Len(s) THEN s[i] ELSE t[i - Len(s)]
  BY ConcatProperties
<1>2. DOMAIN s = 1..Len(s) /\ DOMAIN t = 1..Len(t) /\ DOMAIN (s \o t) = 1..(Len(s) + Len(t))
  BY <1>1
<1>3. a \in Seq(Says) /\ Len(a) = Len(s) + Len(t) /\ \A i \in 1..(Len(s) + Len(t)) : a[i] = (s \o t)[i].says
  BY <1>1, <1>2, ToldIs
<1>4. /\ Told(s) \in Seq(Says) /\ Len(Told(s)) = Len(s) /\ \A i \in 1..Len(s) : Told(s)[i] = s[i].says
      /\ Told(t) \in Seq(Says) /\ Len(Told(t)) = Len(t) /\ \A i \in 1..Len(t) : Told(t)[i] = t[i].says
  BY <1>2, ToldIs
<1>5. /\ b \in Seq(Says) /\ Len(b) = Len(s) + Len(t)
      /\ \A i \in 1..(Len(s) + Len(t)) : b[i] = IF i <= Len(s) THEN Told(s)[i] ELSE Told(t)[i - Len(s)]
  <2> DEFINE p == Told(s)
             q == Told(t)
  <2> HIDE DEF p, q
  <2>1. p \in Seq(Says) /\ q \in Seq(Says) /\ Len(p) = Len(s) /\ Len(q) = Len(t)
    BY <1>4 DEF p, q
  <2>2. /\ p \o q \in Seq(Says) /\ Len(p \o q) = Len(p) + Len(q)
        /\ \A i \in 1..(Len(p) + Len(q)) : (p \o q)[i] = IF i <= Len(p) THEN p[i] ELSE q[i - Len(p)]
    BY <2>1, ConcatProperties
  <2> QED
    BY <2>1, <2>2 DEF p, q
<1>6. \A i \in 1..(Len(s) + Len(t)) : a[i] = b[i]
  <2> TAKE i \in 1..(Len(s) + Len(t))
  <2>1. (i \in 1..Len(s) /\ i <= Len(s)) \/ (i - Len(s) \in 1..Len(t) /\ ~(i <= Len(s)))
    BY <1>1
  <2> QED
    BY <1>1, <1>3, <1>4, <1>5, <2>1
<1> HIDE DEF a, b
<1>7. a = b
  BY <1>1, <1>3, <1>5, <1>6, SeqEqual
<1> QED
  BY <1>1, <1>7 DEF a, b

LEMMA FlowIs ==
  ASSUME TypeOK
  PROVE  /\ Flow \in Seq(Frames) /\ Len(Flow) \in Nat /\ DOMAIN Flow = 1..Len(Flow)
         /\ Flow = <<>> <=> inbox = <<>> /\ todo = <<>>
         /\ \A k \in DOMAIN Flow : Flow[k] \in Frames
<1>1. inbox \in Seq(Frames) /\ todo \in Seq(Frames)
  BY DEF TypeOK
<1> DEFINE a == inbox
           b == todo
           c == a \o b
<1> HIDE DEF a, b
<1>2. c \in Seq(Frames) /\ Len(c) = Len(a) + Len(b) /\ Len(a) \in Nat /\ Len(b) \in Nat
  BY <1>1, ConcatProperties DEF a, b
<1>3. (Len(a) = 0 <=> a = <<>>) /\ (Len(b) = 0 <=> b = <<>>)
  BY <1>1 DEF a, b
<1> HIDE DEF c
<1>4. Len(c) = 0 <=> c = <<>>
  BY <1>2
<1>5. c = <<>> <=> a = <<>> /\ b = <<>>
  BY <1>2, <1>3, <1>4
<1>6. Len(c) \in Nat /\ DOMAIN c = 1..Len(c) /\ \A k \in DOMAIN c : c[k] \in Frames
  BY <1>2, ElementOfSeq
<1> QED
  BY <1>2, <1>5, <1>6 DEF Flow, a, b, c

\* A frame that arrives stays where it is.
LEMMA FlowArrives ==
  ASSUME TypeOK, todo # <<>>, inbox' = Append(inbox, Head(todo)), todo' = Tail(todo)
  PROVE  Flow' = Flow
<1>1. inbox \in Seq(Frames) /\ todo \in Seq(Frames)
  BY DEF TypeOK
<1>2. Head(todo) \in Frames /\ Tail(todo) \in Seq(Frames)
  BY <1>1, TailIs
<1> DEFINE h == Head(todo)
           t == Tail(todo)
<1> HIDE DEF h, t
<1>3. <<h>> \in Seq(Frames) /\ t \in Seq(Frames)
  BY <1>2 DEF h, t
<1>4. todo = <<h>> \o t
  <2>1. /\ Len(todo) \in Nat /\ Len(todo) >= 1 /\ Len(t) = Len(todo) - 1 /\ h = todo[1]
        /\ \A i \in 1..(Len(todo) - 1) : t[i] = todo[i + 1]
    BY <1>1, TailIs DEF h, t
  <2>2. /\ <<h>> \o t \in Seq(Frames) /\ Len(<<h>> \o t) = Len(todo)
        /\ \A i \in 1..Len(todo) : (<<h>> \o t)[i] = IF i <= 1 THEN <<h>>[i] ELSE t[i - 1]
    BY <1>3, <2>1, ConcatProperties
  <2> DEFINE b == <<h>> \o t
  <2> HIDE DEF b
  <2>3. \A i \in 1..Len(todo) : b[i] = todo[i]
    <3> TAKE i \in 1..Len(todo)
    <3>1. CASE i = 1
      BY <2>1, <2>2, <3>1 DEF b
    <3>2. CASE i # 1
      <4>1. i - 1 \in 1..(Len(todo) - 1) /\ ~(i <= 1) /\ (i - 1) + 1 = i
        BY <2>1, <3>2
      <4>2. b[i] = t[i - 1]
        BY <2>1, <2>2, <4>1 DEF b
      <4> QED
        BY <2>1, <4>1, <4>2
    <3> QED
      BY <3>1, <3>2
  <2>4. b = todo
    BY <1>1, <2>1, <2>2, <2>3, SeqEqual DEF b
  <2> QED
    BY <2>4 DEF b
<1>5. Append(inbox, h) = inbox \o <<h>>
  BY <1>1, <1>2, AppendIsConcat DEF h
<1>6. (inbox \o <<h>>) \o t = inbox \o (<<h>> \o t)
  BY <1>1, <1>3, ConcatAssociative
<1> QED
  BY <1>4, <1>5, <1>6 DEF Flow, h, t

\* The next frame is taken, from what has arrived or as it arrives.
LEMMA FlowTakes ==
  ASSUME TypeOK, NEW f,
         \/ inbox # <<>> /\ f = Head(inbox) /\ inbox' = Tail(inbox) /\ todo' = todo
         \/ inbox = <<>> /\ todo # <<>> /\ f = Head(todo) /\ todo' = Tail(todo) /\ inbox' = <<>>
  PROVE  Flow # <<>> /\ Head(Flow) = f /\ Flow' = Tail(Flow)
<1>1. inbox \in Seq(Frames) /\ todo \in Seq(Frames)
  BY DEF TypeOK
<1>2. \A s \in Seq(Frames) : <<>> \o s = s
  BY ConcatEmptySeq
<1>3. CASE inbox = <<>> /\ todo # <<>> /\ f = Head(todo) /\ todo' = Tail(todo) /\ inbox' = <<>>
  <2>1. Tail(todo) \in Seq(Frames)
    BY <1>1, <1>3
  <2>2. Flow = todo /\ Flow' = Tail(todo)
    BY <1>1, <1>2, <1>3, <2>1 DEF Flow
  <2> QED
    BY <1>3, <2>2
<1>4. CASE inbox # <<>> /\ f = Head(inbox) /\ inbox' = Tail(inbox) /\ todo' = todo
  <2>1. Flow # <<>> /\ Flow \in Seq(Frames)
    BY <1>4, FlowIs
  <2>2. /\ Len(inbox) \in Nat /\ Len(inbox) >= 1 /\ Tail(inbox) \in Seq(Frames) /\ Len(Tail(inbox)) = Len(inbox) - 1
        /\ Head(inbox) = inbox[1] /\ \A i \in 1..(Len(inbox) - 1) : Tail(inbox)[i] = inbox[i + 1]
    BY <1>1, <1>4, TailIs
  <2> DEFINE L == Len(inbox)
             M == Len(todo)
             w == Tail(inbox)
             x == inbox \o todo
             y == w \o todo
             z == Tail(x)
  <2> HIDE DEF w
  <2>3. /\ x \in Seq(Frames) /\ Len(x) = L + M /\ M \in Nat
        /\ \A i \in 1..(L + M) : x[i] = IF i <= L THEN inbox[i] ELSE todo[i - L]
    BY <1>1, ConcatProperties
  <2>4. /\ y \in Seq(Frames) /\ Len(y) = (L - 1) + M
        /\ \A i \in 1..((L - 1) + M) : y[i] = IF i <= L - 1 THEN w[i] ELSE todo[i - (L - 1)]
    <3>1. w \in Seq(Frames) /\ Len(w) = L - 1
      BY <2>2 DEF w
    <3>2. /\ w \o todo \in Seq(Frames) /\ Len(w \o todo) = Len(w) + Len(todo)
          /\ \A i \in 1..(Len(w) + Len(todo)) : (w \o todo)[i] = IF i <= Len(w) THEN w[i] ELSE todo[i - Len(w)]
      BY <1>1, <3>1, ConcatProperties
    <3> QED
      BY <3>1, <3>2
  <2>5. /\ z \in Seq(Frames) /\ Len(z) = (L + M) - 1 /\ Head(x) = x[1]
        /\ \A i \in 1..((L + M) - 1) : z[i] = x[i + 1]
    <3>1. x # <<>>
      BY <2>1 DEF Flow
    <3> HIDE DEF x
    <3> QED
      BY <2>3, <3>1, TailIs
  <2>6. \A i \in 1..((L + M) - 1) : y[i] = z[i]
    <3> TAKE i \in 1..((L + M) - 1)
    <3>1. i + 1 \in 1..(L + M) /\ i \in 1..((L - 1) + M)
      BY <2>2, <2>3
    <3>2. CASE i <= L - 1
      <4>1. i + 1 <= L /\ i \in 1..(L - 1)
        BY <2>2, <3>2
      <4>2. y[i] = inbox[i + 1]
        BY <2>2, <2>4, <3>1, <3>2, <4>1 DEF w
      <4>3. z[i] = inbox[i + 1]
        BY <2>3, <2>5, <3>1, <4>1
      <4> QED
        BY <4>2, <4>3
    <3>3. CASE ~(i <= L - 1)
      <4>1. ~(i + 1 <= L) /\ (i + 1) - L = i - (L - 1)
        BY <2>2, <3>3
      <4>2. y[i] = todo[i - (L - 1)]
        BY <2>4, <3>1, <3>3
      <4>3. z[i] = todo[(i + 1) - L]
        BY <2>3, <2>5, <3>1, <4>1
      <4> QED
        BY <4>1, <4>2, <4>3
    <3> QED
      BY <3>2, <3>3
  <2>7. Head(x) = inbox[1]
    <3>1. 1 \in 1..(L + M) /\ 1 <= L
      BY <2>2, <2>3
    <3> QED
      BY <2>3, <2>5, <3>1
  <2>8. Len(y) = Len(z) /\ Len(y) = (L + M) - 1
    BY <2>2, <2>3, <2>4, <2>5
  <2> HIDE DEF x, y, z
  <2>9. y = z
    BY <2>4, <2>5, <2>6, <2>8, SeqEqual
  <2>10. Flow = x
    BY DEF Flow, x
  <2>11. Flow' = y
    BY <1>4 DEF Flow, y, w
  <2> QED
    BY <1>4, <2>1, <2>2, <2>7, <2>9, <2>10, <2>11 DEF z
<1> QED
  BY <1>3, <1>4

\* The service has more to send.
LEMMA FlowGrows ==
  ASSUME TypeOK, NEW s \in Seq(Frames), todo' = todo \o s, inbox' = inbox
  PROVE  /\ Flow' = Flow \o s /\ Told(Flow') = Told(Flow) \o Told(s)
         /\ \A k \in DOMAIN Flow' : \/ k \in DOMAIN Flow /\ Flow'[k] = Flow[k]
                                    \/ k - Len(Flow) \in DOMAIN s /\ Flow'[k] = s[k - Len(Flow)]
<1>1. inbox \in Seq(Frames) /\ todo \in Seq(Frames) /\ Flow \in Seq(Frames)
  BY FlowIs DEF TypeOK
<1>2. \A a, b, c \in Seq(Frames) : (a \o b) \o c = a \o (b \o c)
  BY ConcatAssociative
<1>3. Flow' = inbox \o (todo \o s)
  BY DEF Flow
<1>4. Flow' = Flow \o s
  BY <1>1, <1>2, <1>3 DEF Flow
<1>5. Told(Flow \o s) = Told(Flow) \o Told(s)
  BY <1>1, ToldJoin
<1>6. \A k \in DOMAIN (Flow \o s) :
        \/ k \in DOMAIN Flow /\ (Flow \o s)[k] = Flow[k]
        \/ k - Len(Flow) \in DOMAIN s /\ (Flow \o s)[k] = s[k - Len(Flow)]
  BY <1>1, JoinElems
<1> QED
  BY <1>4, <1>5, <1>6

------------------------------------------------------------------------------
\* Of an operation that was called, what its row says.
LEMMA AsksIs ==
  ASSUME TypeOK, NEW c \in Call, calls[c].phase # "idle"
  PROVE  /\ OpOf(c).loop = 0 => ReadsWhatItAsks(OpOf(c))
         /\ OpOf(c).loop # 0 => Streams(OpOf(c))
         /\ OpOf(c).first # 0 => service.greets /\ OpOf(c).loop = 0 /\ Greets(OpOf(c))
         /\ service.framing = "matched" => MatchesReplies(service, OpOf(c))
<1>1. RowOK(service) /\ calls[c].op \in DOMAIN service.ops /\ OpOf(c) = service.ops[calls[c].op]
  BY OpIs
<1> QED
  BY <1>1 DEF RowOK

\* The socket and its reads are as they were at first.
Steady ==
  /\ open /\ ~broken
  /\ begun => inbox # <<>> /\ HasHead(Head(inbox))
  /\ (service.greets \/ ~greeted)

\* A call that no other goes beside.
Alone(c) == Active(c) /\ \A d \in Call \ {c} : ~Active(d)

LEMMA SoloIs ==
  ASSUME Solo, ~loose
  PROVE  /\ Steady
         /\ \A c \in Call : Active(c) => Alone(c) /\ Where(c) /\ Owed(c)
         /\ (\A c \in Call : ~Active(c)) => AtRest
BY DEF Solo, Steady, Alone

\* A step of the only call.
LEMMA SoloStep ==
  ASSUME NEW c \in Call, \A d \in Call \ {c} : calls'[d] = calls[d] /\ ~Active(d),
         Steady', Active(c)' => Where(c)' /\ Owed(c)', ~Active(c)' => AtRest'
  PROVE  Solo'
<1>1. \A d \in Call \ {c} : ~(Active(d)')
  BY DEF Active
<1>2. (\A d, e \in Call : Active(d) /\ Active(e) => d = e)'
  BY <1>1
<1>3. (\A d \in Call : Active(d) => Where(d) /\ Owed(d))'
  BY <1>1
<1>4. ((\A d \in Call : ~Active(d)) => AtRest)'
  OBVIOUS
<1>5. Steady'
  OBVIOUS
<1> QED
  BY <1>2, <1>3, <1>4, <1>5 DEF Solo, Steady

\* A step while no call goes on.
LEMMA SoloRest ==
  ASSUME \A d \in Call : ~(Active(d)'), Steady', AtRest'
  PROVE  Solo'
BY DEF Solo, Steady

LEMMA SoloLoose == ASSUME loose' PROVE Solo'
BY DEF Solo

\* The only job is of the only call.
LEMMA SoloJob ==
  ASSUME Base, Solo, ~loose, micro # <<>>
  PROVE  \E c \in Call :
           /\ c = Head(micro).who /\ Head(micro).at = calls[c].pc /\ Tail(micro) = <<>> /\ Head(micro) = micro[1]
           /\ Len(micro) = 1
           /\ Alone(c) /\ Where(c) /\ Owed(c) /\ Only(Head(micro).what, c)
           /\ calls[c].phase = CASE Head(micro).what = "run" -> "run"
                                 [] Head(micro).what = "written" -> "sent"
                                 [] OTHER -> "reading"
<1>1. micro \in Seq(Jobs)
  BY DEF Base, TypeOK
<1>2. PICK c \in Call : Active(c)
  BY SoloIs DEF AtRest
<1>3. Alone(c) /\ Where(c) /\ Owed(c)
  BY <1>2, SoloIs
<1>4. Len(micro) = 1 /\ micro[1].who = c /\ micro[1].at = calls[c].pc
      /\ calls[c].phase = CASE micro[1].what = "run" -> "run" [] micro[1].what = "written" -> "sent" [] OTHER -> "reading"
  BY <1>2, <1>3 DEF Where, Only, Active
<1>5. Head(micro) = micro[1] /\ Tail(micro) \in Seq(Jobs) /\ Len(Tail(micro)) = 0
  BY <1>1, <1>4, TailIs
<1>6. Tail(micro) = <<>>
  BY <1>5, EmptySeq
<1>7. Only(Head(micro).what, c)
  BY <1>4, <1>5 DEF Only
<1> QED
  BY <1>3, <1>4, <1>5, <1>6, <1>7

\* The three ways what is unread is what the only call has to read.
LEMMA OwedStream ==
  ASSUME NEW c \in Call, OpOf(c)' = OpOf(c), OpOf(c).loop # 0, \A k \in DOMAIN Flow' : Flow'[k].says # "raw"
  PROVE  Owed(c)'
BY DEF Owed

\* A frame of the call that is taken at its step due, or the greeting.
MineAt(c, pc, due, f) ==
  \/ f.for = c /\ (service.framing = "matched" => f.at = due)
  \/ f.for = None /\ f.says = "event" /\ OpOf(c).first # 0 /\ pc = 1

LEMMA MineIs == \A c, f : Mine(c, f) <=> MineAt(c, calls[c].pc, Due(c), f)
BY DEF Mine, MineAt

LEMMA MineNext ==
  ASSUME NEW c \in Call, OpOf(c)' = OpOf(c), service' = service, NEW f
  PROVE  MineAt(c, calls'[c].pc, Due(c)', f) <=> Mine(c, f)'
BY DEF Mine, MineAt

LEMMA OwedNow ==
  ASSUME NEW c \in Call, OpOf(c)' = OpOf(c), service' = service, OpOf(c).loop = 0, ~Taken',
         NEW due, Due(c)' = due,
         \A k \in DOMAIN Flow' : MineAt(c, calls'[c].pc, due, Flow'[k]),
         Told(Flow') \in OpOf(c).unread[due]
  PROVE  Owed(c)'
<1>1. \A k \in DOMAIN Flow' : Mine(c, Flow[k])'
  BY DEF Mine, MineAt
<1>2. Told(Flow)' = Told(Flow')
  BY DEF Told
<1> QED
  BY <1>1, <1>2 DEF Owed

LEMMA OwedTaken ==
  ASSUME NEW c \in Call, OpOf(c)' = OpOf(c), service' = service, OpOf(c).loop = 0, Taken',
         NEW due, Due(c)' = due,
         \A k \in DOMAIN Flow' : MineAt(c, calls'[c].pc, due, Flow'[k]),
         NEW f, micro'[1].unit.frame = f, MineAt(c, calls'[c].pc, due, f),
         NEW u \in OpOf(c).unread[due], u # <<>>, Head(u) = f.says, Tail(u) = Told(Flow')
  PROVE  Owed(c)'
<1>1. \A k \in DOMAIN Flow' : Mine(c, Flow[k])'
  BY DEF Mine, MineAt
<1>2. Told(Flow)' = Told(Flow')
  BY DEF Told
<1>3. Mine(c, micro[1].unit.frame)'
  BY DEF Mine, MineAt
<1> QED
  BY <1>1, <1>2, <1>3 DEF Owed

\* What a call that is told of its step is in the middle of.
LEMMA StepsIs ==
  ASSUME TypeOK, NEW c \in Call, calls[c].phase # "idle", OpOf(c).loop = 0
  PROVE  /\ OpOf(c).neat => OpOf(c).unread[Len(OpOf(c).steps) + 1] \subseteq {<<>>}
         /\ OpOf(c).opens # 0 => <<>> \in OpOf(c).unread[OpOf(c).finally]
         /\ StepOf(c).do = "write" =>
              /\ OpOf(c).first = 0 \/ calls[c].pc # 1
              /\ \A u \in OpOf(c).unread[calls[c].pc] : \A r \in StepOf(c).replies :
                   u \o r \in OpOf(c).unread[calls[c].pc + 1]
              /\ service.framing = "matched" => \A u \in OpOf(c).unread[calls[c].pc] : u = <<>>
         /\ service.framing = "matched" => \A u \in OpOf(c).unread[calls[c].pc] : Len(u) <= 1
         /\ OpOf(c).first # 0 /\ calls[c].pc = 1 =>
              StepOf(c).check = "push" /\ \A u \in OpOf(c).unread[calls[c].pc] : Len(u) <= 1
<1>1. /\ calls[c].pc \in DOMAIN OpOf(c).steps /\ StepOf(c) = OpOf(c).steps[calls[c].pc]
  BY OpIs DEF TypeOK
<1>2. ReadsWhatItAsks(OpOf(c)) /\ (OpOf(c).first # 0 => Greets(OpOf(c)))
      /\ (service.framing = "matched" => MatchesReplies(service, OpOf(c)))
  BY AsksIs
<1>3. /\ OpOf(c).neat => OpOf(c).unread[Len(OpOf(c).steps) + 1] \subseteq {<<>>}
      /\ OpOf(c).opens # 0 => <<>> \in OpOf(c).unread[OpOf(c).finally]
  BY <1>2 DEF ReadsWhatItAsks
<1>4. StepOf(c).do = "write" => \A u \in OpOf(c).unread[calls[c].pc] : \A r \in StepOf(c).replies :
                                   u \o r \in OpOf(c).unread[calls[c].pc + 1]
  BY <1>1, <1>2 DEF ReadsWhatItAsks
<1>5. OpOf(c).first # 0 /\ calls[c].pc = 1 =>
         /\ StepOf(c).do = "read" /\ StepOf(c).check = "push"
         /\ \A u \in OpOf(c).unread[calls[c].pc] : Len(u) <= 1
  BY <1>1, <1>2 DEF Greets
<1>6. service.framing = "matched" => /\ \A u \in OpOf(c).unread[calls[c].pc] : Len(u) <= 1
                                     /\ StepOf(c).do = "write" => \A u \in OpOf(c).unread[calls[c].pc] : u = <<>>
  BY <1>1, <1>2 DEF MatchesReplies
<1> QED
  BY <1>3, <1>4, <1>5, <1>6

\* What the only call reads is what its frames say, until it has ended.
LEMMA FlowOwed ==
  ASSUME NEW c \in Call, Owed(c), OpOf(c).loop = 0, ~Taken
  PROVE  /\ \A k \in DOMAIN Flow : MineAt(c, calls[c].pc, Due(c), Flow[k])
         /\ Told(Flow) \in OpOf(c).unread[Due(c)]
BY DEF Owed, Mine, MineAt

\* The replies to a request are its call's, for the step after it.
LEMMA RepliesIs ==
  ASSUME TypeOK, NEW c \in Call, calls[c].phase # "idle", NEW says \in StepOf(c).replies
  PROVE  LET s == [k \in DOMAIN says |-> Frame(c, calls[c].pc + 1, says[k], tag, StepOf(c).name)] IN
         /\ s \in Seq(Frames) /\ Told(s) = says /\ says \in Seq(Says)
         /\ \A k \in DOMAIN s : s[k].for = c /\ s[k].at = calls[c].pc + 1 /\ s[k].says = says[k]
         /\ OpOf(c).loop # 0 => \A k \in DOMAIN s : s[k].says # "raw"
<1> DEFINE s == [k \in DOMAIN says |-> Frame(c, calls[c].pc + 1, says[k], tag, StepOf(c).name)]
<1>1. /\ calls[c].pc \in DOMAIN OpOf(c).steps /\ StepOf(c) = OpOf(c).steps[calls[c].pc] /\ StepOf(c) \in Steps
      /\ calls[c] \in Calls /\ calls[c].pc \in Nat
  BY OpIs DEF TypeOK, Calls
<1>2. says \in Seq(Says) /\ Len(says) \in Nat /\ DOMAIN says = 1..Len(says) /\ StepOf(c).name \in Names
  BY <1>1 DEF Steps
<1>3. \A k \in DOMAIN says : says[k] \in Says
  BY <1>2, ElementOfSeq
<1>4. s \in Seq(Frames) /\ DOMAIN s = DOMAIN says
  <2>1. \A k \in DOMAIN says : Frame(c, calls[c].pc + 1, says[k], tag, StepOf(c).name) \in Frames
    <3>1. tag \in Nat /\ calls[c].pc + 1 \in Nat
      BY <1>1 DEF TypeOK
    <3> QED
      BY <1>2, <1>3, <3>1 DEF Frame, Frames
  <2>2. s \in [1..Len(says) -> Frames]
    BY <1>2, <2>1
  <2> QED
    BY <1>2, <2>2, SeqDef
<1>5. \A k \in DOMAIN s : s[k].for = c /\ s[k].at = calls[c].pc + 1 /\ s[k].says = says[k]
  BY DEF Frame
<1>6. Told(s) = says
  <2>1. /\ Told(s) \in Seq(Says) /\ DOMAIN Told(s) = DOMAIN says /\ Len(Told(s)) = Len(s)
        /\ \A k \in DOMAIN s : Told(s)[k] = s[k].says
    BY <1>4, ToldIs
  <2> DEFINE t == Told(s)
  <2>2. \A k \in 1..Len(says) : t[k] = says[k]
    BY <1>2, <1>4, <1>5, <2>1
  <2>3. Len(s) = Len(says)
    <3> HIDE DEF s
    <3>1. Len(s) \in Nat /\ DOMAIN s = 1..Len(s)
      BY <1>4
    <3> QED
      BY <1>2, <1>4, <3>1
  <2>4. t \in Seq(Says) /\ Len(t) = Len(says)
    BY <2>1, <2>3
  <2> HIDE DEF t
  <2>5. t = says
    BY <1>2, <2>2, <2>4, SeqEqual
  <2> QED
    BY <2>5 DEF t
<1>7. ASSUME OpOf(c).loop # 0, NEW k \in DOMAIN s PROVE s[k].says # "raw"
  <2>1. "raw" \notin ToSet(says)
    BY <1>1, <1>7, AsksIs DEF Streams
  <2>2. says[k] \in ToSet(says)
    BY <1>4, <1>7 DEF ToSet
  <2> QED
    BY <1>5, <1>7, <2>1, <2>2
<1> QED
  BY <1>2, <1>4, <1>5, <1>6, <1>7

\* A request is written.
LEMMA OwedWrote ==
  ASSUME Base, NEW c \in Call, calls[c].phase = "run", Owed(c), ~Taken, ~Taken', NEW n \in Calls,
         calls'[c] = n, OpOf(c)' = OpOf(c), service' = service, Wrote(c, n), inbox' = inbox
  PROVE  Owed(c)'
<1> USE DEF Base
<1>1. PICK says \in StepOf(c).replies :
         todo' = todo \o [k \in DOMAIN says |-> Frame(c, calls[c].pc + 1, says[k], tag, StepOf(c).name)]
  BY DEF Wrote
<1> DEFINE s == [k \in DOMAIN says |-> Frame(c, calls[c].pc + 1, says[k], tag, StepOf(c).name)]
<1>2. /\ s \in Seq(Frames) /\ Told(s) = says
      /\ \A k \in DOMAIN s : s[k].for = c /\ s[k].at = calls[c].pc + 1
      /\ OpOf(c).loop # 0 => \A k \in DOMAIN s : s[k].says # "raw"
  BY RepliesIs
<1>3. todo' = todo \o s
  BY <1>1
<1> HIDE DEF s
<1>4. /\ Told(Flow') = Told(Flow) \o says
      /\ \A k \in DOMAIN Flow' : \/ k \in DOMAIN Flow /\ Flow'[k] = Flow[k]
                                 \/ k - Len(Flow) \in DOMAIN s /\ Flow'[k] = s[k - Len(Flow)]
  BY <1>2, <1>3, FlowGrows
<1>5. CASE OpOf(c).loop # 0
  <2>1. \A k \in DOMAIN Flow' : Flow'[k].says # "raw"
    BY <1>2, <1>4, <1>5 DEF Owed
  <2> QED
    BY <1>5, <2>1, OwedStream
<1>6. CASE OpOf(c).loop = 0
  <2> DEFINE due == calls[c].pc + 1
  <2>1. Due(c)' = due /\ Due(c) = calls[c].pc /\ calls'[c].pc = calls[c].pc
    BY DEF Due, Wrote
  <2>2. /\ \A k \in DOMAIN Flow : MineAt(c, calls[c].pc, calls[c].pc, Flow[k])
        /\ Told(Flow) \in OpOf(c).unread[calls[c].pc]
    BY <1>6, <2>1, FlowOwed
  <2>3. /\ OpOf(c).first = 0 \/ calls[c].pc # 1
        /\ \A u \in OpOf(c).unread[calls[c].pc] : \A r \in StepOf(c).replies : u \o r \in OpOf(c).unread[due]
        /\ service.framing = "matched" => \A u \in OpOf(c).unread[calls[c].pc] : u = <<>>
    BY <1>6, StepsIs DEF Wrote
  <2>4. Told(Flow') \in OpOf(c).unread[due]
    BY <1>4, <2>2, <2>3
  <2>5. service.framing = "matched" => Flow = <<>>
    BY <2>2, <2>3, FlowIs, ToldIs
  <2>6. \A k \in DOMAIN Flow' : MineAt(c, calls'[c].pc, due, Flow'[k])
    <3> TAKE k \in DOMAIN Flow'
    <3>1. CASE k \in DOMAIN Flow /\ Flow'[k] = Flow[k]
      <4>1. service.framing # "matched"
        <5>1. Flow # <<>>
          BY <3>1
        <5> QED
          BY <2>5, <5>1
      <4> QED
        BY <2>2, <2>3, <3>1, <4>1 DEF MineAt
    <3>2. CASE k - Len(Flow) \in DOMAIN s /\ Flow'[k] = s[k - Len(Flow)]
      BY <1>2, <3>2 DEF MineAt
    <3> QED
      BY <1>4, <3>1, <3>2
  <2> HIDE DEF due
  <2> QED
    BY <1>6, <2>1, <2>4, <2>6, OwedNow
<1> QED
  BY <1>5, <1>6

\* Nothing of what is to be read has changed, nor where the call is due.
LEMMA OwedSame ==
  ASSUME NEW c \in Call, Owed(c), ~Taken, ~Taken', OpOf(c)' = OpOf(c), service' = service, Flow' = Flow,
         Due(c)' = Due(c), calls'[c].pc = calls[c].pc
  PROVE  Owed(c)'
<1>1. CASE OpOf(c).loop # 0
  <2>1. \A k \in DOMAIN Flow' : Flow'[k].says # "raw"
    BY <1>1 DEF Owed
  <2> QED
    BY <1>1, <2>1, OwedStream
<1>2. CASE OpOf(c).loop = 0
  <2>1. /\ \A k \in DOMAIN Flow' : MineAt(c, calls'[c].pc, Due(c), Flow'[k])
        /\ Told(Flow') \in OpOf(c).unread[Due(c)]
    BY <1>2, FlowOwed
  <2> QED
    BY <1>2, <2>1, OwedNow
<1> QED
  BY <1>1, <1>2

\* What Where says, after a step.
LEMMA WhereSent ==
  ASSUME NEW c \in Call, calls'[c].phase = "sent", readers' = <<>>, ~begun', micro' = <<>>, writes' = <<c>>
  PROVE  Where(c)'
<1>1. Len(<<c>>) = 1 /\ <<c>>[1] = c
  OBVIOUS
<1> QED
  BY <1>1 DEF Where

LEMMA WhereRuns ==
  ASSUME NEW c \in Call, calls'[c].phase = "run", readers' = <<>>, writes' = <<>>, ~begun',
         micro' = <<Run(c, calls'[c].pc)>>
  PROVE  Where(c)'
<1> DEFINE j == Run(c, calls'[c].pc)
<1>1. j.what = "run" /\ j.who = c /\ j.at = calls'[c].pc
  BY RunIs
<1> HIDE DEF j
<1>2. Len(<<j>>) = 1 /\ <<j>>[1] = j
  OBVIOUS
<1>3. micro' = <<j>>
  BY DEF j
<1> QED
  BY <1>1, <1>2, <1>3 DEF Where, Only

LEMMA WhereTries ==
  ASSUME NEW c \in Call, calls'[c].phase = "reading", writes' = <<>>, NEW want,
         readers' = <<Reader(c, calls'[c].pc, want)>>,
         want = IF begun' THEN "body" ELSE Wants(StepOf(c))',
         micro' = <<Try(Reader(c, calls'[c].pc, want))>>
  PROVE  Where(c)'
<1> DEFINE r == Reader(c, calls'[c].pc, want)
           j == Try(r)
<1>1. j.what = "try" /\ j.who = c /\ j.at = calls'[c].pc /\ r.who = c /\ r.at = calls'[c].pc /\ r.want = want
  BY TryIs DEF Reader
<1> HIDE DEF r, j
<1>2. Len(<<j>>) = 1 /\ <<j>>[1] = j /\ Len(<<r>>) = 1 /\ <<r>>[1] = r
  OBVIOUS
<1>3. micro' = <<j>> /\ readers' = <<r>>
  BY DEF j, r
<1> QED
  BY <1>1, <1>2, <1>3 DEF Where, Only

\* Appending to nothing.
LEMMA FirstIs ==
  /\ \A e : Append(<<>>, e) = <<e>> /\ Len(<<e>>) = 1 /\ <<e>>[1] = e /\ Head(<<e>>) = e
  /\ \A e : <<e>> \o <<>> = <<e>>
  /\ \A e : Tail(<<e>>) = <<>>
OBVIOUS

LEMMA NotTaken ==
  /\ micro = <<>> \/ micro[1].what # "got" \/ micro[1].unit.part = "head" => ~Taken
  /\ micro' = <<>> => ~Taken'
  /\ \A e : micro' = <<e>> /\ (e.what # "got" \/ e.unit.part = "head") => ~Taken'
<1>1. \A e : micro' = <<e>> => micro'[1] = e
  BY FirstIs
<1> QED
  BY <1>1 DEF Taken

LEMMA SoloDoStep == ASSUME Base, Solo, DoStep PROVE Solo'
<1> USE DEF Base
<1>1. PICK c \in Call, n \in Calls :
           /\ micro # <<>> /\ c = Head(micro).who /\ Head(micro).what = "run" /\ calls[c].phase = "run"
           /\ Moves(c, n)
           /\ Wrote(c, n) \/ Refused(c, n) \/ Asked(c, n) \/ Drains(c, n)
           /\ UNCHANGED <<service, open, stream, tag, greeted, pushed, loose>>
  BY DoStepIs
<1>2. CASE loose
  BY <1>1, <1>2, SoloLoose
<1> SUFFICES ASSUME ~loose
             PROVE  Solo'
  BY <1>2
<1>3. SameOps /\ service' = service /\ calls'[c] = n /\ \A d \in Call \ {c} : calls'[d] = calls[d]
  BY <1>1, MovesOps
<1>4. /\ Alone(c) /\ Where(c) /\ Owed(c) /\ Tail(micro) = <<>> /\ Head(micro) = micro[1]
  BY <1>1, SoloJob
<1>5. readers = <<>> /\ writes = <<>> /\ ~begun
  BY <1>1, <1>4 DEF Where
<1>6. Steady
  BY SoloIs
<1>7. Steady' /\ inbox' = inbox /\ ~begun'
  BY <1>1, <1>3, <1>5, <1>6 DEF Steady, stream
<1>8. OpOf(c)' = OpOf(c)
  BY <1>3 DEF SameOps
<1>9. ~Taken
  BY <1>1, <1>4, NotTaken
<1> DEFINE Good == Solo'
<1>10. ASSUME Where(c)', Owed(c)', n.phase \in {"sent", "reading", "draining"} PROVE Good
  <2>1. Active(c)'
    BY <1>3, <1>10 DEF Active
  <2> QED
    BY <1>3, <1>4, <1>7, <1>10, <2>1, SoloStep DEF Alone
<1>11. CASE Wrote(c, n)
  <2>1. micro' = <<>> /\ readers' = <<>> /\ writes' = <<c>> /\ n.phase = "sent"
    BY <1>4, <1>5, <1>11, FirstIs DEF Wrote
  <2>2. Where(c)'
    BY <1>3, <1>7, <2>1, WhereSent
  <2>3. ~Taken'
    BY <2>1, NotTaken
  <2>4. Owed(c)'
    BY <1>1, <1>3, <1>4, <1>7, <1>8, <1>9, <1>11, <2>3, OwedWrote
  <2> QED
    BY <2>1, <2>2, <2>4, <1>10
<1>12. CASE Refused(c, n)
  BY <1>6, <1>12 DEF Refused, Steady
<1>13. CASE Asked(c, n)
  <2> DEFINE r == Reader(c, calls[c].pc, Wants(StepOf(c)))
  <2>1. /\ readers' = <<r>> /\ micro' = <<Try(r)>> /\ writes' = <<>> /\ todo' = todo
        /\ n.phase = "reading" /\ n.pc = calls[c].pc
    BY <1>4, <1>5, <1>13, FirstIs DEF Asked, Register
  <2>2. StepOf(c)' = StepOf(c)
    BY <1>3, <1>8, <2>1 DEF StepOf
  <2>3. Wants(StepOf(c))' = Wants(StepOf(c))
    BY <1>3, <2>2 DEF Wants, WantsReply
  <2>4. Where(c)'
    BY <1>3, <1>7, <2>1, <2>3, WhereTries
  <2>5. ~Taken'
    BY <2>1, TryIs, NotTaken
  <2>6. Flow' = Flow /\ Due(c)' = Due(c)
    BY <1>1, <1>3, <1>7, <2>1 DEF Flow, Due
  <2>7. Owed(c)'
    BY <1>3, <1>4, <1>8, <1>9, <2>1, <2>5, <2>6, OwedSame
  <2> QED
    BY <2>1, <2>4, <2>7, <1>10
<1>14. CASE Drains(c, n)
  <2>1. /\ micro' = <<>> /\ readers' = <<>> /\ writes' = <<>> /\ todo' = todo
        /\ n.phase = "draining" /\ n.pc = calls[c].pc
    BY <1>4, <1>5, <1>14 DEF Drains
  <2>2. Where(c)'
    BY <1>3, <1>7, <2>1 DEF Where
  <2>3. ~Taken'
    BY <2>1, NotTaken
  <2>4. Flow' = Flow /\ Due(c)' = Due(c)
    BY <1>1, <1>3, <1>7, <2>1 DEF Flow, Due
  <2>5. Owed(c)'
    BY <1>3, <1>4, <1>8, <1>9, <2>1, <2>3, <2>4, OwedSame
  <2> QED
    BY <2>1, <2>2, <2>5, <1>10
<1> QED
  BY <1>1, <1>11, <1>12, <1>13, <1>14

\* The only call goes on, or has ended and left nothing.
LEMMA SoloGoes ==
  ASSUME Base, NEW c \in Call, Alone(c), NEW n \in Calls, Moves(c, n), Goes(c, n, <<>>), service' = service,
         ~loose', Steady', Flow' = Flow, readers' = <<>>, writes' = <<>>, ~begun',
         OpOf(c).loop # 0 => \A k \in DOMAIN Flow : Flow[k].says # "raw",
         OpOf(c).loop = 0 => /\ Told(Flow) \in OpOf(c).unread[calls[c].pc + 1]
                             /\ \A k \in DOMAIN Flow : MineAt(c, calls[c].pc + 1, calls[c].pc + 1, Flow[k])
  PROVE  Solo'
<1> USE DEF Base
<1>1. calls[c].phase # "idle"
  BY DEF Alone, Active
<1>2. /\ service' = service /\ calls'[c] = n /\ OpOf(c)' = OpOf(c)
      /\ \A d \in Call \ {c} : calls'[d] = calls[d] /\ ~Active(d)
  BY <1>1, MovesOps DEF SameOps, Alone
<1>3. CASE NextPc(c) # 0 /\ n.pc = NextPc(c) /\ n.phase = "run" /\ micro' = Append(<<>>, Run(c, n.pc))
  <2>1. micro' = <<Run(c, n.pc)>>
    BY <1>3, FirstIs
  <2>2. Where(c)'
    BY <1>2, <1>3, <2>1, WhereRuns
  <2>3. ~Taken'
    BY <2>1, RunIs, NotTaken
  <2>4. CASE OpOf(c).loop # 0
    <3>1. Owed(c)'
      BY <1>2, <2>4, OwedStream
    <3> QED
      BY <1>2, <1>3, <2>2, <3>1, SoloStep DEF Active
  <2>5. CASE OpOf(c).loop = 0
    <3>1. n.pc = calls[c].pc + 1
      BY <1>3, <2>5 DEF NextPc
    <3>2. Due(c)' = n.pc
      BY <1>2, <1>3 DEF Due
    <3>3. Owed(c)'
      <4>1. \A k \in DOMAIN Flow' : MineAt(c, calls'[c].pc, n.pc, Flow'[k])
        BY <1>2, <2>5, <3>1
      <4>2. Told(Flow') \in OpOf(c).unread[n.pc]
        BY <2>5, <3>1
      <4> QED
        BY <1>2, <2>3, <2>5, <3>2, <4>1, <4>2, OwedNow
    <3> QED
      BY <1>2, <1>3, <2>2, <3>3, SoloStep DEF Active
  <2> QED
    BY <2>4, <2>5
<1>4. CASE /\ NextPc(c) = 0 /\ calls[c].pc = Len(OpOf(c).steps) /\ OpOf(c).loop = 0
           /\ n.phase \in {"ok", "failed"} /\ micro' = <<>> /\ OpOf(c).neat
  <2>1. Told(Flow) = <<>>
    BY <1>1, <1>4, StepsIs
  <2>2. Flow = <<>>
    BY <2>1, FlowIs, ToldIs
  <2>3. AtRest'
    BY <1>4, <2>2 DEF AtRest
  <2>4. ~(Active(c)')
    BY <1>2, <1>4 DEF Active
  <2> QED
    BY <1>2, <2>3, <2>4, SoloStep
<1> QED
  BY <1>3, <1>4 DEF Goes

\* The greeting is of a service that greets.
LEMMA GreetsIs ==
  ASSUME TypeOK, Steady, NEW c \in Call, calls[c].phase # "idle", service' = service, open' = open, broken' = broken,
         greeted' = (greeted \/ (OpOf(c).first # 0 /\ calls[c].pc = OpOf(c).first)), ~begun'
  PROVE  Steady'
<1>1. OpOf(c).first # 0 => service.greets
  BY AsksIs
<1>2. service' = service
  OBVIOUS
<1>3. (service'.greets \/ ~greeted')
  BY <1>1, <1>2 DEF Steady
<1> QED
  BY <1>3 DEF Steady

LEMMA SoloSent == ASSUME Base, Solo, Sent PROVE Solo'
<1> USE DEF Base
<1>1. PICK c \in Call, n \in Calls :
           /\ micro # <<>> /\ c = Head(micro).who /\ Head(micro).what = "written" /\ calls[c].phase = "sent"
           /\ Moves(c, n) /\ Goes(c, n, Tail(micro))
           /\ greeted' = (greeted \/ (OpOf(c).first # 0 /\ calls[c].pc = OpOf(c).first))
           /\ UNCHANGED <<service, open, todo, stream, readers, writes, tag, pushed, crossed>>
  BY SentIs
<1>2. loose => loose'
  BY <1>1, GoesLoose
<1>3. CASE loose'
  BY <1>3, SoloLoose
<1> SUFFICES ASSUME ~loose'
             PROVE  Solo'
  BY <1>3
<1>4. ~loose
  BY <1>2
<1>5. /\ Alone(c) /\ Where(c) /\ Owed(c) /\ Tail(micro) = <<>> /\ Head(micro) = micro[1]
  BY <1>1, <1>4, SoloJob
<1>6. readers = <<>> /\ writes = <<>> /\ ~begun
  BY <1>1, <1>5 DEF Where
<1>7. Steady' /\ Flow' = Flow /\ readers' = <<>> /\ writes' = <<>> /\ ~begun'
  <2>1. Steady
    BY <1>4, SoloIs
  <2>2. inbox' = inbox /\ todo' = todo /\ begun' = begun /\ broken' = broken
    BY <1>1 DEF stream
  <2>3. Steady'
    BY <1>1, <1>6, <2>1, <2>2, GreetsIs
  <2> QED
    BY <1>1, <1>6, <2>2, <2>3 DEF Flow
<1>8. ~Taken /\ Due(c) = calls[c].pc + 1
  BY <1>1, <1>5, NotTaken DEF Due
<1>9. OpOf(c).loop # 0 => \A k \in DOMAIN Flow : Flow[k].says # "raw"
  BY <1>5 DEF Owed
<1>10. ASSUME OpOf(c).loop = 0
       PROVE  /\ Told(Flow) \in OpOf(c).unread[calls[c].pc + 1]
              /\ \A k \in DOMAIN Flow : MineAt(c, calls[c].pc + 1, calls[c].pc + 1, Flow[k])
  <2>1. /\ \A k \in DOMAIN Flow : MineAt(c, calls[c].pc, calls[c].pc + 1, Flow[k])
        /\ Told(Flow) \in OpOf(c).unread[calls[c].pc + 1]
    BY <1>5, <1>8, <1>10, FlowOwed
  <2>2. StepOf(c).do = "write"
    BY <1>1 DEF Places, AtStep, StepOf
  <2>3. OpOf(c).first = 0 \/ calls[c].pc # 1
    BY <1>1, <1>10, <2>2, StepsIs
  <2> QED
    BY <2>1, <2>3 DEF MineAt
<1> QED
  BY <1>1, <1>5, <1>7, <1>9, <1>10, SoloGoes

\* What arrived first is read first.
LEMMA FlowHead ==
  ASSUME TypeOK, inbox # <<>>
  PROVE  Flow # <<>> /\ Head(Flow) = Head(inbox) /\ Flow[1] = Head(inbox) /\ 1 \in DOMAIN Flow
<1>1. inbox \in Seq(Frames) /\ todo \in Seq(Frames)
  BY DEF TypeOK
<1>2. Flow \in Seq(Frames) /\ Flow # <<>>
  BY FlowIs
<1>3. 1 \in DOMAIN Flow /\ Head(Flow) = Flow[1]
  BY <1>2, TailElems
<1>4. Len(inbox) \in Nat /\ Len(inbox) >= 1 /\ Head(inbox) = inbox[1]
  BY <1>1, TailIs
<1> DEFINE x == inbox \o todo
<1>5. \A i \in DOMAIN x : \/ i \in DOMAIN inbox /\ x[i] = inbox[i]
                          \/ i - Len(inbox) \in DOMAIN todo /\ x[i] = todo[i - Len(inbox)]
  BY <1>1, JoinElems
<1>6. Flow = x
  BY DEF Flow
<1> HIDE DEF x
<1>7. 1 - Len(inbox) \notin DOMAIN todo
  BY <1>1, <1>4
<1>8. x[1] = inbox[1]
  BY <1>3, <1>5, <1>6, <1>7
<1> QED
  BY <1>2, <1>3, <1>4, <1>6, <1>8

\* A step that reads, and what it reads.
LEMMA ReadsIs ==
  ASSUME TypeOK, Places, NEW c \in Call, calls[c].phase = "reading"
  PROVE  /\ StepOf(c).do \in {"read", "race", "raw"}
         /\ OpOf(c).loop # 0 => StepOf(c).do # "raw"
         /\ service.framing = "matched" => StepOf(c).do = "read"
         /\ OpOf(c).loop = 0 =>
              \A u \in OpOf(c).unread[calls[c].pc] : u # <<>> =>
                /\ (Head(u) = "raw") <=> (StepOf(c).do = "raw")
                /\ StepOf(c).do = "raw" => Tail(u) \in OpOf(c).unread[calls[c].pc + 1]
                /\ StepOf(c).do # "raw" =>
                     \A a \in Answers(StepOf(c).check, Head(u)) :
                       /\ a = "accept" => Tail(u) \in OpOf(c).unread[calls[c].pc + 1]
                       /\ a = "again"  => Tail(u) \in OpOf(c).unread[calls[c].pc]
                       /\ a = "throw"  => Tail(u) = <<>>
                /\ service.framing = "matched" => ((Head(u) \in {"good", "bad"}) <=> WantsReply(service, StepOf(c)))
<1>1. calls[c].pc \in DOMAIN OpOf(c).steps /\ StepOf(c) = OpOf(c).steps[calls[c].pc]
  BY OpIs DEF TypeOK
<1>2. ReadsAt(OpOf(c), calls[c].pc)
  BY DEF Places, AtStep
<1>3. StepOf(c).do \in {"read", "race", "raw"}
  BY <1>1, <1>2 DEF ReadsAt
<1>4. OpOf(c).loop # 0 => StepOf(c).do # "raw"
  BY <1>1, AsksIs DEF Streams
<1>5. service.framing = "matched" => StepOf(c).do = "read"
  <2>1. service.framing = "matched" => StepOf(c).do \in {"write", "read"}
    BY <1>1, AsksIs DEF MatchesReplies
  <2> QED
    BY <1>3, <2>1
<1>6. ASSUME OpOf(c).loop = 0, NEW u \in OpOf(c).unread[calls[c].pc], u # <<>>
      PROVE  /\ (Head(u) = "raw") <=> (StepOf(c).do = "raw")
             /\ StepOf(c).do = "raw" => Tail(u) \in OpOf(c).unread[calls[c].pc + 1]
             /\ StepOf(c).do # "raw" =>
                  \A a \in Answers(StepOf(c).check, Head(u)) :
                    /\ a = "accept" => Tail(u) \in OpOf(c).unread[calls[c].pc + 1]
                    /\ a = "again"  => Tail(u) \in OpOf(c).unread[calls[c].pc]
                    /\ a = "throw"  => Tail(u) = <<>>
  <2>1. ReadsWhatItAsks(OpOf(c))
    BY <1>6, AsksIs
  <2> QED
    BY <1>1, <1>2, <1>6, <2>1 DEF ReadsWhatItAsks
<1>7. ASSUME OpOf(c).loop = 0, service.framing = "matched", NEW u \in OpOf(c).unread[calls[c].pc], u # <<>>
      PROVE  (Head(u) \in {"good", "bad"}) <=> WantsReply(service, StepOf(c))
  <2>1. MatchesReplies(service, OpOf(c))
    BY <1>7, AsksIs
  <2> QED
    BY <1>1, <1>5, <1>7, <2>1 DEF MatchesReplies
<1> QED
  BY <1>3, <1>4, <1>5, <1>6, <1>7

\* Bytes of a known length come when they are read, and only then.
LEMMA RawIs ==
  ASSUME Base, NEW c \in Call, calls[c].phase = "reading", Owed(c), ~Taken, inbox # <<>>
  PROVE  (Head(inbox).says = "raw") <=> (StepOf(c).do = "raw")
<1> USE DEF Base
<1>1. Flow # <<>> /\ Head(Flow) = Head(inbox) /\ Flow[1] = Head(inbox) /\ 1 \in DOMAIN Flow /\ Flow \in Seq(Frames)
  BY FlowHead, FlowIs
<1>2. CASE OpOf(c).loop # 0
  <2>1. Head(inbox).says # "raw"
    BY <1>1, <1>2 DEF Owed
  <2>2. StepOf(c).do # "raw"
    BY <1>2, ReadsIs
  <2> QED
    BY <2>1, <2>2
<1>3. CASE OpOf(c).loop = 0
  <2>1. Told(Flow) \in OpOf(c).unread[calls[c].pc]
    BY <1>3, FlowOwed DEF Due
  <2>2. Told(Flow) # <<>> /\ Head(Told(Flow)) = Head(inbox).says
    BY <1>1, ToldTail
  <2> QED
    BY <1>3, <2>1, <2>2, ReadsIs
<1> QED
  BY <1>2, <1>3

LEMMA OneIs ==
  ASSUME NEW T, NEW s \in Seq(T), Len(s) = 1
  PROVE  s = <<s[1]>> /\ DOMAIN s = {1} /\ Head(s) = s[1] /\ s # <<>> /\ s[1] \in T
<1>1. DOMAIN s = 1..1 /\ s # <<>> /\ Head(s) = s[1] /\ s[1] \in T
  BY ElementOfSeq
<1>2. <<s[1]>> \in Seq(T) /\ Len(<<s[1]>>) = 1 /\ <<s[1]>>[1] = s[1]
  BY <1>1
<1> DEFINE t == <<s[1]>>
<1>3. t \in Seq(T) /\ Len(t) = 1 /\ t[1] = s[1]
  BY <1>2
<1> HIDE DEF t
<1>4. \A i \in 1..Len(s) : s[i] = t[i]
  BY <1>3
<1>5. s = t
  BY <1>3, <1>4, SeqEqual
<1> QED
  BY <1>1, <1>5 DEF t

LEMMA NoneIs ==
  ASSUME NEW T, NEW s \in Seq(T), Len(s) = 1
  PROVE  RemoveAt(s, 1) = <<>>
<1>1. 1 \in 1..Len(s)
  OBVIOUS
<1>2. RemoveAt(s, 1) \in Seq(T) /\ Len(RemoveAt(s, 1)) = 0
  BY <1>1, RemoveAtIs
<1> QED
  BY <1>2, EmptySeq

LEMMA WhereGot ==
  ASSUME NEW c \in Call, calls'[c].phase = "reading", writes' = <<>>, readers' = <<>>, NEW u,
         micro' = <<Job("got", c, calls'[c].pc, u)>>,
         u.part = "head" <=> begun', u.part = "raw" <=> (StepOf(c).do = "raw")'
  PROVE  Where(c)' /\ micro'[1].unit = u /\ (u.part # "head" => Taken') /\ (u.part = "head" => ~Taken')
<1> DEFINE j == Job("got", c, calls'[c].pc, u)
<1>1. j.what = "got" /\ j.who = c /\ j.at = calls'[c].pc /\ j.unit = u
  BY DEF Job
<1> HIDE DEF j
<1>2. Len(<<j>>) = 1 /\ <<j>>[1] = j /\ <<j>> # <<>>
  OBVIOUS
<1>3. micro' = <<j>>
  BY DEF j
<1> QED
  BY <1>1, <1>2, <1>3 DEF Where, Only, Taken

\* Reads that are in step are never of something else.
LEMMA NextIs ==
  ASSUME Base, Solo, ~loose, NEW c \in Call, calls[c].phase = "reading", Alone(c), Where(c), Owed(c), ~Taken,
         ~Dry, readers # <<>>
  PROVE  /\ readers[1].want # "reply" => readers[1].want = NextPart
         /\ begun => StepOf(c).do # "raw"
<1> USE DEF Base
<1>1. inbox # <<>> /\ Steady
  BY SoloIs DEF Dry
<1>2. readers[1].want = IF begun THEN "body" ELSE Wants(StepOf(c))
  BY DEF Where
<1>3. (Head(inbox).says = "raw") <=> (StepOf(c).do = "raw")
  BY <1>1, RawIs
<1>4. begun => StepOf(c).do # "raw" /\ NextPart = "body"
  BY <1>1, <1>3 DEF Steady, HasHead, NextPart
<1>5. ASSUME ~begun, readers[1].want # "reply" PROVE readers[1].want = NextPart
  <2>1. Wants(StepOf(c)) # "reply"
    BY <1>2, <1>5
  <2>2. Wants(StepOf(c)) = IF StepOf(c).do = "raw" THEN "raw" ELSE IF service.framing = "bytes" THEN "head" ELSE "frame"
    BY <2>1 DEF Wants
  <2>3. NextPart = IF HasHead(Head(inbox)) THEN "head" ELSE IF Head(inbox).says = "raw" THEN "raw" ELSE "frame"
    BY <1>5 DEF NextPart
  <2> QED
    BY <1>2, <1>3, <1>5, <2>2, <2>3 DEF HasHead
<1> QED
  BY <1>2, <1>4, <1>5

LEMMA SoloTryRead == ASSUME Base, Solo, TryRead PROVE Solo'
<1> USE DEF Base
<1>1. /\ micro # <<>> /\ Head(micro).what = "try"
      /\ \/ micro' = Tail(micro) /\ UNCHANGED <<stream, readers>>
         \/ \E k \in DOMAIN readers :
              /\ readers[k].who = Head(micro).who /\ readers[k].at = Head(micro).at /\ readers[k].want # "reply"
              /\ Found(k) \/ Breaks(k)
      /\ UNCHANGED <<service, open, todo, writes, calls, tag, greeted, pushed, loose, crossed>>
  BY TryReadIs
<1>2. CASE loose
  BY <1>1, <1>2, SoloLoose
<1> SUFFICES ASSUME ~loose
             PROVE  Solo'
  BY <1>2
<1>3. PICK c \in Call :
        /\ c = Head(micro).who /\ Head(micro).at = calls[c].pc /\ Tail(micro) = <<>> /\ Head(micro) = micro[1]
        /\ Alone(c) /\ Where(c) /\ Owed(c) /\ calls[c].phase = "reading"
        /\ Only("try", c)
  BY <1>1, SoloJob
<1>4. Steady
  BY SoloIs
<1>5. SameOps /\ service' = service /\ OpOf(c)' = OpOf(c) /\ \A d \in Call \ {c} : calls'[d] = calls[d] /\ ~Active(d)
  BY <1>1, <1>3, SameCalls DEF SameOps, Alone
<1>6. ~Taken /\ writes = <<>> /\ StepOf(c)' = StepOf(c)
  BY <1>1, <1>3, <1>5, NotTaken DEF Where, StepOf
<1>7. /\ Len(readers) = 1 /\ readers[1].who = c /\ readers[1].at = calls[c].pc /\ readers \in Seq(Reads)
      /\ readers[1].want = IF begun THEN "body" ELSE Wants(StepOf(c))
  BY <1>3 DEF Where, Only, TypeOK
<1>8. readers # <<>> /\ RemoveAt(readers, 1) = <<>> /\ DOMAIN readers = {1}
  BY <1>7, OneIs, NoneIs
<1> DEFINE Good == Solo'
<1>9. ASSUME Steady', Where(c)', Owed(c)' PROVE Good
  <2>1. Active(c)'
    BY <1>1, <1>3 DEF Active
  <2> QED
    BY <1>5, <1>9, <2>1, SoloStep
<1>10. CASE micro' = Tail(micro) /\ UNCHANGED <<stream, readers>>
  <2>1. micro' = <<>> /\ readers' = readers /\ inbox' = inbox /\ begun' = begun /\ broken' = broken /\ Flow' = Flow
    BY <1>1, <1>3, <1>10 DEF stream, Flow
  <2>2. Steady'
    BY <1>1, <1>4, <1>5, <2>1 DEF Steady, HasHead
  <2>3. Wants(StepOf(c))' = Wants(StepOf(c))
    BY <1>5, <1>6 DEF Wants, WantsReply
  <2>4. Where(c)'
    BY <1>1, <1>3, <1>6, <1>7, <2>1, <2>3 DEF Where
  <2>5. ~Taken' /\ Due(c)' = Due(c)
    BY <1>1, <2>1, NotTaken DEF Due
  <2>6. Owed(c)'
    BY <1>1, <1>3, <1>5, <1>6, <2>1, <2>5, OwedSame
  <2> QED
    BY <2>2, <2>4, <2>6, <1>9
<1>11. ASSUME NEW k \in DOMAIN readers, readers[k].want # "reply", Breaks(k) PROVE Good
  <2>1. k = 1 /\ ~Dry /\ readers[1].want # NextPart
    BY <1>8, <1>11 DEF Breaks
  <2> QED
    BY <1>3, <1>6, <1>8, <1>11, <2>1, NextIs
<1>12. ASSUME NEW k \in DOMAIN readers, readers[k].want # "reply", Found(k) PROVE Good
  <2> DEFINE u == [part |-> NextPart, frame |-> Head(inbox)]
             f == Head(inbox)
  <2>1. /\ k = 1 /\ ~Dry /\ readers[1].want = NextPart /\ readers' = <<>>
        /\ begun' = (NextPart = "head") /\ broken' = broken
        /\ inbox' = IF NextPart = "head" THEN inbox ELSE Tail(inbox)
    BY <1>8, <1>12 DEF Found
  <2>2. micro' = <<Job("got", c, calls[c].pc, u)>>
    BY <1>3, <1>7, <1>12, <2>1, FirstIs DEF Found
  <2>3. inbox # <<>> /\ (begun => StepOf(c).do # "raw")
    BY <1>3, <1>6, <1>8, <2>1, NextIs DEF Dry
  <2>4. u.part = NextPart /\ u.frame = f
    OBVIOUS
  <2>5. NextPart = "raw" <=> StepOf(c).do = "raw"
    BY <1>7, <2>1, <2>3 DEF Wants
  <2>6. NextPart = "head" => HasHead(f)
    BY DEF NextPart
  <2> HIDE DEF u
  <2>7. Where(c)' /\ micro'[1].unit = u /\ (NextPart # "head" => Taken') /\ (NextPart = "head" => ~Taken')
    <3>1. u.part = "head" <=> begun'
      BY <2>1, <2>4
    <3>2. u.part = "raw" <=> (StepOf(c).do = "raw")'
      BY <1>6, <2>4, <2>5
    <3>3. calls'[c].phase = "reading" /\ writes' = <<>> /\ micro' = <<Job("got", c, calls'[c].pc, u)>>
      BY <1>1, <1>3, <1>6, <2>2
    <3> QED
      BY <2>1, <2>4, <3>1, <3>2, <3>3, WhereGot
  <2>8. Steady'
    <3>1. begun' => inbox' # <<>> /\ HasHead(Head(inbox'))
      BY <2>1, <2>3, <2>6
    <3>2. begun' => (inbox # <<>> /\ HasHead(Head(inbox)))'
      BY <1>5, <3>1 DEF HasHead
    <3> QED
      BY <1>1, <1>4, <1>5, <2>1, <3>2 DEF Steady
  <2>9. Due(c)' = Due(c) /\ Due(c) = calls[c].pc /\ calls'[c].pc = calls[c].pc
    BY <1>1, <1>3 DEF Due
  <2>10. CASE NextPart = "head"
    <3>1. Flow' = Flow
      BY <1>1, <2>1, <2>10 DEF Flow
    <3>2. Owed(c)'
      BY <1>3, <1>5, <1>6, <2>7, <2>9, <2>10, <3>1, OwedSame
    <3> QED
      BY <2>7, <2>8, <3>2, <1>9
  <2>11. CASE NextPart # "head"
    <3>1. Flow # <<>> /\ Head(Flow) = f /\ Flow' = Tail(Flow)
      BY <1>1, <2>1, <2>3, <2>11, FlowTakes
    <3>2. /\ \A i \in DOMAIN Flow' : i + 1 \in DOMAIN Flow /\ Flow'[i] = Flow[i + 1]
          /\ 1 \in DOMAIN Flow /\ Flow[1] = f
      BY <3>1, FlowIs, TailElems
    <3>3. CASE OpOf(c).loop # 0
      <4>1. \A i \in DOMAIN Flow' : Flow'[i].says # "raw"
        BY <1>3, <3>2, <3>3 DEF Owed
      <4>2. Owed(c)'
        BY <1>5, <3>3, <4>1, OwedStream
      <4> QED
        BY <2>7, <2>8, <4>2, <1>9
    <3>4. CASE OpOf(c).loop = 0
      <4>1. /\ \A i \in DOMAIN Flow : MineAt(c, calls[c].pc, calls[c].pc, Flow[i])
            /\ Told(Flow) \in OpOf(c).unread[calls[c].pc]
        BY <1>3, <1>6, <2>9, <3>4, FlowOwed
      <4>2. Told(Flow) # <<>> /\ Head(Told(Flow)) = f.says /\ Tail(Told(Flow)) = Told(Flow')
        BY <3>1, FlowIs, ToldTail
      <4>3. \A i \in DOMAIN Flow' : MineAt(c, calls'[c].pc, calls[c].pc, Flow'[i])
        BY <2>9, <3>2, <4>1
      <4>4. MineAt(c, calls'[c].pc, calls[c].pc, f)
        BY <2>9, <3>2, <4>1
      <4>5. Due(c)' = calls[c].pc /\ micro'[1].unit.frame = f /\ Taken'
        BY <2>4, <2>7, <2>9, <2>11
      <4>6. Owed(c)'
        BY <1>5, <3>4, <4>1, <4>2, <4>3, <4>4, <4>5, OwedTaken
      <4> QED
        BY <2>7, <2>8, <4>6, <1>9
    <3> QED
      BY <3>3, <3>4
  <2> QED
    BY <2>10, <2>11
<1> QED
  BY <1>1, <1>10, <1>11, <1>12

\* What a step does with a frame of its own, its row allows for.
LEMMA AnswerIs ==
  ASSUME TypeOK, NEW c \in Call, calls[c].phase # "idle", OpOf(c).loop = 0, NEW f, NEW due,
         MineAt(c, calls[c].pc, due, f)
  PROVE  Takes(c, f) \in Answers(StepOf(c).check, f.says)
<1>1. CASE f.for = c
  <2>1. f.for # None
    BY <1>1, ServiceAssumption
  <2> QED
    BY <1>1, <2>1 DEF Takes, Answers
<1>2. CASE f.for = None /\ OpOf(c).first # 0 /\ calls[c].pc = 1
  <2>1. StepOf(c).check = "push"
    BY <1>2, StepsIs
  <2> QED
    BY <2>1 DEF Takes, Answers
<1> QED
  BY <1>1, <1>2 DEF MineAt

\* What is left when a frame of its own was taken.
LEMMA TakenOwed ==
  ASSUME Base, NEW c \in Call, calls[c].phase = "reading", Owed(c), Taken, OpOf(c).loop = 0,
         NEW f, f = micro[1].unit.frame
  PROVE  /\ \A k \in DOMAIN Flow : MineAt(c, calls[c].pc, calls[c].pc, Flow[k])
         /\ MineAt(c, calls[c].pc, calls[c].pc, f)
         /\ StepOf(c).do = "raw" => Told(Flow) \in OpOf(c).unread[calls[c].pc + 1]
         /\ StepOf(c).do # "raw" =>
              /\ Takes(c, f) = "accept" => Told(Flow) \in OpOf(c).unread[calls[c].pc + 1]
              /\ Takes(c, f) = "again"  => Told(Flow) \in OpOf(c).unread[calls[c].pc]
              /\ Takes(c, f) = "throw"  => Flow = <<>>
         /\ service.framing = "matched" \/ (OpOf(c).first # 0 /\ calls[c].pc = 1) => Flow = <<>>
<1> USE DEF Base
<1>1. Due(c) = calls[c].pc
  BY DEF Due
<1>2. /\ \A k \in DOMAIN Flow : MineAt(c, calls[c].pc, calls[c].pc, Flow[k])
      /\ MineAt(c, calls[c].pc, calls[c].pc, f)
  BY <1>1 DEF Owed, Mine, MineAt
<1>3. PICK u \in OpOf(c).unread[calls[c].pc] : u # <<>> /\ Head(u) = f.says /\ Tail(u) = Told(Flow)
  BY <1>1 DEF Owed
<1>4. Takes(c, f) \in Answers(StepOf(c).check, Head(u))
  BY <1>2, <1>3, AnswerIs
<1>5. /\ StepOf(c).do = "raw" => Told(Flow) \in OpOf(c).unread[calls[c].pc + 1]
      /\ StepOf(c).do # "raw" =>
           /\ Takes(c, f) = "accept" => Told(Flow) \in OpOf(c).unread[calls[c].pc + 1]
           /\ Takes(c, f) = "again"  => Told(Flow) \in OpOf(c).unread[calls[c].pc]
           /\ Takes(c, f) = "throw"  => Told(Flow) = <<>>
  BY <1>3, <1>4, ReadsIs
<1>6. Told(Flow) = <<>> <=> Flow = <<>>
  BY FlowIs, ToldIs
<1>7. ASSUME service.framing = "matched" \/ (OpOf(c).first # 0 /\ calls[c].pc = 1) PROVE Flow = <<>>
  <2>1. Len(u) <= 1
    BY <1>7, StepsIs
  <2>2. \E T : u \in Seq(T)
    <3>1. OpOf(c) \in Ops /\ Len(OpOf(c).unread) \in Nat /\ OpOf(c).unread \in Seq(SUBSET Seq(Says))
      BY OpIs DEF Ops
    <3>2. calls[c].pc \in DOMAIN OpOf(c).unread
      <4>1. Len(OpOf(c).unread) = Len(OpOf(c).steps) + 1 /\ calls[c].pc \in 1..Len(OpOf(c).steps)
            /\ Len(OpOf(c).steps) \in Nat
        BY OpIs, AsksIs DEF ReadsWhatItAsks
      <4>2. DOMAIN OpOf(c).unread = 1..(Len(OpOf(c).steps) + 1)
        BY <3>1, <4>1
      <4> QED
        BY <4>1, <4>2
    <3>3. OpOf(c).unread[calls[c].pc] \in SUBSET Seq(Says)
      BY <3>1, <3>2, ElementOfSeq
    <3> QED
      BY <3>3
  <2>3. PICK T : u \in Seq(T)
    BY <2>2
  <2>4. Len(u) \in Nat /\ Len(u) >= 1 /\ Tail(u) \in Seq(T) /\ Len(Tail(u)) = Len(u) - 1
    BY <1>3, <2>3, TailIs
  <2>5. Len(Tail(u)) = 0
    BY <2>1, <2>4
  <2>6. Tail(u) = <<>>
    BY <2>4, <2>5, EmptySeq
  <2> QED
    BY <1>3, <1>6, <2>6
<1> QED
  BY <1>2, <1>5, <1>6, <1>7

LEMMA SoloGot == ASSUME Base, Solo, Got PROVE Solo'
<1> USE DEF Base
<1>1. PICK c \in Call :
           /\ micro # <<>> /\ c = Head(micro).who /\ Head(micro).what = "got" /\ calls[c].phase # "idle"
           /\ \/ Headed(c) \/ Strayed(c) \/ Repeated(c)
              \/ \E n \in Calls : Accepted(c, n) \/ Threw(c, n)
           /\ UNCHANGED <<service, open, todo, stream, writes, tag, pushed, crossed>>
  BY GotIs
<1>2. loose => loose'
  <2>1. ASSUME NEW n \in Calls, Accepted(c, n) PROVE loose => loose'
    BY <2>1, GoesLoose DEF Accepted
  <2>2. ASSUME NEW n \in Calls, Threw(c, n) PROVE loose => loose'
    BY <2>2 DEF Threw
  <2> QED
    BY <1>1, <2>1, <2>2 DEF Headed, Strayed, Repeated
<1>3. CASE loose'
  BY <1>3, SoloLoose
<1> SUFFICES ASSUME ~loose'
             PROVE  Solo'
  BY <1>3
<1>4. ~loose
  BY <1>2
<1>5. /\ Head(micro).at = calls[c].pc /\ Tail(micro) = <<>> /\ Head(micro) = micro[1]
      /\ Alone(c) /\ Where(c) /\ Owed(c) /\ calls[c].phase = "reading"
      /\ Only("got", c)
  BY <1>1, <1>4, SoloJob
<1>6. Steady /\ Awaits(c)
  BY <1>4, <1>5, SoloIs DEF Awaits
<1>7. /\ readers = <<>> /\ writes = <<>>
      /\ micro[1].unit.part = "head" <=> begun
      /\ micro[1].unit.part = "raw" <=> StepOf(c).do = "raw"
  BY <1>5 DEF Where, Only
<1>8. inbox' = inbox /\ begun' = begun /\ broken' = broken /\ Flow' = Flow /\ writes' = <<>> /\ service' = service
  BY <1>1, <1>7 DEF stream, Flow
<1> DEFINE Good == Solo'
           f == micro[1].unit.frame
\* The call reads on.
<1>9. ASSUME calls' = calls, greeted' = greeted, NEW want, want = IF begun THEN "body" ELSE Wants(StepOf(c)),
             readers' = <<Reader(c, calls[c].pc, want)>>, micro' = <<Try(Reader(c, calls[c].pc, want))>>,
             Owed(c)'
      PROVE  Good
  <2>1. OpOf(c)' = OpOf(c) /\ StepOf(c)' = StepOf(c) /\ \A d \in Call \ {c} : calls'[d] = calls[d] /\ ~Active(d)
    BY <1>1, <1>5, <1>9, SameOp DEF StepOf, Alone
  <2>2. Steady'
    BY <1>1, <1>6, <1>8, <1>9 DEF Steady, HasHead
  <2>3. Wants(StepOf(c))' = Wants(StepOf(c))
    BY <1>8, <2>1 DEF Wants, WantsReply
  <2>4. Where(c)'
    BY <1>5, <1>8, <1>9, <2>3, WhereTries
  <2>5. Active(c)'
    BY <1>5, <1>9 DEF Active
  <2> QED
    BY <1>9, <2>1, <2>2, <2>4, <2>5, SoloStep
<1>10. CASE Headed(c)
  <2>1. /\ calls' = calls /\ greeted' = greeted
        /\ readers' = <<Reader(c, calls[c].pc, "body")>> /\ micro' = <<Try(Reader(c, calls[c].pc, "body"))>>
    BY <1>5, <1>7, <1>10, FirstIs DEF Headed, Register
  <2>2. begun /\ ~Taken /\ ~Taken'
    BY <1>5, <1>7, <1>10, <2>1, TryIs, NotTaken DEF Headed
  <2>3. OpOf(c)' = OpOf(c) /\ Due(c)' = Due(c)
    BY <1>1, <2>1, SameOp DEF Due
  <2>4. Owed(c)'
    BY <1>5, <1>8, <2>1, <2>2, <2>3, OwedSame
  <2> QED
    BY <1>9, <2>1, <2>2, <2>4
<1>11. CASE Strayed(c)
  BY <1>6, <1>11 DEF Strayed
<1>12. CASE Repeated(c)
  <2>1. /\ calls' = calls /\ greeted' = greeted /\ Takes(c, f) = "again" /\ micro[1].unit.part \in {"body", "frame", "reply"}
        /\ readers' = <<Reader(c, calls[c].pc, Wants(StepOf(c)))>>
        /\ micro' = <<Try(Reader(c, calls[c].pc, Wants(StepOf(c))))>>
    BY <1>5, <1>7, <1>12, FirstIs DEF Repeated, Register, Got1
  <2>2. ~begun /\ Taken /\ ~Taken' /\ StepOf(c).do # "raw"
    BY <1>1, <1>5, <1>7, <2>1, TryIs, NotTaken DEF Taken
  <2>3. OpOf(c)' = OpOf(c) /\ Due(c)' = calls[c].pc /\ calls'[c].pc = calls[c].pc
    BY <1>1, <1>5, <2>1, SameOp DEF Due
  <2>4. CASE OpOf(c).loop # 0
    <3>1. Owed(c)'
      <4>1. \A k \in DOMAIN Flow' : Flow'[k].says # "raw"
        BY <1>5, <1>8, <2>4 DEF Owed
      <4> QED
        BY <2>3, <2>4, <4>1, OwedStream
    <3> QED
      BY <1>9, <2>1, <2>2, <3>1
  <2>5. CASE OpOf(c).loop = 0
    <3>1. /\ \A k \in DOMAIN Flow' : MineAt(c, calls'[c].pc, calls[c].pc, Flow'[k])
          /\ Told(Flow') \in OpOf(c).unread[calls[c].pc]
      BY <1>5, <1>8, <2>1, <2>2, <2>3, <2>5, TakenOwed
    <3>2. Owed(c)'
      BY <1>8, <2>2, <2>3, <2>5, <3>1, OwedNow
    <3> QED
      BY <1>9, <2>1, <2>2, <3>2
  <2> QED
    BY <2>4, <2>5
<1>13. ASSUME NEW n \in Calls, Accepted(c, n) PROVE Good
  <2>1. /\ Moves(c, n) /\ Goes(c, n, <<>>) /\ readers' = <<>> /\ micro[1].unit.part # "head"
        /\ micro[1].unit.part # "raw" => Takes(c, f) = "accept"
        /\ greeted' = (greeted \/ (OpOf(c).first # 0 /\ calls[c].pc = OpOf(c).first))
    BY <1>5, <1>7, <1>13 DEF Accepted, Got1
  <2>2. ~begun' /\ Taken
    BY <1>1, <1>5, <1>7, <1>8, <2>1 DEF Taken
  <2>3. Steady'
    BY <1>1, <1>6, <1>8, <2>1, <2>2, GreetsIs
  <2>4. OpOf(c).loop # 0 => \A k \in DOMAIN Flow : Flow[k].says # "raw"
    BY <1>5 DEF Owed
  <2>5. ASSUME OpOf(c).loop = 0
        PROVE  /\ Told(Flow) \in OpOf(c).unread[calls[c].pc + 1]
               /\ \A k \in DOMAIN Flow : MineAt(c, calls[c].pc + 1, calls[c].pc + 1, Flow[k])
    <3>1. /\ \A k \in DOMAIN Flow : MineAt(c, calls[c].pc, calls[c].pc, Flow[k])
          /\ Told(Flow) \in OpOf(c).unread[calls[c].pc + 1]
          /\ service.framing = "matched" \/ (OpOf(c).first # 0 /\ calls[c].pc = 1) => Flow = <<>>
      BY <1>5, <1>7, <2>1, <2>2, <2>5, TakenOwed
    <3>2. ASSUME NEW k \in DOMAIN Flow PROVE MineAt(c, calls[c].pc + 1, calls[c].pc + 1, Flow[k])
      <4>1. Flow # <<>>
        BY <3>2
      <4> QED
        BY <3>1, <4>1 DEF MineAt
    <3> QED
      BY <3>1, <3>2
  <2> QED
    BY <1>1, <1>5, <1>8, <2>1, <2>2, <2>3, <2>4, <2>5, SoloGoes
<1>14. ASSUME NEW n \in Calls, Threw(c, n) PROVE Good
  <2>1. /\ Moves(c, n) /\ Fails(c, n, <<>>) /\ readers' = <<>> /\ greeted' = greeted
        /\ micro[1].unit.part \in {"body", "frame", "reply"} /\ Takes(c, f) = "throw"
    BY <1>5, <1>7, <1>14 DEF Threw, Got1
  <2>2. OpOf(c).loop = 0
    BY <1>14 DEF Threw
  <2>3. ~begun' /\ Taken /\ StepOf(c).do # "raw"
    BY <1>1, <1>5, <1>7, <1>8, <2>1 DEF Taken
  <2>4. Steady'
    BY <1>1, <1>6, <1>8, <2>1, <2>3 DEF Steady
  <2>5. Flow' = <<>> /\ Flow = <<>>
    BY <1>5, <1>8, <2>1, <2>2, <2>3, TakenOwed
  <2>6. /\ calls'[c] = n /\ OpOf(c)' = OpOf(c) /\ \A d \in Call \ {c} : calls'[d] = calls[d] /\ ~Active(d)
    BY <1>1, <1>5, <2>1, MovesOps DEF SameOps, Alone
  <2>7. CASE calls[c].held /\ n.pc = OpOf(c).finally /\ n.phase = "run" /\ micro' = Append(<<>>, Run(c, n.pc))
    <3>1. micro' = <<Run(c, n.pc)>>
      BY <2>7, FirstIs
    <3>2. Where(c)'
      BY <1>8, <2>1, <2>3, <2>6, <2>7, <3>1, WhereRuns
    <3>3. ~Taken' /\ Due(c)' = n.pc
      BY <2>6, <2>7, <3>1, RunIs, NotTaken DEF Due
    <3>4. Told(Flow') = <<>>
      <4>1. <<>> \in Seq(Frames)
        OBVIOUS
      <4> QED
        BY <2>5, <4>1, ToldIs
    <3>5. OpOf(c).opens # 0
      BY <1>5, <2>7 DEF Holds, Alone
    <3>6. Told(Flow') \in OpOf(c).unread[n.pc]
      BY <1>1, <2>2, <2>7, <3>4, <3>5, StepsIs
    <3>7. \A k \in DOMAIN Flow' : MineAt(c, calls'[c].pc, n.pc, Flow'[k])
      BY <2>5
    <3>8. Owed(c)'
      BY <1>8, <2>2, <2>6, <3>3, <3>6, <3>7, OwedNow
    <3> QED
      BY <2>4, <2>6, <2>7, <3>2, <3>8, SoloStep DEF Active
  <2>8. CASE n.phase = "failed" /\ micro' = <<>>
    <3>1. AtRest' /\ ~(Active(c)')
      BY <1>8, <2>1, <2>3, <2>5, <2>6, <2>8 DEF AtRest, Active
    <3> QED
      BY <2>4, <2>6, <3>1, SoloStep
  <2> QED
    BY <2>1, <2>7, <2>8 DEF Fails
<1> QED
  BY <1>1, <1>10, <1>11, <1>12, <1>13, <1>14

\* The only call stays where it is, with the same reads, and the same to read.
LEMMA SoloStays ==
  ASSUME Base, NEW c \in Call, Alone(c), Owed(c), ~Taken, ~Taken', calls' = calls, service' = service,
         Flow' = Flow, Steady', Where(c)'
  PROVE  Solo'
<1>1. OpOf(c)' = OpOf(c) /\ service' = service /\ Due(c)' = Due(c) /\ calls'[c].pc = calls[c].pc
  BY SameOp DEF Due
<1>2. Owed(c)'
  BY <1>1, OwedSame
<1>3. \A d \in Call \ {c} : calls'[d] = calls[d] /\ ~Active(d)
  BY DEF Alone
<1>4. Active(c)'
  BY DEF Alone, Active
<1> QED
  BY <1>2, <1>3, <1>4, SoloStep

LEMMA SoloWritten == ASSUME Base, Solo, Written PROVE Solo'
<1> USE DEF Base
<1>1. PICK k \in 1..Len(writes) :
        /\ writes' = SubSeq(writes, k + 1, Len(writes))
        /\ micro' = [j \in 1..k |-> Job("written", writes[j], calls[writes[j]].pc, NoUnit)]
  BY DEF Written
<1>2. /\ micro = <<>> /\ writes # <<>>
      /\ UNCHANGED <<service, open, todo, stream, readers, calls, greeted, pushed, loose, crossed>>
  BY DEF Written, Quiet
<1>3. CASE loose
  BY <1>2, <1>3, SoloLoose
<1>4. CASE ~loose
  <2>1. PICK c \in Call : Active(c)
    BY <1>2, <1>4, SoloIs DEF AtRest
  <2>2. Alone(c) /\ Where(c) /\ Owed(c) /\ Steady
    BY <1>4, <2>1, SoloIs
  <2>3. calls[c].phase = "sent" /\ readers = <<>> /\ ~begun /\ Len(writes) = 1 /\ writes[1] = c
    BY <1>2, <2>1, <2>2 DEF Where, Active, Only
  <2>4. k = 1
    BY <2>3
  <2>5. writes' = <<>>
    <3>1. writes \in Seq(Call) /\ k \in 1..Len(writes)
      BY DEF TypeOK
    <3>2. SubSeq(writes, k + 1, Len(writes)) \in Seq(Call) /\ Len(SubSeq(writes, k + 1, Len(writes))) = Len(writes) - k
      BY <3>1, RestIs
    <3>3. Len(SubSeq(writes, k + 1, Len(writes))) = 0
      BY <2>3, <2>4, <3>2
    <3> QED
      BY <1>1, <3>2, <3>3, EmptySeq
  <2> DEFINE j == Job("written", c, calls[c].pc, NoUnit)
  <2>6. micro' = <<j>>
    <3>1. micro' = [i \in 1..1 |-> Job("written", writes[i], calls[writes[i]].pc, NoUnit)]
      BY <1>1, <2>4
    <3>2. micro' = [i \in 1..1 |-> j]
      BY <2>3, <3>1
    <3> HIDE DEF j
    <3> QED
      BY <3>2
  <2>7. j.what = "written" /\ j.who = c /\ j.at = calls[c].pc
    BY DEF Job
  <2> HIDE DEF j
  <2>8. Len(<<j>>) = 1 /\ <<j>>[1] = j /\ <<j>> # <<>>
    OBVIOUS
  <2>9. Where(c)'
    BY <1>2, <2>3, <2>5, <2>6, <2>7, <2>8 DEF Where, Only, stream
  <2>10. ~Taken /\ ~Taken'
    BY <1>2, <2>6, <2>7, NotTaken
  <2>11. Flow' = Flow /\ Steady'
    BY <1>2, <2>2, <2>3 DEF Flow, Steady, stream
  <2> QED
    BY <1>2, <2>2, <2>9, <2>10, <2>11, SoloStays
<1> QED
  BY <1>3, <1>4

\* Where the only call is between events.
LEMMA WhereQuiet ==
  ASSUME micro = <<>>, NEW c \in Call, Where(c), Active(c)
  PROVE  \/ calls[c].phase = "sent" /\ readers = <<>> /\ ~begun
         \/ calls[c].phase = "draining" /\ readers = <<>> /\ ~begun
         \/ /\ calls[c].phase = "reading" /\ Len(readers) = 1 /\ writes = <<>>
            /\ readers[1].who = c /\ readers[1].at = calls[c].pc
            /\ readers[1].want = IF begun THEN "body" ELSE Wants(StepOf(c))
BY DEF Where, Active, Only

LEMMA SoloArrive == ASSUME Base, Solo, Arrive PROVE Solo'
<1> USE DEF Base
<1>1. /\ micro = <<>> /\ micro' = [j \in DOMAIN readers |-> Try(readers[j])]
      /\ UNCHANGED <<service, open, begun, broken, readers, writes, calls, tag, greeted, pushed, loose, crossed>>
      /\ \/ UNCHANGED <<todo, inbox>>
         \/ /\ todo # <<>> /\ todo' = Tail(todo)
            /\ inbox' = IF broken THEN <<>> ELSE Append(inbox, Head(todo))
  BY DEF Arrive, Quiet
<1>2. CASE loose
  BY <1>1, <1>2, SoloLoose
<1> SUFFICES ASSUME ~loose
             PROVE  Solo'
  BY <1>2
<1>3. Steady
  BY SoloIs
<1>4. Flow' = Flow
  <2>1. CASE UNCHANGED <<todo, inbox>>
    BY <2>1 DEF Flow
  <2>2. CASE todo # <<>> /\ todo' = Tail(todo) /\ inbox' = Append(inbox, Head(todo))
    BY <2>2, FlowArrives
  <2> QED
    BY <1>1, <1>3, <2>1, <2>2 DEF Steady
<1>5. inbox # <<>> => inbox' # <<>> /\ Head(inbox') = Head(inbox)
  <2>1. CASE UNCHANGED <<todo, inbox>>
    BY <2>1
  <2>2. CASE todo # <<>> /\ inbox' = Append(inbox, Head(todo))
    <3>1. inbox \in Seq(Frames) /\ Head(todo) \in Frames
      BY <2>2, TailIs DEF TypeOK
    <3>2. inbox' # <<>> /\ Head(inbox') = IF inbox = <<>> THEN Head(todo) ELSE Head(inbox)
      BY <2>2, <3>1, AppendIs, HeadTailAppend
    <3> QED
      BY <3>2
  <2> QED
    BY <1>1, <1>3, <2>1, <2>2 DEF Steady
<1>6. Steady'
  BY <1>1, <1>3, <1>5 DEF Steady, HasHead
<1>7. ASSUME readers = <<>> PROVE micro' = <<>>
  <2>1. DOMAIN readers = {}
    BY <1>7
  <2>2. [j \in DOMAIN readers |-> Try(readers[j])] \in Seq(Jobs)
        /\ Len([j \in DOMAIN readers |-> Try(readers[j])]) = Len(readers)
    BY TriesIs
  <2>3. Len(readers) = 0
    BY <1>7
  <2> QED
    BY <1>1, <2>2, <2>3, EmptySeq
<1>8. ASSUME NEW c \in Call, Active(c) PROVE Solo'
  <2>1. Alone(c) /\ Where(c) /\ Owed(c)
    BY <1>8, SoloIs
  <2>2. ~Taken
    BY <1>1, NotTaken
  <2>3. OpOf(c)' = OpOf(c) /\ service' = service /\ StepOf(c)' = StepOf(c)
    BY <1>1, SameOp DEF StepOf
  <2>4. Wants(StepOf(c))' = Wants(StepOf(c))
    BY <2>3 DEF Wants, WantsReply
  <2>5. CASE readers = <<>>
    <3>1. micro' = <<>>
      BY <1>7, <2>5
    <3>2. Where(c)'
      <4>1. /\ ~begun
            /\ \/ calls[c].phase = "sent" /\ Len(writes) = 1 /\ writes[1] = c
               \/ calls[c].phase = "draining" /\ writes = <<>>
        BY <1>1, <1>8, <2>1, <2>5, WhereQuiet DEF Where, Only
      <4> QED
        BY <1>1, <2>5, <3>1, <4>1 DEF Where
    <3>3. ~Taken'
      BY <3>1, NotTaken
    <3> QED
      BY <1>1, <1>4, <1>6, <2>1, <2>2, <3>2, <3>3, SoloStays
  <2>6. CASE readers # <<>>
    <3>1. /\ calls[c].phase = "reading" /\ Len(readers) = 1 /\ writes = <<>>
          /\ readers[1].who = c /\ readers[1].at = calls[c].pc
          /\ readers[1].want = IF begun THEN "body" ELSE Wants(StepOf(c))
      BY <1>1, <1>8, <2>1, <2>6, WhereQuiet
    <3>2. DOMAIN readers = {1} /\ DOMAIN readers = 1..1
      <4>1. readers \in Seq(Reads)
        BY DEF TypeOK
      <4> QED
        BY <3>1, <4>1, OneIs
    <3> DEFINE j == Try(readers[1])
    <3>3. micro' = <<j>>
      <4>1. micro' = [i \in 1..1 |-> j]
        BY <1>1, <3>2
      <4> HIDE DEF j
      <4> QED
        BY <4>1
    <3>4. j.what = "try" /\ j.who = c /\ j.at = calls[c].pc
      BY <3>1, TryIs
    <3> HIDE DEF j
    <3>5. Len(<<j>>) = 1 /\ <<j>>[1] = j
      OBVIOUS
    <3>6. Only("try", c)'
      BY <1>1, <3>3, <3>4, <3>5 DEF Only
    <3>7. Where(c)'
      BY <1>1, <2>4, <3>1, <3>6 DEF Where
    <3>8. ~Taken'
      BY <3>3, <3>4, NotTaken
    <3> QED
      BY <1>1, <1>4, <1>6, <2>1, <2>2, <3>7, <3>8, SoloStays
  <2> QED
    BY <2>5, <2>6
<1>9. CASE \A c \in Call : ~Active(c)
  <2>1. AtRest
    BY <1>9, SoloIs
  <2>2. micro' = <<>>
    BY <1>7, <2>1 DEF AtRest
  <2>3. AtRest'
    BY <1>1, <1>4, <2>1, <2>2 DEF AtRest, Told
  <2>4. \A d \in Call : ~(Active(d)')
    BY <1>1, <1>9 DEF Active
  <2> QED
    BY <1>6, <2>3, <2>4, SoloRest
<1> QED
  BY <1>8, <1>9

LEMMA SoloPush == ASSUME Base, Solo, Push PROVE Solo'
<1> USE DEF Base
<1>1. /\ micro = <<>> /\ todo' = Append(todo, Unasked)
      /\ loose' = (loose \/ ~\E c \in Call : Active(c) /\ OpOf(c).loop # 0)
      /\ UNCHANGED <<service, open, stream, readers, micro, writes, calls, tag, greeted, crossed>>
  BY DEF Push, Quiet
<1>2. CASE loose'
  BY <1>2, SoloLoose
<1>3. CASE ~loose'
  <2>1. PICK c \in Call : Active(c) /\ OpOf(c).loop # 0
    BY <1>1, <1>3
  <2>2. Alone(c) /\ Where(c) /\ Owed(c) /\ Steady
    BY <1>1, <1>3, <2>1, SoloIs
  <2>3. OpOf(c)' = OpOf(c) /\ service' = service
    BY <1>1, SameOp
  <2>4. Steady' /\ Where(c)'
    BY <1>1, <2>2, <2>3 DEF Steady, Where, Only, HasHead, stream, StepOf, Wants, WantsReply
  <2>5. <<Unasked>> \in Seq(Frames) /\ todo \in Seq(Frames) /\ Unasked \in Frames
    BY UnaskedIs DEF TypeOK
  <2>6. todo' = todo \o <<Unasked>>
    BY <1>1, <2>5, AppendIsConcat
  <2> DEFINE s == <<Unasked>>
  <2>7. \A k \in DOMAIN s : s[k].says # "raw"
    <3> HIDE DEF Unasked
    <3>1. DOMAIN s = {1} /\ s[1] = Unasked
      OBVIOUS
    <3> QED
      BY <3>1, UnaskedIs
  <2> HIDE DEF s
  <2>8. \A k \in DOMAIN Flow' : \/ k \in DOMAIN Flow /\ Flow'[k] = Flow[k]
                                \/ k - Len(Flow) \in DOMAIN s /\ Flow'[k] = s[k - Len(Flow)]
    BY <1>1, <2>5, <2>6, FlowGrows DEF s, stream
  <2>9. \A k \in DOMAIN Flow' : Flow'[k].says # "raw"
    BY <2>1, <2>2, <2>7, <2>8 DEF Owed
  <2>10. Owed(c)'
    BY <2>1, <2>3, <2>9, OwedStream
  <2>11. \A d \in Call \ {c} : calls'[d] = calls[d] /\ ~Active(d)
    BY <1>1, <2>2 DEF Alone
  <2>12. Active(c)'
    BY <1>1, <2>1 DEF Active
  <2> QED
    BY <2>4, <2>10, <2>11, <2>12, SoloStep
<1> QED
  BY <1>2, <1>3

\* What the service sends next is the first of what is unread, or a later one.
LEMMA TodoInFlow ==
  ASSUME TypeOK, todo # <<>>
  PROVE  /\ \E k \in DOMAIN Flow : Flow[k] = Head(todo)
         /\ inbox # <<>> => Len(Flow) > 1
         /\ todo' = Tail(todo) /\ inbox' = inbox =>
              \A k \in DOMAIN Flow' : \E l \in DOMAIN Flow : Flow'[k] = Flow[l]
<1>1. inbox \in Seq(Frames) /\ todo \in Seq(Frames)
  BY DEF TypeOK
<1>2. /\ Len(todo) \in Nat /\ Len(todo) >= 1 /\ Tail(todo) \in Seq(Frames) /\ Len(Tail(todo)) = Len(todo) - 1
      /\ Head(todo) = todo[1] /\ \A i \in 1..(Len(todo) - 1) : Tail(todo)[i] = todo[i + 1]
  BY <1>1, TailIs
<1> DEFINE L == Len(inbox)
           M == Len(todo)
           x == inbox \o todo
           t == Tail(todo)
           y == inbox \o t
<1>3. L \in Nat /\ (L = 0 <=> inbox = <<>>)
  BY <1>1
<1> HIDE DEF t
<1>4. /\ x \in Seq(Frames) /\ Len(x) = L + M
      /\ \A i \in 1..(L + M) : x[i] = IF i <= L THEN inbox[i] ELSE todo[i - L]
  BY <1>1, ConcatProperties
<1>5. Flow = x
  BY DEF Flow
<1>6. \A i \in DOMAIN y : \/ i \in DOMAIN inbox /\ y[i] = inbox[i]
                          \/ i - L \in DOMAIN t /\ y[i] = t[i - L]
  BY <1>1, <1>2, JoinElems DEF t
<1>7. t = Tail(todo) /\ DOMAIN inbox = 1..L /\ DOMAIN t = 1..(M - 1)
  BY <1>1, <1>2 DEF t
<1>8. todo' = Tail(todo) /\ inbox' = inbox => Flow' = y
  BY <1>7 DEF Flow
<1> HIDE DEF x, y, L, M
<1>9. M \in Nat /\ M >= 1 /\ Head(todo) = todo[1] /\ \A i \in 1..(M - 1) : t[i] = todo[i + 1]
  BY <1>2, <1>7 DEF M
<1>10. DOMAIN x = 1..(L + M)
  BY <1>3, <1>4, <1>9
<1>11. x[L + 1] = todo[1] /\ L + 1 \in DOMAIN x
  <2>1. L + 1 \in 1..(L + M) /\ ~(L + 1 <= L) /\ (L + 1) - L = 1
    BY <1>3, <1>9
  <2> QED
    BY <1>4, <1>10, <2>1
<1>12. ASSUME NEW k \in DOMAIN y PROVE \E l \in DOMAIN x : y[k] = x[l]
  <2>1. CASE k \in 1..L /\ y[k] = inbox[k]
    <3>1. k \in 1..(L + M) /\ k <= L
      BY <1>3, <1>9, <2>1
    <3> QED
      BY <1>4, <1>10, <2>1, <3>1
  <2>2. CASE k - L \in 1..(M - 1) /\ y[k] = t[k - L]
    <3> DEFINE i == k - L
    <3>1. i \in 1..(M - 1) /\ y[k] = t[i]
      BY <2>2
    <3> HIDE DEF i
    <3>2. y[k] = todo[i + 1]
      BY <1>9, <3>1
    <3>3. L + (i + 1) \in 1..(L + M) /\ ~(L + (i + 1) <= L) /\ (L + (i + 1)) - L = i + 1
      BY <1>3, <1>9, <3>1
    <3>4. x[L + (i + 1)] = todo[i + 1]
      BY <1>4, <3>3
    <3> QED
      BY <1>10, <3>2, <3>3, <3>4
  <2> QED
    BY <1>6, <1>7, <2>1, <2>2
<1>13. inbox # <<>> => Len(x) > 1
  BY <1>3, <1>4, <1>9
<1> QED
  BY <1>5, <1>8, <1>9, <1>11, <1>12, <1>13

LEMMA SoloArriveMatched == ASSUME Base, Solo, ArriveMatched PROVE Solo'
<1> USE DEF Base
<1> DEFINE f == Head(todo)
           own == {k \in DOMAIN readers : readers[k].who = f.for /\ readers[k].want = "reply" /\ readers[k].at = f.at}
<1>a. CASE Handed
  BY <1>a, SoloLoose DEF Handed
<1> SUFFICES ASSUME ~Handed
             PROVE  Solo'
  BY <1>a
<1>1. /\ micro = <<>> /\ open /\ todo # <<>> /\ IsReply(f) /\ todo' = Tail(todo)
      /\ \/ \E k \in own :
              /\ readers' = RemoveAt(readers, k)
              /\ micro' = <<Job("got", f.for, readers[k].at, [part |-> "reply", frame |-> f])>>
         \/ own = {} /\ calls[f.for].phase # "sent" /\ UNCHANGED <<readers, micro>>
      /\ UNCHANGED <<service, open, stream, writes, calls, tag, greeted, pushed, loose, crossed>>
  BY DEF ArriveMatched, Quiet, Handed, stream
<1>2. CASE loose
  BY <1>1, <1>2, SoloLoose
<1> SUFFICES ASSUME ~loose
             PROVE  Solo'
  BY <1>2
<1>3. Steady /\ service.framing = "matched" /\ f.says \in {"good", "bad"}
  BY <1>1, SoloIs DEF IsReply
<1>4. ~begun /\ ~begun' /\ inbox' = inbox /\ broken' = broken /\ service' = service
  BY <1>1, <1>3 DEF Steady, HasHead, stream
<1>5. /\ \E k \in DOMAIN Flow : Flow[k] = f
      /\ inbox # <<>> => Len(Flow) > 1
      /\ \A k \in DOMAIN Flow' : \E l \in DOMAIN Flow : Flow'[k] = Flow[l]
  BY <1>1, <1>4, TodoInFlow
<1>6. Steady'
  BY <1>1, <1>3, <1>4 DEF Steady
<1>7. PICK c \in Call : Active(c)
  <2>1. SUFFICES ASSUME \A c \in Call : ~Active(c) PROVE FALSE
    OBVIOUS
  <2>2. AtRest
    BY <2>1, SoloIs
  <2>3. Told(Flow) = <<"event">>
    <3>1. Flow # <<>>
      BY <1>5
    <3> QED
      BY <2>2, <3>1 DEF AtRest
  <2>4. PICK k \in DOMAIN Flow : Flow[k] = f
    BY <1>5
  <2>5. Told(Flow)[k] = f.says /\ k \in DOMAIN Told(Flow)
    BY <2>4, FlowIs, ToldIs
  <2>6. \A i \in DOMAIN <<"event">> : <<"event">>[i] = "event"
    OBVIOUS
  <2> QED
    BY <1>3, <2>3, <2>5, <2>6
<1>8. Alone(c) /\ Where(c) /\ Owed(c)
  BY <1>7, SoloIs
<1>9. OpOf(c)' = OpOf(c) /\ StepOf(c)' = StepOf(c) /\ \A d \in Call \ {c} : calls'[d] = calls[d] /\ ~Active(d)
  BY <1>1, <1>8, SameOp DEF StepOf, Alone
<1>10. ~Taken /\ calls[c].phase # "idle"
  BY <1>1, <1>7, NotTaken DEF Active
<1>11. Active(c)'
  BY <1>1, <1>7 DEF Active
<1> DEFINE Good == Solo'
<1>12. ASSUME Where(c)', Owed(c)' PROVE Good
  BY <1>6, <1>9, <1>11, <1>12, SoloStep
<1>13. ASSUME OpOf(c).loop # 0 PROVE Owed(c)'
  <2>1. \A k \in DOMAIN Flow' : Flow'[k].says # "raw"
    BY <1>5, <1>8, <1>13 DEF Owed
  <2> QED
    BY <1>9, <1>13, <2>1, OwedStream
<1>14. OpOf(c).loop = 0 => f.for = c /\ f.at = Due(c)
  BY <1>3, <1>5, <1>8, <1>10, FlowOwed DEF MineAt
<1>15. CASE calls[c].phase = "sent"
  <2>1. readers = <<>> /\ own = {}
    BY <1>1, <1>7, <1>8, <1>15, WhereQuiet
  <2>2. readers' = <<>> /\ micro' = <<>> /\ calls[f.for].phase # "sent"
    BY <1>1, <2>1
  <2>3. OpOf(c).loop # 0
    BY <1>14, <1>15, <2>2
  <2>4. Len(writes) = 1 /\ writes[1] = c
    BY <1>1, <1>8, <1>15 DEF Where, Only
  <2>5. Where(c)'
    BY <1>1, <1>4, <1>15, <2>2, <2>4 DEF Where
  <2> QED
    BY <1>12, <1>13, <2>3, <2>5
<1>16. CASE calls[c].phase = "draining"
  <2>1. OpOf(c).steps[calls[c].pc].do = "drain" /\ calls[c].pc \in DOMAIN OpOf(c).steps
    BY <1>10, <1>16, OpIs DEF Places, AtStep, TypeOK
  <2>2. OpOf(c).steps[calls[c].pc].do \in {"write", "read"}
    BY <1>3, <1>10, <2>1, AsksIs DEF MatchesReplies
  <2> QED
    BY <2>1, <2>2
<1>17. CASE calls[c].phase = "reading"
  <2>1. /\ Len(readers) = 1 /\ writes = <<>>
        /\ readers[1].who = c /\ readers[1].at = calls[c].pc
        /\ readers[1].want = Wants(StepOf(c))
    BY <1>1, <1>4, <1>7, <1>8, <1>17, WhereQuiet
  <2>2. readers \in Seq(Reads)
    BY DEF TypeOK
  <2>3. DOMAIN readers = {1} /\ RemoveAt(readers, 1) = <<>>
    BY <2>1, <2>2, OneIs, NoneIs
  <2>4. StepOf(c).do = "read" /\ Wants(StepOf(c))' = Wants(StepOf(c))
    BY <1>3, <1>4, <1>9, <1>17, ReadsIs DEF Wants, WantsReply
  <2>5. ASSUME NEW k \in own, readers' = RemoveAt(readers, k),
               micro' = <<Job("got", f.for, readers[k].at, [part |-> "reply", frame |-> f])>>
        PROVE  /\ Where(c)' /\ micro'[1].unit.frame = f /\ Taken'
    <3> DEFINE u == [part |-> "reply", frame |-> f]
    <3>1. k = 1 /\ f.for = c /\ readers' = <<>>
      BY <2>1, <2>3, <2>5
    <3>2. micro' = <<Job("got", c, calls[c].pc, u)>>
      BY <2>1, <2>5, <3>1
    <3>3. u.part = "reply" /\ u.frame = f
      OBVIOUS
    <3> HIDE DEF u
    <3>4. u.part = "head" <=> begun'
      BY <1>4, <3>3
    <3>5. u.part = "raw" <=> (StepOf(c).do = "raw")'
      BY <1>9, <2>4, <3>3
    <3>6. calls'[c].phase = "reading" /\ writes' = <<>> /\ micro' = <<Job("got", c, calls'[c].pc, u)>>
      BY <1>1, <1>17, <2>1, <3>2
    <3>7. Where(c)' /\ micro'[1].unit = u /\ (u.part # "head" => Taken')
      BY <3>1, <3>4, <3>5, <3>6, WhereGot
    <3> QED
      BY <3>3, <3>7
  <2>6. CASE OpOf(c).loop # 0
    <3>1. CASE UNCHANGED <<readers, micro>>
      <4>1. Where(c)'
        BY <1>1, <1>4, <1>17, <2>1, <2>4, <3>1 DEF Where
      <4> QED
        BY <1>12, <1>13, <2>6, <4>1
    <3>2. ASSUME NEW k \in own, readers' = RemoveAt(readers, k),
                 micro' = <<Job("got", f.for, readers[k].at, [part |-> "reply", frame |-> f])>>
          PROVE  Good
      BY <1>12, <1>13, <2>5, <2>6, <3>2
    <3> QED
      BY <1>1, <3>1, <3>2
  <2>7. CASE OpOf(c).loop = 0
    <3>1. /\ \A k \in DOMAIN Flow : MineAt(c, calls[c].pc, calls[c].pc, Flow[k])
          /\ Told(Flow) \in OpOf(c).unread[calls[c].pc]
      BY <1>8, <1>10, <1>17, <2>7, FlowOwed DEF Due
    <3>2. Len(Told(Flow)) <= 1 /\ Len(Told(Flow)) = Len(Flow) /\ Len(Flow) \in Nat
      BY <1>3, <1>10, <2>7, <3>1, StepsIs, FlowIs, ToldIs
    <3>3. inbox = <<>>
      BY <1>5, <3>2
    <3>4. Flow # <<>> /\ Head(Flow) = f /\ Flow' = Tail(Flow)
      BY <1>1, <1>4, <3>3, FlowTakes
    <3>5. Told(Flow) # <<>> /\ Head(Told(Flow)) = f.says /\ Tail(Told(Flow)) = Told(Flow')
      BY <3>4, FlowIs, ToldTail
    <3>6. WantsReply(service, StepOf(c))
      BY <1>3, <1>17, <2>7, <3>1, <3>5, ReadsIs
    <3>7. readers[1].want = "reply"
      BY <1>3, <2>1, <2>4, <3>6 DEF Wants
    <3>8. f.for = c /\ f.at = calls[c].pc
      BY <1>14, <1>17, <2>7 DEF Due
    <3>9. own # {}
      BY <2>1, <2>3, <3>7, <3>8
    <3>10. PICK q \in own : /\ readers' = RemoveAt(readers, q)
                            /\ micro' = <<Job("got", f.for, readers[q].at, [part |-> "reply", frame |-> f])>>
      BY <1>1, <3>9
    <3>11. Where(c)' /\ micro'[1].unit.frame = f /\ Taken'
      BY <2>5, <3>10
    <3>12. Due(c)' = calls[c].pc /\ calls'[c].pc = calls[c].pc
      BY <1>1, <1>17 DEF Due
    <3>13. (\A k \in DOMAIN Flow' : MineAt(c, calls'[c].pc, calls[c].pc, Flow'[k]))
           /\ MineAt(c, calls'[c].pc, calls[c].pc, f)
      BY <1>5, <3>1, <3>12
    <3>14. Owed(c)'
      BY <1>4, <1>9, <2>7, <3>1, <3>5, <3>11, <3>12, <3>13, OwedTaken
    <3> QED
      BY <1>12, <3>11, <3>14
  <2> QED
    BY <2>6, <2>7
<1> QED
  BY <1>1, <1>7, <1>8, <1>15, <1>16, <1>17, WhereQuiet

LEMMA SoloStart == ASSUME Base, Solo, NEW c \in Call, NEW o \in DOMAIN service.ops, Start(c, o) PROVE Solo'
<1> USE DEF Base
<1> DEFINE op == service.ops[o]
           pc == IF greeted THEN op.first + 1 ELSE 1
<1>1. /\ calls[c] = Idle /\ calls' = [calls EXCEPT ![c] = [@ EXCEPT !.op = o, !.pc = pc, !.phase = "run"]]
      /\ micro = <<>> /\ micro' = <<Run(c, pc)>>
      /\ loose' = (loose \/ \E d \in Call : Active(d))
      /\ op.first # 0 \/ ~service.greets \/ greeted
      /\ UNCHANGED <<service, open, todo, stream, readers, writes, tag, greeted, pushed, crossed>>
  BY DEF Start, Quiet, TypeOK
<1>2. CASE loose'
  BY <1>2, SoloLoose
<1> SUFFICES ASSUME ~loose'
             PROVE  Solo'
  BY <1>2
<1>3. Steady /\ AtRest /\ \A d \in Call : ~Active(d)
  BY <1>1, SoloIs
<1>4. readers' = <<>> /\ writes' = <<>> /\ ~begun /\ ~begun' /\ Flow' = Flow /\ service' = service
  BY <1>1, <1>3 DEF AtRest, Flow, stream
<1>5. Steady'
  BY <1>1, <1>3, <1>4 DEF Steady, stream
<1>6. /\ calls'[c].op = o /\ calls'[c].pc = pc /\ calls'[c].phase = "run"
      /\ \A d \in Call \ {c} : calls'[d] = calls[d]
  BY <1>1 DEF TypeOK, Idle
<1>7. RowOK(service) /\ service.ops \in Seq(Ops)
  BY RowIs DEF TypeOK, Rows
<1>8. /\ op.loop = 0 => ReadsWhatItAsks(op)
      /\ op.first # 0 => service.greets /\ op.loop = 0 /\ Greets(op)
      /\ op.first \in Nat
  <2>1. op \in Ops
    BY <1>7
  <2> QED
    BY <1>7, <2>1 DEF RowOK, Ops
<1>9. OpOf(c)' = op
  <2>1. o # 0
    BY <1>7
  <2> QED
    BY <1>4, <1>6, <2>1 DEF OpOf
<1>10. Flow = <<>> \/ (/\ service.greets /\ ~greeted /\ Told(Flow) = <<"event">>
                       /\ \A k \in DOMAIN Flow : Flow[k].for = None)
  BY <1>3 DEF AtRest
<1>11. Told(Flow) = <<>> \/ Told(Flow) = <<"event">>
  BY <1>10, FlowIs, ToldIs
<1>12. \A k \in DOMAIN Flow : Flow[k].says = "event" /\ Flow[k].for = None /\ ~greeted /\ op.first # 0
  <2> TAKE k \in DOMAIN Flow
  <2>1. Flow # <<>>
    OBVIOUS
  <2>2. k \in DOMAIN Told(Flow) /\ Told(Flow)[k] = Flow[k].says
    BY FlowIs, ToldIs
  <2>3. \A i \in DOMAIN <<"event">> : <<"event">>[i] = "event"
    OBVIOUS
  <2> QED
    BY <1>1, <1>10, <2>1, <2>2, <2>3
<1>13. op.loop = 0 => Told(Flow) \in op.unread[pc]
  <2>1. CASE Flow # <<>>
    <3>1. Told(Flow) = <<"event">> /\ ~greeted /\ op.first # 0
      BY <1>1, <1>10, <2>1
    <3> QED
      BY <1>8, <3>1 DEF Greets
  <2>2. CASE Flow = <<>>
    <3>1. Told(Flow) = <<>>
      BY <2>2, FlowIs, ToldIs
    <3>2. op.loop = 0 => <<>> \in op.unread[op.first + 1]
      BY <1>8 DEF ReadsWhatItAsks
    <3>3. op.first # 0 => <<>> \in op.unread[1]
      BY <1>8 DEF Greets
    <3>4. op.first = 0 => op.first + 1 = 1
      OBVIOUS
    <3> QED
      BY <3>1, <3>2, <3>3, <3>4
  <2> QED
    BY <2>1, <2>2
<1>14. Where(c)'
  BY <1>1, <1>4, <1>6, WhereRuns
<1>15. ~Taken'
  BY <1>1, RunIs, NotTaken
<1> HIDE DEF op, pc
<1>16. (\A k \in DOMAIN Flow : Mine(c, Flow[k]))' /\ Due(c)' = pc
  <2>1. \A k \in DOMAIN Flow' : Flow'[k].for = None /\ Flow'[k].says = "event" /\ op.first # 0 /\ pc = 1
    BY <1>4, <1>12 DEF pc
  <2> QED
    BY <1>6, <1>9, <2>1 DEF Mine, Due
<1>17. Told(Flow)' = Told(Flow)
  BY <1>4 DEF Told
<1>18. (\A k \in DOMAIN Flow : Flow[k].says # "raw")'
  BY <1>4, <1>12
<1>19. Owed(c)'
  BY <1>9, <1>13, <1>15, <1>16, <1>17, <1>18 DEF Owed
<1>20. Active(c)'
  BY <1>6 DEF Active
<1> QED
  BY <1>3, <1>5, <1>6, <1>14, <1>19, <1>20, SoloStep

LEMMA SoloInit == Init => Solo
<1> SUFFICES ASSUME Init
             PROVE  Solo
  OBVIOUS
<1>1. \A c \in Call : ~Active(c)
  BY DEF Init, Idle, Active
<1>2. open /\ ~broken /\ ~begun /\ ~greeted /\ micro = <<>> /\ readers = <<>> /\ writes = <<>>
  BY DEF Init
<1>3. Flow = todo
  <2>1. todo \in Seq(Frames) /\ inbox = <<>>
    BY InitType DEF TypeOK, Init
  <2> QED
    BY <2>1, ConcatEmptySeq DEF Flow
<1>4. CASE ~service.greets
  BY <1>1, <1>2, <1>3, <1>4 DEF Init, Solo, AtRest
<1>5. CASE service.greets
  <2>1. Flow = <<Unasked>>
    BY <1>3, <1>5 DEF Init
  <2> HIDE DEF Unasked
  <2>2. DOMAIN <<Unasked>> = {1} /\ DOMAIN <<Unasked>> = 1..1 /\ <<Unasked>>[1] = Unasked
    OBVIOUS
  <2>3. Told(<<Unasked>>) = [k \in 1..1 |-> <<Unasked>>[k].says]
    BY <2>2 DEF Told
  <2>4. Told(<<Unasked>>) = [k \in 1..1 |-> "event"]
    BY <2>2, <2>3, UnaskedIs
  <2>5. Told(<<Unasked>>) = <<"event">>
    BY <2>4
  <2>6. \A k \in DOMAIN Flow : Flow[k].for = None
    BY <2>1, <2>2, UnaskedIs
  <2>7. AtRest
    BY <1>2, <1>5, <2>1, <2>5, <2>6 DEF AtRest
  <2> QED
    BY <1>1, <1>2, <1>5, <2>7 DEF Solo
<1> QED
  BY <1>4, <1>5

LEMMA SoloKept == ASSUME Base, Solo, [Next]_vars PROVE Solo'
<1>1. CASE UNCHANGED vars
  <2>1. /\ service' = service /\ inbox' = inbox /\ todo' = todo /\ begun' = begun /\ broken' = broken /\ open' = open
        /\ readers' = readers /\ micro' = micro /\ writes' = writes /\ calls' = calls /\ greeted' = greeted
        /\ loose' = loose /\ service' = service
    BY <1>1 DEF vars, stream
  <2>2. Flow' = Flow /\ (Taken' <=> Taken)
    BY <2>1 DEF Flow, Taken
  <2>3. ASSUME NEW c \in Call PROVE (Active(c)' <=> Active(c)) /\ (Where(c)' <=> Where(c)) /\ (Owed(c)' <=> Owed(c))
    <3>1. OpOf(c)' = OpOf(c) /\ StepOf(c)' = StepOf(c) /\ Due(c)' = Due(c)
      BY <2>1, SameOp DEF StepOf, Due
    <3>2. Wants(StepOf(c))' = Wants(StepOf(c))
      BY <2>1, <3>1 DEF Wants, WantsReply
    <3>3. \A f : Mine(c, f)' <=> Mine(c, f)
      BY <2>1, <3>1 DEF Mine
    <3>4. Active(c)' <=> Active(c)
      BY <2>1 DEF Active
    <3>5. Where(c)' <=> Where(c)
      BY <2>1, <3>1, <3>2 DEF Where, Only
    <3>6. Owed(c)' <=> Owed(c)
      BY <2>1, <2>2, <3>1, <3>3 DEF Owed, Told, Mine
    <3> QED
      BY <3>4, <3>5, <3>6
  <2>4. AtRest' <=> AtRest
    BY <2>1, <2>2 DEF AtRest, Told
  <2>5. (begun => inbox # <<>> /\ HasHead(Head(inbox)))' <=> (begun => inbox # <<>> /\ HasHead(Head(inbox)))
    BY <2>1 DEF HasHead
  <2> QED
    BY <2>1, <2>3, <2>4, <2>5 DEF Solo
<1>2. CASE Micro
  BY <1>2, SoloDoStep, SoloSent, SoloTryRead, SoloGot DEF Micro
<1>3. CASE Written \/ Arrive \/ ArriveMatched \/ Push
  BY <1>3, SoloWritten, SoloArrive, SoloArriveMatched, SoloPush
<1>4. ASSUME Close \/ (\E c \in Call : Abandon(c) \/ DrainEnds(c)) \/ (\E k \in DOMAIN readers : TimeOut(k))
      PROVE  Solo'
  <2>1. loose'
    BY <1>4 DEF Close, Abandon, DrainEnds, TimeOut
  <2> QED
    BY <2>1, SoloLoose
<1>5. ASSUME NEW c \in Call, NEW o \in DOMAIN service.ops, Start(c, o) PROVE Solo'
  BY <1>5, SoloStart
<1> QED
  BY <1>1, <1>2, <1>3, <1>4, <1>5 DEF Next

------------------------------------------------------------------------------
\* What is kept together: the places of the calls, whose frames there are, and
\* where the only call is.
Whole == Base /\ Numbers /\ Stolen /\ Solo

\* Whatever the services send, and however calls interleave, time out or are cut
\* short, what is kept together holds.
THEOREM Invariance == Spec => []Whole
<1>1. Init => Whole
  BY BaseInit, NumbersInit, StolenInit, SoloInit DEF Whole
<1>2. Whole /\ [Next]_vars => Whole'
  BY BaseKept, NumbersKept, StolenKept, SoloKept DEF Whole
<1> QED
  BY <1>1, <1>2, PTL DEF Spec

\* Whatever the services are and however calls are interleaved, a call that
\* succeeds has taken the reply to its own request, as long as none was cut short,
\* ran beside another or left a reply behind; over usbmuxd it has so unless a
\* request was written before another was called back, over AFC and DTX always
\* (an ack apart).
THEOREM OwnReplyTheorem == Spec => []OwnReply
<1>1. Whole => OwnReply
  BY DEF Whole, Stolen, OwnReply
<1> QED
  BY <1>1, Invariance, PTL

\* Every operation reads exactly what its requests bring: as long as no call was
\* disturbed, nothing is left over between calls and no read is of something else.
THEOREM InStepTheorem == Spec => []InStep
<1>1. Whole => InStep
  <2> SUFFICES ASSUME Whole, ~loose
               PROVE  ~broken /\ ((\A c \in Call : ~Active(c)) /\ (greeted \/ ~service.greets) =>
                                    inbox = <<>> /\ todo = <<>> /\ readers = <<>>)
    BY DEF InStep
  <2>1. ~broken
    BY DEF Whole, Solo
  <2>2. ASSUME \A c \in Call : ~Active(c), greeted \/ ~service.greets
        PROVE  inbox = <<>> /\ todo = <<>> /\ readers = <<>>
    <3>1. AtRest
      BY <2>2 DEF Whole, Solo
    <3>2. Flow = <<>> /\ readers = <<>>
      BY <2>2, <3>1 DEF AtRest
    <3> QED
      BY <3>2, FlowIs DEF Whole, Base
  <2> QED
    BY <2>1, <2>2
<1> QED
  BY <1>1, Invariance, PTL
=============================================================================
