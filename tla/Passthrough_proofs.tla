-------------------------- MODULE Passthrough_proofs --------------------------
(***************************************************************************)
(* Proofs about Passthrough, for any number of pieces each way, any room   *)
(* in the socket buffers and any kinds of CONNECT.                         *)
(***************************************************************************)
EXTENDS Passthrough, SequenceTheorems, TLAPS

-----------------------------------------------------------------------------
(* The invariant.  Everything a pipe holds is numbered consecutively, and    *)
(* where one pipe ends the next begins, as long as pieces can still get from *)
(* the one to the other.                                                     *)

BeforeDial == {"none", "connect", "resolve", "dial"}
BeforeAck == BeforeDial \cup {"ack"}

Live(p) == pipe[p].end = "open" /\ ~pipe[p].deaf
Size(p) == Len(pipe[p].buf)

\* The pieces of s are numbered on from n.
Consec(s, n) == \A i \in 1..Len(s) : s[i] = n + i

\* How far the goroutines are.
Stages ==
    /\ r = "dial" <=> g = "none"
    /\ r = "dial" => copier["relayUp"] = "off" /\ copier["relayDown"] = "off"
    /\ r = "relay" => copier["relayUp"] # "off" /\ copier["relayDown"] # "off"
    /\ r = "killed" => copier["relayUp"] = "done" /\ copier["relayDown"] = "done"
    /\ r = "closed" => copier["relayUp"] # "on" /\ copier["relayDown"] # "on"
    /\ g \in BeforeAck => copier["gatewayUp"] = "off" /\ copier["gatewayDown"] = "off"
    /\ g \in {"relay", "half"} => copier["gatewayUp"] # "off" /\ copier["gatewayDown"] # "off"
    /\ armed # {} => g \in {"half", "closed"}

\* What there cannot be yet before the destination is dialled, and before its
\* CONNECT is answered.
Before ==
    /\ g \in {"none", "connect"} => ahead = <<>>
    /\ g \in BeforeDial =>
        /\ pipe["gu"] = [buf |-> <<>>, end |-> "open", deaf |-> TRUE]
        /\ pipe["ug"] = [buf |-> <<>>, end |-> "open", deaf |-> FALSE]
        /\ got["u"] = <<>> /\ sent["u"] = 0
    /\ g \in BeforeAck =>
        /\ got["a"] = <<>> /\ pipe["ra"].buf = <<>> /\ pipe["gr"].buf = <<>>
        /\ pipe["gr"].end = "open"
        /\ ~pipe["rg"].deaf /\ ~pipe["ug"].deaf

\* On the way up only pieces of the command, whose CONNECT has number 0.
Small ==
    /\ sent["a"] <= Up
    /\ pipe["ar"].buf \in Seq(0..Up) /\ pipe["rg"].buf \in Seq(0..Up)

\* The number of the last piece the gateway wrote to the destination.
Passed == IF g \in {"none", "connect"} THEN -1 ELSE Len(got["u"]) + Size("gu")

\* The gateway still writes to the destination, or will.
UpOpen == g \in BeforeDial \/ (g \in {"ack", "relay", "half"} /\ Live("gu"))

\* The pieces on their way up are consecutive, as far as they can still reach
\* the destination.
UpWay ==
    /\ Consec(got["u"], 0) /\ Consec(pipe["gu"].buf, Len(got["u"]))
    /\ UpOpen =>
        /\ Consec(ahead, Passed)
        /\ Consec(pipe["rg"].buf, Passed + Len(ahead))
        /\ Live("rg") => Consec(pipe["ar"].buf, Passed + Len(ahead) + Size("rg"))
        /\ Live("rg") /\ Live("ar") =>
               sent["a"] = Passed + Len(ahead) + Size("rg") + Size("ar")

\* The same down: the gateway's answer is piece 0 before the destination's.
DownWay ==
    /\ Consec(got["a"], -1) /\ Consec(pipe["ra"].buf, Len(got["a"]) - 1)
    /\ Live("ra") => Consec(pipe["gr"].buf, Len(got["a"]) + Size("ra") - 1)
    /\ Live("ra") /\ Live("gr") /\ g \in {"ack", "relay", "half"} =>
        LET n == IF g = "ack" THEN 0 ELSE Len(got["a"]) + Size("ra") + Size("gr") - 1
        IN /\ Consec(pipe["ug"].buf, n)
           /\ pipe["ug"].end # "reset" /\ ~pipe["ug"].deaf => sent["u"] = n + Size("ug")

\* The gateway is done, or there was none, and nothing was acknowledged.
Refused == g = "closed" /\ copier["gatewayUp"] = "off" /\ copier["gatewayDown"] = "off"

\* The command is there and nothing but the two ends has cut its connection.
Watching == Present("a") /\ r # "killed"

\* The way down ends from the destination to the command: each end is passed on
\* by a copier that has copied everything.
Endings ==
    /\ r = "closed" => copier["relayDown"] = "done" \/ Refused
    /\ pipe["gr"].deaf => r \in {"closed", "killed"}
    /\ pipe["ra"].end # "open" /\ Watching =>
           copier["relayDown"] = "done" \/ (r = "closed" /\ Refused)
    /\ copier["relayDown"] = "done" /\ Watching =>
           pipe["gr"].end # "open" /\ pipe["gr"].buf = <<>>
    /\ Acknowledged /\ pipe["gr"].end # "open" => copier["gatewayDown"] = "done"
    /\ copier["gatewayDown"] = "done" /\ Watching /\ late = {} =>
           pipe["ug"].end # "open" /\ pipe["ug"].buf = <<>>

\* What the destination sent is what the command has read and what is on its
\* way down, the answer being one piece more.
Conserved ==
    Acknowledged /\ Watching /\ late = {} /\ pipe["ug"].end # "reset" /\ pipe["ra"].end # "reset" =>
        sent["u"] + 1 = Len(got["a"]) + Size("ra") + Size("gr") + Size("ug")

\* A command that read end of file reads no more, and was answered.
Seen ==
    /\ saw = "eof" => pipe["ra"].end # "open" /\ pipe["ra"].buf = <<>>
    /\ saw = "eof" /\ r # "killed" => g \in {"relay", "half", "closed"}

-----------------------------------------------------------------------------
(* Sequences of consecutive numbers. *)

Pieces == 0..(Up + Down)

\* No pieces are consecutive from anywhere.
LEMMA ConsecEmpty == ASSUME NEW n PROVE Consec(<<>>, n)
BY DEF Consec

\* The next number continues them.
LEMMA ConsecAppend ==
    ASSUME NEW S, NEW s \in Seq(S), NEW n \in Int, NEW x \in S, Consec(s, n), x = n + Len(s) + 1
    PROVE  Consec(Append(s, x), n)
<1>1. \A i \in 1..(Len(s) + 1) : i # Len(s) + 1 => i \in 1..Len(s)
    OBVIOUS
<1> QED  BY <1>1, AppendProperties DEF Consec

\* The first of them is taken.
LEMMA ConsecTail ==
    ASSUME NEW S, NEW s \in Seq(S), NEW n \in Int, Consec(s, n), s # <<>>
    PROVE  Head(s) = n + 1 /\ Consec(Tail(s), n + 1) /\ Len(Tail(s)) = Len(s) - 1
<1>1. Len(s) \in Nat \ {0} /\ Head(s) = s[1]
    BY EmptySeq
<1>2. /\ Len(Tail(s)) = Len(s) - 1
      /\ \A i \in 1..Len(Tail(s)) : Tail(s)[i] = s[i + 1]
    BY HeadTailProperties
<1>3. ASSUME NEW i \in 1..Len(Tail(s)) PROVE Tail(s)[i] = (n + 1) + i
    <2>1. i + 1 \in 1..Len(s)
        BY <1>1, <1>2
    <2>2. s[i + 1] = n + (i + 1)
        BY <2>1 DEF Consec
    <2> QED  BY <1>2, <2>2
<1>4. s[1] = n + 1
    BY <1>1 DEF Consec
<1> QED  BY <1>1, <1>2, <1>3, <1>4 DEF Consec

\* What is left of consecutive pieces, and the ones taken, are consecutive.
LEMMA ConsecSubSeq ==
    ASSUME NEW S, NEW s \in Seq(S), NEW n \in Int, Consec(s, n),
           NEW a \in 1..(Len(s) + 1), NEW b \in (a - 1)..Len(s)
    PROVE  /\ SubSeq(s, a, b) \in Seq(S)
           /\ Len(SubSeq(s, a, b)) = b - a + 1
           /\ Consec(SubSeq(s, a, b), n + a - 1)
<1>1. Len(s) \in Nat
    BY LenProperties
<1>2. \A i \in a..b : s[i] \in S
    BY <1>1, ElementOfSeq
<1>3. /\ SubSeq(s, a, b) \in Seq(S)
      /\ Len(SubSeq(s, a, b)) = b - a + 1
      /\ \A i \in 1..(b - a + 1) : SubSeq(s, a, b)[i] = s[a + i - 1]
    BY <1>1, <1>2, SubSeqProperties
<1>4. ASSUME NEW i \in 1..(b - a + 1) PROVE SubSeq(s, a, b)[i] = (n + a - 1) + i
    <2>1. a + i - 1 \in 1..Len(s)
        BY <1>1
    <2> QED  BY <1>3, <2>1 DEF Consec
<1> QED  BY <1>3, <1>4 DEF Consec

-----------------------------------------------------------------------------
(* What the operators on pipes do. *)

\* The constants, as the steps need them.
LEMMA RoomSome == Room \in Nat \ {0} /\ Up \in Nat /\ Down \in Nat
BY ConstantsAssumption

\* The fields of a pipe.
LEMMA PipeFields ==
    ASSUME NEW q \in Pipe
    PROVE  /\ q.buf \in Seq(Pieces) /\ Len(q.buf) \in Nat
           /\ q.end \in {"open", "fin", "reset"} /\ q.deaf \in BOOLEAN
           /\ q = [buf |-> q.buf, end |-> q.end, deaf |-> q.deaf]
BY LenProperties DEF Pipe, Pieces

\* A piece is appended.
LEMMA WrittenFacts ==
    ASSUME NEW q \in Pipe, NEW x \in Pieces
    PROVE  /\ Written(q, x) \in Pipe
           /\ Written(q, x).buf = Append(q.buf, x) /\ Len(Written(q, x).buf) = Len(q.buf) + 1
           /\ Written(q, x).end = q.end /\ Written(q, x).deaf = q.deaf
<1>1. Append(q.buf, x) \in Seq(Pieces) /\ Len(Append(q.buf, x)) = Len(q.buf) + 1
    BY PipeFields, AppendProperties
<1> QED  BY <1>1, PipeFields DEF Written, Pipe, Pieces

\* A piece is taken.
LEMMA TakenFacts ==
    ASSUME NEW q \in Pipe, q.buf # <<>>
    PROVE  /\ [q EXCEPT !.buf = Tail(@)] \in Pipe
           /\ [q EXCEPT !.buf = Tail(@)].buf = Tail(q.buf)
           /\ Len(Tail(q.buf)) = Len(q.buf) - 1
           /\ [q EXCEPT !.buf = Tail(@)].end = q.end /\ [q EXCEPT !.buf = Tail(@)].deaf = q.deaf
           /\ Head(q.buf) \in Pieces
<1>1. Tail(q.buf) \in Seq(Pieces) /\ Len(Tail(q.buf)) = Len(q.buf) - 1 /\ Head(q.buf) \in Pieces
    BY PipeFields, HeadTailProperties
<1> QED  BY <1>1, PipeFields DEF Pipe, Pieces

\* A pipe that is shut keeps its pieces; a reset stays one.
LEMMA EndedFacts ==
    ASSUME NEW q \in Pipe
    PROVE  /\ Ended(q) \in Pipe
           /\ Ended(q).buf = q.buf /\ Ended(q).deaf = q.deaf /\ Ended(q).end # "open"
           /\ Ended(q).end = "reset" <=> q.end = "reset"
BY PipeFields DEF Ended, Pipe

\* Closing a connection: its reader is deaf, what it wrote ends.
CloseLeaves(ps, in, out, qs) ==
    /\ qs \in [Pipes -> Pipe]
    /\ \A p \in Pipes \ {in, out} : qs[p] = ps[p]
    /\ qs[in].buf = <<>> /\ qs[in].end = ps[in].end /\ qs[in].deaf = TRUE
    /\ qs[out].deaf = ps[out].deaf /\ qs[out].end # "open"
    /\ ps[out].end = "reset" => qs[out].end = "reset"
    /\ \/ qs[out].buf = ps[out].buf
       \/ qs[out].buf = <<>> /\ qs[out].end = "reset" /\ out \notin Unix

\* Closed leaves one of those.
LEMMA ClosedFacts ==
    ASSUME NEW ps, ps \in [Pipes -> Pipe], NEW in \in Pipes, NEW out \in Pipes, in # out,
           NEW qs, qs \in Closed(ps, in, out)
    PROVE  CloseLeaves(ps, in, out, qs)
<1> DEFINE reset == [ps[out] EXCEPT !.end = "reset"]
           drained == [reset EXCEPT !.buf = <<>>]
           deafened == [ps[in] EXCEPT !.deaf = TRUE, !.buf = <<>>]
<1>1. /\ reset \in Pipe /\ reset.buf = ps[out].buf /\ reset.end = "reset"
      /\ reset.deaf = ps[out].deaf
    BY PipeFields DEF Pipe
<1> HIDE DEF reset
<1>2. /\ drained \in Pipe /\ drained.buf = <<>> /\ drained.end = "reset"
      /\ drained.deaf = ps[out].deaf
    <2>1. <<>> \in Seq(0..(Up + Down))
        BY EmptySeq
    <2> QED  BY <1>1, <2>1 DEF Pipe
<1>3. /\ deafened \in Pipe /\ deafened.buf = <<>> /\ deafened.end = ps[in].end
      /\ deafened.deaf = TRUE
    <2>1. <<>> \in Seq(0..(Up + Down))
        BY EmptySeq
    <2> QED  BY <2>1 DEF Pipe
<1> HIDE DEF drained, deafened
<1>4. PICK o \in {Ended(ps[out]), reset} \cup (IF out \in Unix THEN {} ELSE {drained}) :
          qs = [ps EXCEPT ![in] = deafened, ![out] = o]
    BY DEF Closed, reset, drained, deafened
<1>5. /\ o \in Pipe /\ o.deaf = ps[out].deaf /\ o.end # "open"
      /\ ps[out].end = "reset" => o.end = "reset"
      /\ o.buf = ps[out].buf \/ (o.buf = <<>> /\ o.end = "reset" /\ out \notin Unix)
    BY <1>1, <1>2, <1>4, EndedFacts
<1> QED  BY <1>3, <1>4, <1>5 DEF CloseLeaves

-----------------------------------------------------------------------------
(* Types and stages. *)

\* The conjuncts of TypeOK that are not about the pipes and what goes through.
Control ==
    /\ kind \in Kinds
    /\ saw \in {"nothing", "eof", "reset"}
    /\ r \in {"dial", "relay", "closed", "killed"}
    /\ g \in {"none", "connect", "resolve", "dial", "ack", "relay", "half", "closed"}
    /\ copier \in [Copiers -> {"off", "on", "done"}]
    /\ g = "closed" => copier["gatewayUp"] # "on" /\ copier["gatewayDown"] # "on"
    /\ armed \subseteq {"client", "upstream"} /\ late \subseteq armed

Base == TypeOK /\ Stages /\ Before /\ Small

\* Pipe p gets nothing new: it may end, its reader may leave.
Worn(p) ==
    /\ pipe[p].deaf => pipe'[p].deaf
    /\ pipe'[p].end = "open" => pipe[p].end = "open"
    /\ pipe[p].end = "reset" => pipe'[p].end = "reset"
    /\ \/ pipe'[p].buf = pipe[p].buf
       \/ pipe'[p].buf = <<>> /\ (pipe'[p].deaf \/ pipe'[p].end = "reset")

\* The main goroutine of the gateway goes on without reading or writing.
GoesOn == \/ g' = g \/ g' = "closed" \/ (g = "none" /\ g' = "connect")
          \/ (g = "resolve" /\ g' = "dial") \/ (g = "relay" /\ g' = "half")

\* A step in which nothing is read or written, only ended.
Wearing ==
    /\ pipe' \in [Pipes -> Pipe] /\ \A p \in Pipes : Worn(p)
    /\ UNCHANGED <<sent, got, ahead>>
    /\ Control' /\ Stages' /\ GoesOn
    /\ g' \in BeforeDial => pipe'["gu"] = pipe["gu"] /\ pipe'["ug"] = pipe["ug"]
    /\ g' \in BeforeAck => /\ pipe'["gr"].end = pipe["gr"].end
                           /\ pipe'["rg"].deaf = pipe["rg"].deaf
                           /\ pipe'["ug"].deaf = pipe["ug"].deaf

\* Wearing keeps types and stages...
LEMMA WearingKeepsBase ==
    ASSUME Base, Wearing
    PROVE  Base'
<1> USE DEF Base
<1>1. \A p \in Pipes : pipe'[p].buf = pipe[p].buf \/ pipe'[p].buf = <<>>
    BY DEF Wearing, Worn
<1>2. /\ \A p \in Pipes : Len(pipe'[p].buf) <= Room
      /\ pipe'["ar"].buf \in Seq(0..Up) /\ pipe'["rg"].buf \in Seq(0..Up)
    <2>1. <<>> \in Seq(0..Up) /\ Len(<<>>) = 0
        BY EmptySeq
    <2>2. ASSUME NEW p \in Pipes PROVE Len(pipe'[p].buf) <= Room
        <3>1. Len(pipe[p].buf) <= Room
            BY DEF TypeOK
        <3> QED  BY <1>1, <2>1, <3>1, RoomSome
    <2>3. pipe'["ar"].buf \in Seq(0..Up) /\ pipe'["rg"].buf \in Seq(0..Up)
        BY <1>1, <2>1 DEF Small, Pipes
    <2> QED  BY <2>2, <2>3
<1>3. TypeOK'
    BY <1>2 DEF Wearing, Control, TypeOK
<1>4. Before'
    <2>1. g' \in {"none", "connect"} => g \in {"none", "connect"}
        BY DEF Wearing, GoesOn
    <2>2. g' \in BeforeDial => g \in BeforeDial
        BY DEF Wearing, GoesOn, BeforeDial
    <2>3. g' \in BeforeAck => g \in BeforeAck
        BY DEF Wearing, GoesOn, BeforeAck, BeforeDial
    <2>4. /\ pipe["ra"].buf = <<>> => pipe'["ra"].buf = <<>>
          /\ pipe["gr"].buf = <<>> => pipe'["gr"].buf = <<>>
        BY <1>1 DEF Pipes
    <2> QED  BY <2>1, <2>2, <2>3, <2>4 DEF Wearing, Before
<1>5. Small'
    BY <1>2 DEF Wearing, Small
<1> QED  BY <1>3, <1>4, <1>5 DEF Wearing

\* ... the way up...
LEMMA WearingKeepsUp ==
    ASSUME Base, UpWay, Wearing
    PROVE  UpWay'
<1> USE DEF Base
<1>1. \A p \in Pipes : Live(p)' => Live(p) /\ pipe'[p].buf = pipe[p].buf
    BY DEF Wearing, Worn, Live
<1>2. \A p \in Pipes : pipe'[p].buf = pipe[p].buf \/ pipe'[p].buf = <<>>
    BY DEF Wearing, Worn
<1>3. Consec(got["u"], 0)' /\ Consec(pipe["gu"].buf, Len(got["u"]))'
    BY <1>2, ConsecEmpty DEF Wearing, UpWay, Pipes, Consec
<1>4. ASSUME UpOpen'
      PROVE  UpOpen /\ Passed' = Passed
    <2>1. pipe'["gu"].buf = pipe["gu"].buf
        BY <1>1, <1>4 DEF UpOpen, Wearing, Pipes
    <2>2. UpOpen
        BY <1>1, <1>4 DEF UpOpen, Wearing, GoesOn, BeforeDial, Pipes
    <2>3. g' \in {"none", "connect"} <=> g \in {"none", "connect"}
        BY <1>4 DEF UpOpen, Wearing, GoesOn, BeforeDial
    <2> QED  BY <2>1, <2>2, <2>3 DEF Passed, Size, Wearing
<1>5. ASSUME UpOpen'
      PROVE  /\ Consec(ahead, Passed)'
             /\ Consec(pipe["rg"].buf, Passed + Len(ahead))'
    BY <1>2, <1>4, <1>5, ConsecEmpty DEF UpWay, Wearing, Pipes
<1>6. ASSUME UpOpen', Live("rg")'
      PROVE  /\ Consec(pipe["ar"].buf, Passed + Len(ahead) + Size("rg"))'
             /\ Live("ar")' => (sent["a"] = Passed + Len(ahead) + Size("rg") + Size("ar"))'
    <2>1. UpOpen /\ Live("rg") /\ Passed' = Passed /\ ahead' = ahead /\ Size("rg")' = Size("rg")
        BY <1>1, <1>4, <1>6 DEF Wearing, Pipes, Size
    <2>2. Consec(pipe["ar"].buf, Passed + Len(ahead) + Size("rg"))'
        BY <1>2, <2>1, ConsecEmpty DEF UpWay, Pipes
    <2>3. Live("ar")' => (sent["a"] = Passed + Len(ahead) + Size("rg") + Size("ar"))'
        BY <1>1, <2>1 DEF UpWay, Wearing, Pipes, Size
    <2> QED  BY <2>2, <2>3
<1> QED  BY <1>3, <1>5, <1>6 DEF UpWay

\* ... and the way down.
LEMMA WearingKeepsDown ==
    ASSUME Base, DownWay, Wearing
    PROVE  DownWay'
<1> USE DEF Base
<1>1. \A p \in Pipes : Live(p)' => Live(p) /\ pipe'[p].buf = pipe[p].buf
    BY DEF Wearing, Worn, Live
<1>2. \A p \in Pipes : pipe'[p].buf = pipe[p].buf \/ pipe'[p].buf = <<>>
    BY DEF Wearing, Worn
<1>3. Consec(got["a"], -1)' /\ Consec(pipe["ra"].buf, Len(got["a"]) - 1)'
    BY <1>2, ConsecEmpty DEF Wearing, DownWay, Pipes
<1>4. Live("ra")' => Consec(pipe["gr"].buf, Len(got["a"]) + Size("ra") - 1)'
    BY <1>1, <1>2, ConsecEmpty DEF Wearing, DownWay, Pipes, Size
<1> DEFINE n == IF g = "ack" THEN 0 ELSE Len(got["a"]) + Size("ra") + Size("gr") - 1
<1>5. ASSUME Live("ra")', Live("gr")', g' \in {"ack", "relay", "half"}
      PROVE  /\ Consec(pipe["ug"].buf, n)'
             /\ (pipe["ug"].end # "reset" /\ ~pipe["ug"].deaf => sent["u"] = n + Size("ug"))'
    <2>1. /\ Live("ra") /\ Live("gr") /\ g \in {"ack", "relay", "half"}
          /\ g' = "ack" <=> g = "ack"
        BY <1>1, <1>5 DEF Wearing, GoesOn, Pipes
    <2>2. n' = n
        BY <1>1, <1>5, <2>1 DEF Wearing, Pipes, Size
    <2>3. /\ Consec(pipe["ug"].buf, n)
          /\ pipe["ug"].end # "reset" /\ ~pipe["ug"].deaf => sent["u"] = n + Size("ug")
        BY <2>1 DEF DownWay
    <2> HIDE DEF n
    <2>4. Consec(pipe'["ug"].buf, n)
        BY <1>2, <2>3, ConsecEmpty DEF Pipes
    <2>5. pipe'["ug"].end # "reset" /\ ~pipe'["ug"].deaf =>
              /\ pipe["ug"].end # "reset" /\ ~pipe["ug"].deaf
              /\ pipe'["ug"].buf = pipe["ug"].buf
        BY DEF Wearing, Worn, Pipes
    <2> QED  BY <2>2, <2>3, <2>4, <2>5 DEF Wearing, Size
<1> QED  BY <1>3, <1>4, <1>5 DEF DownWay

-----------------------------------------------------------------------------
(* Closing both connections. *)

\* The relay's process closes its two connections.
LEMMA RelayCloses ==
    ASSUME pipe \in [Pipes -> Pipe],
           \E ps \in Closed(pipe, "gr", "rg") : pipe' \in Closed(ps, "ar", "ra")
    PROVE  /\ pipe' \in [Pipes -> Pipe]
           /\ pipe'["gu"] = pipe["gu"] /\ pipe'["ug"] = pipe["ug"]
           /\ pipe'["gr"].buf = <<>> /\ pipe'["gr"].end = pipe["gr"].end /\ pipe'["gr"].deaf = TRUE
           /\ pipe'["ar"].buf = <<>> /\ pipe'["ar"].end = pipe["ar"].end /\ pipe'["ar"].deaf = TRUE
           /\ pipe'["rg"].buf = pipe["rg"].buf /\ pipe'["rg"].deaf = pipe["rg"].deaf
           /\ pipe'["rg"].end # "open" /\ (pipe["rg"].end = "reset" => pipe'["rg"].end = "reset")
           /\ pipe'["ra"].deaf = pipe["ra"].deaf /\ pipe'["ra"].end # "open"
           /\ pipe["ra"].end = "reset" => pipe'["ra"].end = "reset"
           /\ \/ pipe'["ra"].buf = pipe["ra"].buf
              \/ pipe'["ra"].buf = <<>> /\ pipe'["ra"].end = "reset"
<1>1. PICK ps \in Closed(pipe, "gr", "rg") : pipe' \in Closed(ps, "ar", "ra")
    OBVIOUS
<1>2. "gr" \in Pipes /\ "ar" \in Pipes /\ "rg" \in Pipes /\ "ra" \in Pipes
    BY DEF Pipes
<1>3. /\ ps \in [Pipes -> Pipe]
      /\ \A p \in Pipes \ {"gr", "rg"} : ps[p] = pipe[p]
      /\ ps["gr"].buf = <<>> /\ ps["gr"].end = pipe["gr"].end /\ ps["gr"].deaf = TRUE
      /\ ps["rg"].deaf = pipe["rg"].deaf /\ ps["rg"].end # "open"
      /\ pipe["rg"].end = "reset" => ps["rg"].end = "reset"
      /\ ps["rg"].buf = pipe["rg"].buf
    <2>1. CloseLeaves(pipe, "gr", "rg", ps)
        BY <1>1, <1>2, ClosedFacts
    <2> QED  BY <2>1 DEF CloseLeaves, Unix
<1>4. /\ pipe' \in [Pipes -> Pipe]
      /\ \A p \in Pipes \ {"ar", "ra"} : pipe'[p] = ps[p]
      /\ pipe'["ar"].buf = <<>> /\ pipe'["ar"].end = ps["ar"].end /\ pipe'["ar"].deaf = TRUE
      /\ pipe'["ra"].deaf = ps["ra"].deaf /\ pipe'["ra"].end # "open"
      /\ ps["ra"].end = "reset" => pipe'["ra"].end = "reset"
      /\ \/ pipe'["ra"].buf = ps["ra"].buf
         \/ pipe'["ra"].buf = <<>> /\ pipe'["ra"].end = "reset"
    <2>1. CloseLeaves(ps, "ar", "ra", pipe')
        BY <1>1, <1>2, <1>3, ClosedFacts
    <2> QED  BY <2>1 DEF CloseLeaves
<1> QED  BY <1>3, <1>4 DEF Pipes

\* The gateway's handler closes its connection to the relay; ps is what it
\* left.
LEMMA HandlerCloses ==
    ASSUME NEW ps \in [Pipes -> Pipe], Return(ps)
    PROVE  /\ pipe' \in [Pipes -> Pipe]
           /\ \A p \in Pipes \ {"rg", "gr"} : pipe'[p] = ps[p]
           /\ pipe'["rg"].buf = <<>> /\ pipe'["rg"].end = ps["rg"].end /\ pipe'["rg"].deaf = TRUE
           /\ pipe'["gr"].buf = ps["gr"].buf /\ pipe'["gr"].deaf = ps["gr"].deaf
           /\ pipe'["gr"].end # "open" /\ (ps["gr"].end = "reset" => pipe'["gr"].end = "reset")
<1>1. pipe' \in Closed(ps, "rg", "gr")
    BY DEF Return
<1>2. "rg" \in Pipes /\ "gr" \in Pipes
    BY DEF Pipes
<1>3. CloseLeaves(ps, "rg", "gr", pipe')
    BY <1>1, <1>2, ClosedFacts
<1> QED  BY <1>3 DEF CloseLeaves, Unix

\* ... after the one to the destination.
LEMMA GatewayCloses ==
    ASSUME pipe \in [Pipes -> Pipe], \E ps \in Closed(pipe, "ug", "gu") : Return(ps)
    PROVE  /\ pipe' \in [Pipes -> Pipe]
           /\ pipe'["ar"] = pipe["ar"] /\ pipe'["ra"] = pipe["ra"]
           /\ pipe'["ug"].buf = <<>> /\ pipe'["ug"].end = pipe["ug"].end /\ pipe'["ug"].deaf = TRUE
           /\ pipe'["rg"].buf = <<>> /\ pipe'["rg"].end = pipe["rg"].end /\ pipe'["rg"].deaf = TRUE
           /\ pipe'["gr"].buf = pipe["gr"].buf /\ pipe'["gr"].deaf = pipe["gr"].deaf
           /\ pipe'["gr"].end # "open" /\ (pipe["gr"].end = "reset" => pipe'["gr"].end = "reset")
           /\ pipe'["gu"].deaf = pipe["gu"].deaf /\ pipe'["gu"].end # "open"
           /\ pipe["gu"].end = "reset" => pipe'["gu"].end = "reset"
           /\ \/ pipe'["gu"].buf = pipe["gu"].buf
              \/ pipe'["gu"].buf = <<>> /\ pipe'["gu"].end = "reset"
<1>1. PICK ps \in Closed(pipe, "ug", "gu") : Return(ps)
    OBVIOUS
<1>2. "ug" \in Pipes /\ "gu" \in Pipes
    BY DEF Pipes
<1>3. /\ ps \in [Pipes -> Pipe]
      /\ \A p \in Pipes \ {"ug", "gu"} : ps[p] = pipe[p]
      /\ ps["ug"].buf = <<>> /\ ps["ug"].end = pipe["ug"].end /\ ps["ug"].deaf = TRUE
      /\ ps["gu"].deaf = pipe["gu"].deaf /\ ps["gu"].end # "open"
      /\ pipe["gu"].end = "reset" => ps["gu"].end = "reset"
      /\ \/ ps["gu"].buf = pipe["gu"].buf
         \/ ps["gu"].buf = <<>> /\ ps["gu"].end = "reset"
    <2>1. CloseLeaves(pipe, "ug", "gu", ps)
        BY <1>1, <1>2, ClosedFacts
    <2> QED  BY <2>1 DEF CloseLeaves
<1>4. /\ pipe' \in [Pipes -> Pipe]
      /\ \A p \in Pipes \ {"rg", "gr"} : pipe'[p] = ps[p]
      /\ pipe'["rg"].buf = <<>> /\ pipe'["rg"].end = ps["rg"].end /\ pipe'["rg"].deaf = TRUE
      /\ pipe'["gr"].buf = ps["gr"].buf /\ pipe'["gr"].deaf = ps["gr"].deaf
      /\ pipe'["gr"].end # "open" /\ (ps["gr"].end = "reset" => pipe'["gr"].end = "reset")
    BY <1>1, <1>3, HandlerCloses
<1> QED  BY <1>3, <1>4 DEF Pipes

\* One of the two ends leaves, or shuts its side.
LEMMA LeaveFacts ==
    ASSUME pipe \in [Pipes -> Pipe], NEW x \in {"a", "u"}, Leave(x)
    PROVE  /\ pipe' \in [Pipes -> Pipe]
           /\ \A p \in Pipes \ {In[x], Out[x]} : pipe'[p] = pipe[p]
           /\ pipe'[In[x]].buf = <<>> /\ pipe'[In[x]].end = pipe[In[x]].end
           /\ pipe'[In[x]].deaf = TRUE
           /\ pipe'[Out[x]].deaf = pipe[Out[x]].deaf /\ pipe'[Out[x]].end # "open"
           /\ pipe[Out[x]].end = "reset" => pipe'[Out[x]].end = "reset"
           /\ \/ pipe'[Out[x]].buf = pipe[Out[x]].buf
              \/ pipe'[Out[x]].buf = <<>> /\ pipe'[Out[x]].end = "reset"
<1>1. In[x] \in Pipes /\ Out[x] \in Pipes /\ In[x] # Out[x]
    BY DEF In, Out, Pipes
<1>2. pipe' \in Closed(pipe, In[x], Out[x])
    BY DEF Leave
<1>3. CloseLeaves(pipe, In[x], Out[x], pipe')
    BY <1>1, <1>2, ClosedFacts
<1> QED  BY <1>3 DEF CloseLeaves

\* A pipe that is shut holds what it held.
LEMMA ShutFacts ==
    ASSUME pipe \in [Pipes -> Pipe], NEW q \in Pipes, pipe' = [pipe EXCEPT ![q] = Ended(@)]
    PROVE  /\ pipe' \in [Pipes -> Pipe]
           /\ \A p \in Pipes \ {q} : pipe'[p] = pipe[p]
           /\ pipe'[q].buf = pipe[q].buf /\ pipe'[q].deaf = pipe[q].deaf /\ pipe'[q].end # "open"
           /\ pipe'[q].end = "reset" <=> pipe[q].end = "reset"
<1>1. pipe' = [pipe EXCEPT ![q] = Ended(pipe[q])]
    OBVIOUS
<1> QED  BY <1>1, EndedFacts

\* What wears: the ends that leave or shut their side...
LEMMA EndsWear ==
    ASSUME Base, NEW x \in {"a", "u"}, HalfClose(x) \/ Leave(x)
    PROVE  Wearing
<1> USE DEF Base
<1>1. pipe \in [Pipes -> Pipe]
    BY DEF TypeOK
<1>2. In[x] \in Pipes /\ Out[x] \in Pipes /\ In[x] # Out[x]
    BY DEF In, Out, Pipes
<1>3. UNCHANGED <<kind, sent, got, saw, r, g, ahead, copier, armed, late>>
    BY DEF HalfClose, Leave
<1>4. /\ pipe' \in [Pipes -> Pipe]
      /\ \A p \in Pipes \ {In[x], Out[x]} : pipe'[p] = pipe[p]
      /\ Worn(In[x]) /\ Worn(Out[x])
      /\ pipe'[Out[x]].deaf = pipe[Out[x]].deaf
    <2>1. CASE HalfClose(x)
        <3>1. pipe' = [pipe EXCEPT ![Out[x]] = Ended(@)]
            BY <2>1 DEF HalfClose
        <3> QED  BY <1>1, <1>2, <3>1, ShutFacts DEF Worn
    <2>2. CASE Leave(x)
        BY <1>1, <2>2, LeaveFacts DEF Worn
    <2> QED  BY <2>1, <2>2
<1>5. \A p \in Pipes : Worn(p)
    BY <1>4 DEF Worn
<1>6. Control' /\ Stages'
    BY <1>3 DEF TypeOK, Control, Stages
<1>7. CASE x = "a"
    <2>1. /\ pipe'["gu"] = pipe["gu"] /\ pipe'["ug"] = pipe["ug"]
          /\ pipe'["gr"] = pipe["gr"] /\ pipe'["rg"] = pipe["rg"]
        BY <1>4, <1>7 DEF In, Out, Pipes
    <2> QED  BY <1>3, <1>4, <1>5, <1>6, <2>1 DEF Wearing, GoesOn
<1>8. CASE x = "u"
    <2>1. /\ pipe'["gr"] = pipe["gr"] /\ pipe'["rg"] = pipe["rg"]
          /\ pipe'["ug"].deaf = pipe["ug"].deaf
        BY <1>4, <1>8 DEF In, Out, Pipes
    <2>2. g \notin BeforeDial
        BY <1>8 DEF HalfClose, Leave, Present, In, Before
    <2> QED  BY <1>3, <1>4, <1>5, <1>6, <2>1, <2>2 DEF Wearing, GoesOn
<1> QED  BY <1>7, <1>8

\* ... the copiers' ends, and the relay...
LEMMA CopyEndsWears ==
    ASSUME Base, NEW c \in Copiers, CopyEnds(c)
    PROVE  Wearing
<1> USE DEF Base
<1>1. pipe \in [Pipes -> Pipe]
    BY DEF TypeOK
<1>2. To[c] \in Pipes
    BY DEF To, Pipes, Copiers
<1>3. /\ copier[c] = "on" /\ copier' = [copier EXCEPT ![c] = "done"]
      /\ pipe' = [pipe EXCEPT ![To[c]] = Ended(@)]
      /\ UNCHANGED <<kind, sent, got, saw, r, g, ahead, armed, late>>
    BY DEF CopyEnds
<1>4. /\ pipe' \in [Pipes -> Pipe]
      /\ \A p \in Pipes \ {To[c]} : pipe'[p] = pipe[p]
      /\ Worn(To[c]) /\ pipe'[To[c]].deaf = pipe[To[c]].deaf
    BY <1>1, <1>2, <1>3, ShutFacts DEF Worn
<1>5. \A p \in Pipes : Worn(p)
    BY <1>4 DEF Worn
<1>6. copier'[c] = "done" /\ \A d \in Copiers \ {c} : copier'[d] = copier[d]
    BY <1>3 DEF TypeOK
<1>7. Control' /\ Stages'
    <2>1. copier' \in [Copiers -> {"off", "on", "done"}]
        BY <1>3 DEF TypeOK
    <2>2. \A d \in Copiers : copier'[d] = copier[d] \/ (copier[d] = "on" /\ copier'[d] = "done")
        BY <1>3, <1>6
    <2> QED  BY <1>3, <2>1, <2>2 DEF TypeOK, Control, Stages, Copiers
<1>8. g \in BeforeAck => To[c] \in {"rg", "ra"}
    BY <1>3 DEF Stages, Copiers, To
<1>9. /\ g \in BeforeAck => /\ pipe'["gu"] = pipe["gu"] /\ pipe'["ug"] = pipe["ug"]
                            /\ pipe'["gr"] = pipe["gr"]
                            /\ pipe'["rg"].deaf = pipe["rg"].deaf
    BY <1>4, <1>8 DEF Pipes
<1> QED  BY <1>3, <1>4, <1>5, <1>7, <1>9 DEF Wearing, GoesOn, BeforeAck

\* ... the relay, whole, and the kill of its process...
LEMMA RelayWears ==
    ASSUME Base, Relay \/ FrontendKilled
    PROVE  Wearing
<1> USE DEF Base
<1>1. pipe \in [Pipes -> Pipe] /\ copier \in [Copiers -> {"off", "on", "done"}]
    BY DEF TypeOK
<1>2. CASE RelayDials
    <2>1. UNCHANGED <<kind, pipe, sent, got, saw, ahead, armed, late>>
          /\ r = "dial" /\ r' = "relay" /\ g = "none" /\ g' = "connect"
        BY <1>2 DEF RelayDials, Stages
    <2>2. /\ copier' \in [Copiers -> {"off", "on", "done"}]
          /\ copier'["relayUp"] = "on" /\ copier'["relayDown"] = "on"
          /\ copier'["gatewayUp"] = copier["gatewayUp"] /\ copier'["gatewayDown"] = copier["gatewayDown"]
        BY <1>1, <1>2 DEF RelayDials, Copiers
    <2>3. Control' /\ Stages'
        BY <2>1, <2>2 DEF TypeOK, Control, Stages, BeforeAck, BeforeDial
    <2> QED  BY <1>1, <2>1, <2>3 DEF Wearing, Worn, GoesOn
<1>3. CASE RelayDialFails
    <2>1. /\ UNCHANGED <<kind, sent, got, saw, ahead, copier, armed, late>>
          /\ r = "dial" /\ r' = "closed" /\ g = "none" /\ g' = "closed"
        BY <1>3 DEF RelayDialFails, Stages
    <2>2. CloseLeaves(pipe, "ar", "ra", pipe')
        BY <1>1, <1>3, ClosedFacts DEF RelayDialFails, Pipes
    <2>3. pipe' \in [Pipes -> Pipe] /\ \A p \in Pipes : Worn(p)
        BY <2>2 DEF CloseLeaves, Worn
    <2>4. Control' /\ Stages'
        BY <2>1 DEF TypeOK, Control, Stages, BeforeAck, BeforeDial
    <2> QED  BY <2>1, <2>3, <2>4 DEF Wearing, GoesOn, BeforeAck, BeforeDial
<1>4. CASE RelayEnds \/ FrontendKilled
    <2>1. /\ UNCHANGED <<kind, sent, got, saw, g, ahead, armed, late>>
          /\ r = "relay" /\ r' \in {"closed", "killed"}
        BY <1>4 DEF RelayEnds, FrontendKilled
    <2>2. /\ copier' \in [Copiers -> {"off", "on", "done"}]
          /\ copier'["relayUp"] = "done" /\ copier'["relayDown"] = "done"
          /\ copier'["gatewayUp"] = copier["gatewayUp"] /\ copier'["gatewayDown"] = copier["gatewayDown"]
        BY <1>1, <1>4 DEF RelayEnds, FrontendKilled, Copiers
    <2>3. \E ps \in Closed(pipe, "gr", "rg") : pipe' \in Closed(ps, "ar", "ra")
        BY <1>4 DEF RelayEnds, FrontendKilled
    <2>4. /\ pipe' \in [Pipes -> Pipe] /\ \A p \in Pipes : Worn(p)
          /\ pipe'["gu"] = pipe["gu"] /\ pipe'["ug"] = pipe["ug"]
          /\ pipe'["gr"].end = pipe["gr"].end /\ pipe'["rg"].deaf = pipe["rg"].deaf
        BY <1>1, <2>3, RelayCloses DEF Worn, Pipes
    <2>5. Control' /\ Stages'
        BY <2>1, <2>2 DEF TypeOK, Control, Stages
    <2> QED  BY <2>1, <2>4, <2>5 DEF Wearing, GoesOn
<1> QED  BY <1>2, <1>3, <1>4 DEF Relay

\* ... the gateway where it neither reads nor writes, and time.
LEMMA GatewayWears ==
    ASSUME Base,
           \/ ConnectFails \/ (Resolve /\ kind # "blocked") \/ AcknowledgeFails
           \/ FirstResult \/ SecondResult
    PROVE  Wearing
<1> USE DEF Base
<1>1. pipe \in [Pipes -> Pipe]
    BY DEF TypeOK
<1>2. CASE ConnectFails
    <2>1. /\ UNCHANGED <<kind, sent, got, saw, r, ahead, copier, armed, late>>
          /\ g = "connect" /\ g' = "closed"
        BY <1>2 DEF ConnectFails, Return
    <2>2. pipe' \in [Pipes -> Pipe] /\ \A p \in Pipes : Worn(p)
        BY <1>1, <1>2, HandlerCloses DEF ConnectFails, Worn
    <2>3. Control' /\ Stages'
        BY <2>1 DEF TypeOK, Control, Stages, BeforeAck, BeforeDial
    <2> QED  BY <2>1, <2>2, <2>3 DEF Wearing, GoesOn, BeforeAck, BeforeDial
<1>3. CASE Resolve /\ kind # "blocked"
    <2>1. /\ UNCHANGED <<kind, pipe, sent, got, saw, r, ahead, copier, armed, late>>
          /\ g = "resolve" /\ g' = "dial"
        BY <1>3 DEF Resolve
    <2>2. Control' /\ Stages'
        BY <2>1 DEF TypeOK, Control, Stages, BeforeAck, BeforeDial
    <2> QED  BY <1>1, <2>1, <2>2 DEF Wearing, Worn, GoesOn
<1>4. CASE AcknowledgeFails \/ SecondResult
    <2>1. /\ UNCHANGED <<kind, sent, got, saw, r, ahead, copier, armed, late>>
          /\ g \in {"ack", "half"} /\ g' = "closed"
        BY <1>4 DEF AcknowledgeFails, SecondResult, Return
    <2>2. \E ps \in Closed(pipe, "ug", "gu") : Return(ps)
        BY <1>4 DEF AcknowledgeFails, SecondResult
    <2>3. pipe' \in [Pipes -> Pipe] /\ \A p \in Pipes : Worn(p)
        BY <1>1, <2>2, GatewayCloses DEF Worn, Pipes
    <2>4. copier["gatewayUp"] # "on" /\ copier["gatewayDown"] # "on"
        BY <1>4 DEF AcknowledgeFails, SecondResult, Stages, BeforeAck, GatewayCopiers
    <2>5. Control' /\ Stages'
        BY <2>1, <2>4 DEF TypeOK, Control, Stages, BeforeAck, BeforeDial
    <2> QED  BY <2>1, <2>3, <2>5 DEF Wearing, GoesOn, BeforeAck, BeforeDial
<1>5. CASE FirstResult
    <2>1. /\ UNCHANGED <<kind, pipe, sent, got, saw, r, ahead, copier, late>>
          /\ g = "relay" /\ g' = "half" /\ armed' = {"client", "upstream"}
        BY <1>5 DEF FirstResult
    <2>2. Control' /\ Stages'
        BY <2>1 DEF TypeOK, Control, Stages, BeforeAck, BeforeDial
    <2> QED  BY <1>1, <2>1, <2>2 DEF Wearing, Worn, GoesOn, BeforeAck, BeforeDial
<1> QED  BY <1>2, <1>3, <1>4, <1>5

\* ... and what changes no pipe.
LEMMA RestWears ==
    ASSUME Base, SeeEnd \/ (\E k \in armed : Expire(k)) \/ UNCHANGED vars
    PROVE  Wearing
<1> USE DEF Base
<1>1. UNCHANGED <<kind, pipe, sent, got, r, g, ahead, copier, armed>>
    BY DEF SeeEnd, Expire, vars
<1>2. saw' \in {"nothing", "eof", "reset"} /\ late' \subseteq armed
    BY DEF SeeEnd, Expire, vars, TypeOK
<1>3. Control' /\ Stages'
    BY <1>1, <1>2 DEF TypeOK, Control, Stages
<1> QED  BY <1>1, <1>3 DEF Wearing, Worn, GoesOn, TypeOK

-----------------------------------------------------------------------------
(* Frames, and the steps that read and write. *)

\* What touches none of its parts keeps the way up...
LEMMA UpKept ==
    ASSUME UpWay, UNCHANGED <<g, ahead, pipe["ar"], pipe["rg"], pipe["gu"], got["u"], sent["a"]>>
    PROVE  UpWay'
BY DEF UpWay, UpOpen, Passed, Live, Size, Consec

\* ... and the way down.
LEMMA DownKept ==
    ASSUME DownWay, UNCHANGED <<g, pipe["ra"], pipe["gr"], pipe["ug"], got["a"], sent["u"]>>
    PROVE  DownWay'
BY DEF DownWay, Live, Size, Consec

\* The types of the parts the steps compute with.
LEMMA BaseParts ==
    ASSUME TypeOK
    PROVE  /\ pipe \in [Pipes -> Pipe] /\ \A p \in Pipes : Len(pipe[p].buf) <= Room
           /\ \A p \in Pipes : pipe[p] \in Pipe /\ pipe[p].buf \in Seq(Pieces) /\ Size(p) \in Nat
           /\ sent \in [{"a", "u"} -> Nat] /\ sent["a"] \in Nat /\ sent["u"] \in Nat
           /\ got["a"] \in Seq(Pieces) /\ got["u"] \in Seq(Pieces)
           /\ Len(got["a"]) \in Nat /\ Len(got["u"]) \in Nat
           /\ ahead \in Seq(0..Up) /\ Len(ahead) \in Nat
           /\ Passed \in Int
<1>1. \A p \in Pipes : pipe[p] \in Pipe /\ pipe[p].buf \in Seq(Pieces) /\ Size(p) \in Nat
    BY PipeFields DEF TypeOK, Size
<1>2. /\ got["a"] \in Seq(Pieces) /\ got["u"] \in Seq(Pieces) /\ ahead \in Seq(0..Up)
    BY DEF TypeOK, Pieces
<1>3. Len(got["a"]) \in Nat /\ Len(got["u"]) \in Nat /\ Len(ahead) \in Nat
    BY <1>2, LenProperties
<1>4. Size("gu") \in Nat
    BY <1>1 DEF Pipes
<1>5. sent \in [{"a", "u"} -> Nat]
    BY RoomSome DEF TypeOK
<1> QED  BY <1>1, <1>2, <1>3, <1>4, <1>5 DEF TypeOK, Passed

\* One piece more into a pipe with room.
LEMMA WritesFacts ==
    ASSUME TypeOK, NEW q \in Pipes, NEW x \in Pieces, Writable(q)
    PROVE  /\ Written(pipe[q], x) \in Pipe
           /\ Written(pipe[q], x).buf = Append(pipe[q].buf, x)
           /\ Len(Written(pipe[q], x).buf) = Size(q) + 1 /\ Size(q) + 1 <= Room
           /\ Written(pipe[q], x).end = "open" /\ Written(pipe[q], x).deaf = pipe[q].deaf
           /\ pipe[q].end = "open" /\ ~pipe[q].deaf
BY WrittenFacts, BaseParts, RoomSome DEF Writable, Size

\* The command writes its next piece.
LEMMA SendCommand ==
    ASSUME Base, UpWay, DownWay, Send("a")
    PROVE  Base' /\ UpWay' /\ DownWay'
<1> USE DEF Base
<1> DEFINE x == sent["a"] + 1
<1>1. /\ Writable("ar") /\ sent["a"] < Up
      /\ sent' = [sent EXCEPT !["a"] = x]
      /\ pipe' = [pipe EXCEPT !["ar"] = Written(pipe["ar"], x)]
      /\ UNCHANGED <<kind, got, saw, r, g, ahead, copier, armed, late>>
    BY DEF Send, Out, Limit
<1>2. x \in 0..Up /\ x \in Pieces /\ "ar" \in Pipes
    <2>1. sent["a"] \in Nat
        BY BaseParts
    <2> QED  BY <1>1, <2>1, RoomSome DEF Pieces, Pipes
<1>3. /\ Written(pipe["ar"], x) \in Pipe
      /\ Written(pipe["ar"], x).buf = Append(pipe["ar"].buf, x)
      /\ Len(Written(pipe["ar"], x).buf) = Size("ar") + 1 /\ Size("ar") + 1 <= Room
      /\ Written(pipe["ar"], x).end = "open" /\ Written(pipe["ar"], x).deaf = pipe["ar"].deaf
      /\ pipe["ar"].end = "open" /\ ~pipe["ar"].deaf
    BY <1>1, <1>2, WritesFacts
<1>4. /\ pipe' \in [Pipes -> Pipe]
      /\ pipe'["ar"] = Written(pipe["ar"], x)
      /\ \A p \in Pipes \ {"ar"} : pipe'[p] = pipe[p]
      /\ sent'["a"] = x /\ sent'["u"] = sent["u"]
    BY <1>1, <1>2, <1>3, BaseParts
<1> HIDE DEF x
<1>5. Base'
    <2>1. \A p \in Pipes : Len(pipe'[p].buf) <= Room
        BY <1>3, <1>4, BaseParts
    <2>2. sent' \in [{"a", "u"} -> 0..(Up + Down)]
        BY <1>1, <1>2 DEF TypeOK, Pieces
    <2>3. TypeOK'
        BY <1>1, <1>4, <2>1, <2>2 DEF TypeOK
    <2>4. Stages' /\ Before'
        BY <1>1, <1>4 DEF Stages, Before, Pipes
    <2>5. Append(pipe["ar"].buf, x) \in Seq(0..Up)
        BY <1>2, AppendProperties DEF Small
    <2>6. Small'
        <3>1. x <= Up
            BY <1>2, RoomSome
        <3>2. pipe'["rg"] = pipe["rg"]
            BY <1>4 DEF Pipes
        <3> QED  BY <1>3, <1>4, <2>5, <3>1, <3>2 DEF Small
    <2> QED  BY <2>3, <2>4, <2>6
<1>6. UpWay'
    <2>1. /\ Consec(got["u"], 0)' /\ Consec(pipe["gu"].buf, Len(got["u"]))'
          /\ UpOpen' <=> UpOpen
          /\ Passed' = Passed /\ ahead' = ahead /\ Size("rg")' = Size("rg") /\ Live("rg")' = Live("rg")
          /\ pipe'["rg"].buf = pipe["rg"].buf
        BY <1>1, <1>4 DEF UpWay, UpOpen, Passed, Size, Live, Pipes, Consec
    <2>2. ASSUME UpOpen, Live("rg")
          PROVE  /\ Consec(pipe["ar"].buf, Passed + Len(ahead) + Size("rg"))'
                 /\ (sent["a"] = Passed + Len(ahead) + Size("rg") + Size("ar"))'
        <3> DEFINE n == Passed + Len(ahead) + Size("rg")
        <3>1. n \in Int /\ Size("ar") \in Nat
            BY BaseParts DEF Pipes
        <3>2. Consec(pipe["ar"].buf, n) /\ sent["a"] = n + Size("ar")
            BY <1>3, <2>2 DEF UpWay, Live
        <3>3. x = n + Len(pipe["ar"].buf) + 1 /\ Size("ar")' = Size("ar") + 1
            BY <1>3, <1>4, <3>1, <3>2, BaseParts DEF x, Size
        <3>4. pipe["ar"].buf \in Seq(Pieces)
            BY BaseParts DEF Pipes
        <3> HIDE DEF n
        <3>5. Consec(Append(pipe["ar"].buf, x), n)
            BY <1>2, <3>1, <3>2, <3>3, <3>4, ConsecAppend
        <3>6. n' = n
            BY <2>1 DEF n
        <3>7. Consec(pipe'["ar"].buf, n')
            BY <1>3, <1>4, <3>5, <3>6
        <3>8. sent'["a"] = n' + Size("ar")'
            <4>1. Len(pipe["ar"].buf) = Size("ar")
                BY DEF Size
            <4> QED  BY <1>4, <3>1, <3>3, <3>6, <4>1
        <3> QED  BY <3>7, <3>8 DEF n
    <2> QED  BY <2>1, <2>2 DEF UpWay
<1>7. DownWay'
    BY <1>1, <1>4, DownKept DEF Pipes
<1> QED  BY <1>5, <1>6, <1>7

\* The destination writes its next piece.
LEMMA SendDestination ==
    ASSUME Base, UpWay, DownWay, Send("u")
    PROVE  Base' /\ UpWay' /\ DownWay'
<1> USE DEF Base
<1> DEFINE x == sent["u"] + 1
<1>1. /\ Writable("ug") /\ sent["u"] < Down
      /\ sent' = [sent EXCEPT !["u"] = x]
      /\ pipe' = [pipe EXCEPT !["ug"] = Written(pipe["ug"], x)]
      /\ UNCHANGED <<kind, got, saw, r, g, ahead, copier, armed, late>>
    BY DEF Send, Out, Limit
<1>2. x \in Pieces /\ "ug" \in Pipes /\ g \notin BeforeDial
    <2>1. g \notin BeforeDial
        BY DEF Send, Present, In, Before
    <2>2. sent["u"] \in Nat
        BY BaseParts
    <2> QED  BY <1>1, <2>1, <2>2, RoomSome DEF Pieces, Pipes
<1>3. /\ Written(pipe["ug"], x) \in Pipe
      /\ Written(pipe["ug"], x).buf = Append(pipe["ug"].buf, x)
      /\ Len(Written(pipe["ug"], x).buf) = Size("ug") + 1 /\ Size("ug") + 1 <= Room
      /\ Written(pipe["ug"], x).end = "open" /\ Written(pipe["ug"], x).deaf = pipe["ug"].deaf
      /\ pipe["ug"].end = "open" /\ ~pipe["ug"].deaf
    BY <1>1, <1>2, WritesFacts
<1>4. /\ pipe' \in [Pipes -> Pipe]
      /\ pipe'["ug"] = Written(pipe["ug"], x)
      /\ \A p \in Pipes \ {"ug"} : pipe'[p] = pipe[p]
      /\ sent'["u"] = x /\ sent'["a"] = sent["a"]
    BY <1>1, <1>2, <1>3, BaseParts
<1> HIDE DEF x
<1>5. Base'
    <2>1. \A p \in Pipes : Len(pipe'[p].buf) <= Room
        BY <1>3, <1>4, BaseParts
    <2>2. sent' \in [{"a", "u"} -> 0..(Up + Down)]
        BY <1>1, <1>2 DEF TypeOK, Pieces
    <2>3. TypeOK'
        BY <1>1, <1>4, <2>1, <2>2 DEF TypeOK
    <2>4. Stages' /\ Before' /\ Small'
        BY <1>1, <1>2, <1>3, <1>4 DEF Stages, Before, Small, Pipes, BeforeDial
    <2> QED  BY <2>3, <2>4
<1>6. UpWay'
    BY <1>1, <1>4, UpKept DEF Pipes
<1>7. DownWay'
    <2> DEFINE n == IF g = "ack" THEN 0 ELSE Len(got["a"]) + Size("ra") + Size("gr") - 1
    <2>1. /\ Consec(got["a"], -1)' /\ Consec(pipe["ra"].buf, Len(got["a"]) - 1)'
          /\ Live("ra")' => Consec(pipe["gr"].buf, Len(got["a"]) + Size("ra") - 1)'
          /\ Live("ra")' = Live("ra") /\ Live("gr")' = Live("gr") /\ g' = g /\ n' = n
        BY <1>1, <1>4 DEF DownWay, Size, Live, Pipes, Consec
    <2>2. ASSUME Live("ra"), Live("gr"), g \in {"ack", "relay", "half"}
          PROVE  Consec(pipe["ug"].buf, n)' /\ (sent["u"] = n + Size("ug"))'
        <3>1. Consec(pipe["ug"].buf, n) /\ sent["u"] = n + Size("ug")
            BY <1>3, <2>2 DEF DownWay
        <3>2. n \in Int /\ Size("ug") \in Nat /\ pipe["ug"].buf \in Seq(Pieces)
            BY BaseParts DEF Pipes
        <3> HIDE DEF n
        <3>3. x = n + Len(pipe["ug"].buf) + 1 /\ Size("ug")' = Size("ug") + 1
            BY <1>3, <1>4, <3>1, <3>2, BaseParts DEF x, Size
        <3>4. Consec(Append(pipe["ug"].buf, x), n)
            BY <1>2, <3>1, <3>2, <3>3, ConsecAppend
        <3>5. Consec(pipe'["ug"].buf, n')
            BY <1>3, <1>4, <2>1, <3>4
        <3>6. sent'["u"] = n' + Size("ug")'
            <4>1. Len(pipe["ug"].buf) = Size("ug")
                BY DEF Size
            <4> QED  BY <1>4, <2>1, <3>2, <3>3, <4>1
        <3> QED  BY <3>5, <3>6
    <2> QED  BY <2>1, <2>2 DEF DownWay
<1> QED  BY <1>5, <1>6, <1>7

\* One piece less in a pipe.
LEMMA TakesFacts ==
    ASSUME TypeOK, NEW q \in Pipes, pipe[q].buf # <<>>
    PROVE  /\ [pipe[q] EXCEPT !.buf = Tail(@)] \in Pipe
           /\ [pipe[q] EXCEPT !.buf = Tail(@)].buf = Tail(pipe[q].buf)
           /\ Len(Tail(pipe[q].buf)) = Size(q) - 1 /\ Size(q) - 1 <= Room
           /\ [pipe[q] EXCEPT !.buf = Tail(@)].end = pipe[q].end
           /\ [pipe[q] EXCEPT !.buf = Tail(@)].deaf = pipe[q].deaf
           /\ Head(pipe[q].buf) \in Pieces
           /\ Size(q) \in Nat
<1>1. pipe[q] \in Pipe /\ Size(q) \in Nat /\ Size(q) <= Room
    BY BaseParts DEF Size
<1> QED  BY <1>1, TakenFacts, RoomSome DEF Size

\* The command reads the first piece of its pipe.
LEMMA ReceiveCommand ==
    ASSUME Base, UpWay, DownWay, Receive("a")
    PROVE  Base' /\ UpWay' /\ DownWay'
<1> USE DEF Base
<1> DEFINE h == Head(pipe["ra"].buf)
           q == [pipe["ra"] EXCEPT !.buf = Tail(@)]
<1>1. /\ pipe["ra"].buf # <<>> /\ "ra" \in Pipes
      /\ got' = [got EXCEPT !["a"] = Append(@, h)]
      /\ pipe' = [pipe EXCEPT !["ra"] = q]
      /\ UNCHANGED <<kind, sent, saw, r, g, ahead, copier, armed, late>>
    BY DEF Receive, In, Pipes
<1>2. /\ q \in Pipe /\ q.buf = Tail(pipe["ra"].buf) /\ q.end = pipe["ra"].end
      /\ q.deaf = pipe["ra"].deaf
      /\ Len(q.buf) = Size("ra") - 1 /\ Size("ra") - 1 <= Room /\ Size("ra") \in Nat
      /\ h \in Pieces
    BY <1>1, TakesFacts
<1>3. g \notin BeforeAck
    BY <1>1 DEF Before
<1> HIDE DEF q
<1>4. /\ pipe' \in [Pipes -> Pipe]
      /\ pipe'["ra"] = q
      /\ \A p \in Pipes \ {"ra"} : pipe'[p] = pipe[p]
    BY <1>1, <1>2, BaseParts
<1>5. /\ Append(got["a"], h) \in Seq(Pieces) /\ Len(Append(got["a"], h)) = Len(got["a"]) + 1
      /\ Len(got["a"]) \in Nat
    BY <1>2, BaseParts, AppendProperties
<1> HIDE DEF h
<1>6. got'["a"] = Append(got["a"], h) /\ got'["u"] = got["u"]
      /\ got' \in [{"a", "u"} -> Seq(0..(Up + Down))]
    BY <1>1, <1>5 DEF TypeOK, Pieces
<1>7. Base'
    <2>1. \A p \in Pipes : Len(pipe'[p].buf) <= Room
        BY <1>2, <1>4, BaseParts
    <2>2. TypeOK'
        BY <1>1, <1>4, <1>6, <2>1 DEF TypeOK
    <2>3. Stages' /\ Before' /\ Small'
        BY <1>1, <1>3, <1>4 DEF Stages, Before, Small, Pipes, BeforeAck
    <2> QED  BY <2>2, <2>3
<1>8. UpWay'
    BY <1>1, <1>4, <1>6, UpKept DEF Pipes
<1>9. DownWay'
    <2> DEFINE b == Len(got["a"]) - 1
    <2>1. Consec(got["a"], -1) /\ Consec(pipe["ra"].buf, b) /\ pipe["ra"].buf \in Seq(Pieces)
        BY BaseParts DEF DownWay, Pipes
    <2>2. h = b + 1 /\ Consec(q.buf, b + 1)
        BY <1>1, <1>2, <1>5, <2>1, ConsecTail DEF h
    <2>3. Consec(Append(got["a"], h), -1)
        BY <1>2, <1>5, <2>1, <2>2, ConsecAppend, BaseParts
    <2>4. Size("ra")' = Size("ra") - 1 /\ Size("gr")' = Size("gr") /\ Size("ug")' = Size("ug")
        BY <1>2, <1>4 DEF Size, Pipes
    <2>5. /\ b' = b + 1
          /\ Len(got["a"])' + Size("ra")' = Len(got["a"]) + Size("ra")
        BY <1>2, <1>5, <1>6, <2>4
    <2>6. Live("ra")' = Live("ra") /\ Live("gr")' = Live("gr") /\ pipe'["gr"] = pipe["gr"]
          /\ pipe'["ug"] = pipe["ug"] /\ g' = g /\ sent' = sent
        BY <1>1, <1>2, <1>4 DEF Live, Pipes
    <2>7. Consec(got["a"], -1)' /\ Consec(pipe["ra"].buf, b)'
        BY <1>4, <1>6, <2>2, <2>3, <2>5
    <2>8. (Live("ra") => Consec(pipe["gr"].buf, Len(got["a"]) + Size("ra") - 1))'
        <3>1. Live("ra") => Consec(pipe["gr"].buf, Len(got["a"]) + Size("ra") - 1)
            BY DEF DownWay
        <3>2. Live("ra")' => Live("ra")
            BY <2>6
        <3>3. Len(got'["a"]) + Size("ra")' - 1 = Len(got["a"]) + Size("ra") - 1
            <4>1. Len(got'["a"]) = Len(got["a"]) + 1
                BY <1>5, <1>6
            <4>2. Size("ra")' = Size("ra") - 1 /\ Size("ra") \in Nat /\ Len(got["a"]) \in Nat
                BY <1>2, <1>5, <2>4
            <4> HIDE DEF b
            <4> QED  BY <4>1, <4>2
        <3> QED  BY <2>6, <3>1, <3>2, <3>3
    <2> DEFINE n == IF g = "ack" THEN 0 ELSE Len(got["a"]) + Size("ra") + Size("gr") - 1
    <2>9. n' = n
        BY <2>4, <2>5, <2>6
    <2>10. Live("ra") /\ Live("gr") /\ g \in {"ack", "relay", "half"} =>
              /\ Consec(pipe["ug"].buf, n)
              /\ pipe["ug"].end # "reset" /\ ~pipe["ug"].deaf => sent["u"] = n + Size("ug")
        BY DEF DownWay
    <2> HIDE DEF n
    <2>11. (Live("ra") /\ Live("gr") /\ g \in {"ack", "relay", "half"} =>
              /\ Consec(pipe["ug"].buf, n)
              /\ pipe["ug"].end # "reset" /\ ~pipe["ug"].deaf => sent["u"] = n + Size("ug"))'
        BY <2>4, <2>6, <2>9, <2>10
    <2> QED  BY <2>6, <2>7, <2>8, <2>11 DEF DownWay, n
<1> QED  BY <1>7, <1>8, <1>9

\* The destination reads the first piece of its pipe.
LEMMA ReceiveDestination ==
    ASSUME Base, UpWay, DownWay, Receive("u")
    PROVE  Base' /\ UpWay' /\ DownWay'
<1> USE DEF Base
<1> DEFINE h == Head(pipe["gu"].buf)
           q == [pipe["gu"] EXCEPT !.buf = Tail(@)]
<1>1. /\ pipe["gu"].buf # <<>> /\ "gu" \in Pipes
      /\ got' = [got EXCEPT !["u"] = Append(@, h)]
      /\ pipe' = [pipe EXCEPT !["gu"] = q]
      /\ UNCHANGED <<kind, sent, saw, r, g, ahead, copier, armed, late>>
    BY DEF Receive, In, Pipes
<1>2. /\ q \in Pipe /\ q.buf = Tail(pipe["gu"].buf) /\ q.end = pipe["gu"].end
      /\ q.deaf = pipe["gu"].deaf
      /\ Len(q.buf) = Size("gu") - 1 /\ Size("gu") - 1 <= Room /\ Size("gu") \in Nat
      /\ h \in Pieces
    BY <1>1, TakesFacts
<1>3. g \notin BeforeDial
    BY <1>1 DEF Before
<1> HIDE DEF q
<1>4. /\ pipe' \in [Pipes -> Pipe]
      /\ pipe'["gu"] = q
      /\ \A p \in Pipes \ {"gu"} : pipe'[p] = pipe[p]
    BY <1>1, <1>2, BaseParts
<1>5. /\ Append(got["u"], h) \in Seq(Pieces) /\ Len(Append(got["u"], h)) = Len(got["u"]) + 1
      /\ Len(got["u"]) \in Nat
    BY <1>2, BaseParts, AppendProperties
<1> HIDE DEF h
<1>6. got'["u"] = Append(got["u"], h) /\ got'["a"] = got["a"]
      /\ got' \in [{"a", "u"} -> Seq(0..(Up + Down))]
    BY <1>1, <1>5 DEF TypeOK, Pieces
<1>7. Base'
    <2>1. \A p \in Pipes : Len(pipe'[p].buf) <= Room
        BY <1>2, <1>4, BaseParts
    <2>2. TypeOK'
        BY <1>1, <1>4, <1>6, <2>1 DEF TypeOK
    <2>3. Stages' /\ Before' /\ Small'
        BY <1>1, <1>3, <1>4, <1>6 DEF Stages, Before, Small, Pipes, BeforeDial
    <2> QED  BY <2>2, <2>3
<1>8. DownWay'
    BY <1>1, <1>4, <1>6, DownKept DEF Pipes
<1>9. UpWay'
    <2> DEFINE b == Len(got["u"])
    <2>1. Consec(got["u"], 0) /\ Consec(pipe["gu"].buf, b) /\ pipe["gu"].buf \in Seq(Pieces)
        BY BaseParts DEF UpWay, Pipes
    <2>2. h = b + 1 /\ Consec(q.buf, b + 1)
        BY <1>1, <1>2, <1>5, <2>1, ConsecTail DEF h
    <2>3. Consec(Append(got["u"], h), 0)
        BY <1>2, <1>5, <2>1, <2>2, ConsecAppend, BaseParts
    <2>4. b' = b + 1 /\ Size("gu")' = Size("gu") - 1 /\ Size("rg")' = Size("rg") /\ Size("ar")' = Size("ar")
        BY <1>2, <1>4, <1>5, <1>6 DEF Size, Pipes
    <2>5. Len(got["u"])' + Size("gu")' = Len(got["u"]) + Size("gu")
        BY <1>2, <1>5, <1>6, <2>4
    <2>6. Passed' = Passed /\ UpOpen' = UpOpen
        BY <1>1, <1>2, <1>4, <2>5 DEF Passed, UpOpen, Live
    <2>7. Live("rg")' = Live("rg") /\ Live("ar")' = Live("ar") /\ pipe'["rg"] = pipe["rg"]
          /\ pipe'["ar"] = pipe["ar"] /\ ahead' = ahead /\ sent' = sent
        BY <1>1, <1>4 DEF Live, Pipes
    <2>8. Consec(got["u"], 0)' /\ Consec(pipe["gu"].buf, b)'
        BY <1>4, <1>6, <2>2, <2>3, <2>4
    <2> QED  BY <2>4, <2>6, <2>7, <2>8 DEF UpWay
<1> QED  BY <1>7, <1>8, <1>9

-----------------------------------------------------------------------------
(* Copying. *)

\* One piece goes from pipe p to pipe q.
Moves(p, q) ==
    /\ pipe' \in [Pipes -> Pipe]
    /\ \A o \in Pipes \ {p, q} : pipe'[o] = pipe[o]
    /\ \A o \in Pipes : Len(pipe'[o].buf) <= Room
    /\ pipe'[q].buf = Append(pipe[q].buf, Head(pipe[p].buf)) /\ Size(q)' = Size(q) + 1
    /\ pipe'[q].end = pipe[q].end /\ pipe'[q].deaf = pipe[q].deaf
    /\ pipe'[p].buf = Tail(pipe[p].buf) /\ Size(p)' = Size(p) - 1
    /\ pipe'[p].end = pipe[p].end /\ pipe'[p].deaf = pipe[p].deaf
    /\ Live(q) /\ pipe[p].buf # <<>> /\ Head(pipe[p].buf) \in Pieces
    /\ UNCHANGED <<kind, sent, got, saw, r, g, ahead, copier, armed, late>>

\* A copy moves one piece, unless it is the one read ahead.
LEMMA CopyMoves ==
    ASSUME Base, NEW c \in Copiers, Copy(c), c # "gatewayUp" \/ ahead = <<>>
    PROVE  Moves(From[c], To[c])
<1> USE DEF Base
<1> DEFINE p == From[c]
           q == To[c]
           h == Head(pipe[p].buf)
           x == [pipe[p] EXCEPT !.buf = Tail(@)]
<1>1. p \in Pipes /\ q \in Pipes /\ p # q
    BY DEF From, To, Pipes, Copiers
<1>2. Source(c) = pipe[p].buf
    <2>1. pipe[p].buf \in Seq(Pieces)
        BY <1>1, BaseParts
    <2>2. Source(c) = <<>> \o pipe[p].buf
        BY DEF Source
    <2> QED  BY <2>1, <2>2, ConcatEmptySeq
<1>3. /\ pipe[p].buf # <<>> /\ Writable(q)
      /\ pipe' = [[pipe EXCEPT ![q] = Written(@, h)] EXCEPT ![p].buf = Tail(@)]
      /\ UNCHANGED <<kind, sent, got, saw, r, g, ahead, copier, armed, late>>
    BY <1>2 DEF Copy
<1>4. /\ x \in Pipe /\ x.buf = Tail(pipe[p].buf) /\ x.end = pipe[p].end /\ x.deaf = pipe[p].deaf
      /\ Len(Tail(pipe[p].buf)) = Size(p) - 1 /\ Size(p) - 1 <= Room /\ h \in Pieces
    BY <1>1, <1>3, TakesFacts
<1>5. /\ Written(pipe[q], h) \in Pipe
      /\ Written(pipe[q], h).buf = Append(pipe[q].buf, h)
      /\ Len(Written(pipe[q], h).buf) = Size(q) + 1 /\ Size(q) + 1 <= Room
      /\ Written(pipe[q], h).end = "open" /\ Written(pipe[q], h).deaf = pipe[q].deaf
      /\ pipe[q].end = "open" /\ ~pipe[q].deaf
    BY <1>1, <1>3, <1>4, WritesFacts
<1>6. pipe' = [[pipe EXCEPT ![q] = Written(pipe[q], h)] EXCEPT ![p] = x]
    BY <1>1, <1>3, BaseParts
<1> HIDE DEF p, q, x
<1>7. /\ pipe' \in [Pipes -> Pipe]
      /\ pipe'[p] = x /\ pipe'[q] = Written(pipe[q], h)
      /\ \A o \in Pipes \ {p, q} : pipe'[o] = pipe[o]
    BY <1>1, <1>4, <1>5, <1>6, BaseParts
<1> HIDE DEF h
<1>8. \A o \in Pipes : Len(pipe'[o].buf) <= Room
    BY <1>4, <1>5, <1>7, BaseParts
<1>9. Moves(p, q)
    BY <1>3, <1>4, <1>5, <1>7, <1>8 DEF Moves, Size, Live, h
<1> QED  BY <1>9 DEF p, q

\* A move keeps types and stages.
LEMMA MovesKeepBase ==
    ASSUME Base, NEW p \in Pipes, NEW q \in Pipes, p # q, Moves(p, q),
           p \in {"ar", "rg"} <=> q \in {"rg", "gu"},
           q = "rg" => p = "ar", p # "gu", q # "ar", q # "ug",
           q \in {"gr", "ra", "gu"} => g \notin BeforeAck
    PROVE  Base'
<1> USE DEF Base
<1>1. TypeOK'
    BY DEF TypeOK, Moves
<1>2. Stages'
    BY DEF Stages, Moves
<1>3. pipe'["ar"].buf \in Seq(0..Up) /\ pipe'["rg"].buf \in Seq(0..Up)
    <2>1. ASSUME NEW o \in {"ar", "rg"}
          PROVE  pipe'[o].buf \in Seq(0..Up)
        <3>1. o \in Pipes /\ pipe[o].buf \in Seq(0..Up)
            BY DEF Small, Pipes
        <3>2. CASE o = p
            <4>1. Tail(pipe[o].buf) \in Seq(0..Up)
                BY <3>1, <3>2, HeadTailProperties DEF Moves
            <4>2. pipe'[o].buf = Tail(pipe[o].buf)
                BY <3>2 DEF Moves
            <4> QED  BY <4>1, <4>2
        <3>3. CASE o = q
            <4>1. o = "rg" /\ p = "ar"
                BY <3>3
            <4>2. Head(pipe[p].buf) \in 0..Up
                BY <4>1, HeadTailProperties DEF Small, Moves
            <4>3. Append(pipe[o].buf, Head(pipe[p].buf)) \in Seq(0..Up)
                BY <3>1, <4>2, AppendProperties
            <4>4. pipe'[o].buf = Append(pipe[o].buf, Head(pipe[p].buf))
                BY <3>3 DEF Moves
            <4> QED  BY <4>3, <4>4
        <3>4. CASE o # p /\ o # q
            BY <3>1, <3>4 DEF Moves
        <3> QED  BY <3>2, <3>3, <3>4
    <2> QED  BY <2>1
<1>4. Small'
    BY <1>3 DEF Small, Moves
<1>5. Before'
    <2>1. ASSUME g \in BeforeDial
          PROVE  pipe'["gu"] = pipe["gu"] /\ pipe'["ug"] = pipe["ug"]
        <3>1. g \in BeforeAck /\ pipe["ug"].buf = <<>>
            BY <2>1 DEF BeforeAck, Before
        <3>2. p # "ug" /\ q # "gu" /\ q # "ug"
            BY <3>1 DEF Moves, Pipes
        <3> QED  BY <3>2 DEF Moves, Pipes
    <2>2. ASSUME g \in BeforeAck
          PROVE  /\ pipe'["ra"].buf = <<>> /\ pipe'["gr"].buf = <<>> /\ pipe'["gr"].end = pipe["gr"].end
        <3>1. p # "ra" /\ p # "gr" /\ q # "ra" /\ q # "gr"
            BY <2>2 DEF Before, Moves
        <3>2. pipe'["ra"] = pipe["ra"] /\ pipe'["gr"] = pipe["gr"]
            BY <3>1 DEF Moves, Pipes
        <3> QED  BY <2>2, <3>2 DEF Before
    <2>3. \A o \in Pipes : pipe'[o].deaf = pipe[o].deaf
        BY DEF Moves
    <2>4. UNCHANGED <<g, ahead, got, sent>>
        BY DEF Moves
    <2> QED  BY <2>1, <2>2, <2>3, <2>4 DEF Before, Pipes
<1> QED  BY <1>1, <1>2, <1>4, <1>5

\* The relay's copy up: what leaves the command's pipe is the next piece of the
\* gateway's.
LEMMA CopyRelayUp ==
    ASSUME Base, UpWay, DownWay, Copy("relayUp")
    PROVE  Base' /\ UpWay' /\ DownWay'
<1> USE DEF Base
<1>1. Moves("ar", "rg")
    BY CopyMoves DEF From, To, Copiers
<1>2. "ar" \in Pipes /\ "rg" \in Pipes
    BY DEF Pipes
<1>3. Base'
    BY <1>1, <1>2, MovesKeepBase
<1> DEFINE b == Passed + Len(ahead)
           h == Head(pipe["ar"].buf)
<1>4. /\ pipe'["rg"].buf = Append(pipe["rg"].buf, h) /\ Size("rg")' = Size("rg") + 1
      /\ pipe'["ar"].buf = Tail(pipe["ar"].buf) /\ Size("ar")' = Size("ar") - 1
      /\ Live("rg") /\ pipe["ar"].buf # <<>> /\ h \in Pieces
      /\ Live("rg")' = Live("rg") /\ Live("ar")' = Live("ar")
      /\ UNCHANGED <<sent, got, g, ahead, copier>>
      /\ UNCHANGED <<pipe["gu"], pipe["ug"], pipe["gr"], pipe["ra"]>>
    BY <1>1 DEF Moves, Live, Pipes
<1>5. b \in Int /\ Size("rg") \in Nat /\ Size("ar") \in Nat
      /\ pipe["rg"].buf \in Seq(Pieces) /\ pipe["ar"].buf \in Seq(Pieces)
    BY BaseParts DEF Pipes
<1>6. UpOpen' = UpOpen /\ Passed' = Passed /\ b' = b
    BY <1>4 DEF UpOpen, Passed, Live, Size
<1>7. ASSUME UpOpen
      PROVE  /\ Consec(ahead, Passed)
             /\ Consec(pipe["rg"].buf, b) /\ Consec(pipe["ar"].buf, b + Size("rg"))
             /\ Live("ar") => sent["a"] = b + Size("rg") + Size("ar")
    BY <1>4, <1>7 DEF UpWay
<1> HIDE DEF b, h
<1>8. ASSUME UpOpen
      PROVE  /\ Consec(pipe'["rg"].buf, b)
             /\ Consec(pipe'["ar"].buf, b + Size("rg")')
             /\ Live("ar") => sent["a"] = b + Size("rg")' + Size("ar")'
    <2>1. h = b + Size("rg") + 1 /\ Consec(Tail(pipe["ar"].buf), b + Size("rg") + 1)
        BY <1>4, <1>5, <1>7, <1>8, ConsecTail DEF h
    <2>2. Len(pipe["rg"].buf) = Size("rg")
        BY DEF Size
    <2>3. Consec(Append(pipe["rg"].buf, h), b)
        BY <1>4, <1>5, <1>7, <1>8, <2>1, <2>2, ConsecAppend
    <2>4. b + Size("rg")' = b + Size("rg") + 1
          /\ b + Size("rg")' + Size("ar")' = b + Size("rg") + Size("ar")
        <3>1. b \in Int /\ Size("rg") \in Nat /\ Size("ar") \in Nat
            BY <1>5
        <3>2. Size("rg")' = Size("rg") + 1 /\ Size("ar")' = Size("ar") - 1
            BY <1>4
        <3> QED  BY <3>1, <3>2
    <2> QED  BY <1>4, <1>7, <1>8, <2>1, <2>3, <2>4
<1>9. UpWay'
    <2>1. Consec(got["u"], 0)' /\ Consec(pipe["gu"].buf, Len(got["u"]))'
        BY <1>4 DEF UpWay, Consec
    <2>2. UpOpen => /\ Consec(ahead, Passed)'
                    /\ Consec(pipe["rg"].buf, b)'
                    /\ Consec(pipe["ar"].buf, b + Size("rg"))'
                    /\ Live("ar")' => (sent["a"] = b + Size("rg") + Size("ar"))'
        BY <1>4, <1>6, <1>7, <1>8
    <2> QED  BY <1>6, <2>1, <2>2 DEF UpWay, b
<1>10. DownWay'
    BY <1>4, DownKept
<1> QED  BY <1>3, <1>9, <1>10

\* The relay's copy down.
LEMMA CopyRelayDown ==
    ASSUME Base, UpWay, DownWay, Copy("relayDown")
    PROVE  Base' /\ UpWay' /\ DownWay'
<1> USE DEF Base
<1>1. Moves("gr", "ra")
    BY CopyMoves DEF From, To, Copiers
<1>2. "gr" \in Pipes /\ "ra" \in Pipes /\ g \notin BeforeAck
    BY <1>1 DEF Pipes, Moves, Before
<1>3. Base'
    BY <1>1, <1>2, MovesKeepBase
<1> DEFINE b == Len(got["a"]) - 1
           h == Head(pipe["gr"].buf)
           n == IF g = "ack" THEN 0 ELSE Len(got["a"]) + Size("ra") + Size("gr") - 1
<1>4. /\ pipe'["ra"].buf = Append(pipe["ra"].buf, h) /\ Size("ra")' = Size("ra") + 1
      /\ pipe'["gr"].buf = Tail(pipe["gr"].buf) /\ Size("gr")' = Size("gr") - 1
      /\ Live("ra") /\ pipe["gr"].buf # <<>> /\ h \in Pieces
      /\ Live("ra")' = Live("ra") /\ Live("gr")' = Live("gr")
      /\ UNCHANGED <<sent, got, g, ahead, copier>>
      /\ UNCHANGED <<pipe["gu"], pipe["ug"], pipe["rg"], pipe["ar"]>>
    BY <1>1 DEF Moves, Live, Pipes
<1>5. Len(got["a"]) \in Nat /\ Size("ra") \in Nat /\ Size("gr") \in Nat
    BY BaseParts DEF Pipes
<1>51. pipe["ra"].buf \in Seq(Pieces) /\ pipe["gr"].buf \in Seq(Pieces)
    BY BaseParts DEF Pipes
<1>52. /\ b \in Int /\ Len(got["a"]) + Size("ra") - 1 = b + Size("ra")
      /\ Len(got["a"]) + (Size("ra") + 1) - 1 = b + Size("ra") + 1
      /\ Len(got["a"]) + (Size("ra") + 1) + (Size("gr") - 1) - 1
             = Len(got["a"]) + Size("ra") + Size("gr") - 1
    BY <1>5
<1>6. /\ Consec(got["a"], -1) /\ Consec(pipe["ra"].buf, b)
      /\ Consec(pipe["gr"].buf, b + Size("ra"))
    BY <1>4, <1>52 DEF DownWay
<1>7. n' = n /\ b' = b /\ Size("ug")' = Size("ug")
    <2>1. Len(got'["a"]) = Len(got["a"]) /\ g' = g
        BY <1>4
    <2>3. Len(got'["a"]) + Size("ra")' + Size("gr")' - 1 = Len(got["a"]) + Size("ra") + Size("gr") - 1
        BY <1>4, <1>52, <2>1
    <2> QED  BY <1>4, <2>1, <2>3 DEF Size
<1>8. Live("gr") /\ g \in {"ack", "relay", "half"} =>
          /\ Consec(pipe["ug"].buf, n)
          /\ pipe["ug"].end # "reset" /\ ~pipe["ug"].deaf => sent["u"] = n + Size("ug")
    BY <1>4 DEF DownWay
<1>9. Len(got'["a"]) + Size("ra")' - 1 = b + Size("ra") + 1
    BY <1>4, <1>52
<1> HIDE DEF b, h, n
<1>10. Consec(pipe'["ra"].buf, b) /\ Consec(pipe'["gr"].buf, b + Size("ra") + 1)
    <2>0. b + Size("ra") \in Int
        BY <1>5, <1>52
    <2>1. h = b + Size("ra") + 1 /\ Consec(Tail(pipe["gr"].buf), b + Size("ra") + 1)
        BY <1>4, <1>51, <1>6, <2>0, ConsecTail DEF h
    <2>2. Len(pipe["ra"].buf) = Size("ra")
        BY DEF Size
    <2>3. Consec(Append(pipe["ra"].buf, h), b)
        BY <1>4, <1>5, <1>51, <1>52, <1>6, <2>1, <2>2, ConsecAppend
    <2> QED  BY <1>4, <2>1, <2>3
<1>11. DownWay'
    <2>1. Consec(got["a"], -1)' /\ Consec(pipe["ra"].buf, b)'
        BY <1>4, <1>6, <1>7, <1>10
    <2>2. Consec(pipe["gr"].buf, Len(got["a"]) + Size("ra") - 1)'
        BY <1>9, <1>10
    <2>3. (Live("gr") /\ g \in {"ack", "relay", "half"} =>
            /\ Consec(pipe["ug"].buf, n)
            /\ pipe["ug"].end # "reset" /\ ~pipe["ug"].deaf => sent["u"] = n + Size("ug"))'
        BY <1>4, <1>7, <1>8
    <2> QED  BY <2>1, <2>2, <2>3 DEF DownWay, b, n
<1>12. UpWay'
    BY <1>4, UpKept
<1> QED  BY <1>3, <1>11, <1>12

\* The destination's pipe takes the next piece.
LEMMA PassesOn ==
    ASSUME Base, UpWay, g \in {"relay", "half"}, Live("gu"), NEW h \in Pieces, h = Passed + 1,
           UNCHANGED <<g, got>>, pipe'["gu"].end = pipe["gu"].end, pipe'["gu"].deaf = pipe["gu"].deaf,
           pipe'["gu"].buf = Append(pipe["gu"].buf, h), Size("gu")' = Size("gu") + 1
    PROVE  /\ UpOpen /\ Passed' = Passed + 1
           /\ Consec(got["u"], 0)' /\ Consec(pipe["gu"].buf, Len(got["u"]))'
<1> USE DEF Base
<1>1. Len(got["u"]) \in Nat /\ Size("gu") \in Nat
    BY BaseParts DEF Pipes
<1>2. pipe["gu"].buf \in Seq(Pieces) /\ Len(pipe["gu"].buf) = Size("gu")
    BY BaseParts DEF Pipes, Size
<1>3. Passed = Len(got["u"]) + Size("gu") /\ Passed' = Len(got["u"]) + Size("gu")'
    BY DEF Passed
<1>4. Passed' = Passed + 1 /\ h = Len(got["u"]) + Size("gu") + 1
    BY <1>1, <1>3
<1>5. Consec(got["u"], 0) /\ Consec(pipe["gu"].buf, Len(got["u"]))
    BY DEF UpWay
<1>6. Consec(Append(pipe["gu"].buf, h), Len(got["u"]))
    BY <1>1, <1>2, <1>4, <1>5, ConsecAppend
<1> QED  BY <1>4, <1>5, <1>6 DEF UpOpen

\* While one of its copiers runs the gateway waits for it.
LEMMA GatewayCopierOn ==
    ASSUME Base, NEW c \in {"gatewayUp", "gatewayDown"}, copier[c] = "on"
    PROVE  g \in {"relay", "half"}
BY DEF Base, TypeOK, Stages, BeforeAck, BeforeDial

\* The gateway's copy up: first what it read ahead...
LEMMA CopyAhead ==
    ASSUME Base, UpWay, DownWay, Copy("gatewayUp"), ahead # <<>>
    PROVE  Base' /\ UpWay' /\ DownWay'
<1> USE DEF Base
<1> DEFINE h == Head(ahead)
<1>1. /\ ahead \in Seq(0..Up) /\ pipe["rg"].buf \in Seq(0..Up) /\ Len(ahead) \in Nat
      /\ Size("rg") \in Nat /\ Size("ar") \in Nat /\ Passed \in Int /\ Len(ahead) >= 1
    BY BaseParts, EmptySeq DEF Pipes, Small
<1>2. Head(Source("gatewayUp")) = h
    <2>1. (ahead \o pipe["rg"].buf)[1] = ahead[1]
        BY <1>1, ConcatProperties
    <2>2. ahead \o pipe["rg"].buf \in Seq(0..Up) /\ ahead \o pipe["rg"].buf # <<>>
        BY <1>1, ConcatProperties, EmptySeq
    <2> QED  BY <1>1, <2>1, <2>2 DEF Source, From
<1>3. /\ Writable("gu") /\ copier["gatewayUp"] = "on"
      /\ ahead' = Tail(ahead) /\ pipe' = [pipe EXCEPT !["gu"] = Written(pipe["gu"], h)]
      /\ UNCHANGED <<kind, sent, got, saw, r, g, copier, armed, late>>
    BY <1>2 DEF Copy, To
<1>4. g \in {"relay", "half"}
    BY <1>3, GatewayCopierOn
<1>5. /\ h \in 0..Up /\ h \in Pieces
      /\ Tail(ahead) \in Seq(0..Up) /\ Len(Tail(ahead)) = Len(ahead) - 1
    <2>1. h \in 0..Up /\ Tail(ahead) \in Seq(0..Up) /\ Len(Tail(ahead)) = Len(ahead) - 1
        BY <1>1, HeadTailProperties
    <2> QED  BY <2>1, RoomSome DEF Pieces
<1> HIDE DEF h
<1>6. /\ Written(pipe["gu"], h) \in Pipe
      /\ Written(pipe["gu"], h).buf = Append(pipe["gu"].buf, h)
      /\ Len(Written(pipe["gu"], h).buf) = Size("gu") + 1 /\ Size("gu") + 1 <= Room
      /\ Written(pipe["gu"], h).end = "open" /\ Written(pipe["gu"], h).deaf = pipe["gu"].deaf
      /\ pipe["gu"].end = "open" /\ ~pipe["gu"].deaf
    BY <1>3, <1>5, WritesFacts DEF Pipes
<1>7. /\ pipe' \in [Pipes -> Pipe] /\ pipe'["gu"] = Written(pipe["gu"], h)
      /\ \A p \in Pipes \ {"gu"} : pipe'[p] = pipe[p]
    BY <1>3, <1>6, BaseParts DEF Pipes
<1>8. Base'
    <2>1. \A p \in Pipes : Len(pipe'[p].buf) <= Room
        BY <1>6, <1>7, BaseParts
    <2>2. TypeOK'
        BY <1>3, <1>5, <1>7, <2>1 DEF TypeOK
    <2>3. Stages' /\ Before' /\ Small'
        BY <1>3, <1>4, <1>7 DEF Stages, Before, Small, Pipes, BeforeAck, BeforeDial
    <2> QED  BY <2>2, <2>3
<1>9. UpOpen
    BY <1>4, <1>6 DEF UpOpen, Live
<1>10. /\ Consec(ahead, Passed) /\ Consec(pipe["rg"].buf, Passed + Len(ahead))
       /\ Live("rg") => Consec(pipe["ar"].buf, Passed + Len(ahead) + Size("rg"))
       /\ Live("rg") /\ Live("ar") => sent["a"] = Passed + Len(ahead) + Size("rg") + Size("ar")
    BY <1>9 DEF UpWay
<1>11. h = Passed + 1 /\ Consec(Tail(ahead), Passed + 1)
    BY <1>1, <1>10, ConsecTail DEF h
<1>12. /\ Passed' = Passed + 1
       /\ Consec(got["u"], 0)' /\ Consec(pipe["gu"].buf, Len(got["u"]))'
    <2>1. Size("gu")' = Size("gu") + 1
        BY <1>6, <1>7 DEF Size
    <2> QED  BY <1>3, <1>4, <1>5, <1>6, <1>7, <1>11, <2>1, PassesOn DEF Live
<1>13. /\ Size("rg")' = Size("rg") /\ Size("ar")' = Size("ar")
       /\ Live("rg")' = Live("rg") /\ Live("ar")' = Live("ar")
       /\ pipe'["rg"] = pipe["rg"] /\ pipe'["ar"] = pipe["ar"] /\ sent' = sent
    BY <1>3, <1>7 DEF Pipes, Size, Live
<1>14. Passed' + Len(ahead') = Passed + Len(ahead)
    <2>1. Len(ahead') = Len(ahead) - 1
        BY <1>3, <1>5
    <2> QED  BY <1>1, <1>12, <2>1
<1>15. UpWay'
    <2>1. Consec(ahead, Passed)' /\ Consec(pipe["rg"].buf, Passed + Len(ahead))'
        BY <1>3, <1>10, <1>11, <1>12, <1>13, <1>14
    <2>2. /\ (Live("rg") => Consec(pipe["ar"].buf, Passed + Len(ahead) + Size("rg")))'
          /\ (Live("rg") /\ Live("ar") => sent["a"] = Passed + Len(ahead) + Size("rg") + Size("ar"))'
        BY <1>10, <1>13, <1>14
    <2> QED  BY <1>12, <2>1, <2>2 DEF UpWay
<1>16. DownWay'
    BY <1>3, <1>7, DownKept DEF Pipes
<1> QED  BY <1>8, <1>15, <1>16

\* ... then what the relay sends.
LEMMA CopyGatewayUp ==
    ASSUME Base, UpWay, DownWay, Copy("gatewayUp"), ahead = <<>>
    PROVE  Base' /\ UpWay' /\ DownWay'
<1> USE DEF Base
<1>1. Moves("rg", "gu")
    BY CopyMoves DEF From, To, Copiers
<1>2. g \in {"relay", "half"} /\ g \notin BeforeAck /\ "rg" \in Pipes /\ "gu" \in Pipes
    BY GatewayCopierOn DEF Copy, Pipes, BeforeAck, BeforeDial
<1>3. Base'
    BY <1>1, <1>2, MovesKeepBase
<1> DEFINE h == Head(pipe["rg"].buf)
<1>4. /\ pipe'["gu"].buf = Append(pipe["gu"].buf, h) /\ Size("gu")' = Size("gu") + 1
      /\ pipe'["gu"].end = pipe["gu"].end /\ pipe'["gu"].deaf = pipe["gu"].deaf
      /\ pipe'["rg"].buf = Tail(pipe["rg"].buf) /\ Size("rg")' = Size("rg") - 1
      /\ Live("gu") /\ pipe["rg"].buf # <<>> /\ h \in Pieces
      /\ Live("rg")' = Live("rg") /\ Live("ar")' = Live("ar") /\ Size("ar")' = Size("ar")
      /\ UNCHANGED <<sent, got, g, ahead, copier>>
      /\ UNCHANGED <<pipe["ar"], pipe["ug"], pipe["gr"], pipe["ra"]>>
    BY <1>1 DEF Moves, Live, Pipes, Size
<1>5. Passed \in Int /\ Size("rg") \in Nat /\ Size("ar") \in Nat
    BY BaseParts DEF Pipes
<1>6. pipe["rg"].buf \in Seq(Pieces)
    BY BaseParts DEF Pipes
<1>7. Len(ahead) = 0 /\ Passed + Len(ahead) = Passed
    <2>1. Len(ahead) = 0
        BY EmptySeq
    <2> QED  BY <1>5, <2>1
<1>8. UpOpen
    BY <1>2, <1>4 DEF UpOpen
<1>9. /\ Consec(pipe["rg"].buf, Passed)
      /\ Live("rg") => Consec(pipe["ar"].buf, Passed + Size("rg"))
      /\ Live("rg") /\ Live("ar") => sent["a"] = Passed + Size("rg") + Size("ar")
    BY <1>7, <1>8 DEF UpWay
<1>10. h = Passed + 1 /\ Consec(Tail(pipe["rg"].buf), Passed + 1)
    BY <1>4, <1>5, <1>6, <1>9, ConsecTail DEF h
<1> HIDE DEF h
<1>11. /\ Passed' = Passed + 1
       /\ Consec(got["u"], 0)' /\ Consec(pipe["gu"].buf, Len(got["u"]))'
    BY <1>2, <1>4, <1>10, PassesOn
<1>12. Passed' + Len(ahead') = Passed + 1 /\ Passed' + Len(ahead') + Size("rg")' = Passed + Size("rg")
    <2>1. Passed' = Passed + 1 /\ Len(ahead') = 0 /\ Size("rg")' = Size("rg") - 1
        BY <1>4, <1>7, <1>11
    <2> QED  BY <1>5, <2>1
<1>13. UpWay'
    <2>1. Consec(ahead, Passed)' /\ Consec(pipe["rg"].buf, Passed + Len(ahead))'
        BY <1>4, <1>10, <1>12, ConsecEmpty
    <2>2. /\ (Live("rg") => Consec(pipe["ar"].buf, Passed + Len(ahead) + Size("rg")))'
          /\ (Live("rg") /\ Live("ar") => sent["a"] = Passed + Len(ahead) + Size("rg") + Size("ar"))'
        BY <1>4, <1>9, <1>12
    <2> QED  BY <1>11, <2>1, <2>2 DEF UpWay
<1>14. DownWay'
    BY <1>4, DownKept
<1> QED  BY <1>3, <1>13, <1>14

\* The gateway's copy down.
LEMMA CopyGatewayDown ==
    ASSUME Base, UpWay, DownWay, Copy("gatewayDown")
    PROVE  Base' /\ UpWay' /\ DownWay'
<1> USE DEF Base
<1>1. Moves("ug", "gr")
    BY CopyMoves DEF From, To, Copiers
<1>2. g \in {"relay", "half"} /\ g \notin BeforeAck /\ "ug" \in Pipes /\ "gr" \in Pipes
    BY GatewayCopierOn DEF Copy, Pipes, BeforeAck, BeforeDial
<1>3. Base'
    BY <1>1, <1>2, MovesKeepBase
<1> DEFINE h == Head(pipe["ug"].buf)
           m == Len(got["a"]) + Size("ra") - 1
           n == Len(got["a"]) + Size("ra") + Size("gr") - 1
<1>4. /\ pipe'["gr"].buf = Append(pipe["gr"].buf, h) /\ Size("gr")' = Size("gr") + 1
      /\ pipe'["ug"].buf = Tail(pipe["ug"].buf) /\ Size("ug")' = Size("ug") - 1
      /\ pipe'["ug"].end = pipe["ug"].end /\ pipe'["ug"].deaf = pipe["ug"].deaf
      /\ Live("gr") /\ pipe["ug"].buf # <<>> /\ h \in Pieces
      /\ Live("ra")' = Live("ra") /\ Live("gr")' = Live("gr") /\ Size("ra")' = Size("ra")
      /\ UNCHANGED <<sent, got, g, ahead, copier>>
      /\ UNCHANGED <<pipe["ar"], pipe["rg"], pipe["gu"], pipe["ra"]>>
    BY <1>1 DEF Moves, Live, Pipes, Size
<1>5. Len(got["a"]) \in Nat /\ Size("ra") \in Nat /\ Size("gr") \in Nat /\ Size("ug") \in Nat
    BY BaseParts DEF Pipes
<1>6. pipe["gr"].buf \in Seq(Pieces) /\ pipe["ug"].buf \in Seq(Pieces)
    BY BaseParts DEF Pipes
<1>7. m \in Int /\ n \in Int /\ n = m + Size("gr")
    BY <1>5
<1>8. m' = m /\ n' = n + 1
    <2>1. Len(got'["a"]) = Len(got["a"]) /\ Size("ra")' = Size("ra") /\ Size("gr")' = Size("gr") + 1
        BY <1>4
    <2>2. Len(got["a"]) + Size("ra") + (Size("gr") + 1) - 1 = n + 1
        BY <1>5
    <2> QED  BY <2>1, <2>2
<1>9. Live("ra") =>
          /\ Consec(pipe["gr"].buf, m) /\ Consec(pipe["ug"].buf, n)
          /\ pipe["ug"].end # "reset" /\ ~pipe["ug"].deaf => sent["u"] = n + Size("ug")
    BY <1>2, <1>4 DEF DownWay, BeforeAck
<1> HIDE DEF m, n
<1>10. ASSUME Live("ra")
       PROVE  /\ Consec(pipe'["gr"].buf, m) /\ Consec(pipe'["ug"].buf, n + 1)
              /\ pipe["ug"].end # "reset" /\ ~pipe["ug"].deaf => sent["u"] = (n + 1) + Size("ug")'
    <2>1. h = n + 1 /\ Consec(Tail(pipe["ug"].buf), n + 1)
        BY <1>4, <1>6, <1>7, <1>9, <1>10, ConsecTail DEF h
    <2> HIDE DEF h
    <2>2. h = m + Len(pipe["gr"].buf) + 1
        BY <1>7, <2>1 DEF Size
    <2>3. Consec(Append(pipe["gr"].buf, h), m)
        BY <1>4, <1>6, <1>7, <1>9, <1>10, <2>2, ConsecAppend
    <2>4. n + Size("ug") = (n + 1) + Size("ug")'
        <3>1. n \in Int /\ Size("ug") \in Nat /\ Size("ug")' = Size("ug") - 1
            BY <1>4, <1>5, <1>7
        <3> QED  BY <3>1
    <2> QED  BY <1>4, <1>9, <1>10, <2>1, <2>3, <2>4
<1>11. DownWay'
    <2>1. Consec(got["a"], -1)' /\ Consec(pipe["ra"].buf, Len(got["a"]) - 1)'
        BY <1>4 DEF DownWay, Consec
    <2>2. (Live("ra") => Consec(pipe["gr"].buf, m))'
        BY <1>4, <1>8, <1>10
    <2>3. (Live("ra") =>
            /\ Consec(pipe["ug"].buf, n)
            /\ pipe["ug"].end # "reset" /\ ~pipe["ug"].deaf => sent["u"] = n + Size("ug"))'
        BY <1>4, <1>8, <1>10
    <2>4. g' \in {"relay", "half"} /\ g' # "ack"
        BY <1>2, <1>4
    <2> QED  BY <2>1, <2>2, <2>3, <2>4 DEF DownWay, m, n
<1>12. UpWay'
    BY <1>4, UpKept
<1> QED  BY <1>3, <1>11, <1>12

-----------------------------------------------------------------------------
(* The gateway's steps that read or write. *)

\* Piece 0 alone is where the way down begins.
LEMMA FirstPiece ==
    ASSUME TypeOK, NEW q \in Pipes, pipe[q].buf = <<>>
    PROVE  /\ Written(pipe[q], 0) \in Pipe
           /\ Written(pipe[q], 0).end = pipe[q].end /\ Written(pipe[q], 0).deaf = pipe[q].deaf
           /\ Len(Written(pipe[q], 0).buf) = 1 /\ Consec(Written(pipe[q], 0).buf, -1)
<1>1. 0 \in Pieces /\ pipe[q] \in Pipe
    BY RoomSome DEF Pieces, TypeOK
<1>2. Len(pipe[q].buf) = 0 /\ pipe[q].buf \in Seq(Pieces)
    BY EmptySeq
<1>3. /\ Written(pipe[q], 0) \in Pipe /\ Written(pipe[q], 0).buf = Append(pipe[q].buf, 0)
      /\ Written(pipe[q], 0).end = pipe[q].end /\ Written(pipe[q], 0).deaf = pipe[q].deaf
      /\ Len(Written(pipe[q], 0).buf) = Len(pipe[q].buf) + 1
    BY <1>1, WrittenFacts
<1>4. Consec(pipe[q].buf, -1)
    BY ConsecEmpty
<1>5. Consec(Append(pipe[q].buf, 0), -1)
    <2>1. -1 \in Int /\ 0 = -1 + Len(pipe[q].buf) + 1
        BY <1>2
    <2> QED  BY <1>1, <1>2, <1>4, <2>1, ConsecAppend
<1> QED  BY <1>2, <1>3, <1>5

\* A refusal answers before anything was sent down; ps is what is left of the
\* request.
LEMMA Refuses ==
    ASSUME Base, UpWay, DownWay, g \in {"connect", "resolve", "dial"},
           NEW ps \in [Pipes -> Pipe], \A p \in Pipes \ {"rg"} : ps[p] = pipe[p], Refuse(ps),
           UNCHANGED <<kind, sent, got, saw, r, ahead, copier, armed, late>>
    PROVE  Base' /\ UpWay' /\ DownWay'
<1> USE DEF Base
<1> DEFINE qs == IF ps["gr"].deaf THEN ps ELSE [ps EXCEPT !["gr"] = Written(@, 0)]
<1>1. g \in BeforeDial /\ g \in BeforeAck
    BY DEF BeforeDial, BeforeAck
<1>2. /\ got["a"] = <<>> /\ pipe["ra"].buf = <<>> /\ pipe["gr"].buf = <<>>
      /\ pipe["gr"].end = "open" /\ ps["gr"] = pipe["gr"] /\ "gr" \in Pipes
    BY <1>1 DEF Before, Pipes
<1>3. /\ qs \in [Pipes -> Pipe] /\ \A p \in Pipes \ {"rg", "gr"} : qs[p] = pipe[p]
      /\ Consec(qs["gr"].buf, -1) /\ Len(qs["gr"].buf) <= 1
    <2>1. CASE ps["gr"].deaf
        <3>1. Len(<<>>) = 0
            BY EmptySeq
        <3> QED  BY <1>2, <2>1, <3>1, ConsecEmpty
    <2>2. CASE ~ps["gr"].deaf
        <3>1. qs = [ps EXCEPT !["gr"] = Written(pipe["gr"], 0)]
            BY <1>2, <2>2
        <3>2. /\ Written(pipe["gr"], 0) \in Pipe /\ Len(Written(pipe["gr"], 0).buf) = 1
              /\ Consec(Written(pipe["gr"], 0).buf, -1)
            BY <1>2, FirstPiece
        <3> HIDE DEF qs
        <3>3. qs["gr"] = Written(pipe["gr"], 0) /\ qs \in [Pipes -> Pipe]
              /\ \A p \in Pipes \ {"gr"} : qs[p] = ps[p]
            BY <1>2, <3>1, <3>2
        <3>4. Consec(qs["gr"].buf, -1) /\ Len(qs["gr"].buf) <= 1
            <4> DEFINE w == Written(pipe["gr"], 0).buf
            <4>1. qs["gr"].buf = w /\ Len(w) = 1 /\ Consec(w, -1)
                BY <3>2, <3>3
            <4> HIDE DEF w
            <4>2. Len(w) <= 1
                BY <4>1
            <4> QED  BY <4>1, <4>2
        <3>5. \A p \in Pipes \ {"rg", "gr"} : qs[p] = pipe[p]
            BY <3>3
        <3> QED  BY <3>3, <3>4, <3>5
    <2> QED  BY <2>1, <2>2
<1>4. Return(qs)
    BY DEF Refuse
<1> HIDE DEF qs
<1>5. /\ pipe' \in [Pipes -> Pipe] /\ \A p \in Pipes \ {"rg", "gr"} : pipe'[p] = pipe[p]
      /\ pipe'["rg"].buf = <<>>
      /\ Consec(pipe'["gr"].buf, -1) /\ Len(pipe'["gr"].buf) <= 1
      /\ g' = "closed"
    BY <1>3, <1>4, HandlerCloses DEF Return
<1>6. Base'
    <2>1. \A p \in Pipes : Len(pipe'[p].buf) <= Room
        <3>1. Len(<<>>) = 0
            BY EmptySeq
        <3>2. Len(pipe'["gr"].buf) <= Room
            <4>1. Len(pipe'["gr"].buf) \in Nat
                BY <1>2, <1>5, PipeFields
            <4> QED  BY <1>5, <4>1, RoomSome
        <3>3. ASSUME NEW p \in Pipes PROVE Len(pipe'[p].buf) <= Room
            <4>1. CASE p = "rg"
                BY <1>5, <3>1, <4>1, RoomSome
            <4>2. CASE p = "gr"
                BY <3>2, <4>2
            <4>3. CASE p \notin {"rg", "gr"}
                BY <1>5, <4>3, BaseParts
            <4> QED  BY <4>1, <4>2, <4>3
        <3> QED  BY <3>3
    <2>2. TypeOK'
        BY <1>1, <1>5, <2>1 DEF TypeOK, Stages
    <2>3. Stages'
        BY <1>1, <1>5 DEF Stages, BeforeAck, BeforeDial
    <2>4. Before'
        BY <1>5 DEF Before, BeforeAck, BeforeDial
    <2>5. <<>> \in Seq(0..Up)
        BY EmptySeq
    <2>6. Small'
        BY <1>5, <2>5 DEF Small, Pipes
    <2> QED  BY <2>2, <2>3, <2>4, <2>6
<1>7. UpWay'
    <2>1. ~UpOpen'
        BY <1>5 DEF UpOpen, BeforeDial
    <2>2. pipe'["gu"] = pipe["gu"]
        BY <1>5 DEF Pipes
    <2> QED  BY <2>1, <2>2 DEF UpWay, Consec
<1>8. DownWay'
    <2>1. pipe'["ra"] = pipe["ra"]
        BY <1>5 DEF Pipes
    <2>2. Consec(got["a"], -1)' /\ Consec(pipe["ra"].buf, Len(got["a"]) - 1)'
        BY <2>1 DEF DownWay, Consec
    <2>3. (Len(got["a"]) + Size("ra") - 1)' = -1
        <3>1. Len(got'["a"]) = 0 /\ Size("ra")' = 0
            BY <1>2, <2>1, EmptySeq DEF Size
        <3> QED  BY <3>1
    <2>4. g' \notin {"ack", "relay", "half"}
        BY <1>5
    <2> QED  BY <1>5, <2>2, <2>3, <2>4 DEF DownWay
<1> QED  BY <1>6, <1>7, <1>8

\* The CONNECT is taken, and with it some of what follows.
LEMMA ReadsConnect ==
    ASSUME Base, UpWay, DownWay, ReadConnect
    PROVE  Base' /\ UpWay' /\ DownWay'
<1> USE DEF Base
<1> DEFINE s == pipe["rg"].buf
           left(n) == [pipe EXCEPT !["rg"].buf = SubSeq(s, n + 1, Len(s))]
<1>1. /\ g = "connect" /\ s # <<>> /\ s \in Seq(0..Up) /\ s \in Seq(Pieces) /\ Len(s) \in Nat
      /\ "rg" \in Pipes
      /\ UNCHANGED <<kind, sent, got, saw, r, copier, armed, late>>
    BY BaseParts, LenProperties DEF ReadConnect, Small, Pipes
<1>2. PICK n \in 1..Len(s) :
          IF kind = "invalid"
          THEN Refuse(left(n)) /\ UNCHANGED ahead
          ELSE ahead' = SubSeq(s, 2, n) /\ pipe' = left(n) /\ g' = "resolve"
    <2>1. PICK n \in 1..Len(s) :
              LET ps == [pipe EXCEPT !["rg"].buf = SubSeq(@, n + 1, Len(@))]
              IN IF kind = "invalid"
                 THEN Refuse(ps) /\ UNCHANGED ahead
                 ELSE ahead' = SubSeq(s, 2, n) /\ pipe' = ps /\ g' = "resolve"
        BY DEF ReadConnect
    <2>2. [pipe EXCEPT !["rg"].buf = SubSeq(@, n + 1, Len(@))] = left(n)
        OBVIOUS
    <2> QED  BY <2>1, <2>2
<1> DEFINE t == SubSeq(s, n + 1, Len(s))
           q == [pipe["rg"] EXCEPT !.buf = t]
<1>3. /\ UpOpen /\ Passed = -1 /\ Passed + Len(ahead) = -1 /\ ahead = <<>>
      /\ got["u"] = <<>> /\ pipe["gu"].buf = <<>>
    <2>1. ahead = <<>> /\ Len(ahead) = 0 /\ Passed = -1
        BY <1>1, EmptySeq DEF Before, Passed
    <2>2. got["u"] = <<>> /\ pipe["gu"].buf = <<>> /\ UpOpen
        BY <1>1 DEF Before, UpOpen, BeforeDial
    <2> QED  BY <2>1, <2>2
<1>4. /\ Consec(s, -1)
      /\ Live("rg") => Consec(pipe["ar"].buf, -1 + Len(s))
      /\ Live("rg") /\ Live("ar") => sent["a"] = -1 + Len(s) + Size("ar")
    BY <1>3 DEF UpWay, Size
<1>5. /\ t \in Seq(0..Up) /\ t \in Seq(Pieces) /\ Len(t) = Len(s) - n /\ Consec(t, n - 1)
    <2>1. /\ n + 1 \in 1..(Len(s) + 1) /\ Len(s) \in (n + 1 - 1)..Len(s) /\ -1 \in Int
          /\ Len(s) - (n + 1) + 1 = Len(s) - n /\ -1 + (n + 1) - 1 = n - 1
        BY <1>1
    <2> HIDE DEF s
    <2>2. s \in Seq(0..Up) /\ s \in Seq(Pieces) /\ Consec(s, -1)
        BY <1>1, <1>4
    <2> DEFINE a == n + 1
               b == Len(s)
    <2>5. a \in 1..(Len(s) + 1) /\ b \in (a - 1)..Len(s)
        BY <2>1
    <2> HIDE DEF a, b
    <2>6. /\ SubSeq(s, a, b) \in Seq(0..Up) /\ Len(SubSeq(s, a, b)) = b - a + 1
          /\ Consec(SubSeq(s, a, b), -1 + a - 1)
        BY <2>1, <2>2, <2>5, ConsecSubSeq
    <2>7. SubSeq(s, a, b) \in Seq(Pieces)
        BY <2>1, <2>2, <2>5, ConsecSubSeq
    <2> USE DEF a, b
    <2>3. /\ t \in Seq(0..Up) /\ Len(t) = Len(s) - (n + 1) + 1
          /\ Consec(t, -1 + (n + 1) - 1)
        BY <2>6
    <2>4. t \in Seq(Pieces)
        BY <2>7
    <2> QED  BY <2>1, <2>3, <2>4
<1>6. /\ SubSeq(s, 2, n) \in Seq(0..Up) /\ Len(SubSeq(s, 2, n)) = n - 1
      /\ Consec(SubSeq(s, 2, n), 0)
    <2>1. /\ 2 \in 1..(Len(s) + 1) /\ n \in (2 - 1)..Len(s) /\ -1 \in Int
          /\ n - 2 + 1 = n - 1 /\ -1 + 2 - 1 = 0
        BY <1>1
    <2> HIDE DEF s
    <2>2. s \in Seq(0..Up) /\ Consec(s, -1)
        BY <1>1, <1>4
    <2>3. /\ SubSeq(s, 2, n) \in Seq(0..Up) /\ Len(SubSeq(s, 2, n)) = n - 2 + 1
          /\ Consec(SubSeq(s, 2, n), -1 + 2 - 1)
        BY <2>1, <2>2, ConsecSubSeq
    <2> QED  BY <2>1, <2>3
<1> HIDE DEF t
<1>7. /\ q \in Pipe /\ q.buf = t /\ q.end = pipe["rg"].end /\ q.deaf = pipe["rg"].deaf
    BY <1>1, <1>5, BaseParts DEF Pipe, Pieces
<1>8. left(n) = [pipe EXCEPT !["rg"] = q]
    BY <1>1, BaseParts DEF t
<1> HIDE DEF q
<1>9. /\ left(n) \in [Pipes -> Pipe] /\ left(n)["rg"] = q
      /\ \A p \in Pipes \ {"rg"} : left(n)[p] = pipe[p]
    <2> HIDE DEF left
    <2> QED  BY <1>1, <1>7, <1>8, BaseParts
<1> HIDE DEF left
<1>10. CASE kind = "invalid"
    <2>1. Refuse(left(n)) /\ UNCHANGED ahead
        BY <1>2, <1>10
    <2> QED  BY <1>1, <1>9, <2>1, Refuses
<1>11. CASE kind # "invalid"
    <2>1. /\ ahead' = SubSeq(s, 2, n) /\ g' = "resolve"
          /\ pipe' \in [Pipes -> Pipe] /\ pipe'["rg"] = q
          /\ \A p \in Pipes \ {"rg"} : pipe'[p] = pipe[p]
        BY <1>2, <1>9, <1>11
    <2> HIDE DEF s
    <2>2. Base'
        <3>1. \A p \in Pipes : Len(pipe'[p].buf) <= Room
            <4>1. Len(s) <= Room
                BY <1>1, BaseParts DEF s
            <4>2. Len(t) <= Room
                BY <1>1, <1>5, <4>1, RoomSome
            <4> QED  BY <1>7, <2>1, <4>2, BaseParts
        <3>2. TypeOK'
            BY <1>1, <1>6, <2>1, <3>1 DEF TypeOK
        <3>3. Stages'
            BY <1>1, <2>1 DEF Stages, BeforeAck, BeforeDial
        <3>4. Before'
            BY <1>1, <1>7, <2>1 DEF Before, BeforeAck, BeforeDial, Pipes
        <3>5. Small'
            BY <1>1, <1>5, <1>7, <2>1 DEF Small, Pipes
        <3> QED  BY <3>2, <3>3, <3>4, <3>5
    <2>3. /\ pipe'["gu"] = pipe["gu"] /\ pipe'["ar"] = pipe["ar"]
          /\ Live("rg")' = Live("rg") /\ Live("ar")' = Live("ar")
          /\ Size("ar")' = Size("ar") /\ Size("rg")' = Len(t)
        BY <1>7, <2>1 DEF Pipes, Live, Size
    <2>4. Passed' = 0
        <3>1. Passed' = Len(got["u"]) + Len(pipe["gu"].buf)
            BY <1>1, <2>1, <2>3 DEF Passed, Size
        <3>2. Len(got["u"]) = 0 /\ Len(pipe["gu"].buf) = 0
            BY <1>3, EmptySeq
        <3> QED  BY <3>1, <3>2
    <2>5. Passed' + Len(ahead') = n - 1 /\ Passed' + Len(ahead') + Size("rg")' = -1 + Len(s)
        <3>1. Passed' = 0 /\ Len(ahead') = n - 1 /\ Size("rg")' = Len(s) - n
            BY <1>5, <1>6, <2>1, <2>3, <2>4
        <3> QED  BY <1>1, <3>1
    <2>6. UpWay'
        <3>1. Consec(got["u"], 0)' /\ Consec(pipe["gu"].buf, Len(got["u"]))'
            BY <1>1, <2>3 DEF UpWay, Consec
        <3>2. Consec(ahead, Passed)' /\ Consec(pipe["rg"].buf, Passed + Len(ahead))'
            BY <1>5, <1>6, <1>7, <2>1, <2>4, <2>5
        <3>3. /\ (Live("rg") => Consec(pipe["ar"].buf, Passed + Len(ahead) + Size("rg")))'
              /\ (Live("rg") /\ Live("ar") => sent["a"] = Passed + Len(ahead) + Size("rg") + Size("ar"))'
            BY <1>1, <1>4, <2>3, <2>5
        <3> QED  BY <3>1, <3>2, <3>3 DEF UpWay
    <2>7. DownWay'
        <3>1. UNCHANGED <<pipe["ra"], pipe["gr"], pipe["ug"], got, sent>>
            BY <1>1, <2>1 DEF Pipes
        <3>2. g' \notin {"ack", "relay", "half"}
            BY <2>1
        <3> QED  BY <3>1, <3>2 DEF DownWay, Live, Size, Consec
    <2> QED  BY <2>2, <2>6, <2>7
<1> QED  BY <1>10, <1>11

\* An address that is refused, or a destination that cannot be reached.
LEMMA RefusesOthers ==
    ASSUME Base, UpWay, DownWay, (Resolve /\ kind = "blocked") \/ UpstreamFails
    PROVE  Base' /\ UpWay' /\ DownWay'
<1>1. /\ g \in {"connect", "resolve", "dial"} /\ Refuse(pipe) /\ pipe \in [Pipes -> Pipe]
      /\ UNCHANGED <<kind, sent, got, saw, r, ahead, copier, armed, late>>
    BY DEF Resolve, UpstreamFails, Base, TypeOK
<1> QED  BY <1>1, Refuses

\* Dialling opens an empty way to the destination.
LEMMA Dials ==
    ASSUME Base, UpWay, DownWay, Dial
    PROVE  Base' /\ UpWay' /\ DownWay'
<1> USE DEF Base
<1> DEFINE q == [pipe["gu"] EXCEPT !.deaf = FALSE]
<1>1. /\ g = "dial" /\ g' = "ack" /\ pipe' = [pipe EXCEPT !["gu"] = q] /\ "gu" \in Pipes
      /\ UNCHANGED <<kind, sent, got, saw, r, ahead, copier, armed, late>>
    BY DEF Dial, Pipes
<1>2. /\ pipe["gu"] = [buf |-> <<>>, end |-> "open", deaf |-> TRUE]
      /\ pipe["ug"] = [buf |-> <<>>, end |-> "open", deaf |-> FALSE]
      /\ got["u"] = <<>> /\ sent["u"] = 0 /\ UpOpen
      /\ got["a"] = <<>> /\ pipe["ra"].buf = <<>> /\ pipe["gr"].buf = <<>>
    BY <1>1 DEF Before, BeforeDial, BeforeAck, UpOpen
<1>3. /\ q \in Pipe /\ q.buf = <<>> /\ q.end = "open" /\ q.deaf = FALSE
    <2>1. pipe["gu"] \in Pipe
        BY <1>1, BaseParts
    <2>2. pipe["gu"].buf = <<>> /\ pipe["gu"].end = "open"
        BY <1>2
    <2> QED  BY <2>1, <2>2 DEF Pipe
<1> HIDE DEF q
<1>4. /\ pipe' \in [Pipes -> Pipe] /\ pipe'["gu"] = q
      /\ \A p \in Pipes \ {"gu"} : pipe'[p] = pipe[p]
      /\ \A p \in Pipes : pipe'[p].buf = pipe[p].buf
    BY <1>1, <1>2, <1>3, BaseParts
<1>5. Base'
    <2>1. TypeOK'
        BY <1>1, <1>4 DEF TypeOK
    <2>2. Stages' /\ Small'
        BY <1>1, <1>4 DEF Stages, Small, BeforeAck, BeforeDial, Pipes
    <2>3. Before'
        BY <1>1, <1>4 DEF Before, BeforeAck, BeforeDial, Pipes
    <2> QED  BY <2>1, <2>2, <2>3
<1>6. UpWay'
    <2>1. UNCHANGED <<ahead, pipe["ar"], pipe["rg"], got, sent>> /\ pipe'["gu"].buf = pipe["gu"].buf
        BY <1>1, <1>4 DEF Pipes
    <2>2. Passed' = Passed
        <3>1. Size("gu")' = Size("gu")
            BY <2>1 DEF Size
        <3> QED  BY <1>1, <2>1, <3>1 DEF Passed
    <2> QED  BY <1>2, <2>1, <2>2 DEF UpWay, Live, Size, Consec
<1>7. DownWay'
    <2>1. UNCHANGED <<pipe["ra"], pipe["gr"], pipe["ug"], got, sent>>
        BY <1>1, <1>4 DEF Pipes
    <2>2. /\ Consec(got["a"], -1)' /\ Consec(pipe["ra"].buf, Len(got["a"]) - 1)'
          /\ (Live("ra") => Consec(pipe["gr"].buf, Len(got["a"]) + Size("ra") - 1))'
        BY <1>2, <2>1, ConsecEmpty
    <2>3. Size("ug")' = 0 /\ pipe'["ug"].buf = <<>> /\ sent'["u"] = 0
        BY <1>2, <2>1, EmptySeq DEF Size
    <2>4. Consec(pipe'["ug"].buf, 0) /\ sent'["u"] = 0 + Size("ug")'
        BY <2>3, ConsecEmpty
    <2> QED  BY <1>1, <2>2, <2>4 DEF DownWay
<1> QED  BY <1>5, <1>6, <1>7

\* The answer is the first piece down.
LEMMA Acknowledges ==
    ASSUME Base, UpWay, DownWay, Acknowledge
    PROVE  Base' /\ UpWay' /\ DownWay'
<1> USE DEF Base
<1> DEFINE q == Written(pipe["gr"], 0)
<1>1. /\ g = "ack" /\ g' = "relay" /\ ~pipe["gr"].deaf /\ "gr" \in Pipes
      /\ pipe' = [pipe EXCEPT !["gr"] = q]
      /\ copier' = [copier EXCEPT !["gatewayUp"] = "on", !["gatewayDown"] = "on"]
      /\ UNCHANGED <<kind, sent, got, saw, r, ahead, armed, late>>
    BY DEF Acknowledge, Pipes
<1>2. /\ got["a"] = <<>> /\ pipe["ra"].buf = <<>> /\ pipe["gr"].buf = <<>>
    BY <1>1 DEF Before, BeforeDial, BeforeAck
<1>3. /\ q \in Pipe /\ q.end = pipe["gr"].end /\ q.deaf = pipe["gr"].deaf
      /\ Len(q.buf) = 1 /\ Consec(q.buf, -1)
    BY <1>1, <1>2, FirstPiece
<1> HIDE DEF q
<1>4. /\ pipe' \in [Pipes -> Pipe] /\ pipe'["gr"] = q
      /\ \A p \in Pipes \ {"gr"} : pipe'[p] = pipe[p]
    BY <1>1, <1>3, BaseParts
<1>5. Base'
    <2>1. \A p \in Pipes : Len(pipe'[p].buf) <= Room
        <3>1. Len(q.buf) <= Room
            BY <1>3, RoomSome
        <3> QED  BY <1>4, <3>1, BaseParts
    <2>2. /\ copier' \in [Copiers -> {"off", "on", "done"}]
          /\ copier'["gatewayUp"] = "on" /\ copier'["gatewayDown"] = "on"
          /\ copier'["relayUp"] = copier["relayUp"] /\ copier'["relayDown"] = copier["relayDown"]
        BY <1>1 DEF TypeOK, Copiers
    <2>3. TypeOK'
        BY <1>1, <1>4, <2>1, <2>2 DEF TypeOK
    <2>4. Stages'
        BY <1>1, <2>2 DEF Stages, BeforeAck, BeforeDial
    <2>5. Before' /\ Small'
        BY <1>1, <1>4 DEF Before, Small, BeforeAck, BeforeDial, Pipes
    <2> QED  BY <2>3, <2>4, <2>5
<1>6. UpWay'
    <2>1. UNCHANGED <<ahead, pipe["ar"], pipe["rg"], pipe["gu"], got, sent>>
        BY <1>1, <1>4 DEF Pipes
    <2>2. Passed' = Passed /\ (UpOpen' => UpOpen)
        BY <1>1, <2>1 DEF Passed, Size, UpOpen, BeforeDial, Live
    <2> QED  BY <2>1, <2>2 DEF UpWay, Live, Size, Consec
<1>7. DownWay'
    <2>1. UNCHANGED <<pipe["ra"], pipe["ug"], got, sent>>
        BY <1>1, <1>4 DEF Pipes
    <2>2. Len(got'["a"]) = 0 /\ Size("ra")' = 0 /\ Size("gr")' = 1
        BY <1>2, <1>3, <1>4, <2>1, EmptySeq DEF Size
    <2>3. /\ Len(got'["a"]) + Size("ra")' - 1 = -1
          /\ Len(got'["a"]) + Size("ra")' + Size("gr")' - 1 = 0
        BY <2>2
    <2>4. Consec(got["a"], -1)' /\ Consec(pipe["ra"].buf, Len(got["a"]) - 1)'
        BY <1>2, <2>1, ConsecEmpty
    <2>5. Consec(pipe["gr"].buf, Len(got["a"]) + Size("ra") - 1)'
        BY <1>3, <1>4, <2>3
    <2>6. Live("ra")' /\ Live("gr")' =>
              /\ Consec(pipe["ug"].buf, 0)
              /\ pipe["ug"].end # "reset" /\ ~pipe["ug"].deaf => sent["u"] = 0 + Size("ug")
        BY <1>1, <1>3, <1>4, <2>1 DEF DownWay, Live
    <2>7. g' = "relay" /\ Size("ug")' = Size("ug")
        BY <1>1, <2>1 DEF Size
    <2> QED  BY <2>1, <2>3, <2>4, <2>5, <2>6, <2>7 DEF DownWay
<1> QED  BY <1>5, <1>6, <1>7

-----------------------------------------------------------------------------
(* Types and order. *)

\* The inductive invariant.
IndInv == Base /\ UpWay /\ DownWay

\* At first there is the CONNECT alone.
LEMMA InitIndInv == Init => IndInv
<1> SUFFICES ASSUME Init PROVE IndInv
    OBVIOUS
<1>1. /\ <<>> \in Seq(Pieces) /\ <<>> \in Seq(0..Up) /\ Len(<<>>) = 0
      /\ <<0>> \in Seq(Pieces) /\ <<0>> \in Seq(0..Up) /\ Len(<<0>>) = 1 /\ <<0>>[1] = 0
    BY EmptySeq, RoomSome DEF Pieces
<1>2. /\ pipe \in [Pipes -> Pipe]
      /\ pipe["ar"] = [buf |-> <<0>>, end |-> "open", deaf |-> FALSE]
      /\ pipe["gu"] = [buf |-> <<>>, end |-> "open", deaf |-> TRUE]
      /\ \A p \in Pipes \ {"ar", "gu"} : pipe[p] = [buf |-> <<>>, end |-> "open", deaf |-> FALSE]
      /\ \A p \in Pipes : pipe[p].buf \in {<<>>, <<0>>}
    BY <1>1 DEF Init, Pipes, Pipe, Pieces
<1>3. /\ sent["a"] = 0 /\ sent["u"] = 0 /\ got["a"] = <<>> /\ got["u"] = <<>>
      /\ ahead = <<>> /\ g = "none" /\ r = "dial"
    BY DEF Init
<1>4. Base
    <2>1. \A p \in Pipes : Len(pipe[p].buf) <= Room
        <3>1. 0 <= Room /\ 1 <= Room
            BY RoomSome
        <3>2. \A p \in Pipes : Len(pipe[p].buf) \in {0, 1}
            BY <1>1, <1>2
        <3> QED  BY <3>1, <3>2
    <2>2. sent \in [{"a", "u"} -> 0..(Up + Down)] /\ got \in [{"a", "u"} -> Seq(0..(Up + Down))]
        BY <1>1, RoomSome DEF Init, Pieces
    <2>3. TypeOK
        BY <1>1, <1>2, <2>1, <2>2 DEF Init, TypeOK
    <2>4. Stages
        BY DEF Init, Stages, Copiers, BeforeAck, BeforeDial
    <2>5. Before
        BY <1>2, <1>3 DEF Before, Pipes, BeforeAck, BeforeDial
    <2>6. Small
        <3>1. sent["a"] <= Up
            BY <1>3, RoomSome
        <3> QED  BY <1>1, <1>2, <3>1 DEF Small, Pipes
    <2> QED  BY <2>3, <2>4, <2>5, <2>6 DEF Base
<1>5. Size("rg") = 0 /\ Size("ar") = 1 /\ Size("ra") = 0 /\ Len(got["a"]) = 0 /\ Len(ahead) = 0
    BY <1>1, <1>2, <1>3 DEF Size, Pipes
<1>6. Consec(<<0>>, -1)
    BY <1>1 DEF Consec
<1>7. UpWay
    <2>1. Passed = -1
        BY <1>3 DEF Passed
    <2>2. Passed + Len(ahead) + Size("rg") = -1 /\ Passed + Len(ahead) + Size("rg") + Size("ar") = 0
        BY <1>5, <2>1
    <2> QED  BY <1>2, <1>3, <1>6, <2>2, ConsecEmpty DEF UpWay, Pipes
<1>8. DownWay
    BY <1>2, <1>3, ConsecEmpty DEF DownWay, Pipes
<1> QED  BY <1>4, <1>7, <1>8 DEF IndInv

\* Wearing keeps all of it.
LEMMA WearingKeeps ==
    ASSUME IndInv, Wearing
    PROVE  IndInv'
BY WearingKeepsBase, WearingKeepsUp, WearingKeepsDown DEF IndInv

\* Every step keeps the invariant.
LEMMA NextIndInv == IndInv /\ [Next]_vars => IndInv'
<1> SUFFICES ASSUME IndInv, [Next]_vars PROVE IndInv'
    OBVIOUS
<1> USE DEF IndInv
<1>1. ASSUME NEW x \in {"a", "u"}, Send(x) PROVE IndInv'
    BY <1>1, SendCommand, SendDestination
<1>2. ASSUME NEW x \in {"a", "u"}, Receive(x) PROVE IndInv'
    BY <1>2, ReceiveCommand, ReceiveDestination
<1>3. ASSUME NEW x \in {"a", "u"}, HalfClose(x) \/ Leave(x) PROVE IndInv'
    BY <1>3, EndsWear, WearingKeeps
<1>4. CASE SeeEnd \/ (\E k \in armed : Expire(k)) \/ UNCHANGED vars
    BY <1>4, RestWears, WearingKeeps
<1>5. CASE Relay \/ FrontendKilled
    BY <1>5, RelayWears, WearingKeeps
<1>6. CASE Gateway
    <2>1. CASE ReadConnect
        BY <2>1, ReadsConnect
    <2>2. CASE (Resolve /\ kind = "blocked") \/ UpstreamFails
        BY <2>2, RefusesOthers
    <2>3. CASE Dial
        BY <2>3, Dials
    <2>4. CASE Acknowledge
        BY <2>4, Acknowledges
    <2>5. CASE \/ ConnectFails \/ (Resolve /\ kind # "blocked") \/ AcknowledgeFails
               \/ FirstResult \/ SecondResult
        BY <2>5, GatewayWears, WearingKeeps
    <2> QED  BY <1>6, <2>1, <2>2, <2>3, <2>4, <2>5 DEF Gateway
<1>7. ASSUME NEW c \in Copiers, Copy(c) PROVE IndInv'
    BY <1>7, CopyRelayUp, CopyRelayDown, CopyAhead, CopyGatewayUp, CopyGatewayDown DEF Copiers
<1>8. ASSUME NEW c \in Copiers, CopyEnds(c) PROVE IndInv'
    BY <1>8, CopyEndsWears, WearingKeeps
<1> QED  BY <1>1, <1>2, <1>3, <1>4, <1>5, <1>6, <1>7, <1>8 DEF Next, Copying

\* Whatever the network and the two ends do, the invariant holds.
THEOREM Invariance == Spec => []IndInv
<1>1. Init => IndInv
    BY InitIndInv
<1>2. IndInv /\ [Next]_vars => IndInv'
    BY NextIndInv
<1> QED  BY <1>1, <1>2, PTL DEF Spec

\* Types; a buffer never holds more than its room, and no copying goroutine
\* outlives its connection.
THEOREM Typing == Spec => []TypeOK
<1>1. IndInv => TypeOK
    BY DEF IndInv, Base
<1> QED  BY <1>1, Invariance, PTL

\* gateway.go:183: the destination reads the command's pieces in order and
\* without a gap, whatever was sent ahead of the answer to the CONNECT and
\* however many reads it took; the command reads the answer and then the
\* destination's pieces.
THEOREM PiecesInOrder == Spec => []InOrder
<1>1. IndInv => InOrder
    <2> SUFFICES ASSUME IndInv PROVE InOrder
        OBVIOUS
    <2>1. Consec(got["u"], 0) /\ Consec(got["a"], -1)
        BY DEF IndInv, UpWay, DownWay
    <2>2. got["u"] \in Seq(Pieces) /\ got["a"] \in Seq(Pieces)
        BY DEF IndInv, Base, TypeOK, Pieces
    <2> QED  BY <2>1, <2>2 DEF Consec, InOrder
<1> QED  BY <1>1, Invariance, PTL

-----------------------------------------------------------------------------
(* The way down to its end. *)

\* What makes the end of file the command reads the destination's.
Finishing == Endings /\ Conserved /\ Seen /\ HalfCloseSpares

\* What a step that leaves the way down alone may do.
Elsewhere ==
    /\ UNCHANGED <<pipe["ra"], pipe["gr"], pipe["ug"], got["a"], sent["u"], saw>>
    /\ r' \in {"closed", "killed"} \/ r \in {"closed", "killed"} => r' = r
    /\ copier'["relayDown"] = "done" <=> copier["relayDown"] = "done"
    /\ copier'["gatewayDown"] = copier["gatewayDown"]
    /\ copier'["gatewayUp"] = "off" <=> copier["gatewayUp"] = "off"
    /\ g' \in {"relay", "half"} <=> g \in {"relay", "half"}
    /\ g' = "closed" <=> g = "closed"
    /\ late' = {} => late = {}

\* Such a step changes nothing here.
LEMMA ElsewhereKeeps ==
    ASSUME Finishing, Elsewhere
    PROVE  Finishing'
<1> USE DEF Finishing
<1>1. /\ Watching' <=> Watching
      /\ Refused' <=> Refused
      /\ Acknowledged' <=> Acknowledged
    BY DEF Elsewhere, Watching, Refused, Acknowledged, Present, In, GatewayCopiers
<1>2. Endings'
    BY <1>1 DEF Endings, Elsewhere
<1>3. Conserved'
    BY <1>1 DEF Conserved, Elsewhere, Size
<1>4. Seen'
    BY DEF Seen, Elsewhere
<1>5. HalfCloseSpares'
    BY <1>1 DEF HalfCloseSpares, Elsewhere
<1> QED  BY <1>2, <1>3, <1>4, <1>5

\* What closes a connection that was never acknowledged.
Refusing ==
    /\ g \in BeforeAck /\ g' = "closed"
    /\ UNCHANGED <<copier, got, sent, saw, late>>
    /\ r' = r \/ (r # "killed" /\ r' = "closed")
    /\ pipe'["gr"].deaf = pipe["gr"].deaf
    /\ pipe'["ra"].deaf = pipe["ra"].deaf
    /\ pipe'["ra"].end # "open" => pipe["ra"].end # "open" \/ r' = "closed"
    /\ pipe'["ra"].end = "open" => pipe["ra"].end = "open"
    /\ pipe'["ra"].buf = pipe["ra"].buf \/ pipe'["ra"].buf = <<>>

\* Nothing was sent down, and no more will be.
LEMMA RefusingKeeps ==
    ASSUME Base, Finishing, Refusing
    PROVE  Finishing'
<1> USE DEF Finishing
<1>1. /\ Refused' /\ ~Acknowledged'
      /\ copier'["gatewayDown"] = "off"
    BY DEF Refusing, Refused, Acknowledged, Base, Stages, GatewayCopiers
<1>2. Watching' => Watching
    BY DEF Refusing, Watching, Present, In
<1>3. pipe["gr"].end = "open"
    BY DEF Refusing, Base, Before
<1>4. Endings'
    <2>1. ~(copier'["relayDown"] = "done" /\ Watching')
        BY <1>2, <1>3 DEF Endings, Refusing
    <2>2. pipe'["gr"].deaf => r' \in {"closed", "killed"}
        BY DEF Endings, Refusing
    <2>3. pipe'["ra"].end # "open" /\ Watching' => copier'["relayDown"] = "done" \/ r' = "closed"
        BY <1>2 DEF Endings, Refusing
    <2> QED  BY <1>1, <2>1, <2>2, <2>3 DEF Endings
<1>5. Conserved' /\ HalfCloseSpares'
    BY <1>1 DEF Conserved, HalfCloseSpares
<1>6. Seen'
    BY DEF Seen, Refusing
<1> QED  BY <1>4, <1>5, <1>6

\* Steps elsewhere.
LEMMA AreElsewhere ==
    ASSUME Base,
           \/ Send("a") \/ Receive("u") \/ HalfClose("a")
           \/ RelayDials \/ (ReadConnect /\ g' = "resolve") \/ (Resolve /\ g' = "dial") \/ Dial
           \/ FirstResult
           \/ Copy("relayUp") \/ Copy("gatewayUp") \/ CopyEnds("relayUp") \/ CopyEnds("gatewayUp")
           \/ (\E k \in armed : Expire(k)) \/ UNCHANGED vars
    PROVE  Elsewhere
<1> USE DEF Base
<1>1. pipe \in [Pipes -> Pipe] /\ copier \in [Copiers -> {"off", "on", "done"}]
    BY DEF TypeOK
<1>2. ASSUME UNCHANGED <<pipe["ra"], pipe["gr"], pipe["ug"], got["a"], sent["u"], saw>>,
             UNCHANGED <<r, g, copier, late>>
      PROVE  Elsewhere
    BY <1>2 DEF Elsewhere
<1>3. CASE Send("a") \/ Receive("u") \/ HalfClose("a")
    <2>1. UNCHANGED <<pipe["ra"], pipe["gr"], pipe["ug"]>>
        BY <1>1, <1>3 DEF Send, Receive, HalfClose, In, Out, Pipes
    <2>2. UNCHANGED <<got["a"], sent["u"], saw, r, g, copier, late>>
        BY <1>3 DEF Send, Receive, HalfClose, TypeOK
    <2> QED  BY <1>2, <2>1, <2>2
<1>4. CASE RelayDials
    <2>1. /\ r = "dial" /\ r' = "relay" /\ g' = "connect" /\ g = "none"
          /\ UNCHANGED <<pipe, sent, got, saw, late>>
        BY <1>4 DEF RelayDials, Stages
    <2>2. /\ copier'["relayDown"] = "on" /\ copier["relayDown"] = "off"
          /\ copier'["gatewayUp"] = copier["gatewayUp"] /\ copier'["gatewayDown"] = copier["gatewayDown"]
        BY <1>1, <1>4 DEF RelayDials, Copiers, Stages
    <2> QED  BY <2>1, <2>2 DEF Elsewhere
<1>5. CASE ReadConnect /\ g' = "resolve"
    <2>1. /\ g = "connect" /\ g' = "resolve"
          /\ UNCHANGED <<sent, got, saw, r, copier, late>>
        BY <1>5 DEF ReadConnect
    <2>2. PICK n \in 1..Len(pipe["rg"].buf) :
              LET ps == [pipe EXCEPT !["rg"].buf = SubSeq(@, n + 1, Len(@))]
              IN IF kind = "invalid"
                 THEN Refuse(ps) /\ UNCHANGED ahead
                 ELSE /\ ahead' = SubSeq(pipe["rg"].buf, 2, n)
                      /\ pipe' = ps
                      /\ g' = "resolve"
        BY <1>5 DEF ReadConnect
    <2>3. kind # "invalid"
        BY <2>1, <2>2 DEF Refuse, Return
    <2>4. pipe' = [pipe EXCEPT !["rg"].buf = SubSeq(@, n + 1, Len(@))]
        BY <2>2, <2>3
    <2>5. UNCHANGED <<pipe["ra"], pipe["gr"], pipe["ug"]>>
        BY <1>1, <2>4 DEF Pipes
    <2> QED  BY <2>1, <2>5 DEF Elsewhere
<1>6. CASE Resolve /\ g' = "dial"
    <2>1. /\ g = "resolve" /\ g' = "dial" /\ UNCHANGED <<pipe, sent, got, saw, r, copier, late>>
        BY <1>6 DEF Resolve, Refuse, Return
    <2> QED  BY <2>1 DEF Elsewhere
<1>7. CASE Dial
    <2>1. /\ g = "dial" /\ g' = "ack" /\ UNCHANGED <<sent, got, saw, r, copier, late>>
        BY <1>7 DEF Dial
    <2>2. UNCHANGED <<pipe["ra"], pipe["gr"], pipe["ug"]>>
        BY <1>1, <1>7 DEF Dial, Pipes
    <2> QED  BY <2>1, <2>2 DEF Elsewhere
<1>8. CASE FirstResult
    BY <1>8 DEF FirstResult, Elsewhere
<1>9. CASE Copy("relayUp") \/ Copy("gatewayUp")
    <2>1. UNCHANGED <<sent, got, saw, r, g, copier, late>>
        BY <1>9 DEF Copy
    <2>2. UNCHANGED <<pipe["ra"], pipe["gr"], pipe["ug"]>>
        BY <1>1, <1>9 DEF Copy, From, To, Pipes
    <2> QED  BY <1>2, <2>1, <2>2
<1>10. CASE CopyEnds("relayUp") \/ CopyEnds("gatewayUp")
    <2>1. UNCHANGED <<sent, got, saw, r, g, late>>
        BY <1>10 DEF CopyEnds
    <2>2. UNCHANGED <<pipe["ra"], pipe["gr"], pipe["ug"]>>
        BY <1>1, <1>10 DEF CopyEnds, To, Pipes
    <2>3. /\ UNCHANGED <<copier["relayDown"], copier["gatewayDown"]>>
          /\ copier'["gatewayUp"] = "off" <=> copier["gatewayUp"] = "off"
        BY <1>1, <1>10 DEF CopyEnds, Copiers
    <2> QED  BY <2>1, <2>2, <2>3 DEF Elsewhere
<1>11. CASE (\E k \in armed : Expire(k)) \/ UNCHANGED vars
    <2>1. UNCHANGED <<pipe, sent, got, saw, r, g, copier>> /\ (late' = {} => late = {})
        BY <1>11 DEF Expire, vars
    <2> QED  BY <2>1 DEF Elsewhere
<1> QED  BY <1>3, <1>4, <1>5, <1>6, <1>7, <1>8, <1>9, <1>10, <1>11

\* The steps that refuse, or close what was not acknowledged.
LEMMA AreRefusing ==
    ASSUME Base,
           \/ RelayDialFails \/ (ReadConnect /\ g' # "resolve") \/ ConnectFails
           \/ (Resolve /\ g' # "dial") \/ UpstreamFails \/ AcknowledgeFails
    PROVE  Refusing
<1> USE DEF Base
<1>1. pipe \in [Pipes -> Pipe]
    BY DEF TypeOK
<1>2. ASSUME NEW ps \in [Pipes -> Pipe], \A p \in Pipes \ {"rg"} : ps[p] = pipe[p], Refuse(ps),
             g \in BeforeAck, UNCHANGED <<copier, got, sent, saw, late, r>>
      PROVE  Refusing
    <2> DEFINE qs == IF ps["gr"].deaf THEN ps ELSE [ps EXCEPT !["gr"] = Written(@, 0)]
    <2>1. "gr" \in Pipes /\ "ra" \in Pipes /\ pipe["gr"].buf = <<>> /\ ps["gr"] = pipe["gr"]
          /\ ps["ra"] = pipe["ra"]
        BY <1>2 DEF Before, Pipes
    <2>2. qs \in [Pipes -> Pipe] /\ qs["gr"].deaf = pipe["gr"].deaf /\ qs["ra"] = pipe["ra"]
        <3>1. Written(pipe["gr"], 0) \in Pipe /\ Written(pipe["gr"], 0).deaf = pipe["gr"].deaf
            BY <2>1, FirstPiece
        <3>2. CASE ps["gr"].deaf
            BY <1>2, <2>1, <3>2
        <3>3. CASE ~ps["gr"].deaf
            <4>1. qs = [ps EXCEPT !["gr"] = Written(pipe["gr"], 0)]
                BY <2>1, <3>3
            <4> HIDE DEF qs
            <4> QED  BY <1>2, <2>1, <3>1, <4>1
        <3> QED  BY <3>2, <3>3
    <2>3. Return(qs)
        BY <1>2 DEF Refuse
    <2> HIDE DEF qs
    <2>4. pipe'["gr"].deaf = pipe["gr"].deaf /\ pipe'["ra"] = pipe["ra"] /\ g' = "closed"
        BY <2>2, <2>3, HandlerCloses DEF Return, Pipes
    <2> QED  BY <1>2, <2>4 DEF Refusing
<1>3. CASE RelayDialFails
    <2>1. /\ UNCHANGED <<kind, sent, got, saw, ahead, copier, armed, late>>
          /\ r = "dial" /\ r' = "closed" /\ g = "none" /\ g' = "closed"
        BY <1>3 DEF RelayDialFails, Stages
    <2>2. CloseLeaves(pipe, "ar", "ra", pipe')
        BY <1>1, <1>3, ClosedFacts DEF RelayDialFails, Pipes
    <2>3. /\ pipe'["gr"] = pipe["gr"] /\ pipe'["ra"].deaf = pipe["ra"].deaf
          /\ pipe'["ra"].end # "open"
          /\ pipe'["ra"].buf = pipe["ra"].buf \/ pipe'["ra"].buf = <<>>
        BY <2>2 DEF CloseLeaves, Pipes
    <2> QED  BY <2>1, <2>3 DEF Refusing, BeforeAck, BeforeDial
<1>4. CASE ReadConnect /\ g' # "resolve"
    <2>1. /\ g \in BeforeAck /\ UNCHANGED <<sent, got, saw, r, copier, late>>
        BY <1>4 DEF ReadConnect, BeforeAck, BeforeDial
    <2>2. PICK n \in 1..Len(pipe["rg"].buf) :
              LET ps == [pipe EXCEPT !["rg"].buf = SubSeq(@, n + 1, Len(@))]
              IN IF kind = "invalid"
                 THEN Refuse(ps) /\ UNCHANGED ahead
                 ELSE /\ ahead' = SubSeq(pipe["rg"].buf, 2, n)
                      /\ pipe' = ps
                      /\ g' = "resolve"
        BY <1>4 DEF ReadConnect
    <2> DEFINE t == SubSeq(pipe["rg"].buf, n + 1, Len(pipe["rg"].buf))
               q == [pipe["rg"] EXCEPT !.buf = t]
               ps == [pipe EXCEPT !["rg"] = q]
    <2>3. Refuse([pipe EXCEPT !["rg"].buf = SubSeq(@, n + 1, Len(@))])
        BY <1>4, <2>2
    <2>4. "rg" \in Pipes /\ pipe["rg"] \in Pipe /\ pipe["rg"].buf \in Seq(Pieces)
        BY BaseParts DEF Pipes
    <2>5. Refuse(ps)
        BY <1>1, <2>3, <2>4
    <2>6. t \in Seq(Pieces)
        <3>1. Len(pipe["rg"].buf) \in Nat
            BY <2>4, LenProperties
        <3>2. \A i \in (n + 1)..Len(pipe["rg"].buf) : pipe["rg"].buf[i] \in Pieces
            BY <2>4, <3>1, ElementOfSeq
        <3> QED  BY <3>1, <3>2, SubSeqProperties
    <2> HIDE DEF t
    <2>7. q \in Pipe
        BY <2>4, <2>6 DEF Pipe, Pieces
    <2> HIDE DEF q
    <2>8. ps \in [Pipes -> Pipe] /\ \A p \in Pipes \ {"rg"} : ps[p] = pipe[p]
        BY <1>1, <2>4, <2>7
    <2> HIDE DEF ps
    <2> QED  BY <1>2, <2>1, <2>5, <2>8
<1>5. CASE ConnectFails
    <2>1. /\ g = "connect" /\ g' = "closed" /\ UNCHANGED <<copier, got, sent, saw, late, r>>
          /\ Return(pipe)
        BY <1>5 DEF ConnectFails, Return
    <2>2. pipe'["gr"].deaf = pipe["gr"].deaf /\ pipe'["ra"] = pipe["ra"]
        BY <1>1, <2>1, HandlerCloses DEF Pipes
    <2> QED  BY <2>1, <2>2 DEF Refusing, BeforeAck, BeforeDial
<1>6. CASE (Resolve /\ g' # "dial") \/ UpstreamFails
    <2>1. /\ Refuse(pipe) /\ g \in BeforeAck
          /\ UNCHANGED <<copier, got, sent, saw, late, r>>
        BY <1>6 DEF Resolve, UpstreamFails, BeforeAck, BeforeDial
    <2> QED  BY <1>1, <1>2, <2>1
<1>7. CASE AcknowledgeFails
    <2>1. /\ g = "ack" /\ g' = "closed" /\ UNCHANGED <<copier, got, sent, saw, late, r>>
          /\ \E ps \in Closed(pipe, "ug", "gu") : Return(ps)
        BY <1>7 DEF AcknowledgeFails, Return
    <2>2. pipe'["gr"].deaf = pipe["gr"].deaf /\ pipe'["ra"] = pipe["ra"]
        BY <1>1, <2>1, GatewayCloses
    <2> QED  BY <2>1, <2>2 DEF Refusing, BeforeAck
<1> QED  BY <1>3, <1>4, <1>5, <1>6, <1>7

\* The relay's copy down has ended: so has what it copied.
LEMMA DownEnded ==
    ASSUME Base, Finishing, pipe["ra"].end # "open", Watching, Acknowledged, late = {}
    PROVE  /\ copier["relayDown"] = "done" /\ copier["gatewayDown"] = "done"
           /\ pipe["gr"].end # "open" /\ pipe["gr"].buf = <<>>
           /\ pipe["ug"].end # "open" /\ pipe["ug"].buf = <<>>
<1> USE DEF Finishing
<1>1. ~Refused
    <2>1. Refused => g \notin {"relay", "half"} /\ \A c \in GatewayCopiers : copier[c] = "off"
        BY DEF Refused, GatewayCopiers
    <2> QED  BY <2>1 DEF Acknowledged
<1>2. copier["relayDown"] = "done"
    BY <1>1 DEF Endings
<1>3. pipe["gr"].end # "open" /\ pipe["gr"].buf = <<>>
    BY <1>2 DEF Endings
<1>4. copier["gatewayDown"] = "done"
    BY <1>3 DEF Endings
<1>5. pipe["ug"].end # "open" /\ pipe["ug"].buf = <<>>
    BY <1>4 DEF Endings
<1> QED  BY <1>2, <1>3, <1>4, <1>5

\* The command reads end of file when all of it has arrived.
LEMMA SeeEndFinishes ==
    ASSUME Base, Finishing, SeeEnd
    PROVE  Finishing'
<1> USE DEF Finishing
<1>1. /\ Present("a") /\ pipe["ra"].buf = <<>> /\ pipe["ra"].end # "open"
      /\ UNCHANGED <<kind, pipe, sent, got, r, g, ahead, copier, armed, late>>
      /\ saw' = "eof" => pipe["ra"].end = "fin"
    BY DEF SeeEnd
<1>2. /\ Watching' <=> Watching
      /\ Refused' <=> Refused
      /\ Acknowledged' <=> Acknowledged
    BY <1>1 DEF Watching, Refused, Acknowledged, Present, In, GatewayCopiers
<1>3. Endings' /\ Conserved'
    BY <1>1, <1>2 DEF Endings, Conserved, Size
<1>4. Seen'
    <2>1. r # "killed" => g \in {"relay", "half", "closed"}
        <3>1. ASSUME r # "killed", g \in BeforeAck
              PROVE  FALSE
            <4>1. pipe["gr"].end = "open" /\ ~Refused
                BY <3>1 DEF Base, Before, Refused, BeforeAck, BeforeDial
            <4>2. Watching
                BY <1>1, <3>1 DEF Watching
            <4> QED  BY <1>1, <4>1, <4>2 DEF Endings
        <3> QED  BY <3>1 DEF Base, TypeOK, BeforeAck, BeforeDial
    <2> QED  BY <1>1, <2>1 DEF Seen
<1>5. HalfCloseSpares'
    <2> SUFFICES ASSUME saw' = "eof", Acknowledged, late = {}, r # "killed"
                 PROVE  /\ pipe["ug"].end # "open"
                        /\ pipe["ug"].end = "fin" => Len(got["a"]) = sent["u"] + 1
        BY <1>1, <1>2 DEF HalfCloseSpares
    <2>1. Watching
        BY <1>1 DEF Watching
    <2>2. /\ pipe["gr"].buf = <<>> /\ pipe["ug"].end # "open" /\ pipe["ug"].buf = <<>>
        BY <1>1, <2>1, DownEnded
    <2>3. Size("ra") = 0 /\ Size("gr") = 0 /\ Size("ug") = 0
        BY <1>1, <2>2, EmptySeq DEF Size
    <2>4. ASSUME pipe["ug"].end = "fin"
          PROVE  Len(got["a"]) = sent["u"] + 1
        <3>1. sent["u"] + 1 = Len(got["a"]) + 0 + 0 + 0
            BY <1>1, <2>1, <2>3, <2>4 DEF Conserved
        <3>2. Len(got["a"]) \in Nat
            BY BaseParts DEF Base
        <3> QED  BY <3>1, <3>2
    <2> QED  BY <2>2, <2>4
<1> QED  BY <1>3, <1>4, <1>5

\* A piece more at the destination's end.
LEMMA SendFinishes ==
    ASSUME Base, Finishing, Send("u")
    PROVE  Finishing'
<1> USE DEF Finishing, Base
<1>1. /\ Writable("ug") /\ sent["u"] < Down
      /\ sent' = [sent EXCEPT !["u"] = sent["u"] + 1]
      /\ pipe' = [pipe EXCEPT !["ug"] = Written(pipe["ug"], sent["u"] + 1)]
      /\ UNCHANGED <<kind, got, saw, r, g, ahead, copier, armed, late>>
    BY DEF Send, Out, Limit
<1>2. sent["u"] + 1 \in Pieces /\ sent["u"] \in Nat /\ "ug" \in Pipes
    <2>1. sent["u"] \in Nat
        BY BaseParts
    <2> QED  BY <1>1, <2>1, RoomSome DEF Pieces, Pipes
<1>3. /\ UNCHANGED <<pipe["ra"], pipe["gr"]>>
      /\ Size("ug")' = Size("ug") + 1 /\ pipe'["ug"].end = "open" /\ pipe["ug"].end = "open"
      /\ sent'["u"] = sent["u"] + 1
    <2>1. /\ Written(pipe["ug"], sent["u"] + 1) \in Pipe
          /\ Len(Written(pipe["ug"], sent["u"] + 1).buf) = Size("ug") + 1
          /\ Written(pipe["ug"], sent["u"] + 1).end = "open" /\ pipe["ug"].end = "open"
        BY <1>1, <1>2, WritesFacts
    <2>2. /\ pipe'["ug"] = Written(pipe["ug"], sent["u"] + 1)
          /\ UNCHANGED <<pipe["ra"], pipe["gr"]>>
        BY <1>1, <1>2, BaseParts DEF Pipes
    <2>3. sent'["u"] = sent["u"] + 1
        BY <1>1 DEF TypeOK
    <2> QED  BY <2>1, <2>2, <2>3 DEF Size
<1>4. /\ Watching' <=> Watching
      /\ Refused' <=> Refused
      /\ Acknowledged' <=> Acknowledged
    BY <1>1, <1>3 DEF Watching, Refused, Acknowledged, Present, In, GatewayCopiers
<1>5. Endings'
    BY <1>1, <1>3, <1>4 DEF Endings
<1>6. Conserved'
    <2>1. Size("ra")' = Size("ra") /\ Size("gr")' = Size("gr") /\ got' = got /\ late' = late
          /\ pipe'["ra"].end = pipe["ra"].end
        BY <1>1, <1>3 DEF Size
    <2>2. Len(got["a"]) \in Nat /\ Size("ra") \in Nat /\ Size("gr") \in Nat /\ Size("ug") \in Nat
        BY BaseParts DEF Pipes
    <2>3. ASSUME sent["u"] + 1 = Len(got["a"]) + Size("ra") + Size("gr") + Size("ug")
          PROVE  sent'["u"] + 1 = Len(got["a"]) + Size("ra") + Size("gr") + Size("ug")'
        BY <1>2, <1>3, <2>2, <2>3
    <2> QED  BY <1>3, <1>4, <2>1, <2>3 DEF Conserved
<1>7. Seen' /\ HalfCloseSpares'
    BY <1>1, <1>3, <1>4 DEF Seen, HalfCloseSpares
<1> QED  BY <1>5, <1>6, <1>7

\* A piece more at the command's end.
LEMMA ReceiveFinishes ==
    ASSUME Base, Finishing, Receive("a")
    PROVE  Finishing'
<1> USE DEF Finishing, Base
<1> DEFINE h == Head(pipe["ra"].buf)
           q == [pipe["ra"] EXCEPT !.buf = Tail(@)]
<1>1. /\ pipe["ra"].buf # <<>> /\ "ra" \in Pipes
      /\ got' = [got EXCEPT !["a"] = Append(@, h)]
      /\ pipe' = [pipe EXCEPT !["ra"] = q]
      /\ UNCHANGED <<kind, sent, saw, r, g, ahead, copier, armed, late>>
    BY DEF Receive, In, Pipes
<1>2. /\ q \in Pipe /\ q.buf = Tail(pipe["ra"].buf) /\ q.end = pipe["ra"].end
      /\ q.deaf = pipe["ra"].deaf
      /\ Len(q.buf) = Size("ra") - 1 /\ Size("ra") \in Nat /\ h \in Pieces
    BY <1>1, TakesFacts
<1> HIDE DEF q
<1>3. /\ UNCHANGED <<pipe["ug"], pipe["gr"], pipe["ra"].end, pipe["ra"].deaf>>
      /\ Size("ra")' = Size("ra") - 1
    BY <1>1, <1>2, BaseParts DEF Pipes, Size
<1> HIDE DEF h
<1>4. Len(got'["a"]) = Len(got["a"]) + 1 /\ Len(got["a"]) \in Nat
    <2>1. got'["a"] = Append(got["a"], h)
        BY <1>1 DEF TypeOK
    <2> QED  BY <1>2, <2>1, BaseParts, AppendProperties
<1>5. /\ Watching' <=> Watching
      /\ Refused' <=> Refused
      /\ Acknowledged' <=> Acknowledged
    BY <1>1, <1>3 DEF Watching, Refused, Acknowledged, Present, In, GatewayCopiers
<1>6. Endings'
    BY <1>1, <1>3, <1>5 DEF Endings
<1>7. Conserved'
    <2>1. Size("ug")' = Size("ug") /\ Size("gr")' = Size("gr") /\ sent' = sent /\ late' = late
        BY <1>1, <1>3 DEF Size
    <2>2. Size("gr") \in Nat /\ Size("ug") \in Nat
        BY BaseParts DEF Pipes
    <2>3. Len(got["a"]) + Size("ra") + Size("gr") + Size("ug")
              = Len(got'["a"]) + Size("ra")' + Size("gr") + Size("ug")
        <3>1. /\ Len(got'["a"]) = Len(got["a"]) + 1 /\ Size("ra")' = Size("ra") - 1
              /\ Len(got["a"]) \in Nat /\ Size("ra") \in Nat
            BY <1>2, <1>3, <1>4
        <3>2. (Len(got["a"]) + 1) + (Size("ra") - 1) = Len(got["a"]) + Size("ra")
            BY <3>1
        <3>3. Len(got'["a"]) + Size("ra")' = Len(got["a"]) + Size("ra")
            BY <3>1, <3>2
        <3> QED  BY <3>3
    <2> QED  BY <1>3, <1>5, <2>1, <2>3 DEF Conserved
<1>8. saw # "eof"
    BY <1>1 DEF Seen
<1> QED  BY <1>1, <1>6, <1>7, <1>8 DEF Seen, HalfCloseSpares

\* The destination ends its side, or leaves.
LEMMA DestinationEndFinishes ==
    ASSUME Base, Finishing, HalfClose("u") \/ Leave("u")
    PROVE  Finishing'
<1> USE DEF Finishing, Base
<1>1. pipe \in [Pipes -> Pipe]
    BY DEF TypeOK
<1>2. UNCHANGED <<kind, sent, got, saw, r, g, ahead, copier, armed, late>>
    BY DEF HalfClose, Leave
<1>3. /\ UNCHANGED <<pipe["ra"], pipe["gr"]>>
      /\ pipe'["ug"].end # "open"
      /\ pipe["ug"].end = "reset" => pipe'["ug"].end = "reset"
      /\ \/ pipe'["ug"].buf = pipe["ug"].buf
         \/ pipe'["ug"].buf = <<>> /\ pipe'["ug"].end = "reset"
    <2>1. CASE HalfClose("u")
        <3>1. pipe' = [pipe EXCEPT !["ug"] = Ended(@)] /\ "ug" \in Pipes
            BY <2>1 DEF HalfClose, Out, Pipes
        <3> QED  BY <1>1, <3>1, ShutFacts DEF Pipes
    <2>2. CASE Leave("u")
        BY <1>1, <2>2, LeaveFacts DEF In, Out, Pipes
    <2> QED  BY <2>1, <2>2
<1>4. /\ Watching' <=> Watching
      /\ Refused' <=> Refused
      /\ Acknowledged' <=> Acknowledged
    BY <1>2, <1>3 DEF Watching, Refused, Acknowledged, Present, In, GatewayCopiers
<1>5. Endings'
    BY <1>2, <1>3, <1>4 DEF Endings
<1>6. Conserved'
    BY <1>2, <1>3, <1>4 DEF Conserved, Size
<1>7. Seen'
    BY <1>2, <1>3 DEF Seen
<1>8. HalfCloseSpares'
    <2>1. pipe["ug"].end \in {"open", "fin", "reset"}
        BY BaseParts, PipeFields DEF Pipes
    <2> QED  BY <1>2, <1>3, <1>4, <2>1 DEF HalfCloseSpares
<1> QED  BY <1>5, <1>6, <1>7, <1>8

\* The command leaves: there is no one left to promise anything.
LEMMA CommandLeaveFinishes ==
    ASSUME Base, Finishing, Leave("a")
    PROVE  Finishing'
<1> USE DEF Finishing, Base
<1>1. UNCHANGED <<kind, sent, got, saw, r, g, ahead, copier, armed, late>>
    BY DEF Leave
<1>2. /\ UNCHANGED <<pipe["ug"], pipe["gr"], pipe["ra"].end>>
      /\ pipe'["ra"].deaf = TRUE /\ pipe'["ra"].buf = <<>>
    BY LeaveFacts DEF In, Out, Pipes, TypeOK
<1>3. ~Watching' /\ (Refused' <=> Refused) /\ (Acknowledged' <=> Acknowledged)
    BY <1>1, <1>2 DEF Watching, Refused, Acknowledged, Present, In, GatewayCopiers
<1>4. Endings' /\ Conserved'
    BY <1>1, <1>2, <1>3 DEF Endings, Conserved
<1>5. Seen' /\ HalfCloseSpares'
    BY <1>1, <1>2, <1>3 DEF Seen, HalfCloseSpares
<1> QED  BY <1>4, <1>5

\* The relay closes when it has copied everything down, or is killed.
LEMMA RelayFinishes ==
    ASSUME Base, Finishing, RelayEnds \/ FrontendKilled
    PROVE  Finishing'
<1> USE DEF Finishing, Base
<1>1. /\ r = "relay" /\ UNCHANGED <<kind, sent, got, saw, g, ahead, armed, late>>
      /\ \E ps \in Closed(pipe, "gr", "rg") : pipe' \in Closed(ps, "ar", "ra")
    BY DEF RelayEnds, FrontendKilled
<1>2. /\ copier'["relayDown"] = "done"
      /\ UNCHANGED <<copier["gatewayUp"], copier["gatewayDown"]>>
    BY DEF RelayEnds, FrontendKilled, TypeOK, Copiers
<1>3. /\ pipe'["ug"] = pipe["ug"]
      /\ pipe'["gr"].buf = <<>> /\ pipe'["gr"].end = pipe["gr"].end
      /\ pipe'["ra"].deaf = pipe["ra"].deaf /\ pipe'["ra"].end # "open"
      /\ pipe["ra"].end = "reset" => pipe'["ra"].end = "reset"
      /\ \/ pipe'["ra"].buf = pipe["ra"].buf
         \/ pipe'["ra"].buf = <<>> /\ pipe'["ra"].end = "reset"
    BY <1>1, RelayCloses DEF TypeOK
<1>4. (Refused' <=> Refused) /\ (Acknowledged' <=> Acknowledged)
    BY <1>1, <1>2 DEF Refused, Acknowledged, GatewayCopiers
<1>5. CASE RelayEnds
    <2>1. r' = "closed" /\ copier["relayDown"] = "done" /\ (Watching' <=> Watching)
        BY <1>1, <1>3, <1>5 DEF RelayEnds, Watching, Present, In
    <2>2. Endings'
        BY <1>1, <1>2, <1>3, <1>4, <2>1 DEF Endings
    <2>3. Conserved'
        <3>1. Watching => pipe["gr"].buf = <<>>
            BY <2>1 DEF Endings
        <3>2. Watching => Size("gr")' = Size("gr")
            BY <1>3, <3>1 DEF Size
        <3>3. pipe'["ra"].end # "reset" => Size("ra")' = Size("ra") /\ pipe["ra"].end # "reset"
            BY <1>3 DEF Size
        <3>4. Size("ug")' = Size("ug")
            BY <1>3 DEF Size
        <3> QED  BY <1>1, <1>3, <1>4, <2>1, <3>2, <3>3, <3>4 DEF Conserved
    <2>4. Seen' /\ HalfCloseSpares'
        BY <1>1, <1>3, <1>4, <2>1 DEF Seen, HalfCloseSpares
    <2> QED  BY <2>2, <2>3, <2>4
<1>6. CASE FrontendKilled
    <2>1. r' = "killed" /\ ~Watching'
        BY <1>6 DEF FrontendKilled, Watching
    <2>2. Endings' /\ Conserved'
        BY <1>1, <1>2, <1>3, <1>4, <2>1 DEF Endings, Conserved
    <2>3. Seen' /\ HalfCloseSpares'
        BY <1>1, <1>3, <2>1 DEF Seen, HalfCloseSpares
    <2> QED  BY <2>2, <2>3
<1> QED  BY <1>5, <1>6

\* The answer is piece 0; what the destination sent so far waits behind it.
LEMMA AcknowledgeFinishes ==
    ASSUME Base, DownWay, Finishing, Acknowledge
    PROVE  Finishing'
<1> USE DEF Finishing, Base
<1> DEFINE q == Written(pipe["gr"], 0)
<1>1. /\ g = "ack" /\ g' = "relay" /\ ~pipe["gr"].deaf /\ "gr" \in Pipes
      /\ pipe' = [pipe EXCEPT !["gr"] = q]
      /\ copier' = [copier EXCEPT !["gatewayUp"] = "on", !["gatewayDown"] = "on"]
      /\ UNCHANGED <<kind, sent, got, saw, r, ahead, armed, late>>
    BY DEF Acknowledge, Pipes
<1>2. /\ got["a"] = <<>> /\ pipe["ra"].buf = <<>> /\ pipe["gr"].buf = <<>>
      /\ pipe["gr"].end = "open" /\ ~pipe["ug"].deaf
    BY <1>1 DEF Before, BeforeAck
<1>3. q \in Pipe /\ q.end = "open" /\ ~q.deaf /\ Len(q.buf) = 1
    BY <1>1, <1>2, FirstPiece
<1> HIDE DEF q
<1>4. pipe'["gr"] = q /\ pipe'["ra"] = pipe["ra"] /\ pipe'["ug"] = pipe["ug"]
    BY <1>1, <1>3, BaseParts DEF Pipes
<1>5. /\ copier'["relayDown"] = copier["relayDown"]
      /\ copier'["gatewayUp"] = "on" /\ copier'["gatewayDown"] = "on"
    BY <1>1 DEF TypeOK, Copiers
<1>6. ~Refused /\ ~Refused' /\ Acknowledged' /\ (Watching' <=> Watching)
    BY <1>1, <1>4, <1>5 DEF Refused, Acknowledged, Watching, Present, In
<1>7. Watching => copier["relayDown"] # "done" /\ pipe["ra"].end = "open"
    BY <1>2, <1>6 DEF Endings
<1>8. Endings'
    BY <1>1, <1>3, <1>4, <1>5, <1>6, <1>7 DEF Endings
<1>9. Conserved'
    <2>1. Len(got'["a"]) = 0 /\ Size("ra")' = 0 /\ Size("gr")' = 1
        BY <1>1, <1>2, <1>3, <1>4, EmptySeq DEF Size
    <2>2. ASSUME Watching, pipe["ug"].end # "reset"
          PROVE  sent["u"] = 0 + Size("ug")
        <3>1. Live("ra") /\ Live("gr")
            BY <1>1, <1>2, <1>7, <2>2 DEF Live, Watching, Present, In
        <3> QED  BY <1>1, <1>2, <2>2, <3>1 DEF DownWay
    <2>3. Size("ug")' = Size("ug") /\ Size("ug") \in Nat /\ sent' = sent
        BY <1>1, <1>4, BaseParts DEF Size, Pipes
    <2>4. ASSUME sent["u"] = 0 + Size("ug")
          PROVE  sent["u"] + 1 = 0 + 0 + 1 + Size("ug")
        BY <2>3, <2>4
    <2> QED  BY <1>4, <1>6, <2>1, <2>2, <2>3, <2>4 DEF Conserved
<1>10. saw = "eof" => r = "killed"
    BY <1>1 DEF Seen
<1> QED  BY <1>1, <1>4, <1>8, <1>9, <1>10 DEF Seen, HalfCloseSpares

\* Both directions have ended, so nothing of the destination's is thrown away.
LEMMA SecondResultFinishes ==
    ASSUME Base, Finishing, SecondResult
    PROVE  Finishing'
<1> USE DEF Finishing, Base
<1>1. /\ g = "half" /\ g' = "closed" /\ \A c \in GatewayCopiers : copier[c] = "done"
      /\ UNCHANGED <<kind, sent, got, saw, r, ahead, copier, armed, late>>
      /\ \E ps \in Closed(pipe, "ug", "gu") : Return(ps)
    BY DEF SecondResult, Return
<1>2. /\ pipe'["ra"] = pipe["ra"]
      /\ pipe'["ug"].buf = <<>> /\ pipe'["ug"].end = pipe["ug"].end
      /\ pipe'["gr"].buf = pipe["gr"].buf /\ pipe'["gr"].deaf = pipe["gr"].deaf
      /\ pipe'["gr"].end # "open"
    BY <1>1, GatewayCloses DEF TypeOK
<1>3. copier["gatewayDown"] = "done" /\ copier["gatewayUp"] = "done"
    BY <1>1 DEF GatewayCopiers
<1>4. ~Refused /\ ~Refused' /\ Acknowledged /\ Acknowledged' /\ (Watching' <=> Watching)
    BY <1>1, <1>2, <1>3 DEF Refused, Acknowledged, Watching, Present, In, GatewayCopiers
<1>5. Endings'
    BY <1>1, <1>2, <1>3, <1>4 DEF Endings
<1>6. Conserved'
    <2>1. Watching /\ late = {} => pipe["ug"].buf = <<>>
        BY <1>3 DEF Endings
    <2>2. Watching /\ late = {} => Size("ug")' = Size("ug")
        BY <1>2, <2>1 DEF Size
    <2>3. Size("ra")' = Size("ra") /\ Size("gr")' = Size("gr")
        BY <1>2 DEF Size
    <2> QED  BY <1>1, <1>2, <1>4, <2>2, <2>3 DEF Conserved
<1>7. Seen' /\ HalfCloseSpares'
    BY <1>1, <1>2, <1>4 DEF Seen, HalfCloseSpares
<1> QED  BY <1>5, <1>6, <1>7

\* A piece on its way stays counted.
LEMMA CopyRelayDownFinishes ==
    ASSUME Base, Finishing, Copy("relayDown")
    PROVE  Finishing'
<1> USE DEF Finishing, Base
<1>1. Moves("gr", "ra") /\ copier["relayDown"] = "on"
    BY CopyMoves DEF From, To, Copiers, Copy
<1>2. /\ UNCHANGED <<sent, got, saw, r, g, copier, late>>
      /\ UNCHANGED <<pipe["ug"], pipe["gr"].end, pipe["gr"].deaf, pipe["ra"].end, pipe["ra"].deaf>>
      /\ pipe["ra"].end = "open"
      /\ Size("gr")' = Size("gr") - 1 /\ Size("ra")' = Size("ra") + 1
    BY <1>1 DEF Moves, Live, Pipes
<1>3. (Watching' <=> Watching) /\ (Refused' <=> Refused) /\ (Acknowledged' <=> Acknowledged)
    BY <1>2 DEF Refused, Acknowledged, Watching, Present, In, GatewayCopiers
<1>4. Endings'
    BY <1>1, <1>2, <1>3 DEF Endings
<1>5. Conserved'
    <2>1. /\ Len(got["a"]) \in Nat /\ Size("ra") \in Nat /\ Size("gr") \in Nat /\ Size("ug") \in Nat
        BY BaseParts DEF Pipes
    <2>2. Len(got["a"]) + (Size("ra") + 1) + (Size("gr") - 1) + Size("ug")
              = Len(got["a"]) + Size("ra") + Size("gr") + Size("ug")
        BY <2>1
    <2>3. Size("ug")' = Size("ug")
        BY <1>2 DEF Size
    <2> QED  BY <1>2, <1>3, <2>2, <2>3 DEF Conserved
<1>6. saw # "eof"
    BY <1>2 DEF Seen
<1> QED  BY <1>2, <1>4, <1>5, <1>6 DEF Seen, HalfCloseSpares

\* The same in the gateway.
LEMMA CopyGatewayDownFinishes ==
    ASSUME Base, Finishing, Copy("gatewayDown")
    PROVE  Finishing'
<1> USE DEF Finishing, Base
<1>1. Moves("ug", "gr") /\ copier["gatewayDown"] = "on"
    BY CopyMoves DEF From, To, Copiers, Copy
<1>2. /\ UNCHANGED <<sent, got, saw, r, g, copier, late>>
      /\ UNCHANGED <<pipe["ra"], pipe["gr"].end, pipe["gr"].deaf, pipe["ug"].end, pipe["ug"].deaf>>
      /\ pipe["gr"].end = "open"
      /\ Size("ug")' = Size("ug") - 1 /\ Size("gr")' = Size("gr") + 1
    BY <1>1 DEF Moves, Live, Pipes
<1>3. (Watching' <=> Watching) /\ (Refused' <=> Refused) /\ (Acknowledged' <=> Acknowledged)
    BY <1>2 DEF Refused, Acknowledged, Watching, Present, In, GatewayCopiers
<1>4. Endings'
    BY <1>1, <1>2, <1>3 DEF Endings
<1>5. Conserved'
    <2>1. /\ Len(got["a"]) \in Nat /\ Size("ra") \in Nat /\ Size("gr") \in Nat /\ Size("ug") \in Nat
        BY BaseParts DEF Pipes
    <2>2. Len(got["a"]) + Size("ra") + (Size("gr") + 1) + (Size("ug") - 1)
              = Len(got["a"]) + Size("ra") + Size("gr") + Size("ug")
        BY <2>1
    <2>3. Size("ra")' = Size("ra")
        BY <1>2 DEF Size
    <2> QED  BY <1>2, <1>3, <2>2, <2>3 DEF Conserved
<1>6. Seen' /\ HalfCloseSpares'
    BY <1>2, <1>3 DEF Seen, HalfCloseSpares
<1> QED  BY <1>4, <1>5, <1>6

\* A copier down ends when its source is empty and ended, unless its reader has
\* gone or a deadline has passed.
LEMMA DownOver ==
    ASSUME Base, NEW c \in {"relayDown", "gatewayDown"}, CopyEnds(c)
    PROVE  \/ pipe[From[c]].buf = <<>> /\ pipe[From[c]].end # "open"
           \/ pipe[To[c]].deaf
           \/ c = "gatewayDown" /\ late # {}
<1> USE DEF Base
<1>1. Over(c)
    BY DEF CopyEnds
<1>2. Source(c) = pipe[From[c]].buf
    <2>1. From[c] \in Pipes
        BY DEF From, Pipes
    <2>2. pipe[From[c]].buf \in Seq(Pieces)
        BY <2>1, BaseParts
    <2>3. Source(c) = <<>> \o pipe[From[c]].buf
        BY DEF Source
    <2> QED  BY <2>2, <2>3, ConcatEmptySeq
<1>3. "none" \notin late
    BY DEF TypeOK
<1>4. CASE c = "relayDown"
    <2>1. Ends(c) = <<"none", "none">>
        BY <1>4 DEF Ends
    <2> QED  BY <1>1, <1>2, <1>3, <2>1 DEF Over
<1>5. CASE c = "gatewayDown"
    BY <1>1, <1>2, <1>5 DEF Over
<1> QED  BY <1>4, <1>5

\* The relay passes the gateway's end on when it has copied everything.
LEMMA RelayDownEnds ==
    ASSUME Base, Finishing, CopyEnds("relayDown")
    PROVE  Finishing'
<1> USE DEF Finishing, Base
<1>1. /\ copier["relayDown"] = "on" /\ copier' = [copier EXCEPT !["relayDown"] = "done"]
      /\ pipe' = [pipe EXCEPT !["ra"] = Ended(@)] /\ "ra" \in Pipes
      /\ UNCHANGED <<kind, sent, got, saw, r, g, ahead, armed, late>>
    BY DEF CopyEnds, To, Pipes
<1>2. /\ UNCHANGED <<pipe["gr"], pipe["ug"], pipe["ra"].buf, pipe["ra"].deaf>>
      /\ pipe'["ra"].end # "open" /\ (pipe'["ra"].end = "reset" <=> pipe["ra"].end = "reset")
    BY <1>1, ShutFacts DEF TypeOK, Pipes
<1>3. /\ copier'["relayDown"] = "done"
      /\ UNCHANGED <<copier["gatewayUp"], copier["gatewayDown"]>>
    BY <1>1 DEF TypeOK, Copiers
<1>4. (Watching' <=> Watching) /\ (Refused' <=> Refused) /\ (Acknowledged' <=> Acknowledged)
    BY <1>1, <1>2, <1>3 DEF Refused, Acknowledged, Watching, Present, In, GatewayCopiers
<1>5. Watching => pipe["gr"].end # "open" /\ pipe["gr"].buf = <<>>
    <2>1. \/ pipe["gr"].buf = <<>> /\ pipe["gr"].end # "open"
          \/ pipe["ra"].deaf
        BY DownOver DEF From, To
    <2> QED  BY <2>1 DEF Watching, Present, In
<1>6. Endings'
    BY <1>1, <1>2, <1>3, <1>4, <1>5 DEF Endings
<1>7. Conserved'
    BY <1>1, <1>2, <1>4 DEF Conserved, Size
<1>8. Seen' /\ HalfCloseSpares'
    BY <1>1, <1>2, <1>4 DEF Seen, HalfCloseSpares
<1> QED  BY <1>6, <1>7, <1>8

\* The gateway passes the destination's end on: while the command watches, the
\* relay cannot have closed before it.
LEMMA GatewayDownEnds ==
    ASSUME Base, Finishing, CopyEnds("gatewayDown")
    PROVE  Finishing'
<1> USE DEF Finishing, Base
<1>1. /\ copier["gatewayDown"] = "on" /\ copier' = [copier EXCEPT !["gatewayDown"] = "done"]
      /\ pipe' = [pipe EXCEPT !["gr"] = Ended(@)] /\ "gr" \in Pipes
      /\ UNCHANGED <<kind, sent, got, saw, r, g, ahead, armed, late>>
    BY DEF CopyEnds, To, Pipes
<1>2. /\ UNCHANGED <<pipe["ra"], pipe["ug"], pipe["gr"].buf, pipe["gr"].deaf>>
      /\ pipe'["gr"].end # "open"
    BY <1>1, ShutFacts DEF TypeOK, Pipes
<1>3. /\ copier'["gatewayDown"] = "done"
      /\ UNCHANGED <<copier["gatewayUp"], copier["relayDown"]>>
    BY <1>1 DEF TypeOK, Copiers
<1>4. ~Refused /\ ~Refused' /\ Acknowledged /\ Acknowledged' /\ (Watching' <=> Watching)
    BY <1>1, <1>2, <1>3 DEF Refused, Acknowledged, Watching, Present, In, GatewayCopiers
<1>5. Watching => ~pipe["gr"].deaf
    <2> SUFFICES ASSUME Watching, pipe["gr"].deaf PROVE FALSE
        OBVIOUS
    <2>1. r = "closed"
        BY DEF Endings, Watching
    <2>2. copier["relayDown"] = "done"
        BY <1>4, <2>1 DEF Endings
    <2>3. pipe["gr"].end # "open"
        BY <2>2 DEF Endings
    <2> QED  BY <1>1, <1>4, <2>3 DEF Endings
<1>6. Watching /\ late = {} => pipe["ug"].end # "open" /\ pipe["ug"].buf = <<>>
    <2>1. \/ pipe["ug"].buf = <<>> /\ pipe["ug"].end # "open"
          \/ pipe["gr"].deaf \/ late # {}
        BY DownOver DEF From, To
    <2> QED  BY <1>5, <2>1
<1>7. Endings'
    BY <1>1, <1>2, <1>3, <1>4, <1>6 DEF Endings
<1>8. Conserved'
    BY <1>1, <1>2, <1>4 DEF Conserved, Size
<1>9. Seen' /\ HalfCloseSpares'
    BY <1>1, <1>2, <1>4 DEF Seen, HalfCloseSpares
<1> QED  BY <1>7, <1>8, <1>9

\* At first nothing has ended.
LEMMA InitFinishing == Init => Finishing
<1> SUFFICES ASSUME Init PROVE Finishing
    OBVIOUS
<1>1. /\ r = "dial" /\ g = "none" /\ saw = "nothing"
      /\ \A c \in Copiers : copier[c] = "off"
      /\ pipe["ra"].end = "open" /\ pipe["gr"].end = "open" /\ ~pipe["gr"].deaf
    BY DEF Init, Pipes
<1>2. ~Acknowledged
    BY <1>1 DEF Acknowledged, GatewayCopiers, Copiers
<1> QED  BY <1>1, <1>2 DEF Finishing, Endings, Conserved, Seen, HalfCloseSpares, Copiers

\* Every step keeps it.
LEMMA NextFinishing == IndInv /\ Finishing /\ [Next]_vars => Finishing'
<1> SUFFICES ASSUME IndInv, Finishing, [Next]_vars PROVE Finishing'
    OBVIOUS
<1> USE DEF IndInv
<1>1. CASE Send("a") \/ Receive("u") \/ HalfClose("a")
    BY <1>1, AreElsewhere, ElsewhereKeeps
<1>2. CASE Send("u") \/ Receive("a") \/ HalfClose("u") \/ Leave("u") \/ Leave("a")
    BY <1>2, SendFinishes, ReceiveFinishes, DestinationEndFinishes, CommandLeaveFinishes
<1>3. CASE SeeEnd
    BY <1>3, SeeEndFinishes
<1>4. CASE Relay \/ FrontendKilled
    BY <1>4, AreElsewhere, ElsewhereKeeps, AreRefusing, RefusingKeeps, RelayFinishes DEF Relay
<1>5. CASE Gateway
    <2>1. CASE (ReadConnect /\ g' = "resolve") \/ (Resolve /\ g' = "dial") \/ Dial \/ FirstResult
        BY <2>1, AreElsewhere, ElsewhereKeeps
    <2>2. CASE \/ (ReadConnect /\ g' # "resolve") \/ (Resolve /\ g' # "dial")
               \/ ConnectFails \/ UpstreamFails \/ AcknowledgeFails
        BY <2>2, AreRefusing, RefusingKeeps
    <2>3. CASE Acknowledge \/ SecondResult
        BY <2>3, AcknowledgeFinishes, SecondResultFinishes
    <2> QED  BY <1>5, <2>1, <2>2, <2>3 DEF Gateway
<1>6. ASSUME NEW c \in Copiers, Copy(c) PROVE Finishing'
    <2>1. CASE c \in {"relayUp", "gatewayUp"}
        BY <1>6, <2>1, AreElsewhere, ElsewhereKeeps
    <2>2. CASE c \in {"relayDown", "gatewayDown"}
        BY <1>6, <2>2, CopyRelayDownFinishes, CopyGatewayDownFinishes
    <2> QED  BY <2>1, <2>2 DEF Copiers
<1>7. ASSUME NEW c \in Copiers, CopyEnds(c) PROVE Finishing'
    <2>1. CASE c \in {"relayUp", "gatewayUp"}
        BY <1>7, <2>1, AreElsewhere, ElsewhereKeeps
    <2>2. CASE c \in {"relayDown", "gatewayDown"}
        BY <1>7, <2>2, RelayDownEnds, GatewayDownEnds
    <2> QED  BY <2>1, <2>2 DEF Copiers
<1>8. CASE (\E k \in armed : Expire(k)) \/ UNCHANGED vars
    BY <1>8, AreElsewhere, ElsewhereKeeps
<1> QED  BY <1>1, <1>2, <1>3, <1>4, <1>5, <1>6, <1>7, <1>8 DEF Next, Copying

\* gateway.go:369: closing one direction does not cut the other short.  The
\* end of file a command reads is the destination's own, and everything the
\* destination sent comes before it, unless a deadline passed or the frontend
\* was killed.
THEOREM HalfCloseSpared == Spec => []HalfCloseSpares
<1>1. Init => Finishing
    BY InitFinishing
<1>2. IndInv /\ Finishing /\ [Next]_vars => Finishing'
    BY NextFinishing
<1>3. Finishing => HalfCloseSpares
    BY DEF Finishing
<1> QED  BY <1>1, <1>2, <1>3, Invariance, PTL DEF Spec

=============================================================================
