--------------------------- MODULE GitTunnel_proofs ---------------------------
(* Theorems about GitTunnel, for any requests the client may send, any bound  *)
(* on what is on its way, either class and any faults.                        *)
EXTENDS GitTunnel, SequenceTheorems, TLAPS

\* The pieces that have still to follow piece x.
Owes(x) == IF x.part = "head" THEN x.of.body ELSE x.left - 1

\* Piece x is the next one where n pieces of a body are owed.
Follows(x, n) == IF n = 0 THEN x.part = "head" ELSE x.part = "body" /\ x.left = n

\* The pieces that are left of the body at the gateway's end of the wire.
Ahead == IF wire = <<>> THEN todo ELSE IF wire[1].part = "head" THEN 0 ELSE wire[1].left

\* The wire is a run of requests, and what the client has still to send
\* continues it.
Unbroken ==
    /\ \A i \in 1 .. (Len(wire) - 1) : Follows(wire[i + 1], Owes(wire[i]))
    /\ wire # <<>> => todo = Owes(wire[Len(wire)])

\* Who reads stands where it may: the body's reader inside a body, the loop
\* between two.
Placed ==
    /\ t \in {"send", "drain"} => Ahead > 0
    /\ t = "push" /\ ~complete => Ahead > 0
    /\ h \in {"do", "copy", "stop", "abort"} /\ complete => Ahead = 0
    /\ h = "read" => complete /\ Ahead = 0

\* Who reads is alone: the transport is done with a complete body, the loop
\* goes on after one, and the watcher waits for it and is waited for.
Alone ==
    /\ complete => t \in {"off", "push"}
    /\ h \in {"copy", "stop"} /\ keep => complete
    /\ h \in {"read", "deny", "closed"} => w = "off"
    /\ w = "peek" => complete

\* What is with the upstream may be.
Allowed == h \in {"do", "copy", "stop", "abort"} => req.sane /\ ~Denied(req)

IInv == TypeOK /\ Unbroken /\ Placed /\ Alone /\ Allowed

-----------------------------------------------------------------------------
(* The wire. *)

\* A request's body and a piece's number are within the bound.
LEMMA RequestFields ==
    ASSUME NEW r \in Requests
    PROVE  /\ r.body \in 0..MaxWire /\ r.expect \in BOOLEAN
           /\ r.close \in BOOLEAN /\ r.sane \in BOOLEAN
BY ConstantsAssumption DEF Request

LEMMA PieceFields ==
    ASSUME NEW x \in Piece
    PROVE  /\ x.part = "head" => x.of \in Requests
           /\ x.part # "head" => x.part = "body" /\ x.left \in 1..MaxWire
           /\ Owes(x) \in 0..MaxWire
BY RequestFields, ConstantsAssumption DEF Piece, Owes

\* Sending the piece that is owed continues the wire; at the gateway's end
\* nothing changes.
LEMMA WireGrows ==
    ASSUME wire \in Seq(Piece), todo \in 0..MaxWire, Unbroken,
           NEW x \in Piece, Follows(x, todo),
           wire' = Append(wire, x), todo' = Owes(x)
    PROVE  /\ wire' \in Seq(Piece) /\ Len(wire') = Len(wire) + 1
           /\ Unbroken'
           /\ Ahead' = Ahead
<1>1. /\ wire' \in Seq(Piece) /\ Len(wire') = Len(wire) + 1 /\ Len(wire) \in Nat
      /\ \A i \in 1 .. Len(wire) : wire'[i] = wire[i]
      /\ wire'[Len(wire) + 1] = x /\ wire' # <<>>
    OBVIOUS
<1>2. ASSUME NEW i \in 1 .. (Len(wire') - 1)
      PROVE  Follows(wire'[i + 1], Owes(wire'[i]))
    <2>1. CASE i < Len(wire)
        <3>1. i \in 1 .. (Len(wire) - 1) /\ wire'[i] = wire[i] /\ wire'[i + 1] = wire[i + 1]
            BY <1>1, <2>1
        <3> QED  BY <3>1 DEF Unbroken
    <2>2. CASE i = Len(wire)
        <3>1. wire # <<>> /\ wire'[i] = wire[Len(wire)] /\ wire'[i + 1] = x
            BY <1>1, <2>2
        <3> QED  BY <3>1 DEF Unbroken
    <2> QED  BY <1>1, <2>1, <2>2
<1>3. Unbroken'
    BY <1>1, <1>2 DEF Unbroken
<1>4. Ahead' = Ahead
    <2>1. CASE wire = <<>>
        <3>1. wire'[1] = x
            BY <1>1, <2>1
        <3> QED  BY <1>1, <2>1, <3>1, PieceFields DEF Ahead, Follows
    <2>2. CASE wire # <<>>
        <3>1. wire'[1] = wire[1]
            BY <1>1, <2>2
        <3> QED  BY <1>1, <2>2, <3>1 DEF Ahead
    <2> QED  BY <2>1, <2>2
<1> QED  BY <1>1, <1>3, <1>4

\* Taking the first piece leaves what it owes.
LEMMA WireShrinks ==
    ASSUME wire \in Seq(Piece), wire # <<>>, todo \in 0..MaxWire, Unbroken,
           wire' = Tail(wire), todo' = todo
    PROVE  /\ wire' \in Seq(Piece) /\ Len(wire') < Len(wire)
           /\ Head(wire) = wire[1] /\ wire[1] \in Piece
           /\ Unbroken'
           /\ Ahead' = Owes(wire[1])
<1>1. /\ wire' \in Seq(Piece) /\ Len(wire') = Len(wire) - 1 /\ Len(wire) \in Nat \ {0}
      /\ \A i \in 1 .. Len(wire') : wire'[i] = wire[i + 1]
      /\ Head(wire) = wire[1] /\ wire[1] \in Piece
    OBVIOUS
<1>2. ASSUME NEW i \in 1 .. (Len(wire') - 1)
      PROVE  Follows(wire'[i + 1], Owes(wire'[i]))
    <2>1. /\ wire'[i] = wire[i + 1] /\ wire'[i + 1] = wire[(i + 1) + 1]
          /\ i + 1 \in 1 .. (Len(wire) - 1)
        BY <1>1
    <2> QED  BY <2>1 DEF Unbroken
<1>3. ASSUME wire' # <<>>
      PROVE  todo' = Owes(wire'[Len(wire')]) /\ Ahead' = Owes(wire[1])
    <2>1. Len(wire') \in Nat \ {0} /\ Len(wire) > 1
        BY <1>1, <1>3
    <2>2. /\ wire'[1] = wire[1 + 1] /\ wire'[Len(wire')] = wire[Len(wire)]
          /\ 1 \in 1 .. (Len(wire) - 1) /\ wire'[1] \in Piece
        BY <1>1, <2>1
    <2>3. Follows(wire'[1], Owes(wire[1]))
        BY <2>2 DEF Unbroken
    <2>4. todo' = Owes(wire'[Len(wire')])
        BY <2>2 DEF Unbroken
    <2>5. Ahead' = Owes(wire[1])
        BY <1>3, <2>2, <2>3, PieceFields DEF Ahead, Follows
    <2> QED  BY <2>4, <2>5
<1>4. ASSUME wire' = <<>>
      PROVE  Ahead' = Owes(wire[1])
    <2>1. Len(wire') = 0
        BY <1>4, EmptySeq, Zenon
    <2>2. Len(wire) = 1
        BY <1>1, <2>1
    <2> QED  BY <1>4, <2>2 DEF Ahead, Unbroken
<1>5. Unbroken'
    BY <1>2, <1>3 DEF Unbroken
<1> QED  BY <1>1, <1>3, <1>4, <1>5

\* Where nobody touches the wire the place on it is the same.
LEMMA WireKept ==
    ASSUME UNCHANGED <<wire, todo>>
    PROVE  (Unbroken => Unbroken') /\ Ahead' = Ahead
BY DEF Unbroken, Ahead

\* A piece at the gateway's end is a head exactly where nothing is left.
LEMMA PieceAhead ==
    ASSUME wire \in Seq(Piece), wire # <<>>
    PROVE  /\ Head(wire) = wire[1] /\ Head(wire) \in Piece
           /\ Ahead = 0 => Head(wire).part = "head"
           /\ Ahead > 0 => Head(wire).part = "body" /\ Head(wire).left = Ahead
           /\ Ahead = 0 \/ Ahead \in 1..MaxWire
<1>1. Head(wire) = wire[1] /\ Head(wire) \in Piece
    OBVIOUS
<1> QED  BY <1>1, PieceFields, ConstantsAssumption DEF Ahead

-----------------------------------------------------------------------------
(* The invariant. *)

LEMMA InitIInv == Init => IInv
<1> SUFFICES ASSUME Init PROVE IInv
    OBVIOUS
<1>1. wire \in Seq(Piece) /\ Len(wire) = 0 /\ Len(wire) <= MaxWire /\ todo \in 0..MaxWire
    BY EmptySeq, ConstantsAssumption DEF Init
<1>2. TypeOK
    BY <1>1, Zenon DEF Init, TypeOK, HandlerStates, WriterStates
<1>3. Unbroken /\ Ahead = 0
    BY <1>1 DEF Init, Unbroken, Ahead
<1> QED  BY <1>2, <1>3 DEF Init, IInv, Placed, Alone, Allowed

LEMMA ClientIInv ==
    ASSUME IInv, (\E r \in Requests : SendHead(r)) \/ SendBody \/ StopWaiting \/ Disconnect
    PROVE  IInv'
<1>1. ASSUME NEW r \in Requests, SendHead(r) PROVE IInv'
    <2> DEFINE x == [part |-> "head", of |-> r]
    <2>1. x \in Piece /\ Owes(x) = r.body /\ r.body \in 0..MaxWire
        BY RequestFields DEF Piece, Owes
    <2>2. /\ Follows(x, todo) /\ wire' = Append(wire, x) /\ todo' = Owes(x)
          /\ Len(wire) < MaxWire
        BY <1>1, <2>1 DEF SendHead, Open, Follows
    <2>3. /\ wire' \in Seq(Piece) /\ Len(wire') = Len(wire) + 1 /\ Unbroken' /\ Ahead' = Ahead
        BY <2>1, <2>2, WireGrows DEF IInv, TypeOK
    <2>4. TypeOK'
        BY <1>1, <2>1, <2>2, <2>3, RequestFields, ConstantsAssumption
           DEF IInv, TypeOK, SendHead, handlerVars
    <2> QED  BY <1>1, <2>3, <2>4 DEF IInv, SendHead, handlerVars, Placed, Alone, Allowed
<1>2. ASSUME SendBody PROVE IInv'
    <2> DEFINE x == [part |-> "body", left |-> todo]
    <2>1. todo \in 1..MaxWire
        BY <1>2, ConstantsAssumption DEF SendBody, IInv, TypeOK
    <2>2. x \in Piece /\ Owes(x) = todo - 1
        BY <2>1 DEF Piece, Owes
    <2>3. /\ Follows(x, todo) /\ wire' = Append(wire, x) /\ todo' = Owes(x)
          /\ Len(wire) < MaxWire
        BY <1>2, <2>1, <2>2 DEF SendBody, Open, Follows
    <2>4. /\ wire' \in Seq(Piece) /\ Len(wire') = Len(wire) + 1 /\ Unbroken' /\ Ahead' = Ahead
        BY <2>2, <2>3, WireGrows DEF IInv, TypeOK
    <2>5. TypeOK'
        BY <1>2, <2>1, <2>2, <2>3, <2>4, ConstantsAssumption
           DEF IInv, TypeOK, SendBody, handlerVars
    <2> QED  BY <1>2, <2>4, <2>5 DEF IInv, SendBody, handlerVars, Placed, Alone, Allowed
<1>3. ASSUME StopWaiting \/ Disconnect PROVE IInv'
    <2>1. Unbroken' /\ Ahead' = Ahead
        BY <1>3, WireKept DEF StopWaiting, Disconnect, IInv
    <2>2. TypeOK'
        <3>1. CASE StopWaiting
            BY <3>1 DEF StopWaiting, handlerVars, IInv, TypeOK
        <3>2. CASE Disconnect
            BY <3>2 DEF Disconnect, handlerVars, IInv, TypeOK
        <3> QED  BY <1>3, <3>1, <3>2
    <2> QED  BY <1>3, <2>1, <2>2
             DEF StopWaiting, Disconnect, handlerVars, IInv, Placed, Alone, Allowed
<1> QED  BY <1>1, <1>2, <1>3

\* What the loop finds where it reads, and what is left once it has taken it.
LEMMA AtHead ==
    ASSUME IInv, h = "read", wire # <<>>
    PROVE  /\ Head(wire).part = "head" /\ Head(wire).of \in Requests
           /\ Owes(wire[1]) = Head(wire).of.body /\ Head(wire).of.body \in 0..MaxWire
<1>1. Ahead = 0
    BY DEF IInv, Placed
<1>2. Head(wire) = wire[1] /\ Head(wire) \in Piece /\ Head(wire).part = "head"
    BY <1>1, PieceAhead DEF IInv, TypeOK
<1>3. Head(wire).of \in Requests
    BY <1>2, PieceFields
<1> QED  BY <1>2, <1>3, RequestFields DEF Owes

LEMMA ReadRequestIInv == IInv /\ ReadRequest => IInv'
<1> SUFFICES ASSUME IInv, ReadRequest PROVE IInv'
    OBVIOUS
<1> DEFINE r == Head(wire).of
<1>1. /\ h = "read" /\ wire # <<>> /\ wire' = Tail(wire) /\ todo' = todo /\ eof' = eof
      /\ req' = r
    BY DEF ReadRequest
<1>2. r \in Requests /\ r.body \in 0..MaxWire /\ r.close \in BOOLEAN
    BY <1>1, AtHead, RequestFields
<1>3. wire' \in Seq(Piece) /\ Len(wire') < Len(wire) /\ Unbroken' /\ Ahead' = r.body
    BY <1>1, WireShrinks, AtHead DEF IInv, TypeOK
<1>4. complete = TRUE /\ t \in {"off", "push"} /\ w = "off"
    BY <1>1, Zenon DEF IInv, TypeOK, Placed, Alone
<1>5. held' \in BOOLEAN
    BY DEF ReadRequest
<1>6. wire' \in Seq(Piece) /\ Len(wire') <= MaxWire /\ todo' \in 0..MaxWire
    BY <1>1, <1>3, ConstantsAssumption DEF IInv, TypeOK
<1>7. CASE r.sane /\ ~Denied(r)
    <2>1. Forward(r)
        BY <1>7 DEF ReadRequest
    <2>2. /\ h' = "do" /\ keep' \in BOOLEAN /\ (keep' => ~r.close)
          /\ complete' \in BOOLEAN /\ (complete' <=> r.body = 0)
          /\ (r.body = 0 /\ t' = "off") \/ (r.body # 0 /\ t' = "send")
          /\ w' = "wait" /\ cancelled' = FALSE /\ up' = "pending"
        BY <1>2, <2>1 DEF Forward
    <2>3. TypeOK'
        BY <1>1, <1>2, <1>5, <1>6, <2>2 DEF IInv, TypeOK, HandlerStates, WriterStates
    <2>4. Placed' /\ Alone'
        BY <1>2, <1>3, <2>2 DEF Placed, Alone
    <2>5. Allowed'
        BY <1>1, <1>7 DEF Allowed, Denied
    <2> QED  BY <1>3, <2>3, <2>4, <2>5 DEF IInv
<1>8. CASE ~(r.sane /\ ~Denied(r))
    <2>1. /\ h' = "deny" /\ keep' = FALSE
          /\ UNCHANGED <<complete, t, w, cancelled, up>>
        BY <1>8 DEF ReadRequest, Deny
    <2>2. TypeOK'
        BY <1>1, <1>2, <1>4, <1>5, <1>6, <2>1, Zenon DEF IInv, TypeOK, HandlerStates, WriterStates
    <2>3. Placed' /\ Alone' /\ Allowed'
        BY <1>4, <2>1 DEF Placed, Alone, Allowed
    <2> QED  BY <1>3, <2>2, <2>3 DEF IInv
<1> QED  BY <1>7, <1>8

LEMMA HandlerIInv == IInv /\ (Handler \/ WriteFails) => IInv'
<1> SUFFICES ASSUME IInv, Handler \/ WriteFails PROVE IInv'
    OBVIOUS
<1>1. CASE ContinueFails
    <2>1. h = "read" /\ wire # <<>> /\ wire' = Tail(wire) /\ todo' = todo
        BY <1>1 DEF ContinueFails
    <2>2. /\ wire' \in Seq(Piece) /\ Len(wire') < Len(wire) /\ Unbroken' /\ Len(wire) \in Nat
          /\ Len(wire') \in Nat
        BY <2>1, WireShrinks DEF IInv, TypeOK
    <2>3. Len(wire') <= MaxWire
        BY <2>2, ConstantsAssumption DEF IInv, TypeOK
    <2>4. TypeOK'
        BY <1>1, <2>1, <2>2, <2>3, Zenon DEF ContinueFails, IInv, TypeOK, HandlerStates
    <2>5. complete = TRUE /\ t \in {"off", "push"} /\ w = "off"
        BY <2>1, Zenon DEF IInv, TypeOK, Placed, Alone
    <2>6. Placed' /\ Alone' /\ Allowed'
        BY <1>1, <2>5 DEF ContinueFails, Placed, Alone, Allowed
    <2> QED  BY <2>2, <2>4, <2>6 DEF IInv
<1>2. CASE \/ ReadFails \/ Respond \/ DoFails \/ Copied \/ CopyFails \/ WriteFails
          \/ Stopped \/ AnswerDenial
    <2>1. Unbroken' /\ Ahead' = Ahead
        BY <1>2, WireKept
           DEF IInv, ReadFails, Respond, DoFails, Copied, CopyFails, WriteFails, Stopped,
               AnswerDenial, clientVars
    <2>2. CASE ReadFails
        <3>1. TypeOK'
            BY <2>2 DEF ReadFails, clientVars, IInv, TypeOK, HandlerStates
        <3> QED  BY <2>1, <2>2, <3>1 DEF ReadFails, IInv, Placed, Alone, Allowed
    <2>3. CASE Respond
        <3>1. TypeOK'
            BY <2>3 DEF Respond, clientVars, IInv, TypeOK, HandlerStates
        <3> QED  BY <2>1, <2>3, <3>1 DEF Respond, IInv, Placed, Alone, Allowed, Denied
    <2>4. CASE DoFails
        <3>1. TypeOK'
            BY <2>4 DEF DoFails, clientVars, IInv, TypeOK, HandlerStates
        <3> QED  BY <2>1, <2>4, <3>1 DEF DoFails, IInv, Placed, Alone, Allowed, Denied
    <2>5. CASE Copied
        <3>1. TypeOK'
            BY <2>5 DEF Copied, clientVars, IInv, TypeOK, HandlerStates
        <3> QED  BY <2>1, <2>5, <3>1 DEF Copied, IInv, Placed, Alone, Allowed, Denied
    <2>6. CASE Stopped
        <3>1. TypeOK'
            BY <2>6 DEF Stopped, clientVars, IInv, TypeOK, HandlerStates
        <3> QED  BY <2>1, <2>6, <3>1 DEF Stopped, IInv, Placed, Alone, Allowed
    <2>7. CASE AnswerDenial
        <3>1. TypeOK'
            BY <2>7 DEF AnswerDenial, clientVars, IInv, TypeOK, HandlerStates
        <3> QED  BY <2>1, <2>7, <3>1 DEF AnswerDenial, IInv, Placed, Alone, Allowed
    <2>8. CASE CopyFails \/ WriteFails
        <3>1. h = "copy" /\ h' = "stop" /\ keep' = FALSE
              /\ UNCHANGED <<wire, todo, held, eof, req, complete, t, w, cancelled, up>>
            BY <2>8 DEF CopyFails, WriteFails, clientVars
        <3>2. TypeOK'
            BY <3>1 DEF IInv, TypeOK, HandlerStates
        <3> QED  BY <2>1, <3>1, <3>2 DEF IInv, Placed, Alone, Allowed, Denied
    <2> QED  BY <1>2, <2>2, <2>3, <2>4, <2>5, <2>6, <2>7, <2>8
<1> QED  BY <1>1, <1>2, ReadRequestIInv DEF Handler

\* The body's reader finds a piece of the body, and leaves the next one.
LEMMA AtBody ==
    ASSUME IInv, t \in {"send", "drain"}, wire # <<>>
    PROVE  /\ Head(wire).part = "body" /\ Head(wire).left \in 1..MaxWire
           /\ Owes(wire[1]) = Head(wire).left - 1
<1>1. Ahead > 0
    BY DEF IInv, Placed
<1>2. Head(wire) = wire[1] /\ Head(wire).part = "body" /\ Head(wire).left = Ahead
    BY <1>1, PieceAhead DEF IInv, TypeOK
<1>3. Head(wire) \in Piece
    BY PieceAhead DEF IInv, TypeOK
<1> QED  BY <1>2, <1>3, PieceFields DEF Owes

LEMMA WriterIInv == IInv /\ (Writer \/ Pushed) => IInv'
<1> SUFFICES ASSUME IInv, Writer \/ Pushed PROVE IInv'
    OBVIOUS
<1>1. CASE ReadBody
    <2>1. /\ t = "send" /\ h # "closed" /\ wire # <<>> /\ wire' = Tail(wire) /\ todo' = todo
          /\ t' = "push" /\ UNCHANGED <<held, eof, h, req, keep, w, cancelled, up>>
        BY <1>1 DEF ReadBody, handlerVars
    <2>2. complete' \in BOOLEAN /\ (complete' <=> Head(wire).left = 1)
        BY <1>1 DEF ReadBody
    <2>3. /\ wire' \in Seq(Piece) /\ Len(wire') < Len(wire) /\ Unbroken'
          /\ Ahead' = Head(wire).left - 1 /\ Head(wire).left \in 1..MaxWire
        BY <2>1, WireShrinks, AtBody DEF IInv, TypeOK
    <2>4. TypeOK'
        BY <2>1, <2>2, <2>3, ConstantsAssumption DEF IInv, TypeOK, WriterStates
    <2>5. complete = FALSE
        BY <2>1 DEF IInv, TypeOK, Alone
    <2>6. h # "read" /\ w # "peek" /\ ~(h \in {"copy", "stop"} /\ keep)
        BY <2>5, Zenon DEF IInv, Placed, Alone
    <2>7. Placed'
        BY <2>1, <2>2, <2>3, <2>6, ConstantsAssumption DEF IInv, Placed
    <2>8. Alone' /\ Allowed'
        BY <2>1, <2>6 DEF IInv, Alone, Allowed, Denied
    <2> QED  BY <2>3, <2>4, <2>7, <2>8 DEF IInv
<1>2. CASE Drain
    <2>1. /\ t = "drain" /\ h # "closed" /\ wire # <<>> /\ wire' = Tail(wire) /\ todo' = todo
          /\ UNCHANGED <<held, eof, h, req, keep, complete, w, cancelled, up>>
          /\ (Head(wire).left = 1 /\ t' = "off") \/ (Head(wire).left # 1 /\ t' = "drain")
        BY <1>2 DEF Drain, handlerVars
    <2>2. /\ wire' \in Seq(Piece) /\ Len(wire') < Len(wire) /\ Unbroken'
          /\ Ahead' = Head(wire).left - 1 /\ Head(wire).left \in 1..MaxWire
        BY <2>1, WireShrinks, AtBody DEF IInv, TypeOK
    <2>3. Len(wire') \in Nat /\ Len(wire) \in Nat /\ Len(wire') <= MaxWire
        BY <2>2, ConstantsAssumption DEF IInv, TypeOK
    <2>4. TypeOK'
        BY <2>1, <2>2, <2>3 DEF IInv, TypeOK, WriterStates
    <2>5. complete = FALSE
        BY <2>1 DEF IInv, TypeOK, Alone
    <2>6. h # "read" /\ complete' = FALSE /\ h' = h
        BY <2>1, <2>5, Zenon DEF IInv, Placed
    <2>7. Placed'
        BY <2>1, <2>2, <2>6 DEF Placed
    <2>8. Alone' /\ Allowed'
        BY <2>1, <2>6 DEF IInv, Alone, Allowed, Denied
    <2> QED  BY <2>2, <2>4, <2>7, <2>8 DEF IInv
<1>3. CASE Pushed
    <2>1. Unbroken' /\ Ahead' = Ahead
        BY <1>3, WireKept DEF IInv, Pushed, clientVars
    <2>2. TypeOK'
        BY <1>3 DEF Pushed, clientVars, handlerVars, IInv, TypeOK, WriterStates
    <2> QED  BY <1>3, <2>1, <2>2
             DEF Pushed, handlerVars, IInv, TypeOK, Placed, Alone, Allowed, Denied
<1>4. CASE GiveUp
    <2>1. Unbroken' /\ Ahead' = Ahead
        BY <1>4, WireKept DEF IInv, GiveUp, clientVars
    <2>2. TypeOK'
        BY <1>4 DEF GiveUp, clientVars, handlerVars, IInv, TypeOK, WriterStates
    <2> QED  BY <1>4, <2>1, <2>2
             DEF GiveUp, handlerVars, IInv, TypeOK, Placed, Alone, Allowed, Denied
<1>5. CASE BodyFails
    <2>1. Unbroken' /\ Ahead' = Ahead
        BY <1>5, WireKept DEF IInv, BodyFails, clientVars
    <2>2. TypeOK'
        BY <1>5 DEF BodyFails, clientVars, handlerVars, IInv, TypeOK, WriterStates
    <2> QED  BY <1>5, <2>1, <2>2
             DEF BodyFails, handlerVars, IInv, TypeOK, Placed, Alone, Allowed, Denied
<1> QED  BY <1>1, <1>2, <1>3, <1>4, <1>5 DEF Writer

LEMMA WatcherIInv == IInv /\ Watcher => IInv'
<1> SUFFICES ASSUME IInv, Watcher PROVE IInv'
    OBVIOUS
<1>1. Unbroken' /\ Ahead' = Ahead
    BY WireKept DEF IInv, Watcher, Watch, WatchStops, WatchSeesData, WatchSeesEOF, clientVars
<1>2. TypeOK'
    <2>1. CASE Watch
        BY <2>1 DEF Watch, clientVars, handlerVars, IInv, TypeOK
    <2>2. CASE WatchStops
        BY <2>2 DEF WatchStops, clientVars, handlerVars, IInv, TypeOK
    <2>3. CASE WatchSeesData
        BY <2>3 DEF WatchSeesData, clientVars, handlerVars, IInv, TypeOK
    <2>4. CASE WatchSeesEOF
        BY <2>4 DEF WatchSeesEOF, clientVars, handlerVars, IInv, TypeOK
    <2> QED  BY <2>1, <2>2, <2>3, <2>4 DEF Watcher
<1>3. /\ w' \in {"off", "peek"} /\ (w' = "peek" => complete /\ w = "wait")
      /\ UNCHANGED <<h, req, keep, complete, t>>
    BY DEF Watcher, Watch, WatchStops, WatchSeesData, WatchSeesEOF, handlerVars
<1>4. Placed' /\ Alone' /\ Allowed'
    BY <1>1, <1>3 DEF IInv, Placed, Alone, Allowed, Denied
<1> QED  BY <1>1, <1>2, <1>4 DEF IInv

LEMMA UpstreamIInv == IInv /\ (Answers \/ Ends \/ UpstreamFails) => IInv'
<1> SUFFICES ASSUME IInv, Answers \/ Ends \/ UpstreamFails PROVE IInv'
    OBVIOUS
<1>1. /\ up' \in {"answered", "ended", "failed"}
      /\ UNCHANGED <<wire, todo, held, eof, h, req, keep, complete, t, w, cancelled>>
    BY DEF Answers, Ends, UpstreamFails, Upstream, clientVars, handlerVars
<1>2. Unbroken' /\ Ahead' = Ahead
    BY <1>1, WireKept DEF IInv
<1>3. TypeOK'
    BY <1>1 DEF IInv, TypeOK
<1> QED  BY <1>1, <1>2, <1>3 DEF IInv, Placed, Alone, Allowed, Denied

LEMMA NextIInv == IInv /\ [Next]_vars => IInv'
<1> SUFFICES ASSUME IInv, [Next]_vars PROVE IInv'
    OBVIOUS
<1>1. CASE UNCHANGED vars
    <2>1. Unbroken' /\ Ahead' = Ahead
        BY <1>1, WireKept DEF IInv, vars, clientVars
    <2>2. TypeOK'
        BY <1>1 DEF vars, clientVars, handlerVars, IInv, TypeOK
    <2> QED  BY <1>1, <2>1, <2>2
             DEF vars, clientVars, handlerVars, IInv, Placed, Alone, Allowed, Denied
<1> QED  BY <1>1, ClientIInv, HandlerIInv, WriterIInv, WatcherIInv, UpstreamIInv DEF Next

-----------------------------------------------------------------------------
(* The theorems. *)

\* Whoever takes from the shared reader is at the piece it expects and is the
\* only one to take (IInv), in every reachable state of a connection.
THEOREM Invariance == Spec => []IInv
<1> QED  BY InitIInv, NextIInv, PTL DEF Spec

\* Every variable keeps its type, and a request that asked for the end of the
\* connection is never kept alive while it is worked on.
THEOREM Typing == Spec => []TypeOK
<1>1. IInv => TypeOK
    BY DEF IInv
<1> QED  BY <1>1, Invariance, PTL

\* gitsmart.go:129 and 260: the loop, the transport and the watcher never read
\* the buffered reader at the same time.
THEOREM OneReaderOnly == Spec => []OneReader
<1>1. IInv => OneReader
    <2> SUFFICES ASSUME IInv PROVE OneReader
        OBVIOUS
    <2>1. h = "read" => complete /\ w = "off"
        BY DEF IInv, Placed, Alone
    <2>2. (complete => t \in {"off", "push"}) /\ (w = "peek" => complete)
        BY DEF IInv, Alone
    <2> QED  BY <2>1, <2>2 DEF OneReader
<1> QED  BY <1>1, Invariance, PTL

\* No piece of a body is parsed as a request and no request is sent upstream as
\* a body, however the client pipelines, stalls or leaves.
THEOREM NoDesync == Spec => []InSync
<1>1. IInv => InSync
    <2> SUFFICES ASSUME IInv, wire # <<>>
                 PROVE  /\ h = "read" => Head(wire).part = "head"
                        /\ t \in {"send", "drain"} => Head(wire).part = "body"
        BY DEF InSync
    <2> QED  BY AtHead, AtBody
<1> QED  BY <1>1, Invariance, PTL

\* gitsmart.go:120 and 139: no exchange with the upstream is for a request that
\* the class refuses or that names another host, and once its body is read the
\* client's next piece is the next request.
THEOREM OnlyAllowedForwarded ==
    Spec => [](h \in {"do", "copy"} =>
                   /\ req.sane
                   /\ req.service = "git-receive-pack" => Class = "w"
                   /\ complete => IF wire = <<>> THEN todo = 0 ELSE Head(wire).part = "head")
<1>1. ASSUME IInv, h \in {"do", "copy"}
      PROVE  /\ req.sane
             /\ req.service = "git-receive-pack" => Class = "w"
             /\ complete => IF wire = <<>> THEN todo = 0 ELSE Head(wire).part = "head"
    <2>1. req.sane /\ ~Denied(req)
        BY <1>1 DEF IInv, Allowed
    <2>2. complete => Ahead = 0
        BY <1>1 DEF IInv, Placed
    <2>3. wire # <<>> /\ Ahead = 0 => Head(wire).part = "head"
        BY <1>1, PieceAhead DEF IInv, TypeOK
    <2> QED  BY <2>1, <2>2, <2>3 DEF Denied, Ahead
<1> QED  BY <1>1, Invariance, PTL

=============================================================================
