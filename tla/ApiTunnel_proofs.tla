-------------------------- MODULE ApiTunnel_proofs --------------------------
(* Theorems about ApiTunnel and the policy it asks: they hold for every set   *)
(* of requests, every limit and every validity of the leaf.                   *)
EXTENDS ApiTunnel, SequenceTheorems, TLAPS

-----------------------------------------------------------------------------
(* The policy: what holds of every request, whatever its size. *)

\* With each key at most once and the query there, there is one document and
\* one name the upstream can take: the ones the gateway took.
LEMMA Unambiguous ==
    ASSUME NEW r,
           r.body.query \in Seq(Document), r.body.operationName \in Seq(NameField),
           r.json, ~r.encoded, r.body.shape = "object",
           \A i \in DOMAIN r.body.extensions : ~r.body.extensions[i],
           \A i \in DOMAIN r.body.operationName : r.body.operationName[i].ok,
           Len(r.body.query) = 1, Len(r.body.operationName) <= 1
    PROVE  MayExecute(r) = Executes(r.body.query[1], NameOf(r.body.operationName))
<1>1. Range(r.body.query) = {r.body.query[1]}
  <2>1. DOMAIN r.body.query = {1}
    OBVIOUS
  <2> QED BY <2>1 DEF Range
<1>2. NamesGiven(r.body) = {NameOf(r.body.operationName)}
  <2>1. CASE r.body.operationName = <<>>
    BY <2>1 DEF NameOf, NamesGiven
  <2>2. CASE r.body.operationName # <<>>
    <3>1. DOMAIN r.body.operationName = {1}
      BY <2>2
    <3>2. Range(r.body.operationName) = {r.body.operationName[1]}
      BY <3>1 DEF Range
    <3> QED BY <2>2, <3>2 DEF NameOf, NamesGiven
  <2> QED BY <2>1, <2>2
<1>3. ~Opaque(r)
  BY DEF Opaque
<1> QED BY <1>1, <1>2, <1>3 DEF MayExecute, Executes

\* Without a mark the path that is classified is the one that is sent.
LEMMA SamePath ==
    ASSUME NEW r \in Request, ~Marked(r)
    PROVE  \A p \in Readings(r.path) : AtGraphQL(p) <=> IsGraphQLPath(r)
<1>1. BeforeMark(r.path) = r.path
  BY DEF Marked, BeforeMark
<1>2. \A i \in DOMAIN r.path : i > 1 => i - 1 \in DOMAIN r.path
  BY DEF Request
<1>3. Readings(r.path) = {Texts(r.path)}
  BY <1>2 DEF Marked, Texts, Readings
<1> QED BY <1>1, <1>3 DEF IsGraphQLPath, NormalizePath, AtGraphQL

\* The read class is read-only: of what authorizeRequest lets through in class
\* "ro" the upstream, which follows its own rules and sees the path as it was
\* sent, executes queries and reads only; the one exception is a query's
\* document that a mark in the path has brought elsewhere.
THEOREM ReadClassIsReadOnly ==
    ASSUME NEW r \in Request, Authorize("ro", r) = "nil"
    PROVE  /\ OnlyReads(r) \/ QueryElsewhere(r)
           /\ ~Marked(r) => OnlyReads(r)
<1>1. CASE ~IsGraphQLPath(r)
  <2>1. r.method \in ReadMethods
    BY <1>1 DEF Authorize, AuthorizeREST, IfWritable
  <2>2. r.method # "POST"
    BY <2>1 DEF ReadMethods
  <2> QED BY <2>1, <2>2 DEF OnlyReads
<1>2. CASE IsGraphQLPath(r)
  <2> DEFINE b == r.body
             d == r.body.query[1]
             name == NameOf(b.operationName)
  <2>1. AuthorizeGraphQL("ro", r) = "nil"
    BY <1>2 DEF Authorize
  <2>2. /\ r.method = "POST" /\ r.json /\ ~r.encoded
        /\ ClassifyGraphQL(b) = "query"
    BY <2>1 DEF AuthorizeGraphQL, IfWritable
  <2>3. /\ StrictObject(b) /\ b.query # <<>> /\ d.ok
        /\ \A i \in DOMAIN b.extensions : ~b.extensions[i]
        /\ \A i \in DOMAIN b.operationName : b.operationName[i].ok
        /\ SelectOperation(d.ops, name) = "query"
    BY <2>2 DEF ClassifyGraphQL
  <2>4. b \in Body /\ b.query \in Seq(Document) /\ b.operationName \in Seq(NameField)
    BY DEF Request, Body
  <2>5. Len(b.query) = 1 /\ d \in Document /\ d.ops \in Seq(Operation)
    <3>1. Len(b.query) <= 1 /\ b.query # <<>>
      BY <2>3 DEF StrictObject
    <3>3. Len(b.query) = 1
      <4>1. Len(b.query) \in Nat /\ Len(b.query) # 0
        BY <3>1, <2>4, EmptySeq
      <4>2. \A n \in Nat : n # 0 /\ n <= 1 => n = 1
        OBVIOUS
      <4> QED BY <3>1, <4>1, <4>2, Zenon
    <3>4. d \in Document
      BY <3>3, <2>4
    <3>2. d.ops \in Seq(Operation)
      BY <3>4 DEF Document
    <3> QED BY <3>2, <3>3, <3>4
  <2>6. Len(b.operationName) <= 1 /\ DOMAIN b.operationName \subseteq {1}
    BY <2>3, <2>4 DEF StrictObject
  <2>7. Executes(d, name) \subseteq {"query"}
    <3> DEFINE C == Candidates(d.ops, name)
    <3>1. C # {} /\ ~(name = "unnamed" /\ Len(d.ops) > 1)
          /\ d.ops[CHOOSE i \in C : \A j \in C : i <= j].kind = "query"
      BY <2>3 DEF SelectOperation
    <3>2. SUFFICES ASSUME NEW i \in DOMAIN d.ops, ValidDocument(d.ops),
                          name = "unnamed" => Len(d.ops) = 1,
                          name # "unnamed" => d.ops[i].name = name
                   PROVE  d.ops[i].kind = "query"
      BY <2>3 DEF Executes
    <3>3. i \in C
      BY <3>2 DEF Candidates
    <3>4. C = {i}
      <4>1. CASE name = "unnamed"
        <5>1. Len(d.ops) = 1
          BY <4>1, <3>2, Zenon
        <5>2. DOMAIN d.ops = {1}
          BY <5>1, <2>5
        <5> QED BY <5>2, <3>3 DEF Candidates
      <4>2. CASE name # "unnamed"
        BY <4>2, <3>2, <3>3 DEF Candidates, ValidDocument
      <4> QED BY <4>1, <4>2
    <3>5. i \in Nat
      <4>1. DOMAIN d.ops = 1..Len(d.ops) /\ Len(d.ops) \in Nat
        BY <2>5
      <4> QED BY <4>1
    <3>6. (CHOOSE j \in C : \A k \in C : j <= k) = i
      BY <3>4, <3>5
    <3> QED BY <3>1, <3>6
  <2>8. MayExecute(r) = Executes(d, name)
    BY <2>2, <2>3, <2>4, <2>5, <2>6, Unambiguous DEF StrictObject
  <2>9. MayExecute(r) \subseteq {"query"}
    BY <2>7, <2>8
  <2>10. CASE \A p \in Readings(r.path) : AtGraphQL(p)
    BY <2>2, <2>9, <2>10 DEF OnlyReads
  <2>11. CASE \E p \in Readings(r.path) : ~AtGraphQL(p)
    BY <1>2, <2>2, <2>9, <2>11, SamePath DEF QueryElsewhere
  <2> QED BY <2>10, <2>11
<1> QED BY <1>1, <1>2

\* policy.go:27-29: the one code that offers an escalation is given exactly
\* where the escalation would help.
THEOREM EscalationHelps ==
    ASSUME NEW r \in Request
    PROVE  Authorize("ro", r) = "write_requires_publish"
               <=> Authorize("ro", r) # "nil" /\ Authorize("w", r) = "nil"
BY DEF Authorize, AuthorizeGraphQL, AuthorizeREST, IfWritable

\* publish is no narrower than browse or local: class "w" never refuses what
\* class "ro" lets through, and no class sees the escalation code twice.
THEOREM WriteClassIsWider ==
    ASSUME NEW r \in Request
    PROVE  /\ Authorize("ro", r) = "nil" => Authorize("w", r) = "nil"
           /\ Authorize("w", r) # "write_requires_publish"
BY DEF Authorize, AuthorizeGraphQL, AuthorizeREST, IfWritable

\* Nothing is refused without a reason: a whole, plain request that executes a
\* query passes in the read class.
THEOREM PlainReadsPass ==
    ASSUME NEW r \in Request, PlainRead(r)
    PROVE  Authorize("ro", r) = "nil"
<1> IsGraphQLPath(r) <=> \E p \in Readings(r.path) : AtGraphQL(p)
  BY SamePath DEF PlainRead, Readings
<1>1. CASE ~IsGraphQLPath(r)
  BY <1>1 DEF Authorize, AuthorizeREST, PlainRead
<1>2. CASE IsGraphQLPath(r)
  <2> DEFINE b == r.body
             d == r.body.query[1]
             name == NameOf(b.operationName)
  <2>1. /\ r.method = "POST" /\ r.json /\ ~r.encoded
        /\ ~b.long /\ b.shape = "object"
        /\ Len(b.query) = 1 /\ d.ok
        /\ Len(b.operationName) <= 1 /\ Len(b.extensions) <= 1
        /\ MayExecute(r) = {"query"}
    BY <1>2 DEF PlainRead
  <2>2. MayExecute(r) # Kinds
    BY <2>1 DEF Kinds
  <2>3. /\ \A i \in DOMAIN b.extensions : ~b.extensions[i]
        /\ \A i \in DOMAIN b.operationName : b.operationName[i].ok
    <3>1. ~Opaque(r)
      BY <2>2 DEF MayExecute
    <3> QED BY <3>1 DEF Opaque
  <2>4. b.query \in Seq(Document) /\ b.operationName \in Seq(NameField)
    BY DEF Request, Body
  <2>5. DOMAIN b.query = {1} /\ d \in Document
    BY <2>1, <2>4
  <2>6. d.ops \in Seq(Operation)
    BY <2>5 DEF Document
  <2>7. b.operationName = <<>> \/ DOMAIN b.operationName = {1}
    BY <2>1, <2>4
  <2>8. Executes(d, name) = {"query"}
    BY <2>1, <2>3, <2>4, <2>7, Unambiguous
  <2>9. PICK i \in DOMAIN d.ops :
            /\ ValidDocument(d.ops)
            /\ name = "unnamed" => Len(d.ops) = 1
            /\ name # "unnamed" => d.ops[i].name = name
            /\ d.ops[i].kind = "query"
    BY <2>1, <2>8 DEF Executes
  <2> DEFINE C == Candidates(d.ops, name)
  <2>10. DOMAIN d.ops = 1..Len(d.ops) /\ Len(d.ops) \in Nat /\ i \in Nat
    <3>1. DOMAIN d.ops = 1..Len(d.ops) /\ Len(d.ops) \in Nat
      BY <2>6
    <3> QED BY <3>1
  <2>11. C = {i}
    <3>1. CASE name = "unnamed"
      <4>1. Len(d.ops) = 1
        BY <3>1, <2>9, Zenon
      <4>2. DOMAIN d.ops = {1}
        BY <4>1, <2>10
      <4> QED BY <3>1, <4>2 DEF Candidates
    <3>2. CASE name # "unnamed"
      BY <3>2, <2>9 DEF Candidates, ValidDocument
    <3> QED BY <3>1, <3>2
  <2>12. (CHOOSE j \in C : \A k \in C : j <= k) = i
    BY <2>10, <2>11
  <2>13. ~(name = "unnamed" /\ Len(d.ops) > 1)
    <3>1. Len(d.ops) = 1 => ~(Len(d.ops) > 1)
      BY <2>10
    <3> QED BY <2>9, <3>1, Zenon
  <2>14. SelectOperation(d.ops, name) = "query"
    <3>1. C # {} /\ d.ops[i].kind = "query"
      BY <2>9, <2>11
    <3> QED BY <3>1, <2>12, <2>13, Zenon DEF SelectOperation
  <2>15. StrictObject(b)
    BY <2>1, <2>4 DEF StrictObject
  <2>16. ClassifyGraphQL(b) = "query"
    BY <2>1, <2>3, <2>14, <2>15 DEF ClassifyGraphQL
  <2> QED BY <1>2, <2>1, <2>16 DEF Authorize, AuthorizeGraphQL
<1> QED BY <1>1, <1>2

-----------------------------------------------------------------------------
(* The tunnel. *)

\* The pieces that have still to follow piece x.
Owes(x) == IF x.part = "head" THEN x.of.pieces ELSE x.left - 1

\* Piece x is the next one where n pieces of a body are owed.
Follows(x, n) == IF n = 0 THEN x.part = "head" ELSE x.part = "body" /\ x.left = n

\* The pieces the handler has still to find before the next head.
Ahead == IF h \in {"connect", "hello", "mutex", "head"} THEN 0 ELSE Left

\* The wire, from the handler to the client, is an unbroken run of requests.
Unbroken ==
    /\ \A i \in 1 .. (Len(wire) - 1) : Follows(wire[i + 1], Owes(wire[i]))
    /\ wire # <<>> => Follows(wire[1], Ahead) /\ todo = Owes(wire[Len(wire)])
    /\ wire = <<>> => todo = Ahead

\* What the loop knows of the request it works on.
Handled ==
    /\ h \in {"write", "do", "copy", "push"} /\ keep => Left = 0
    /\ h = "drain" => ~keep
    /\ Forwarded => Left = 0 /\ got <= MaxBody /\ Authorize(Class, req.what) = "nil"

IInv == TypeOK /\ (h # "closed" => Unbroken) /\ Handled

LEMMA RequestFields ==
    ASSUME NEW r \in Requests
    PROVE  /\ r.what \in Request /\ r.pieces \in Nat
           /\ r.authority \in BOOLEAN /\ r.upgrade \in BOOLEAN /\ r.close \in BOOLEAN
BY TunnelAssumption DEF TunnelRequest

LEMMA PieceFields ==
    ASSUME NEW x \in Piece
    PROVE  /\ x.part = "head" => x.of \in Requests
           /\ x.part # "head" => x.part = "body" /\ x.left \in Nat \ {0}
           /\ Owes(x) \in Nat
BY RequestFields DEF Piece, Owes

\* Appending to an unbroken wire the piece that is owed leaves it unbroken.
LEMMA AppendUnbroken ==
    ASSUME NEW w \in Seq(Piece), NEW x \in Piece, NEW n, NEW a,
           \A i \in 1 .. (Len(w) - 1) : Follows(w[i + 1], Owes(w[i])),
           w # <<>> => Follows(w[1], a) /\ n = Owes(w[Len(w)]),
           w = <<>> => n = a,
           Follows(x, n)
    PROVE  /\ \A i \in 1 .. (Len(Append(w, x)) - 1) :
                  Follows(Append(w, x)[i + 1], Owes(Append(w, x)[i]))
           /\ Append(w, x) # <<>>
           /\ Follows(Append(w, x)[1], a)
           /\ Append(w, x)[Len(Append(w, x))] = x
<1> DEFINE v == Append(w, x)
<1>1. /\ v \in Seq(Piece) /\ Len(v) = Len(w) + 1 /\ Len(w) \in Nat
      /\ \A i \in 1 .. Len(w) : v[i] = w[i]
      /\ v[Len(w) + 1] = x
  OBVIOUS
<1>2. ASSUME NEW i \in 1 .. (Len(v) - 1)
      PROVE  Follows(v[i + 1], Owes(v[i]))
  <2>1. CASE i < Len(w)
    BY <2>1, <1>1
  <2>2. CASE i = Len(w)
    <3>1. w # <<>> /\ v[i] = w[Len(w)] /\ v[i + 1] = x
      BY <2>2, <1>1
    <3> QED BY <3>1
  <2> QED BY <2>1, <2>2, <1>1
<1>3. Follows(v[1], a)
  <2>1. CASE w = <<>>
    BY <2>1, <1>1
  <2>2. CASE w # <<>>
    BY <2>2, <1>1
  <2> QED BY <2>1, <2>2
<1> QED BY <1>1, <1>2, <1>3

\* Taking the first piece off an unbroken wire leaves it unbroken.
LEMMA TailUnbroken ==
    ASSUME NEW w \in Seq(Piece), w # <<>>, NEW n,
           \A i \in 1 .. (Len(w) - 1) : Follows(w[i + 1], Owes(w[i])),
           n = Owes(w[Len(w)])
    PROVE  /\ Tail(w) \in Seq(Piece)
           /\ \A i \in 1 .. (Len(Tail(w)) - 1) : Follows(Tail(w)[i + 1], Owes(Tail(w)[i]))
           /\ Tail(w) # <<>> => /\ Follows(Tail(w)[1], Owes(w[1]))
                                /\ n = Owes(Tail(w)[Len(Tail(w))])
           /\ Tail(w) = <<>> => n = Owes(w[1])
<1> DEFINE v == Tail(w)
<1>1. /\ v \in Seq(Piece) /\ Len(v) = Len(w) - 1 /\ Len(w) \in Nat \ {0}
      /\ \A i \in 1 .. Len(v) : v[i] = w[i + 1]
  OBVIOUS
<1>2. ASSUME NEW i \in 1 .. (Len(v) - 1)
      PROVE  Follows(v[i + 1], Owes(v[i]))
  <2>1. v[i] = w[i + 1] /\ v[i + 1] = w[(i + 1) + 1] /\ i + 1 \in 1 .. (Len(w) - 1)
    BY <1>1
  <2> QED BY <2>1
<1>3. ASSUME v # <<>>
      PROVE  Follows(v[1], Owes(w[1])) /\ n = Owes(v[Len(v)])
  <2>1. Len(v) \in Nat \ {0} /\ Len(w) > 1
    BY <1>1, <1>3
  <2>2. v[1] = w[1 + 1] /\ v[Len(v)] = w[Len(w)] /\ 1 \in 1 .. (Len(w) - 1)
    BY <1>1, <2>1
  <2> QED BY <2>2
<1>4. ASSUME v = <<>>
      PROVE  n = Owes(w[1])
  <2>1. Len(v) = 0
    BY <1>4, EmptySeq, Zenon
  <2>2. \A k \in Nat : k - 1 = 0 => k = 1
    OBVIOUS
  <2>3. Len(w) = 1
    BY <1>1, <2>1, <2>2, Zenon
  <2> QED BY <2>3, Zenon
<1> QED BY <1>1, <1>2, <1>3, <1>4

LEMMA InitInv == Init => IInv
<1> SUFFICES ASSUME Init PROVE IInv
  OBVIOUS
<1>1. req \in Requests
  BY TunnelAssumption DEF Init
<1>2. req.pieces \in Nat
  BY <1>1, RequestFields
<1>3. TypeOK
  <2>1. req.pieces - 0 \in Nat
    BY <1>2
  <2>2. Left \in Nat /\ got \in Nat
    BY <2>1 DEF Init, Left
  <2>3. wire \in Seq(Piece) /\ todo \in Nat /\ eof \in BOOLEAN /\ keep \in BOOLEAN
    <3>1. wire \in Seq(Piece)
      BY EmptySeq, Zenon DEF Init
    <3> QED BY <3>1 DEF Init
  <2>4. h \in HandlerStates /\ up \in {"none", "sending", "awaiting"}
    BY DEF Init, HandlerStates
  <2>5. clock \in Nat /\ now \in Nat /\ leaf \in Nat
    BY LeafAssumption DEF Init
  <2> QED BY <1>1, <2>2, <2>3, <2>4, <2>5 DEF TypeOK
<1>4. Unbroken
  BY DEF Init, Unbroken, Ahead
<1>5. Handled
  BY DEF Init, Handled, Forwarded
<1> QED BY <1>3, <1>4, <1>5 DEF IInv


LEMMA ClientInv ==
    ASSUME IInv, ClientStep PROVE IInv'
<1>1. ASSUME NEW r \in Requests, SendHead(r) PROVE IInv'
  <2> DEFINE x == [part |-> "head", of |-> r]
  <2>1. x \in Piece /\ Owes(x) = r.pieces /\ r.pieces \in Nat
    BY RequestFields DEF Piece, Owes
  <2>2. h # "closed" /\ todo = 0 /\ wire' = Append(wire, x) /\ todo' = r.pieces
    BY <1>1 DEF SendHead, CanSend
  <2>3. Follows(x, todo)
    BY <2>2 DEF Follows
  <2>4. TypeOK'
    BY <1>1, <2>1, <2>2 DEF IInv, TypeOK, SendHead, leafVars, loopVars, Left
  <2>5. Ahead' = Ahead
    BY <1>1 DEF SendHead, loopVars, Ahead, Left
  <2>6. Unbroken'
    <3> DEFINE v == Append(wire, x)
    <3>1. /\ \A i \in 1 .. (Len(v) - 1) : Follows(v[i + 1], Owes(v[i]))
          /\ v # <<>> /\ Follows(v[1], Ahead) /\ v[Len(v)] = x
      BY <2>1, <2>2, <2>3, AppendUnbroken DEF IInv, TypeOK, Unbroken
    <3>2. todo' = Owes(v[Len(v)])
      BY <2>1, <2>2, <3>1
    <3> HIDE DEF v
    <3> QED BY <3>1, <3>2, <2>2, <2>5 DEF Unbroken, v
  <2>7. Handled'
    BY <1>1 DEF IInv, SendHead, loopVars, Handled, Forwarded, Left
  <2> QED BY <2>4, <2>6, <2>7 DEF IInv
<1>2. ASSUME SendPiece PROVE IInv'
  <2> DEFINE x == [part |-> "body", left |-> todo]
  <2>1. h # "closed" /\ todo > 0 /\ wire' = Append(wire, x) /\ todo' = todo - 1
    BY <1>2 DEF SendPiece, CanSend
  <2>2. todo \in Nat \ {0}
    BY <2>1 DEF IInv, TypeOK
  <2>3. x \in Piece /\ Owes(x) = todo - 1
    BY <2>2 DEF Piece, Owes
  <2>4. Follows(x, todo)
    BY <2>2 DEF Follows
  <2>5. TypeOK'
    BY <1>2, <2>1, <2>2, <2>3 DEF IInv, TypeOK, SendPiece, leafVars, loopVars, Left
  <2>6. Ahead' = Ahead
    BY <1>2 DEF SendPiece, loopVars, Ahead, Left
  <2>7. Unbroken'
    <3> DEFINE v == Append(wire, x)
    <3>1. /\ \A i \in 1 .. (Len(v) - 1) : Follows(v[i + 1], Owes(v[i]))
          /\ v # <<>> /\ Follows(v[1], Ahead) /\ v[Len(v)] = x
      BY <2>1, <2>3, <2>4, AppendUnbroken DEF IInv, TypeOK, Unbroken
    <3>2. todo' = Owes(v[Len(v)])
      BY <2>1, <2>3, <3>1
    <3> HIDE DEF v
    <3> QED BY <3>1, <3>2, <2>1, <2>6 DEF Unbroken, v
  <2>8. Handled'
    BY <1>2 DEF IInv, SendPiece, loopVars, Handled, Forwarded, Left
  <2> QED BY <2>5, <2>7, <2>8 DEF IInv
<1>3. ASSUME Disconnect PROVE IInv'
  BY <1>3 DEF Disconnect, leafVars, loopVars,
              IInv, TypeOK, Left, Unbroken, Ahead, Handled, Forwarded
<1> QED BY <1>1, <1>2, <1>3 DEF ClientStep

LEMMA CurrentLeafFresh ==
    ASSUME NEW n \in Nat, leaf \in Nat
    PROVE  /\ CurrentLeaf(n) \in Nat
           /\ CurrentLeaf(n) > n + Renewal
           /\ CurrentLeaf(n) >= leaf
BY LeafAssumption DEF CurrentLeaf, LeafFor

LEMMA HandshakeInv ==
    ASSUME IInv, Handshake \/ Tick \/ OtherHandshake PROVE IInv'
<1> USE DEF IInv, TypeOK, HandlerStates, Left, Handled, Forwarded, clientVars, loopVars
<1>1. CASE Connected
  BY <1>1 DEF Connected, leafVars, Unbroken, Ahead
<1>2. CASE NotConnected
  BY <1>2 DEF NotConnected, leafVars
<1>3. CASE Hello
  BY <1>3 DEF Hello, Unbroken, Ahead
<1>4. CASE ServeLeaf
  BY <1>4, CurrentLeafFresh DEF ServeLeaf, Unbroken, Ahead
<1>5. CASE Tick
  BY <1>5 DEF Tick, Unbroken, Ahead
<1>6. CASE OtherHandshake
  <2>1. PICK n \in 0 .. clock : leaf' = CurrentLeaf(n)
    BY <1>6 DEF OtherHandshake
  <2>2. leaf' \in Nat
    BY <2>1, CurrentLeafFresh
  <2> QED BY <1>6, <2>2 DEF OtherHandshake, Unbroken, Ahead
<1> QED BY <1>1, <1>2, <1>3, <1>4, <1>5, <1>6 DEF Handshake

\* Reading a piece of the body keeps the wire unbroken.
LEMMA PieceRead ==
    ASSUME IInv, h \in {"body", "drain"}, Left # 0, wire # <<>>,
           wire' = Tail(wire), got' = got + 1, h' = h,
           UNCHANGED <<todo, req>>
    PROVE  wire' \in Seq(Piece) /\ Left' \in Nat /\ got' \in Nat /\ Unbroken'
<1>1. /\ wire \in Seq(Piece) /\ Left \in Nat \ {0} /\ got \in Nat /\ req \in Requests
      /\ Ahead = Left /\ Unbroken
  BY DEF IInv, TypeOK, Ahead
<1>2. req.pieces \in Nat
  BY <1>1, RequestFields
<1>3. Left' = Left - 1
  BY <1>1, <1>2 DEF Left
<1>4. Owes(wire[1]) = Left - 1
  BY <1>1 DEF Unbroken, Follows, Owes
<1>5. Ahead' = Owes(wire[1])
  BY <1>3, <1>4 DEF Ahead
<1>6. /\ wire' \in Seq(Piece)
      /\ \A i \in 1 .. (Len(wire') - 1) : Follows(wire'[i + 1], Owes(wire'[i]))
      /\ wire' # <<>> => Follows(wire'[1], Owes(wire[1])) /\ todo = Owes(wire'[Len(wire')])
      /\ wire' = <<>> => todo = Owes(wire[1])
  BY <1>1, TailUnbroken DEF Unbroken
<1>7. Unbroken'
  BY <1>5, <1>6 DEF Unbroken
<1> QED BY <1>1, <1>3, <1>6, <1>7

LEMMA HandlerInv ==
    ASSUME IInv, HandlerStep PROVE IInv'
<1>1. CASE ReadHead
  <2>1. /\ h = "head" /\ wire # <<>> /\ wire \in Seq(Piece) /\ Ahead = 0 /\ Unbroken
        /\ wire' = Tail(wire) /\ UNCHANGED <<todo, eof, up, leafVars>>
    BY <1>1 DEF ReadHead, IInv, TypeOK, Ahead
  <2> DEFINE r == Head(wire).of
  <2>2. wire[1] = Head(wire) /\ wire[1] \in Piece
    BY <2>1
  <2>3. Head(wire).part = "head" /\ r \in Requests /\ Owes(wire[1]) = r.pieces
    BY <2>1, <2>2, PieceFields DEF Unbroken, Follows, Owes
  <2>4. AcceptHead(r) /\ req' = r /\ got' = 0
    BY <1>1, <2>3 DEF ReadHead
  <2>5. r.pieces \in Nat /\ Left' = r.pieces
    BY <2>3, <2>4, RequestFields DEF Left
  <2>6. h' \in {"body", "write"} /\ keep' \in BOOLEAN /\ (h' = "write" => ~keep')
    BY <2>4 DEF AcceptHead
  <2>7. Ahead' = Owes(wire[1])
    BY <2>3, <2>5, <2>6 DEF Ahead
  <2>8. /\ wire' \in Seq(Piece)
        /\ \A i \in 1 .. (Len(wire') - 1) : Follows(wire'[i + 1], Owes(wire'[i]))
        /\ wire' # <<>> => Follows(wire'[1], Owes(wire[1])) /\ todo = Owes(wire'[Len(wire')])
        /\ wire' = <<>> => todo = Owes(wire[1])
    BY <2>1, TailUnbroken DEF Unbroken
  <2>9. Unbroken'
    BY <2>1, <2>7, <2>8 DEF Unbroken
  <2>10. TypeOK'
    BY <2>1, <2>3, <2>4, <2>5, <2>6, <2>8 DEF IInv, TypeOK, HandlerStates, leafVars
  <2>11. Handled'
    BY <2>6 DEF Handled, Forwarded
  <2> QED BY <2>9, <2>10, <2>11 DEF IInv
<1>2. CASE ReadPiece
  <2>1. wire' \in Seq(Piece) /\ Left' \in Nat /\ got' \in Nat /\ Unbroken'
    BY <1>2, PieceRead DEF ReadPiece
  <2>2. TypeOK' /\ Handled'
    BY <1>2, <2>1 DEF ReadPiece, IInv, TypeOK, leafVars, Handled, Forwarded
  <2> QED BY <2>1, <2>2 DEF IInv
<1>3. CASE Decide
  <2>1. h = "body" /\ h' \in {"drain", "write", "do"} /\ Ahead' = Ahead
    BY <1>3 DEF Decide, Ahead, Left
  <2>2. Unbroken'
    BY <1>3, <2>1 DEF Decide, IInv, clientVars, Unbroken
  <2>3. TypeOK'
    BY <1>3, <2>1 DEF Decide, IInv, TypeOK, HandlerStates, clientVars, leafVars, Left
  <2>4. Handled'
    <3>1. MaxBody \in Nat /\ got \in Nat /\ Left' = Left
      BY <1>3, TunnelAssumption DEF Decide, IInv, TypeOK, clientVars, Left
    <3>2. CASE got > MaxBody
      BY <1>3, <3>2 DEF Decide, Handled, Forwarded
    <3>3. CASE ~(got > MaxBody) /\ Authorize(Class, req.what) # "nil"
      BY <1>3, <3>1, <3>3 DEF Decide, Handled, Forwarded
    <3>4. CASE ~(got > MaxBody) /\ Authorize(Class, req.what) = "nil"
      <4>1. h' = "do" /\ Left' = 0 /\ UNCHANGED <<got, req>>
        BY <1>3, <3>1, <3>4 DEF Decide
      <4>2. got' <= MaxBody
        BY <3>1, <3>4, <4>1
      <4> QED BY <3>4, <4>1, <4>2 DEF Handled, Forwarded
    <3> QED BY <3>2, <3>3, <3>4
  <2> QED BY <2>2, <2>3, <2>4 DEF IInv
<1>4. CASE Drain
  <2>1. CASE h' = "write"
    <3>1. h = "drain" /\ h' = "write" /\ ~keep /\ UNCHANGED <<wire, got, todo, eof, req, keep, up, leafVars>>
      BY <1>4, <2>1 DEF Drain, IInv, Handled
    <3>2. Ahead' = Ahead /\ Unbroken'
      BY <3>1 DEF Ahead, Left, Unbroken, IInv
    <3>3. TypeOK' /\ Handled'
      BY <3>1 DEF IInv, TypeOK, HandlerStates, leafVars, Left, Handled, Forwarded
    <3> QED BY <3>2, <3>3 DEF IInv
  <2>2. CASE h' # "write"
    <3>1. wire' \in Seq(Piece) /\ Left' \in Nat /\ got' \in Nat /\ Unbroken'
      BY <1>4, <2>2, PieceRead DEF Drain
    <3>2. TypeOK' /\ Handled'
      BY <1>4, <2>2, <3>1 DEF Drain, IInv, TypeOK, leafVars, Handled, Forwarded
    <3> QED BY <3>1, <3>2 DEF IInv
  <2> QED BY <2>1, <2>2
<1> QED BY <1>1, <1>2, <1>3, <1>4 DEF HandlerStep

\* A step of the loop that reads nothing from the wire.
LEMMA Untouched ==
    ASSUME IInv, h \notin {"connect", "hello", "mutex", "head", "closed"},
           UNCHANGED <<wire, todo, req, got>>,
           h' = "head" => Left = 0, h' \notin {"connect", "hello", "mutex"}
    PROVE  Left' = Left /\ Unbroken'
<1>1. Ahead = Left /\ Left' = Left
  BY DEF Ahead, Left
<1>2. Ahead' = Ahead
  BY <1>1 DEF Ahead
<1> QED BY <1>1, <1>2 DEF IInv, Unbroken

LEMMA LoopInv ==
    ASSUME IInv, UpstreamReads \/ DoReturns \/ CopyReads \/ Written \/ Deadlines PROVE IInv'
<1>1. CASE UpstreamReads
  BY <1>1 DEF UpstreamReads, clientVars, leafVars, IInv, TypeOK, Left, Unbroken, Ahead,
              Handled, Forwarded
<1>2. CASE DoReturns
  <2>1. Left' = Left /\ Unbroken'
    BY <1>2, Untouched DEF DoReturns, clientVars
  <2> QED BY <1>2, <2>1 DEF DoReturns, clientVars, leafVars, IInv, TypeOK, HandlerStates, Handled, Forwarded
<1>3. CASE CopyReads
  <2>1. /\ h = "copy" /\ h' \in {"push", "head", "closed"} /\ UNCHANGED <<clientVars, loopVars, leafVars>>
        /\ h' = "head" => keep
    BY <1>3 DEF CopyReads, Finish
  <2>2. h' = "head" => Left = 0
    BY <2>1 DEF IInv, Handled
  <2>3. Left' = Left /\ Unbroken'
    BY <2>1, <2>2, Untouched DEF clientVars, loopVars
  <2> QED BY <2>1, <2>3 DEF clientVars, loopVars, leafVars, IInv, TypeOK, HandlerStates, Handled, Forwarded
<1>4. CASE Written
  <2>1. /\ h \in {"write", "push"} /\ UNCHANGED <<clientVars, loopVars, leafVars>>
        /\ h' \in {"copy", "head", "closed"} /\ (h' = "copy" => h = "push")
        /\ h' = "head" => keep
    BY <1>4 DEF Written, Finish
  <2>2. h' = "head" => Left = 0
    BY <2>1 DEF IInv, Handled
  <2>3. Left' = Left /\ Unbroken'
    BY <2>1, <2>2, Untouched DEF clientVars, loopVars
  <2> QED BY <2>1, <2>3 DEF clientVars, loopVars, leafVars, IInv, TypeOK, HandlerStates, Handled, Forwarded
<1>5. CASE ReadFails
  <2>1. CASE h = "head"
    BY <1>5, <2>1 DEF ReadFails, clientVars, leafVars, IInv, TypeOK, HandlerStates, Left, Handled, Forwarded
  <2>2. CASE h \in {"body", "drain"}
    <3>1. h' = "write" /\ UNCHANGED <<clientVars, req, got, leafVars, up>>
      BY <1>5, <2>2 DEF ReadFails
    <3>2. keep' = FALSE \/ (h = "drain" /\ keep' = keep)
      BY <1>5, <2>2, Zenon DEF ReadFails
    <3>3. h = "drain" => keep = FALSE
      BY DEF IInv, TypeOK, Handled
    <3>4. keep' = FALSE
      BY <3>2, <3>3, Zenon
    <3>5. Left' = Left /\ Unbroken'
      BY <2>2, <3>1, Untouched DEF clientVars
    <3> QED BY <3>1, <3>5, <3>4 DEF clientVars, leafVars, IInv, TypeOK, HandlerStates, Handled, Forwarded
  <2> QED BY <1>5, <2>1, <2>2 DEF ReadFails
<1>6. CASE DoFails
  <2>1. h = "do" /\ h' = "write" /\ ~keep' /\ keep' \in BOOLEAN /\ up' = "none" /\ UNCHANGED <<clientVars, req, got, leafVars>>
    BY <1>6 DEF DoFails
  <2>2. Left' = Left /\ Unbroken'
    BY <2>1, Untouched DEF clientVars
  <2> QED BY <2>1, <2>2 DEF clientVars, leafVars, IInv, TypeOK, HandlerStates, Handled, Forwarded
<1>7. CASE WriteFails
  BY <1>7 DEF WriteFails, clientVars, loopVars, leafVars, IInv, TypeOK, HandlerStates, Left, Handled, Forwarded
<1> QED BY <1>1, <1>2, <1>3, <1>4, <1>5, <1>6, <1>7 DEF Deadlines

LEMMA StepInv == IInv /\ [Next]_vars => IInv'
<1> SUFFICES ASSUME IInv, [Next]_vars PROVE IInv'
  OBVIOUS
<1>1. CASE Next
  BY <1>1, ClientInv, HandshakeInv, HandlerInv, LoopInv DEF Next
<1>2. CASE UNCHANGED vars
  BY <1>2 DEF vars, clientVars, loopVars, leafVars, IInv, TypeOK, Left, Unbroken, Ahead, Handled, Forwarded
<1> QED BY <1>1, <1>2

THEOREM Invariant == Spec => []IInv
<1> QED BY InitInv, StepInv, PTL DEF Spec

\* Every variable of the connection stays in its set, whatever the requests.
THEOREM TypeCorrect == Spec => []TypeOK
<1>1. IInv => TypeOK
  BY DEF IInv
<1> QED BY Invariant, <1>1, PTL

\* The loop never takes a piece of a body for a request's head, and forwards
\* nothing but whole requests within maxRequestBody, for any requests,
\* pipelined in any way.
THEOREM BoundariesHold == Spec => []WholeRequests
<1>1. IInv => WholeRequests
  <2> SUFFICES ASSUME IInv PROVE WholeRequests
    OBVIOUS
  <2>1. ASSUME h = "head", wire # <<>> PROVE Head(wire).part = "head"
    BY <2>1 DEF IInv, TypeOK, Unbroken, Ahead, Follows
  <2>2. ASSUME Forwarded PROVE got = req.pieces /\ got <= MaxBody
    <3>1. req.pieces - got = 0 /\ got <= MaxBody /\ got \in Nat /\ req \in Requests
      BY <2>2 DEF IInv, TypeOK, Handled, Left
    <3> QED BY <3>1, RequestFields
  <2> QED BY <2>1, <2>2 DEF WholeRequests
<1> QED BY Invariant, <1>1, PTL

\* What a read-only ingress forwards can only read, for every request and
\* every history of the connection; a mark in the path extends the allowance of
\* a query, and of nothing else, to the path behind it.
THEOREM ReadOnlyIngress == Spec => []OnlyReadsUnlessMarked
<1>1. IInv => OnlyReadsUnlessMarked
  <2> SUFFICES ASSUME IInv, Forwarded, Class = "ro"
               PROVE  OnlyReads(req.what) \/ QueryElsewhere(req.what)
    BY DEF OnlyReadsUnlessMarked
  <2>1. req.what \in Request /\ Authorize("ro", req.what) = "nil"
    BY RequestFields DEF IInv, TypeOK, Handled
  <2> QED BY <2>1, ReadClassIsReadOnly
<1> QED BY Invariant, <1>1, PTL

\* No handshake serves a leaf within the renewal margin of its expiry or
\* replaces a leaf by an older one, for every validity and margin.
THEOREM FreshLeaves == Spec => LeafFresh
<1>1. TypeOK /\ [Next]_vars => [(h = "mutex" /\ h' = "head" => leaf' > now + Renewal) /\ leaf' >= leaf]_vars
  <2> SUFFICES ASSUME TypeOK, Next
               PROVE  (h = "mutex" /\ h' = "head" => leaf' > now + Renewal) /\ leaf' >= leaf
    OBVIOUS
  <2>1. leaf \in Nat /\ now \in Nat /\ clock \in Nat
    BY DEF TypeOK
  <2>2. CASE ServeLeaf
    BY <2>1, <2>2, CurrentLeafFresh DEF ServeLeaf
  <2>3. CASE OtherHandshake
    <3>1. PICK n \in 0 .. clock : leaf' = CurrentLeaf(n)
      BY <2>3 DEF OtherHandshake
    <3> QED BY <2>1, <2>3, <3>1, CurrentLeafFresh DEF OtherHandshake
  <2>4. CASE ~ServeLeaf /\ ~OtherHandshake
    <3>1. leaf' = leaf
      BY <2>4 DEF Next, ClientStep, SendHead, SendPiece, Disconnect, Handshake, Connected,
                  NotConnected, Hello, Tick, HandlerStep, ReadHead, ReadPiece, Decide, Drain,
                  Deadlines, ReadFails, DoFails, WriteFails, UpstreamReads, DoReturns,
                  CopyReads, Written, leafVars
    <3>2. ~(h = "mutex" /\ h' = "head")
      BY <2>4 DEF Next, ClientStep, SendHead, SendPiece, Disconnect, Handshake, Connected,
                  NotConnected, Hello, Tick, HandlerStep, ReadHead, ReadPiece, Decide, Drain,
                  Deadlines, ReadFails, DoFails, WriteFails, UpstreamReads, DoReturns,
                  CopyReads, Written
    <3> QED BY <2>1, <3>1, <3>2
  <2> QED BY <2>2, <2>3, <2>4
<1> QED BY TypeCorrect, <1>1, PTL DEF Spec, LeafFresh

==============================================================================
