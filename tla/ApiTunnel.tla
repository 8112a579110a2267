------------------------------ MODULE ApiTunnel ------------------------------
(***************************************************************************)
(* One intercepted connection to api.github.com (src/gateway.go): the      *)
(* CONNECT, the TLS handshake with the leaf certificate all connections of *)
(* the instance share, and serveTunnel's loop over the requests.  What may *)
(* pass is decided by Policy.                                              *)
(***************************************************************************)
EXTENDS Policy, Integers

CONSTANTS Requests, \* the requests the client may send
          Class,    \* policyClass of the ingress
          MaxWire,  \* bound: pieces on their way to the gateway
          MaxBody,  \* maxRequestBody, in pieces
          Validity, \* leafValidity
          Renewal,  \* leafRenewal
          MaxClock, \* bound: the time that passes before a leaf is served
          Faults    \* "upstream": it may fail; "stall": deadlines may pass

\* pieces: how many the body takes on the wire; authority: it is the tunnel's
\* host; upgrade: there is an Upgrade header; close: req.Close.
TunnelRequest == [what : Request, pieces : Nat, authority : BOOLEAN,
                  upgrade : BOOLEAN, close : BOOLEAN]

ASSUME TunnelAssumption ==
    /\ Requests \subseteq TunnelRequest /\ Requests # {}
    /\ Class \in Classes
    /\ MaxWire \in Nat \ {0} /\ MaxBody \in Nat /\ MaxClock \in Nat
    /\ Faults \subseteq {"upstream", "stall"}

\* tls.go:24: a leaf outlives its renewal margin.
ASSUME LeafAssumption == Validity \in Nat /\ Renewal \in Nat /\ Renewal < Validity

VARIABLES
    wire,  \* what the client sent and the handler has not read
    todo,  \* pieces of its latest body the client has still to send
    eof,   \* the client closed its side
    h,     \* where the handler goroutine is
    req,   \* the request it works on
    got,   \* pieces of its body read so far
    keep,  \* keepAlive
    up,    \* the upstream's part in client.Do
    clock, \* the time, until this connection has its leaf; 0 from then on
    now,   \* the time this connection's handshake read, until then
    leaf   \* NotAfter of the leaf in g.leaves

clientVars == <<wire, todo, eof>>
loopVars == <<req, got, keep, up>>
leafVars == <<clock, now, leaf>>
vars == <<clientVars, h, loopVars, leafVars>>

\* connect: reading the CONNECT; hello: in the handshake; mutex: waiting for
\* leafMu; head, body: reading; drain: req.Body.Close() reads on; write: writing
\* an answer of the gateway's own; do: in client.Do; copy: reading the
\* response's body; push: writing a piece of it.
HandlerStates == {"connect", "hello", "mutex", "head", "body", "drain", "write",
                  "do", "copy", "push", "closed"}

\* A piece on the wire; those of a body are numbered down to 1, its last.
Piece == [part : {"head"}, of : Requests] \cup [part : {"body"}, left : Nat \ {0}]

Init ==
    /\ wire = <<>> /\ todo = 0 /\ eof = FALSE
    /\ h = "connect"
    /\ req \in {CHOOSE r \in Requests : TRUE}   \* of no meaning before a head
    /\ got = 0 /\ keep = TRUE /\ up = "none"
    /\ clock = 0 /\ now = 0 /\ leaf = Validity  \* newGateway's, made at 0

-----------------------------------------------------------------------------
(* The client; it may pipeline.                                              *)

CanSend == ~eof /\ Len(wire) < MaxWire /\ h \notin {"connect", "hello", "mutex", "closed"}

SendHead(r) ==
    /\ CanSend /\ todo = 0
    /\ wire' = Append(wire, [part |-> "head", of |-> r])
    /\ todo' = r.pieces
    /\ UNCHANGED <<eof, h, loopVars, leafVars>>

SendPiece ==
    /\ CanSend /\ todo > 0
    /\ wire' = Append(wire, [part |-> "body", left |-> todo])
    /\ todo' = todo - 1
    /\ UNCHANGED <<eof, h, loopVars, leafVars>>

Disconnect ==
    /\ ~eof
    /\ eof' = TRUE
    /\ UNCHANGED <<wire, todo, h, loopVars, leafVars>>

-----------------------------------------------------------------------------
(* CONNECT and handshake.                                                    *)

\* The CONNECT is for api.github.com:443 and is answered.
Connected ==
    /\ h = "connect"
    /\ h' = "hello"
    /\ UNCHANGED <<clientVars, loopVars, leafVars>>

\* No CONNECT came in gatewayIdle, it was refused, or the handshake failed.
\* (Nothing bounds a client that stalls inside the handshake.)
NotConnected ==
    /\ h = "connect" \/ (h = "hello" /\ eof)
    /\ h' = "closed"
    /\ UNCHANGED <<clientVars, loopVars, leafVars>>

Tick ==
    /\ clock < MaxClock /\ h \in {"connect", "hello", "mutex"}
    /\ clock' = clock + 1
    /\ UNCHANGED <<clientVars, h, loopVars, now, leaf>>

\* GetCertificate: the time is read before the mutex is asked for.
Hello ==
    /\ h = "hello"
    /\ h' = "mutex"
    /\ now' = clock
    /\ UNCHANGED <<clientVars, loopVars, clock, leaf>>

\* leafFor(host, n), by its NotAfter.
LeafFor(n) == n + Validity

\* Defect: a leaf is replaced only once it has expired.
LeafUntilExpiry(n) == IF n < leaf THEN leaf ELSE LeafFor(n)

\* currentLeaf(host, n): the leaf that is kept, and served.
CurrentLeaf(n) == IF n < leaf - Renewal THEN leaf ELSE LeafFor(n)

ServeLeaf ==
    /\ h = "mutex"
    /\ h' = "head"
    /\ leaf' = CurrentLeaf(now)
    /\ clock' = 0 /\ now' = 0
    /\ UNCHANGED <<clientVars, loopVars>>

\* Another connection's handshake, which read the time at some n before.
OtherHandshake ==
    /\ h \in {"connect", "hello", "mutex"}
    /\ \E n \in 0..clock : leaf' = CurrentLeaf(n)
    /\ UNCHANGED <<clientVars, h, loopVars, clock, now>>

-----------------------------------------------------------------------------
(* serveTunnel and dispatch.                                                 *)

Left == req.pieces - got

\* Defect: a refused authority keeps the connection, its body unread.
AcceptKeeping(r) ==
    /\ h' = IF r.authority /\ ~r.upgrade THEN "body" ELSE "write"
    /\ keep' = ~r.close

\* dispatch up to the reading of the body.
AcceptHead(r) ==
    /\ h' = IF r.authority /\ ~r.upgrade THEN "body" ELSE "write"
    /\ keep' = (r.authority /\ ~r.upgrade /\ ~r.close)

ReadHead ==
    /\ h = "head" /\ wire # <<>>
    /\ wire' = Tail(wire)
    /\ IF Head(wire).part = "head"
       THEN /\ AcceptHead(Head(wire).of)
            /\ req' = Head(wire).of
            /\ got' = 0
       ELSE h' = "closed" /\ UNCHANGED <<req, got, keep>>
    /\ UNCHANGED <<todo, eof, up, leafVars>>

\* Defect: the body is read past its length.
ReadPieceOrMore ==
    /\ h = "body" /\ got <= MaxBody /\ wire # <<>>
    /\ wire' = Tail(wire)
    /\ got' = got + 1
    /\ UNCHANGED <<todo, eof, h, req, keep, up, leafVars>>

\* io.ReadAll of at most MaxBody + 1 pieces.
ReadPiece ==
    /\ h = "body" /\ Left > 0 /\ got <= MaxBody /\ wire # <<>>
    /\ wire' = Tail(wire)
    /\ got' = got + 1
    /\ UNCHANGED <<todo, eof, h, req, keep, up, leafVars>>

\* The body is there, or too much of it: decide.
Decide ==
    /\ h = "body" /\ (Left = 0 \/ got > MaxBody)
    /\ IF got > MaxBody THEN h' = "drain" /\ keep' = FALSE /\ UNCHANGED up
       ELSE IF Authorize(Class, req.what) # "nil" THEN h' = "write" /\ UNCHANGED <<keep, up>>
       ELSE h' = "do" /\ up' = "sending" /\ UNCHANGED keep
    /\ UNCHANGED <<clientVars, req, got, leafVars>>

\* Closing the body of a request that may be followed by another reads it to
\* its end, and so does closing a chunked one; the answer, a 413, waits for that.
Drain ==
    /\ h = "drain"
    /\ \/ /\ Left = 0 \/ req.close
          /\ h' = "write" /\ UNCHANGED <<wire, got>>
       \/ /\ Left > 0 /\ wire # <<>>
          /\ wire' = Tail(wire) /\ got' = got + 1 /\ UNCHANGED h
    /\ UNCHANGED <<todo, eof, req, keep, up, leafVars>>

\* Defect: the read deadline is for the head only.
ReadFailsOnClose ==
    /\ (eof /\ wire = <<>>) \/ (h = "head" /\ "stall" \in Faults)
    /\ \/ h = "head" /\ h' = "closed" /\ UNCHANGED keep
       \/ h = "body" /\ Left > 0 /\ got <= MaxBody /\ h' = "write" /\ keep' = FALSE
       \/ h = "drain" /\ h' = "write" /\ UNCHANGED keep
    /\ UNCHANGED <<clientVars, req, got, up, leafVars>>

\* A read fails: the client closed, or the loop's read deadline, set when the
\* request was first waited for, has passed.  A body that breaks off is a 400.
ReadFails ==
    /\ (eof /\ wire = <<>>) \/ "stall" \in Faults
    /\ \/ h = "head" /\ h' = "closed" /\ UNCHANGED keep
       \/ h = "body" /\ Left > 0 /\ got <= MaxBody /\ h' = "write" /\ keep' = FALSE
       \/ h = "drain" /\ h' = "write" /\ UNCHANGED keep
    /\ UNCHANGED <<clientVars, req, got, up, leafVars>>

\* Dial, TLS and the request's body; once that is written, up to
\* gatewayResponse for the response's head.
UpstreamReads == up = "sending" /\ up' = "awaiting" /\ UNCHANGED <<clientVars, h, req, got, keep, leafVars>>

DoReturns ==
    /\ h = "do" /\ up = "awaiting"
    /\ h' = "copy" /\ up' = "none"
    /\ UNCHANGED <<clientVars, req, got, keep, leafVars>>

\* 502: it was refused, reset, or late.
DoFails ==
    /\ h = "do" /\ ("upstream" \in Faults \/ (up = "awaiting" /\ "stall" \in Faults))
    /\ h' = "write" /\ keep' = FALSE /\ up' = "none"
    /\ UNCHANGED <<clientVars, req, got, leafVars>>

\* resp.Write is done: the loop reads the next request or ends.
Finish == h' = IF keep THEN "head" ELSE "closed"

\* responseDeadlineBody: no write deadline while the upstream is waited for,
\* a new one for each piece.
CopyReads ==
    /\ h = "copy"
    /\ \/ h' = "push"
       \/ Finish
       \/ "upstream" \in Faults /\ h' = "closed"
    /\ UNCHANGED <<clientVars, loopVars, leafVars>>

Written ==
    /\ h \in {"write", "push"}
    /\ IF h = "push" THEN h' = "copy" ELSE Finish
    /\ UNCHANGED <<clientVars, loopVars, leafVars>>

\* The client is gone, or does not read and the write deadline passes.
WriteFails ==
    /\ h \in {"write", "push"} /\ (eof \/ "stall" \in Faults)
    /\ h' = "closed"
    /\ UNCHANGED <<clientVars, loopVars, leafVars>>

-----------------------------------------------------------------------------

ClientStep == (\E r \in Requests : SendHead(r)) \/ SendPiece \/ Disconnect
Handshake == Connected \/ NotConnected \/ Hello \/ ServeLeaf
HandlerStep == ReadHead \/ ReadPiece \/ Decide \/ Drain
Deadlines == ReadFails \/ DoFails \/ WriteFails

Next ==
    \/ ClientStep \/ Handshake \/ Tick \/ OtherHandshake \/ HandlerStep \/ Deadlines
    \/ UpstreamReads \/ DoReturns \/ CopyReads \/ Written

Spec == Init /\ [][Next]_vars

\* The handler runs and its deadlines pass; neither the client nor the
\* upstream owes anything.
LiveSpec == Spec /\ WF_vars(Handshake) /\ WF_vars(HandlerStep) /\ WF_vars(Deadlines)

-----------------------------------------------------------------------------
(* Properties. *)

\* Types: every variable stays in its set.
TypeOK ==
    /\ wire \in Seq(Piece) /\ todo \in Nat /\ eof \in BOOLEAN
    /\ h \in HandlerStates /\ req \in Requests /\ got \in Nat /\ Left \in Nat /\ keep \in BOOLEAN
    /\ up \in {"none", "sending", "awaiting"}
    /\ clock \in Nat /\ now \in Nat /\ leaf \in Nat

Forwarded == h \in {"do", "copy", "push"}

\* policy.go:77-85 and README: whatever the connection went through before,
\* what reaches the upstream from a read-only ingress can only read: no
\* mutation and no REST write passes, and the allowance of a query reaches
\* beyond GraphQL's path only where a path has an escaped mark or slash in it.
\* (policy.go:155-156 knows no such exception; what normalizePath looks at ends at
\* a '?' or '#', what forward sends does not.)
OnlyReadsUnlessMarked ==
    Forwarded /\ Class = "ro" => OnlyReads(req.what) \/ QueryElsewhere(req.what)

\* Request boundaries survive refusals, long bodies and errors: the bytes the
\* loop takes for a head are one, and nothing is forwarded but a request that
\* was read whole.
WholeRequests ==
    /\ h = "head" /\ wire # <<>> => Head(wire).part = "head"
    /\ Forwarded => got = req.pieces /\ got <= MaxBody

\* README: a long-running instance never serves an expired leaf, nor one that
\* expires within the renewal margin of the handshake, and a handshake that
\* read an earlier time never brings an older leaf back.
LeafFresh ==
    [][(h = "mutex" /\ h' = "head" => leaf' > now + Renewal) /\ leaf' >= leaf]_vars

\* Whatever the client does or leaves undone, the handler waits for it only as
\* long as a deadline allows: past the handshake it leaves every state but
\* those in which it waits for the upstream.
NotStranded ==
    \A s \in {"head", "body", "drain", "write", "push"} : h = s ~> h # s

==============================================================================
