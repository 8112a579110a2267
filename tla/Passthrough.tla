----------------------------- MODULE Passthrough -----------------------------
(***************************************************************************)
(* One connection of a command to a public host that is not intercepted:   *)
(* the command, the relay of its network namespace (src/netns.go), the     *)
(* gateway's serveIngress and servePassthrough (src/gateway.go), and the   *)
(* destination.  Relay and gateway copy both directions with a goroutine   *)
(* each.  What is copied are numbered pieces; piece 0 is the CONNECT on    *)
(* the way up and its answer on the way down.                              *)
(***************************************************************************)
EXTENDS Integers, Sequences

CONSTANTS Up,    \* bound: pieces the command sends after its CONNECT
          Down,  \* bound: pieces the destination sends
          Room,  \* bound: pieces a socket buffer holds
          Kinds  \* what the command may ask for

ASSUME ConstantsAssumption ==
    /\ Up \in Nat /\ Down \in Nat /\ Room \in Nat \ {0}
    /\ Kinds \subseteq {"public", "blocked", "invalid"}

VARIABLES
    kind,    \* of the CONNECT: invalid request, blocked or public address
    pipe,    \* one way of a connection, named by writer and reader
    sent,    \* pieces the command and the destination wrote, 0 not counted
    got,     \* what they read
    saw,     \* how the command's reading ended
    r, g,    \* the relay's and the gateway's main goroutine
    ahead,   \* what the gateway's reader buffered after the CONNECT
    copier,  \* the four copying goroutines
    armed,   \* the gateway's connections with a deadline...
    late     \* ... and those where it has passed

vars == <<kind, pipe, sent, got, saw, r, g, ahead, copier, armed, late>>

\* a: the command; r: the relay; g: the gateway; u: the destination.
Pipes == {"ar", "rg", "gu", "ug", "gr", "ra"}
Unix == {"rg", "gr"}

\* deaf: the reader closed its socket, so that writes fail.
Pipe == [buf : Seq(0..(Up + Down)), end : {"open", "fin", "reset"}, deaf : BOOLEAN]

Copiers == {"relayUp", "relayDown", "gatewayUp", "gatewayDown"}
From == [relayUp |-> "ar", relayDown |-> "gr", gatewayUp |-> "rg", gatewayDown |-> "ug"]
To == [relayUp |-> "rg", relayDown |-> "ra", gatewayUp |-> "gu", gatewayDown |-> "gr"]

\* Types, and no copying goroutine outlives its connection.
TypeOK ==
    /\ kind \in Kinds
    /\ pipe \in [Pipes -> Pipe] /\ \A p \in Pipes : Len(pipe[p].buf) <= Room
    /\ sent \in [{"a", "u"} -> 0..(Up + Down)]
    /\ got \in [{"a", "u"} -> Seq(0..(Up + Down))]
    /\ saw \in {"nothing", "eof", "reset"}
    /\ r \in {"dial", "relay", "closed", "killed"}
    /\ g \in {"none", "connect", "resolve", "dial", "ack", "relay", "half", "closed"}
    /\ ahead \in Seq(0..Up)
    /\ copier \in [Copiers -> {"off", "on", "done"}]
    /\ g = "closed" => copier["gatewayUp"] # "on" /\ copier["gatewayDown"] # "on"
    /\ armed \subseteq {"client", "upstream"} /\ late \subseteq armed

Init ==
    /\ kind \in Kinds
    /\ pipe = [p \in Pipes |-> [buf |-> IF p = "ar" THEN <<0>> ELSE <<>>,
                                end |-> "open", deaf |-> p = "gu"]]
    /\ sent = [x \in {"a", "u"} |-> 0]
    /\ got = [x \in {"a", "u"} |-> <<>>]
    /\ saw = "nothing"
    /\ r = "dial" /\ g = "none"
    /\ ahead = <<>>
    /\ copier = [c \in Copiers |-> "off"]
    /\ armed = {} /\ late = {}

-----------------------------------------------------------------------------
(* Sockets. *)

Writable(p) == pipe[p].end = "open" /\ ~pipe[p].deaf /\ Len(pipe[p].buf) < Room

Written(p, x) == [p EXCEPT !.buf = Append(@, x)]
Ended(p) == IF p.end = "open" THEN [p EXCEPT !.end = "fin"] ELSE p

\* Closing a connection with unread input resets it; over TCP what the peer
\* has not read may be lost then.
Closed(ps, in, out) ==
    LET reset == [ps[out] EXCEPT !.end = "reset"]
        outs == IF ps[in].buf = <<>> THEN {Ended(ps[out])}
                ELSE {reset} \cup (IF out \in Unix THEN {} ELSE {[reset EXCEPT !.buf = <<>>]})
    IN {[ps EXCEPT ![in] = [@ EXCEPT !.deaf = TRUE, !.buf = <<>>], ![out] = o] : o \in outs}

-----------------------------------------------------------------------------
(* The command and the destination. *)

In == [a |-> "ra", u |-> "gu"]
Out == [a |-> "ar", u |-> "ug"]
Limit == [a |-> Up, u |-> Down]

\* The destination is there once it is dialled, the command from the start: it
\* may write before its CONNECT is answered.
Present(x) == ~pipe[In[x]].deaf

Send(x) ==
    /\ Present(x)
    /\ Writable(Out[x])
    /\ sent[x] < Limit[x]
    /\ sent' = [sent EXCEPT ![x] = @ + 1]
    /\ pipe' = [pipe EXCEPT ![Out[x]] = Written(@, sent[x] + 1)]
    /\ UNCHANGED <<kind, got, saw, r, g, ahead, copier, armed, late>>

Receive(x) ==
    /\ Present(x)
    /\ pipe[In[x]].buf # <<>>
    /\ got' = [got EXCEPT ![x] = Append(@, Head(pipe[In[x]].buf))]
    /\ pipe' = [pipe EXCEPT ![In[x]].buf = Tail(@)]
    /\ UNCHANGED <<kind, sent, saw, r, g, ahead, copier, armed, late>>

\* The command reads to the end.
SeeEnd ==
    /\ Present("a")
    /\ saw = "nothing"
    /\ pipe["ra"].buf = <<>> /\ pipe["ra"].end # "open"
    /\ saw' = IF pipe["ra"].end = "fin" THEN "eof" ELSE "reset"
    /\ UNCHANGED <<kind, pipe, sent, got, r, g, ahead, copier, armed, late>>

HalfClose(x) ==
    /\ Present(x)
    /\ pipe[Out[x]].end = "open"
    /\ pipe' = [pipe EXCEPT ![Out[x]] = Ended(@)]
    /\ UNCHANGED <<kind, sent, got, saw, r, g, ahead, copier, armed, late>>

Leave(x) ==
    /\ Present(x)
    /\ pipe' \in Closed(pipe, In[x], Out[x])
    /\ UNCHANGED <<kind, sent, got, saw, r, g, ahead, copier, armed, late>>

-----------------------------------------------------------------------------
(* Copying. *)

\* The gateway reads what followed the CONNECT first.
Source(c) == (IF c = "gatewayUp" THEN ahead ELSE <<>>) \o pipe[From[c]].buf

\* One read and the write of what it returned.
Copy(c) ==
    /\ copier[c] = "on"
    /\ Source(c) # <<>>
    /\ Writable(To[c])
    /\ LET buffered == c = "gatewayUp" /\ ahead # <<>>
           rest == [pipe EXCEPT ![To[c]] = Written(@, Head(Source(c)))]
       IN /\ ahead' = IF buffered THEN Tail(ahead) ELSE ahead
          /\ pipe' = IF buffered THEN rest ELSE [rest EXCEPT ![From[c]].buf = Tail(@)]
    /\ UNCHANGED <<kind, sent, got, saw, r, g, copier, armed, late>>

\* Which of the gateway's connections a copier reads and writes.
Ends(c) == CASE c = "gatewayUp" -> <<"client", "upstream">>
             [] c = "gatewayDown" -> <<"upstream", "client">>
             [] OTHER -> <<"none", "none">>

\* End of file or an error of the read, or an error of the write.
Over(c) ==
    \/ Source(c) = <<>> /\ pipe[From[c]].end # "open"
    \/ Source(c) # <<>> /\ (pipe[To[c]].deaf \/ Ends(c)[2] \in late)
    \/ Ends(c)[1] \in late

\* Defect: the whole connection is closed.
CopyEndsClosing(c) ==
    /\ copier[c] = "on"
    /\ Over(c)
    /\ copier' = [copier EXCEPT ![c] = "done"]
    /\ pipe' \in Closed(pipe, IF To[c] = "gu" THEN "ug" ELSE IF To[c] = "gr" THEN "rg"
                              ELSE IF To[c] = "rg" THEN "gr" ELSE "ar", To[c])
    /\ UNCHANGED <<kind, sent, got, saw, r, g, ahead, armed, late>>

\* Defect: nothing is closed.
CopyEndsSilently(c) ==
    /\ copier[c] = "on"
    /\ Over(c)
    /\ copier' = [copier EXCEPT ![c] = "done"]
    /\ UNCHANGED <<kind, pipe, sent, got, saw, r, g, ahead, armed, late>>

\* Either way the writing side of the other connection is shut.
CopyEnds(c) ==
    /\ copier[c] = "on"
    /\ Over(c)
    /\ copier' = [copier EXCEPT ![c] = "done"]
    /\ pipe' = [pipe EXCEPT ![To[c]] = Ended(@)]
    /\ UNCHANGED <<kind, sent, got, saw, r, g, ahead, armed, late>>

-----------------------------------------------------------------------------
(* The relay. *)

RelayDials ==
    /\ r = "dial"
    /\ r' = "relay" /\ g' = "connect"
    /\ copier' = [copier EXCEPT !["relayUp"] = "on", !["relayDown"] = "on"]
    /\ UNCHANGED <<kind, pipe, sent, got, saw, ahead, armed, late>>

\* No gateway behind the socket.
RelayDialFails ==
    /\ r = "dial"
    /\ r' = "closed" /\ g' = "closed"
    /\ pipe' \in Closed(pipe, "ar", "ra")
    /\ UNCHANGED <<kind, sent, got, saw, ahead, copier, armed, late>>

RelayEnds ==
    /\ r = "relay"
    /\ copier["relayUp"] = "done" /\ copier["relayDown"] = "done"
    /\ r' = "closed"
    /\ \E ps \in Closed(pipe, "gr", "rg") : pipe' \in Closed(ps, "ar", "ra")
    /\ UNCHANGED <<kind, sent, got, saw, g, ahead, copier, armed, late>>

\* The supervisor stops the frontends before the gateways: the process dies
\* and the kernel closes both its connections.
FrontendKilled ==
    /\ r = "relay"
    /\ r' = "killed"
    /\ copier' = [copier EXCEPT !["relayUp"] = "done", !["relayDown"] = "done"]
    /\ \E ps \in Closed(pipe, "gr", "rg") : pipe' \in Closed(ps, "ar", "ra")
    /\ UNCHANGED <<kind, sent, got, saw, g, ahead, armed, late>>

-----------------------------------------------------------------------------
(* The gateway. *)

\* The handler returns after an error answer, or a failed read or write.
Return(ps) == g' = "closed" /\ pipe' \in Closed(ps, "rg", "gr")

Refuse(ps) ==
    Return(IF ps["gr"].deaf THEN ps ELSE [ps EXCEPT !["gr"] = Written(@, 0)])

\* Defect: what was read ahead is dropped with the buffer.
ReadConnectOnly ==
    /\ g = "connect"
    /\ pipe["rg"].buf # <<>>
    /\ \E n \in 1..Len(pipe["rg"].buf) :
        LET ps == [pipe EXCEPT !["rg"].buf = SubSeq(@, n + 1, Len(@))]
        IN IF kind = "invalid" THEN Refuse(ps) ELSE pipe' = ps /\ g' = "resolve"
    /\ UNCHANGED <<kind, sent, got, saw, r, ahead, copier, armed, late>>

\* The buffered reader takes the CONNECT and some of what is there behind it.
ReadConnect ==
    /\ g = "connect"
    /\ pipe["rg"].buf # <<>>
    /\ \E n \in 1..Len(pipe["rg"].buf) :
        LET ps == [pipe EXCEPT !["rg"].buf = SubSeq(@, n + 1, Len(@))]
        IN IF kind = "invalid"
           THEN Refuse(ps) /\ UNCHANGED ahead
           ELSE /\ ahead' = SubSeq(pipe["rg"].buf, 2, n)
                /\ pipe' = ps
                /\ g' = "resolve"
    /\ UNCHANGED <<kind, sent, got, saw, r, copier, armed, late>>

\* End of file, or nothing within the idle time.
ConnectFails ==
    /\ g = "connect"
    /\ pipe["rg"].buf = <<>>
    /\ Return(pipe)
    /\ UNCHANGED <<kind, sent, got, saw, r, ahead, copier, armed, late>>

\* Any address that is not public refuses the whole answer.
Resolve ==
    /\ g = "resolve"
    /\ IF kind = "blocked" THEN Refuse(pipe) ELSE g' = "dial" /\ UNCHANGED pipe
    /\ UNCHANGED <<kind, sent, got, saw, r, ahead, copier, armed, late>>

Dial ==
    /\ g = "dial"
    /\ g' = "ack"
    /\ pipe' = [pipe EXCEPT !["gu"].deaf = FALSE]
    /\ UNCHANGED <<kind, sent, got, saw, r, ahead, copier, armed, late>>

\* Resolving and connecting have ten seconds together.
UpstreamFails ==
    /\ g \in {"resolve", "dial"}
    /\ Refuse(pipe)
    /\ UNCHANGED <<kind, sent, got, saw, r, ahead, copier, armed, late>>

Acknowledge ==
    /\ g = "ack"
    /\ ~pipe["gr"].deaf
    /\ g' = "relay"
    /\ pipe' = [pipe EXCEPT !["gr"] = Written(@, 0)]
    /\ copier' = [copier EXCEPT !["gatewayUp"] = "on", !["gatewayDown"] = "on"]
    /\ UNCHANGED <<kind, sent, got, saw, r, ahead, armed, late>>

AcknowledgeFails ==
    /\ g = "ack"
    /\ pipe["gr"].deaf
    /\ \E ps \in Closed(pipe, "ug", "gu") : Return(ps)
    /\ UNCHANGED <<kind, sent, got, saw, r, ahead, copier, armed, late>>

GatewayCopiers == {"gatewayUp", "gatewayDown"}

\* Defect: one connection is forgotten.
FirstResultClientOnly ==
    /\ g = "relay"
    /\ \E c \in GatewayCopiers : copier[c] = "done"
    /\ g' = "half"
    /\ armed' = {"client"}
    /\ UNCHANGED <<kind, pipe, sent, got, saw, r, ahead, copier, late>>

\* One direction has ended: the other gets a bounded time.
FirstResult ==
    /\ g = "relay"
    /\ \E c \in GatewayCopiers : copier[c] = "done"
    /\ g' = "half"
    /\ armed' = {"client", "upstream"}
    /\ UNCHANGED <<kind, pipe, sent, got, saw, r, ahead, copier, late>>

Expire(k) ==
    /\ k \in armed \ late
    /\ late' = late \cup {k}
    /\ UNCHANGED <<kind, pipe, sent, got, saw, r, g, ahead, copier, armed>>

\* Defect: one result is waited for.
SecondResultAtOnce ==
    /\ g = "half"
    /\ \E ps \in Closed(pipe, "ug", "gu") : Return(ps)
    /\ UNCHANGED <<kind, sent, got, saw, r, ahead, copier, armed, late>>

SecondResult ==
    /\ g = "half"
    /\ \A c \in GatewayCopiers : copier[c] = "done"
    /\ \E ps \in Closed(pipe, "ug", "gu") : Return(ps)
    /\ UNCHANGED <<kind, sent, got, saw, r, ahead, copier, armed, late>>

-----------------------------------------------------------------------------

Relay == RelayDials \/ RelayDialFails \/ RelayEnds

Gateway ==
    \/ ReadConnect \/ ConnectFails \/ Resolve \/ Dial \/ UpstreamFails
    \/ Acknowledge \/ AcknowledgeFails \/ FirstResult \/ SecondResult

Copying(c) == Copy(c) \/ CopyEnds(c)

Next ==
    \/ \E x \in {"a", "u"} : Send(x) \/ Receive(x) \/ HalfClose(x) \/ Leave(x)
    \/ SeeEnd
    \/ Relay \/ FrontendKilled \/ Gateway
    \/ \E c \in Copiers : Copying(c)
    \/ \E k \in armed : Expire(k)

\* The goroutines run and deadlines pass; the two ends owe nothing.
Spec ==
    /\ Init /\ [][Next]_vars
    /\ WF_vars(Relay) /\ WF_vars(Gateway)
    /\ \A c \in Copiers : WF_vars(Copying(c))
    /\ \A k \in {"client", "upstream"} : WF_vars(Expire(k))

-----------------------------------------------------------------------------
(* Properties. *)

\* gateway.go:183: the destination gets the command's pieces in order and
\* without a gap, the ones sent ahead of the answer included, and nothing else.
InOrder ==
    /\ \A i \in 1..Len(got["u"]) : got["u"][i] = i
    /\ \A i \in 1..Len(got["a"]) : got["a"][i] = i - 1

Acknowledged == g \in {"relay", "half"} \/ \E c \in GatewayCopiers : copier[c] # "off"

\* gateway.go:369: closing one direction does not cut the other short.  While
\* no deadline has passed and the frontend lives, the command reads end of file
\* only after the destination ended its side, and has then read all it sent.
HalfCloseSpares ==
    saw = "eof" /\ Acknowledged /\ late = {} /\ r # "killed" =>
        /\ pipe["ug"].end # "open"
        /\ pipe["ug"].end = "fin" => Len(got["a"]) = sent["u"] + 1

\* gateway.go:370: once one direction has ended the gateway is done with the
\* connection in the end, though the peer neither reads, writes nor closes.
NotStranded == g = "half" ~> g = "closed"

\* A command that is gone, what it wrote being read, frees relay and gateway,
\* at whatever point of the connection it left and whatever the destination
\* does.
CommandGoneFreesAll ==
    (~Present("a") /\ Source("relayUp") = <<>> /\ Source("gatewayUp") = <<>>)
        ~> (r \in {"closed", "killed"} /\ g = "closed")

=============================================================================
