------------------------------ MODULE GitTunnel ------------------------------
(***************************************************************************)
(* One intercepted connection to github.com (src/gitsmart.go): the client, *)
(* the handler goroutine of serveGitTunnel, the HTTP transport that reads  *)
(* the request body, the goroutine that watches for a disconnect, and the  *)
(* upstream.  The last three and the handler share one buffered reader,    *)
(* which is not safe for concurrent use.                                   *)
(***************************************************************************)
EXTENDS Integers, Sequences, FiniteSets

CONSTANTS Requests, \* the requests the client may send
          Class,    \* policyClass of the ingress: "ro" or "w"
          MaxWire,  \* bound: what is on its way to the gateway, in pieces
          Faults    \* "upstream": it may fail; "deadline": a client may stall

\* body counts the pieces the body takes on the wire; sane: the authority is
\* github.com and there is no Upgrade header.
Request == [service : {"git-upload-pack", "git-receive-pack", "-"},
            body : 0..MaxWire,
            expect : BOOLEAN,
            close : BOOLEAN,
            sane : BOOLEAN]

ASSUME ConstantsAssumption ==
    /\ MaxWire \in Nat \ {0}
    /\ Requests \subseteq Request
    /\ Requests # {}
    /\ Class \in {"ro", "w"}
    /\ Faults \subseteq {"upstream", "deadline"}

VARIABLES
    wire,      \* what the client sent and nobody has read
    todo,      \* pieces of its latest body the client has still to send
    held,      \* the client waits for 100 Continue before it sends them
    eof,       \* the client closed its side
    h,         \* the handler goroutine
    req,       \* the request it works on
    keep,      \* keepAlive
    complete,  \* bodyComplete and bodyDone: the body was read to its end
    t,         \* the transport's body writer
    w,         \* the goroutine of watchClientDisconnect
    cancelled, \* the request's context
    up         \* the upstream exchange

clientVars == <<wire, todo, held, eof>>
handlerVars == <<h, req, keep>>
vars == <<clientVars, handlerVars, complete, t, w, cancelled, up>>

\* A piece on the wire; body pieces are numbered down to 1, the last.
Piece == [part : {"head"}, of : Requests] \cup [part : {"body"}, left : 1..MaxWire]

\* read: in ReadRequest; deny: writing a denial; do: in gitClient.Do;
\* abort: stopWatching, then the 502; copy: relaying the response; stop:
\* closing its body, which stops the watcher.
HandlerStates == {"read", "deny", "do", "abort", "copy", "stop", "closed"}

\* send: reading the client's body; push: writing a piece upstream; drain:
\* the transport closes a body it has not read, and that reads it to its end.
WriterStates == {"off", "send", "push", "drain"}

Init ==
    /\ wire = <<>> /\ todo = 0 /\ held = FALSE /\ eof = FALSE
    /\ h = "read" /\ keep = TRUE
    /\ req \in Requests   \* of no meaning before the first read
    /\ complete = TRUE
    /\ t = "off" /\ w = "off"
    /\ cancelled = FALSE
    /\ up = "none"

Denied(r) == r.service = "git-receive-pack" /\ Class # "w"

-----------------------------------------------------------------------------
(* The client.  It may send its next request before it has the answer to    *)
(* the last one (pipelining).                                               *)

Open == ~eof /\ h # "closed" /\ Len(wire) < MaxWire

SendHead(r) ==
    /\ Open
    /\ todo = 0
    /\ wire' = Append(wire, [part |-> "head", of |-> r])
    /\ todo' = r.body
    /\ held' = (r.expect /\ r.body > 0)
    /\ UNCHANGED <<eof, handlerVars, complete, t, w, cancelled, up>>

SendBody ==
    /\ Open
    /\ todo > 0
    /\ ~held
    /\ wire' = Append(wire, [part |-> "body", left |-> todo])
    /\ todo' = todo - 1
    /\ UNCHANGED <<held, eof, handlerVars, complete, t, w, cancelled, up>>

\* No interim answer came in the client's own time: it sends the body.
StopWaiting ==
    /\ held
    /\ held' = FALSE
    /\ UNCHANGED <<wire, todo, eof, handlerVars, complete, t, w, cancelled, up>>

Disconnect ==
    /\ ~eof
    /\ eof' = TRUE
    /\ UNCHANGED <<wire, todo, held, handlerVars, complete, t, w, cancelled, up>>

-----------------------------------------------------------------------------
(* The handler. *)

\* dispatchGit answers without the upstream; the body stays where it is.
Deny ==
    /\ h' = "deny"
    /\ keep' = FALSE
    /\ UNCHANGED <<complete, t, w, cancelled, up>>

\* Defect: req.Close is not asked.
ForwardKeeping(r) ==
    /\ h' = "do"
    /\ keep' = TRUE
    /\ complete' = (r.body = 0)
    /\ t' = IF r.body = 0 THEN "off" ELSE "send"
    /\ w' = "wait"
    /\ cancelled' = FALSE
    /\ up' = "pending"

\* forwardGit up to Do: the watcher starts, the transport reads the body.  (A
\* writer still pushing the last piece of an exchange that ended will not read
\* again and is forgotten.)
Forward(r) ==
    /\ h' = "do"
    /\ keep' = ~r.close
    /\ complete' = (r.body = 0)
    /\ t' = IF r.body = 0 THEN "off" ELSE "send"
    /\ w' = "wait"
    /\ cancelled' = FALSE
    /\ up' = "pending"

\* A request is read and decided on.  100 Continue goes to every request with
\* an Expect header that authorizeGit did not refuse, a bad one included.
ReadRequest ==
    /\ h = "read"
    /\ wire # <<>>
    /\ Head(wire).part = "head"
    /\ LET r == Head(wire).of
       IN /\ req' = r
          /\ held' = (held /\ (Denied(r) \/ ~r.expect))
          /\ IF r.sane /\ ~Denied(r) THEN Forward(r) ELSE Deny
    /\ wire' = Tail(wire)
    /\ UNCHANGED <<todo, eof>>

\* The interim answer finds nobody: the tunnel is closed.
ContinueFails ==
    /\ h = "read"
    /\ wire # <<>>
    /\ Head(wire).part = "head"
    /\ Head(wire).of.expect /\ ~Denied(Head(wire).of)
    /\ eof
    /\ wire' = Tail(wire)
    /\ h' = "closed"
    /\ UNCHANGED <<todo, held, eof, req, keep, complete, t, w, cancelled, up>>

\* End of file, or bytes that are no request: the tunnel is closed.
ReadFails ==
    /\ h = "read"
    /\ IF wire = <<>> THEN eof \/ "deadline" \in Faults ELSE Head(wire).part # "head"
    /\ h' = "closed"
    /\ UNCHANGED <<clientVars, req, keep, complete, t, w, cancelled, up>>

\* Do returns a response's header...  Defect: bodyComplete is not asked.
RespondKeepingAlive ==
    /\ h = "do"
    /\ up \in {"answered", "ended"}
    /\ h' = "copy"
    /\ UNCHANGED <<clientVars, req, keep, complete, t, w, cancelled, up>>

Respond ==
    /\ h = "do"
    /\ up \in {"answered", "ended"}
    /\ h' = "copy"
    /\ keep' = (keep /\ complete)
    /\ UNCHANGED <<clientVars, req, complete, t, w, cancelled, up>>

\* ... or an error, on which forwardGit stops the watcher before the 502.
DoFails ==
    /\ h = "do"
    /\ up = "failed" \/ cancelled
    /\ h' = "abort"
    /\ keep' = FALSE
    /\ UNCHANGED <<clientVars, req, complete, t, w, cancelled, up>>

\* resp.Write returns with the whole body...
Copied ==
    /\ h = "copy"
    /\ up = "ended"
    /\ h' = "stop"
    /\ UNCHANGED <<clientVars, req, keep, complete, t, w, cancelled, up>>

\* ... or with an error: reading the upstream's body failed, at the latest
\* because the context was cancelled...
CopyFails ==
    /\ h = "copy"
    /\ up = "failed" \/ cancelled
    /\ h' = "stop"
    /\ keep' = FALSE
    /\ UNCHANGED <<clientVars, req, complete, t, w, cancelled, up>>

\* ... or a write did, to a client that is gone or that does not read.  As
\* long as the upstream sends nothing there is nothing to write.
WriteFails ==
    /\ h = "copy"
    /\ eof \/ "deadline" \in Faults
    /\ h' = "stop"
    /\ keep' = FALSE
    /\ UNCHANGED <<clientVars, req, complete, t, w, cancelled, up>>

\* Defect: the loop goes on without waiting for the watcher.
StoppedAtOnce ==
    /\ h \in {"stop", "abort"}
    /\ h' = IF h = "abort" THEN "deny" ELSE IF keep THEN "read" ELSE "closed"
    /\ cancelled' = TRUE
    /\ UNCHANGED <<clientVars, req, keep, complete, t, w, up>>

\* <-done: the watcher has returned; the context is cancelled.
Stopped ==
    /\ h \in {"stop", "abort"}
    /\ w = "off"
    /\ h' = IF h = "abort" THEN "deny" ELSE IF keep THEN "read" ELSE "closed"
    /\ cancelled' = TRUE
    /\ UNCHANGED <<clientVars, req, keep, complete, t, w, up>>

\* Defect: closing the request's body first, which reads it to its end.
AnswerDenialDrained ==
    /\ h = "deny"
    /\ todo = 0
    /\ h' = "closed"
    /\ UNCHANGED <<clientVars, req, keep, complete, t, w, cancelled, up>>

\* The denial is written and the connection closed.
AnswerDenial ==
    /\ h = "deny"
    /\ h' = "closed"
    /\ UNCHANGED <<clientVars, req, keep, complete, t, w, cancelled, up>>

Handler ==
    \/ ReadRequest \/ ContinueFails \/ ReadFails
    \/ Respond \/ DoFails \/ Copied \/ CopyFails \/ Stopped \/ AnswerDenial

-----------------------------------------------------------------------------
(* The transport's side of the request body. *)

\* requestDeadlineBody.Read: the last piece completes the body.
ReadBody ==
    /\ t = "send"
    /\ h # "closed"
    /\ wire # <<>>
    /\ wire' = Tail(wire)
    /\ complete' = (Head(wire).left = 1)
    /\ t' = "push"
    /\ UNCHANGED <<todo, held, eof, handlerVars, w, cancelled, up>>

\* The exchange is over and what is left of the body is of no use.
Moot == cancelled \/ up \in {"ended", "failed"}

\* The upstream takes the piece, or never will.
Pushed ==
    /\ t = "push"
    /\ t' = IF complete THEN "off" ELSE "send"
    /\ UNCHANGED <<clientVars, handlerVars, complete, w, cancelled, up>>

GiveUp ==
    /\ t \in {"send", "push"}
    /\ Moot
    /\ t' = IF complete THEN "off" ELSE "drain"
    /\ UNCHANGED <<clientVars, handlerVars, complete, w, cancelled, up>>

\* Body.Close of net/http discards the rest; the wrapper does not see it.
Drain ==
    /\ t = "drain"
    /\ h # "closed"
    /\ wire # <<>>
    /\ wire' = Tail(wire)
    /\ t' = IF Head(wire).left = 1 THEN "off" ELSE "drain"
    /\ UNCHANGED <<todo, held, eof, handlerVars, complete, w, cancelled, up>>

\* The client is gone or stalls, or the connection was closed under it.
BodyFails ==
    /\ t \in {"send", "drain"}
    /\ (wire = <<>> /\ (eof \/ "deadline" \in Faults)) \/ h = "closed"
    /\ t' = "off"
    /\ up' = IF t = "send" /\ up \in {"pending", "answered"} THEN "failed" ELSE up
    /\ UNCHANGED <<clientVars, handlerVars, complete, w, cancelled>>

Writer == ReadBody \/ GiveUp \/ Drain \/ BodyFails

-----------------------------------------------------------------------------
(* The watcher. *)

Stopping == h \in {"stop", "abort"}

\* Defect: it does not wait for the body.
WatchNow ==
    /\ w = "wait"
    /\ w' = "peek"
    /\ UNCHANGED <<clientVars, handlerVars, complete, t, cancelled, up>>

Watch ==
    /\ w = "wait"
    /\ complete
    /\ w' = "peek"
    /\ UNCHANGED <<clientVars, handlerVars, complete, t, cancelled, up>>

\* Told to stop: from the select, or at a deadline of its Peek, which the stop
\* sets to now.  Other deadlines only make it look again.
WatchStops ==
    /\ w \in {"wait", "peek"}
    /\ Stopping
    /\ w' = "off"
    /\ UNCHANGED <<clientVars, handlerVars, complete, t, cancelled, up>>

\* A pipelined request: it stays in the buffer, and the watch is over.
WatchSeesData ==
    /\ w = "peek"
    /\ wire # <<>>
    /\ w' = "off"
    /\ UNCHANGED <<clientVars, handlerVars, complete, t, cancelled, up>>

\* Defect: end of file is taken for a timeout.
WatchIgnoresEOF ==
    /\ w = "peek"
    /\ wire = <<>>
    /\ eof
    /\ w' = "off"
    /\ UNCHANGED <<clientVars, handlerVars, complete, t, cancelled, up>>

WatchSeesEOF ==
    /\ w = "peek"
    /\ wire = <<>>
    /\ eof
    /\ w' = "off"
    /\ cancelled' = TRUE
    /\ UNCHANGED <<clientVars, handlerVars, complete, t, up>>

Watcher == Watch \/ WatchStops \/ WatchSeesData \/ WatchSeesEOF

-----------------------------------------------------------------------------
(* The upstream.  It may answer before it has read the whole body. *)

Upstream(from, to) ==
    /\ up = from
    /\ ~cancelled
    /\ up' = to
    /\ UNCHANGED <<clientVars, handlerVars, complete, t, w, cancelled>>

Answers == Upstream("pending", "answered")
Ends == Upstream("answered", "ended")

\* It breaks the connection, or sends no header in the transport's time.
UpstreamFails ==
    /\ "upstream" \in Faults
    /\ Upstream("pending", "failed") \/ Upstream("answered", "failed")

Next ==
    \/ \E r \in Requests : SendHead(r)
    \/ SendBody \/ StopWaiting \/ Disconnect
    \/ Handler \/ WriteFails \/ Writer \/ Pushed \/ Watcher
    \/ Answers \/ Ends \/ UpstreamFails

Spec == Init /\ [][Next]_vars

\* The gateway's goroutines run; neither the client nor the upstream owes a
\* step; Pushed and WriteFails wait for the upstream.
LiveSpec ==
    Spec /\ WF_vars(Handler) /\ WF_vars(Writer) /\ WF_vars(Watcher)

-----------------------------------------------------------------------------
(* Properties. *)

\* Types: every variable stays in its set, and the connection is not meant to
\* outlive a request that asked for its end.
TypeOK ==
    /\ wire \in Seq(Piece) /\ Len(wire) <= MaxWire
    /\ todo \in 0..MaxWire
    /\ held \in BOOLEAN /\ eof \in BOOLEAN
    /\ h \in HandlerStates
    /\ req \in Requests
    /\ keep \in BOOLEAN /\ (h \in {"do", "copy"} /\ keep => ~req.close)
    /\ complete \in BOOLEAN
    /\ t \in WriterStates
    /\ w \in {"off", "wait", "peek"}
    /\ cancelled \in BOOLEAN
    /\ up \in {"none", "pending", "answered", "ended", "failed"}

\* gitsmart.go:129 and 260: the buffered reader has one reader at a time, of
\* the request loop, the transport and the watcher.
OneReader ==
    /\ ~(h = "read" /\ t \in {"send", "drain"})
    /\ ~(h = "read" /\ w = "peek")
    /\ ~(t \in {"send", "drain"} /\ w = "peek")

\* Framing: the loop never parses the rest of one request's body as the next
\* request, and the transport never takes the next request for a body.
InSync ==
    wire # <<>> =>
        /\ h = "read" => Head(wire).part = "head"
        /\ t \in {"send", "drain"} => Head(wire).part = "body"

\* A client that is gone and left nothing to read frees the tunnel and its
\* upstream exchange once its body is read, though the upstream stall for ever
\* before its answer or within it: the watcher cancels.  (gitsmart.go:257-258
\* promises it to one that has pipelined its next request too, but behind that
\* request nobody watches.)
DisconnectCancels == (eof /\ wire = <<>> /\ complete) ~> h = "closed"

\* A refusal needs nothing more from the client: not even one that holds its
\* body back for a 100 Continue that never comes.
DenialIsSent == h = "deny" ~> h = "closed"

=============================================================================
