----------------------------- MODULE MCGitTunnel -----------------------------
(* GitTunnel for TLC: an advertisement, fetches with and without Expect and  *)
(* Connection: close, a request to another authority, and a push, which the  *)
(* read-only class refuses.                                                  *)
EXTENDS GitTunnel

Req(s, b, e, c, ok) == [service |-> s, body |-> b, expect |-> e, close |-> c, sane |-> ok]

SampleRequests ==
    {Req("-", 0, FALSE, FALSE, TRUE),
     Req("git-upload-pack", 2, FALSE, FALSE, TRUE),
     Req("git-upload-pack", 2, TRUE, FALSE, TRUE),
     Req("git-upload-pack", 1, FALSE, TRUE, TRUE),
     Req("git-upload-pack", 1, TRUE, FALSE, FALSE),
     Req("git-receive-pack", 2, TRUE, FALSE, TRUE)}
=============================================================================
