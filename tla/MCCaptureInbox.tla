---------------------------- MODULE MCCaptureInbox ----------------------------
EXTENDS CaptureInbox, TLC

CONSTANTS s1, s2, a, b, c, e1, e2

Request(s, from, to, events) ==
  [source |-> s, before |-> from, after |-> to, events |-> events]

\* Two rival first requests of one source with one successor each, and a second
\* source of one request.
HostRequests ==
  { Request(s1, NoCursor, a, {e1, e2}), Request(s1, NoCursor, b, {e1}),
    Request(s1, a, c, {e1}), Request(s1, b, c, {e2}),
    Request(s2, NoCursor, a, {e1}) }
=============================================================================
