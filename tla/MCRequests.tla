------------------------------ MODULE MCRequests ------------------------------
(* Small instances of Requests for TLC. *)
EXTENDS Requests, TLC

CONSTANTS p1, g1, g2

OnePost == {p1}
OneGet  == {g1}
TwoGets == {g1, g2}

\* Nothing given; the largest delay with one retry, and one more; a null
\* delay and all the retries; a time ahead, no retries by null; a time that
\* has passed; both times; a retry too many; and what is no JSON at all.
SomeBodies ==
    {Blank,
     [Blank EXCEPT !.delayMs = DelayMax, !.maxRetries = 1],
     [Blank EXCEPT !.delayMs = DelayMax + 1],
     [Blank EXCEPT !.delayMs = Null, !.maxRetries = 20],
     [Blank EXCEPT !.runAt = 2, !.maxRetries = Null],
     [Blank EXCEPT !.runAt = 0],
     [Blank EXCEPT !.delayMs = 1, !.runAt = 2],
     [Blank EXCEPT !.maxRetries = 21],
     [Blank EXCEPT !.syntax = "malformed"]}
=============================================================================
