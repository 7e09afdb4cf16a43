-------------------------- MODULE MCParseSmsHandler --------------------------
(***************************************************************************)
(* Two handlers and four requests of one user: two history scans share a   *)
(* candidate that has two strikes, one of them sends two requests, and a   *)
(* scan of the day sends one.                                              *)
(***************************************************************************)
EXTENDS ParseSmsHandler, TLC

CONSTANTS k1, k2, k3, k4, s1, s2, day, past, older, h1, h2

Request(key, session, sms) == [key |-> key, session |-> session, sms |-> sms]

ClientRequests ==
    {Request(k1, past, {s1, s2}), Request(k2, past, {s2}), Request(k3, older, {s2}),
     Request(k4, day, {s1})}

Symmetry == Permutations({h1, h2})

TwoStrikes == [s \in {s1, s2} |-> IF s = s2 THEN 2 ELSE 0]
=============================================================================
