---------------------------- MODULE MCLogsExporter ----------------------------
(* Small instances of LogsExporter for TLC. *)
EXTENDS LogsExporter, TLC

CONSTANTS p1, p2, r1, r2, r3, r4, x, y

(* Two requests that share the limiter and a resource: the first may be    *)
(* retried; the second has an old record, and two that outnumber the       *)
(* places of the stream.                                                   *)
MCData == (p1 :> <<r1>>) @@ (p2 :> <<r3, r2, r4>>)

MCResourceOf == (r1 :> x) @@ (r2 :> y) @@ (r3 :> y) @@ (r4 :> x)

MCMaxAttempts == (p1 :> 2) @@ (p2 :> 1)

(* One request, of three records, called once. *)
MCOneData == (p1 :> <<r1, r2, r3>>)

MCOneAttempt == (p1 :> 1)
===============================================================================
