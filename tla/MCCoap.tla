-------------------------------- MODULE MCCoap --------------------------------
(* A finite instance of CoapSystem; Coap.cfg gives the other constants.     *)
EXTENDS CoapSystem

CONSTANTS c1, c2

Asks(type, token, observe, path) ==
    [type |-> type, token |-> token, observe |-> observe, path |-> path]

Get(type, token) == Asks(type, token, FALSE, "resource")

Both(first, second) == (c1 :> first) @@ (c2 :> second)

(* An observation and its notification; then the token is used again.       *)
Observing(type, reactions) ==
    [asks |-> Both(<<Asks(type, 1, TRUE, "resource"), Get("CON", 1)>>, <<>>),
     reactions |-> reactions, separate |-> 1, limit |-> 0, failures |-> 0, expiry |-> FALSE]

(* More notifications than the client remembers. *)
Notified ==
    [asks |-> Both(<<Asks("CON", 1, TRUE, "resource")>>, <<>>),
     reactions |-> {"none"}, separate |-> 2, limit |-> 0, failures |-> 1, expiry |-> FALSE]

(* Two clients with the same identifiers and tokens: more requests than the *)
(* server remembers.                                                        *)
Sharing ==
    [asks |-> Both(<<Get("CON", 1), Get("NON", 2)>>, <<Get("CON", 1)>>),
     reactions |-> {"none"}, separate |-> 0, limit |-> 0, failures |-> 0, expiry |-> FALSE]

(* Requests above the limit of a peer, replies that are lost or not sent.   *)
Throttled ==
    [asks |-> Both(<<Get("NON", 1), Get("CON", 1)>>, <<>>),
     reactions |-> {"none"}, separate |-> 0, limit |-> 1, failures |-> 1, expiry |-> TRUE]

(* Requests sent and cancelled inside the callback. *)
Reentrant ==
    [asks |-> Both(<<Get("CON", 1), Asks("CON", 2, FALSE, "critical"), Asks("NON", 1, FALSE, "unknown")>>, <<>>),
     reactions |-> {"none", "cancel", "send", "resend"},
     separate |-> 0, limit |-> 0, failures |-> 0, expiry |-> FALSE]

MCScenarios ==
    {Observing("CON", {"none", "cancel"}), Observing("NON", {"none", "resend"}),
     Notified, Sharing, Throttled, Reentrant}
=============================================================================
