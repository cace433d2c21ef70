-------------------------------- MODULE MCMqtt --------------------------------
(* A finite instance of MqttSystem; Mqtt.cfg gives the other constants.     *)
EXTENDS MqttSystem

Option(v5, clean, expiry, will, keep) ==
    [v5 |-> v5, clean |-> clean, expiry |-> expiry, will |-> will, keep |-> keep]
Message(q, r) == [qos |-> q, retain |-> r]

Persistent == Option(FALSE, FALSE, FALSE, TRUE, FALSE)
Clean == Option(FALSE, TRUE, FALSE, TRUE, TRUE)
Expiring == Option(TRUE, FALSE, TRUE, FALSE, FALSE)

Scenario(o1, o2, pubs, calls, q) ==
    [opts |-> <<o1, o2>>, pubs |-> pubs, calls |-> calls, quality |-> q]

MCScenarios == {
    Scenario(Persistent, Persistent, <<Message(2, "no"), Message(2, "no")>>, <<"subscribe">>, 2),
    Scenario(Expiring, Expiring, <<Message(2, "store")>>, <<"subscribe">>, 1),
    Scenario(Clean, Persistent, <<Message(1, "store"), Message(0, "clear")>>, <<"subscribe", "unsubscribe">>, 2)}
=============================================================================
