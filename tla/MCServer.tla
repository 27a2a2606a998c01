------------------------------ MODULE MCServer ------------------------------
EXTENDS Server

Asking(route, key, sound, stream) == [route |-> route, key |-> key, sound |-> sound, stream |-> stream]

\* Both handlers streaming and plain, two ways to be refused, a gated and an open route.
MCRequests ==
  {Asking(route, "right", TRUE, stream) : route \in DataRoutes, stream \in BOOLEAN}
  \union {Asking("chat", "wrong", TRUE, FALSE), Asking("responses", "right", FALSE, TRUE),
          Asking("credentials", "right", TRUE, FALSE), Asking("credentials", "right", FALSE, FALSE),
          Asking("status", "right", TRUE, FALSE), Asking("health", "none", TRUE, FALSE)}

Reading(used, minutes, reset) == [used |-> used, minutes |-> minutes, reset |-> reset]

MCReadings ==
  {Reading(None, Some(300), None), Reading(Some(150), Some(MaxInt), None),
   Reading(Some(-5), None, None)}

\* Everything that decides whether and as what the process starts.
MCConfigs ==
  [mode : {"backend", "router"}, store : {"env", "fs"}, path : {"none", "relative", "absolute"},
   home : BOOLEAN, keepalive : {0, 15}, ttl : {0, 60}, version : {"blank", "plain"},
   accounts : {"bad", "good"}, redis : {"down"}, key : {"blank", "set"}, port : {"free", "taken"}]
=============================================================================
