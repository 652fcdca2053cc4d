---------------------------- MODULE RequestQueue ----------------------------
(***************************************************************************)
(* What a core may expect of the way to the bus: the requests it makes     *)
(* wait in order, and each one is served once.  Only while the core is cut *)
(* off the bus may requests vanish.                                        *)
(***************************************************************************)
EXTENDS Sequences

CONSTANTS Payload, None

VARIABLES
  queue,        \* requests made and not yet served
  served,       \* the request served in the last cycle, or None
  cut           \* the core is cut off

\* in one cycle the core makes at most one request
New == {<<>>} \cup {<<p>> : p \in Payload}

Serve ==
  /\ queue # <<>>
  /\ served' = Head(queue)
  /\ \E new \in New : queue' = Tail(queue) \o new

Wait ==
  /\ served' = None
  /\ \E new \in New : queue' = queue \o new

CutOff ==
  /\ cut
  /\ served' = None \/ (queue # <<>> /\ served' = Head(queue))
  /\ queue' \in Seq(Payload)

QueueSpec ==
  queue = <<>> /\ served = None /\ [][Serve \/ Wait \/ CutOff]_<<queue, served>>
=============================================================================
