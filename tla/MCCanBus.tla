------------------------------ MODULE MCCanBus ------------------------------
(***************************************************************************)
(* Instances of CanBus: the requests and frames its run uses, in a frame   *)
(* of one byte and identifiers with one bit above the standard ones.       *)
(***************************************************************************)
EXTENDS CanBus

Id(flags, high, low) ==
  [width |-> "u32", flags |-> flags, high |-> high, low |-> low]

Asked(body, id, data, extended) ==
  [body |-> body, id |-> id, data |-> data, extended |-> extended]

\* A standard and an extended request, an identifier too large for a standard
\* frame, one that carries the flag itself, one that no frame can carry, a
\* payload that is too long, one that is not hexadecimal, a body that is not
\* JSON, and one that is no object.
SomeRequests ==
  {Asked("hex", Id({}, 0, 1), <<>>, {}),
   Asked("hex", Id({}, 1, 1), <<1>>, {"EFF"}),
   Asked("hex", Id({}, 1, 0), <<1>>, {}),
   Asked("hex", Id({"EFF"}, 0, 1), <<0>>, {}),
   Asked("hex", [Id({}, 0, 1) EXCEPT !.width = "wide"], <<>>, {}),
   Asked("hex", Id({}, 0, 1), <<1, 1>>, {}),
   Asked("not hex", Id({}, 0, 0), <<>>, {}),
   Asked("not JSON", Id({}, 0, 0), <<>>, {}),
   Asked("no object", Id({}, 0, 0), <<>>, {})}

\* A remote request for an extended identifier.
RemoteRequest ==
  {[id |-> Id({"EFF", "RTR"}, 1, 1), dlc |-> 1, data |-> <<0>>]}
=============================================================================
