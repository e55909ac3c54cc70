---------------------------- MODULE MCTransport ----------------------------
(* Transport on small instances.                                           *)
EXTENDS Transport

CONSTANTS c1, c2

TwoClients == {c1, c2}
OneClient == {c1}

Use(clients, ops, frames, pending, daq) ==
  [clients |-> clients, ops |-> ops, frames |-> frames, events |-> pending,
   daq |-> daq]
Plain == {"request", "optional", "synch"}

(* Two threads that use no block transfers, with and without DAQ; one      *)
(* thread that does everything; two threads that do everything.            *)
AllUses ==
  {Use(TwoClients, Plain, 2, 1, TRUE), Use(TwoClients, {"request", "optional"}, 3, 0, FALSE),
   Use(OneClient, {"request", "synch", "upload", "block"}, 2, 1, FALSE),
   Use(TwoClients, {"request", "upload", "block"}, 2, 0, FALSE)}

SynchAndRequest == {Use(OneClient, {"request", "synch"}, 3, 0, FALSE)}
=============================================================================
