----------------------------- MODULE MCMemStore -----------------------------
(* Two concurrent Shutdown callers and one accessor client. *)
EXTENDS MemStore
CONSTANTS c1, h1, h2
MCClients  == {c1}
MCShutters == {h1, h2}
=============================================================================
