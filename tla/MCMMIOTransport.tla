-------------------------- MODULE MCMMIOTransport --------------------------
(* Two transports: rng on line 0, which the PIT drives too, and the network *)
(* device with two queues on a line of its own (main.rs).                   *)
EXTENDS MMIOTransport, TLC

rng == 1
net == 2
MCirq_sel == (rng :> 0) @@ (net :> 6)
MCqueue_num == (rng :> 1) @@ (net :> 2)
============================================================================
