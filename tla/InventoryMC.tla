----------------------------- MODULE InventoryMC -----------------------------
(* An engine with its gateway, and a container of somebody else's on the   *)
(* host network; what answers may be an engine's listing or only look so.  *)
Machine(role, inst, eng, pub, hostnet, wanted) ==
  [role |-> role, instance |-> inst, engine |-> eng, published |-> pub, hostnet |-> hostnet, wanted |-> wanted]
Listing(m, hl, hi) == [models |-> m, health |-> hl, hint |-> hi]
MCMachine == [e |-> Machine("engine", "i", "vllm", {}, FALSE, {}), g |-> Machine("gateway", "i", "none", {1}, FALSE, {}),
              h |-> Machine("none", "none", "vllm", {}, TRUE, {2})]
MCAnswers == {Listing("none", FALSE, "none"), Listing("listing", TRUE, "none"), Listing("none", FALSE, "vllm")}
==============================================================================
