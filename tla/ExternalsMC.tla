----------------------------- MODULE ExternalsMC -----------------------------
(* Two engines whose names have one slug, that of an address an engine       *)
(* outside docker listens on, and one engine that a script owns.           *)
EXTENDS TLC
Address == "127-0-0-1-7000"
Engine(slug, ports, script) == [slug |-> slug, ports |-> ports, engine |-> TRUE, managed |-> FALSE, script |-> script]
MCNames == <<"127.0.0.1-7000", "127_0_0_1-7000", "up">>
MCAbout == "127.0.0.1-7000" :> Engine(Address, {"127-0-0-1-8000"}, "none")
           @@ "127_0_0_1-7000" :> Engine(Address, {"127-0-0-1-8001"}, "none")
           @@ "up" :> Engine("up", {"127-0-0-1-8002"}, "s")
==============================================================================
