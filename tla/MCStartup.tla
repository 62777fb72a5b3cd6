------------------------------ MODULE MCStartup -----------------------------
(* An instance of Startup: layers that name at most one setting and a token,   *)
(* budgets on and across each of the three limits, sound and unsound           *)
(* satellites.                                                                 *)
EXTENDS Startup

Silent == [k \in Keys |-> Unset]

Values == [dry_run |-> {"on", "off"}, token |-> {"given", ""}, token_file |-> {"path"},
           profile |-> {"main"}, registry |-> {"path"}]

Single == UNION {{[Silent EXCEPT ![k] = v] : v \in Values[k]} : k \in Keys}

\* A layer with a token lets the process serve whatever the other layers say.
MCLayers == {Silent} \cup Single \cup {[l EXCEPT !["token"] = "given"] : l \in Single}

Budget(w, kv, aux, util) ==
  [pinned |-> TRUE, weights |-> w, kv |-> kv, aux |-> aux, card |-> 32, util |-> util]

MCProfiles == {Budget(18, 6, 8, 75), Budget(18, 7, 8, 75), Budget(16, 6, 9, 75),
               [Budget(18, 6, 8, 75) EXCEPT !.pinned = FALSE]}

Sat(device, ceiling, home) ==
  [device |-> device, ceiling |-> ceiling, home |-> home, scope |-> {"kitchen"}]

MCRegistries == {{}, {Sat("d1", 2, "kitchen"), Sat("d2", 1, "kitchen")},
                 {Sat("d1", 3, "kitchen")}, {Sat("d1", 1, "hall")},
                 {Sat("d1", 1, "kitchen"), Sat("d1", 2, "kitchen")}}
=============================================================================
