--------------------------- MODULE MCConfigReload ---------------------------
(* Small instances of ConfigReload for TLC. *)
EXTENDS ConfigReload

TwoPaths == <<"home", "etc">>

(* Two buckets; a name of more than 31 characters, kept as the "stem" of it. *)
MCPresetNames == {"window", "panel", "hud", "tooltip", "desk", "nobody", "stem", "stem and more"}

MCBuckets == {0, 1}

MCHash == [n \in MCPresetNames |-> IF n \in {"window", "desk", "hud", "stem"} THEN 0 ELSE 1]

MCStored == [n \in MCPresetNames |-> IF n = "stem and more" THEN "stem" ELSE n]

MCParams == {Passes(n) : n \in 0 .. 9}

(* A file with good defaults, one whose defaults are refused, and one with
   presets only: new ones, one that replaces a standard one, one refused. *)
Good == [has_defaults |-> TRUE, defaults |-> Passes(5), presets |-> << >>]
BadDefaults == [has_defaults |-> TRUE, defaults |-> [Passes(5) EXCEPT !.algorithm = "gaussian"],
                presets |-> <<[name |-> "desk", params |-> Passes(7)]>>]
OnlyPresets == [has_defaults |-> FALSE, defaults |-> Zeroed,
            presets |-> <<[name |-> "stem and more", params |-> Passes(8)],
                          [name |-> "desk", params |-> Passes(6)],
                          [name |-> "window", params |-> Passes(9)],
                          [name |-> "panel", params |-> Passes(1)]>>]

MCContents == {Good, BadDefaults, OnlyPresets}

(* One standard preset, which no file replaces. *)
MCLosable == {"window"}

MCNames == {"window", "panel", "desk", "nobody", "stem"}
=============================================================================
