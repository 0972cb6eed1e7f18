----------------------------- MODULE MCSettings ------------------------------
(***************************************************************************)
(* An instance of Settings.tla for TLC: each place sets a key to a value of *)
(* its own or leaves it out; the value of ./settings.env is useless.       *)
(***************************************************************************)
EXTENDS Settings

CONSTANTS home, other

Place(value) == [Keys -> {value, Unset}]
MCValues == {"exported", "cwd", "home", "other", "tap"}
MCUseless == {"cwd"}
MCExported == Place("exported")
MCInCwd == Place("cwd")
MCInHome == Place("home")
MCInOther == Place("other")
MCInTap == {"tap", Unset}
=============================================================================
