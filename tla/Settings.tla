------------------------------ MODULE Settings ------------------------------
(***************************************************************************)
(* How a setting gets its value: config.py fills the environment of the    *)
(* process, once, while ccmux_core is imported, from two settings.env files *)
(* and through the alias of an upstream key; only then is claude-tap        *)
(* imported, whose own loader does the same.  One key of each kind; of a    *)
(* value what tells its origins apart, and that it may be useless (empty,   *)
(* no number, not positive).  Parsing of the lines is left out.            *)
(***************************************************************************)
EXTENDS Naturals

CONSTANTS
  Values,     \* what a key may be set to
  Useless,    \* the values that a reader of a duration rejects
  Unset,
  Default,    \* what the reader of a duration has for itself
  Home, Other,  \* the default state directory, and another
  Exported, InCwd, InHome, InOther, InTap  \* what may be set where

ASSUME ValueAssumption == Unset \notin Values /\ Default \notin Values \cup {Unset}

Keys == {"knob", "alias", "upstream"}
Environments == [Keys -> Values \cup {Unset}]
Directories == {Other, Unset}

ASSUME PlaceAssumption ==
  /\ Exported \cup InCwd \cup InHome \cup InOther \subseteq Environments
  /\ InTap \subseteq Values \cup {Unset}

VARIABLES
  shell,   \* what was exported: the settings, and CCMUX_CORE_DIR
  cwd,     \* ./settings.env, which may set CCMUX_CORE_DIR too (that of a
           \* state directory may as well, which is left out)
  global,  \* the settings.env of each state directory
  tap,     \* claude-tap's own settings.env, of its own key
  phase,   \* how far the import is
  path,    \* the global file's directory
  env, dir \* os.environ

files == <<shell, cwd, global, tap>>
vars == <<files, phase, path, env, dir>>

SetDefault(key, value) == IF env[key] = Unset THEN value ELSE env[key]

(* CCMUX_CORE_DIR, or its default.                                         *)
CoreDir == IF dir = Unset THEN Home ELSE dir

Init ==
  /\ shell \in [keys : Exported, dir : Directories]
  /\ cwd \in [keys : InCwd, dir : Directories]
  /\ \E home \in InHome, other \in InOther :
       global = [d \in {Home, Other} |-> IF d = Home THEN home ELSE other]
  /\ tap \in InTap
  /\ phase = "start" /\ path = Unset
  /\ env = shell.keys /\ dir = shell.dir

(* The two paths, before either file is read.                              *)
Starts ==
  /\ phase = "start" /\ phase' = "cwd"
  /\ path' = CoreDir
  /\ UNCHANGED <<files, env, dir>>

(* A file that is not there sets nothing.                                  *)
LoadCwd ==
  /\ phase = "cwd" /\ phase' = "global"
  /\ env' = [key \in Keys |-> SetDefault(key, cwd.keys[key])]
  /\ dir' = IF dir = Unset THEN cwd.dir ELSE dir
  /\ UNCHANGED <<files, path>>

(* (Mutant: a later file wins.)                                            *)
LoadGlobalOver ==
  /\ phase = "global" /\ phase' = "aliases"
  /\ env' = [key \in Keys |-> IF global[path][key] # Unset THEN global[path][key] ELSE env[key]]
  /\ UNCHANGED <<files, path, dir>>
LoadGlobal ==
  /\ phase = "global" /\ phase' = "aliases"
  /\ env' = [key \in Keys |-> SetDefault(key, global[path][key])]
  /\ UNCHANGED <<files, path, dir>>

MirrorAliases ==
  /\ phase = "aliases" /\ phase' = "import"
  /\ env' = [env EXCEPT !["upstream"] = SetDefault("upstream", env["alias"])]
  /\ UNCHANGED <<files, path, dir>>

(* claude-tap is imported, with the same two kinds of file.                *)
ImportTap ==
  /\ phase = "import" /\ phase' = "ready"
  /\ env' = [env EXCEPT !["upstream"] =
               IF @ # Unset THEN @
               ELSE IF cwd.keys["upstream"] # Unset THEN cwd.keys["upstream"] ELSE tap]
  /\ UNCHANGED <<files, path, dir>>

Next == Starts \/ LoadCwd \/ LoadGlobal \/ MirrorAliases \/ ImportTap
Spec == Init /\ [][Next]_vars

(* _float_env                                                              *)
Duration(key) == IF env[key] \in Useless \cup {Unset} THEN Default ELSE env[key]

-----------------------------------------------------------------------------
(* The order of README.md, "Resolution priority": the first of the shell,    *)
(* ./settings.env and the state directory's settings.env that sets a key,    *)
(* and for a key of claude-tap then the alias, resolved so too, and its own  *)
(* file.  A first one that is useless makes the default, not the next one.   *)
First(s) == IF \E i \in DOMAIN s : s[i] # Unset
            THEN s[CHOOSE i \in DOMAIN s : s[i] # Unset /\ \A j \in 1..i - 1 : s[j] = Unset]
            ELSE Unset
Own(key) == First(<<shell.keys[key], cwd.keys[key], global[path][key]>>)
Priority ==
  phase = "ready" =>
    /\ env["knob"] = Own("knob")
    /\ env["upstream"] = First(<<Own("upstream"), Own("alias"), tap>>)
    /\ Duration("knob") = IF Own("knob") \in Useless \cup {Unset} THEN Default ELSE Own("knob")
=============================================================================
