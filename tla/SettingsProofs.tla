--------------------------- MODULE SettingsProofs ---------------------------
(***************************************************************************)
(* Theorems about Settings.tla, for every set of values and of files.      *)
(***************************************************************************)
EXTENDS Settings, TLAPS

-----------------------------------------------------------------------------
(* The first that is set                                                   *)

(* What "the first of three that is set" comes to: the chain of setdefault. *)
LEMMA FirstOfThree ==
  ASSUME NEW a, NEW b, NEW c
  PROVE  First(<<a, b, c>>) = IF a # Unset THEN a ELSE IF b # Unset THEN b ELSE c
<1> DEFINE s == <<a, b, c>>
           Set(i) == i \in DOMAIN s /\ s[i] # Unset /\ \A j \in 1..i - 1 : s[j] = Unset
<1>1. DOMAIN s = 1..3 /\ s[1] = a /\ s[2] = b /\ s[3] = c
  OBVIOUS
<1>2. ASSUME NEW i, Set(i) PROVE First(s) = s[i]
  <2>1. \A k : Set(k) => k = i
    BY <1>1, <1>2
  <2>2. (CHOOSE k \in DOMAIN s : s[k] # Unset /\ \A j \in 1..k - 1 : s[j] = Unset) = i
    BY <1>2, <2>1
  <2> QED BY <1>2, <2>2 DEF First
<1>3. CASE a # Unset
  <2>1. Set(1)
    BY <1>1, <1>3
  <2> QED BY <1>1, <1>2, <1>3, <2>1
<1>4. CASE a = Unset /\ b # Unset
  <2>1. Set(2)
    BY <1>1, <1>4
  <2> QED BY <1>1, <1>2, <1>4, <2>1
<1>5. CASE a = Unset /\ b = Unset /\ c # Unset
  <2>1. Set(3)
    BY <1>1, <1>5
  <2> QED BY <1>1, <1>2, <1>5, <2>1
<1>6. CASE a = Unset /\ b = Unset /\ c = Unset
  <2>1. ~ \E i \in DOMAIN s : s[i] # Unset
    BY <1>1, <1>6
  <2> QED BY <1>6, <2>1 DEF First
<1> QED BY <1>3, <1>4, <1>5, <1>6

-----------------------------------------------------------------------------
(* The import, phase by phase                                              *)

Phases == {"start", "cwd", "global", "aliases", "import", "ready"}

FilesTyped ==
  /\ shell \in [keys : Environments, dir : Directories]
  /\ cwd \in [keys : Environments, dir : Directories]
  /\ global \in [{Home, Other} -> Environments]
  /\ tap \in Values \cup {Unset}

(* What the environment holds once each step of the import is done: the     *)
(* settings of the shell, then what ./settings.env adds, then for each key  *)
(* the first that sets it; the alias fills the upstream key only behind     *)
(* both files, and claude-tap's own files only behind the alias.           *)
Imported ==
  /\ phase \in {"start", "cwd"} => env = shell.keys
  /\ phase = "global" => env = [key \in Keys |-> First(<<shell.keys[key], cwd.keys[key], Unset>>)]
  /\ phase \in {"aliases", "import", "ready"} => env["knob"] = Own("knob")
  /\ phase = "aliases" => env = [key \in Keys |-> Own(key)]
  /\ phase = "import" => env["upstream"] = First(<<Own("upstream"), Own("alias"), Unset>>)
  /\ phase = "ready" => env["upstream"] = First(<<Own("upstream"), Own("alias"), tap>>)

SettingsInv ==
  /\ FilesTyped
  /\ phase \in Phases
  /\ env \in Environments /\ dir \in Directories
  /\ phase # "start" => path \in {Home, Other}
  /\ Imported

(* The environment is what was exported.                                    *)
LEMMA SettingsInit == Init => SettingsInv
BY PlaceAssumption
   DEF Init, SettingsInv, FilesTyped, Phases, Imported, Environments

(* One file, or one alias, at a time.                                       *)
LEMMA SettingsStep == SettingsInv /\ [Next]_vars => SettingsInv'
<1> SUFFICES ASSUME SettingsInv, [Next]_vars PROVE SettingsInv'
  OBVIOUS
<1>1. /\ FilesTyped /\ phase \in Phases /\ env \in Environments /\ dir \in Directories
      /\ phase # "start" => path \in {Home, Other}
      /\ Imported
  BY DEF SettingsInv
<1>2. CASE UNCHANGED vars
  BY <1>1, <1>2 DEF vars, files, SettingsInv, FilesTyped, Imported, Own
<1>3. CASE Starts
  <2>1. path' \in {Home, Other}
    BY <1>1, <1>3 DEF Starts, CoreDir, Directories
  <2> QED BY <1>1, <1>3, <2>1 DEF Starts, files, SettingsInv, FilesTyped, Imported, Phases
<1>4. CASE LoadCwd
  <2>1. env = shell.keys /\ env \in Environments /\ cwd.keys \in Environments
    BY <1>1, <1>4 DEF LoadCwd, Imported, FilesTyped
  <2>2. \A key \in Keys : env'[key] = First(<<shell.keys[key], cwd.keys[key], Unset>>)
    BY <1>4, <2>1, FirstOfThree DEF LoadCwd, SetDefault
  <2>3. env' = [key \in Keys |-> First(<<shell.keys[key], cwd.keys[key], Unset>>)]
    BY <1>4, <2>2 DEF LoadCwd
  <2>4. env' \in Environments /\ dir' \in Directories
    BY <1>1, <1>4, <2>1 DEF LoadCwd, SetDefault, Environments, FilesTyped, Directories
  <2> QED BY <1>1, <1>4, <2>3, <2>4
          DEF LoadCwd, files, SettingsInv, FilesTyped, Imported, Phases
<1>5. CASE LoadGlobal
  <2>1. /\ \A key \in Keys : env[key] = First(<<shell.keys[key], cwd.keys[key], Unset>>)
        /\ path \in {Home, Other} /\ global[path] \in Environments
    BY <1>1, <1>5 DEF LoadGlobal, Imported, FilesTyped
  <2>2. ASSUME NEW key \in Keys PROVE env'[key] = Own(key)
    <3>1. env'[key] = IF env[key] = Unset THEN global[path][key] ELSE env[key]
      BY <1>5 DEF LoadGlobal, SetDefault
    <3>2. env[key] = IF shell.keys[key] # Unset THEN shell.keys[key] ELSE cwd.keys[key]
      <4>1. env[key] = First(<<shell.keys[key], cwd.keys[key], Unset>>)
        BY <2>1
      <4>2. First(<<shell.keys[key], cwd.keys[key], Unset>>)
              = IF shell.keys[key] # Unset THEN shell.keys[key]
                ELSE IF cwd.keys[key] # Unset THEN cwd.keys[key] ELSE Unset
        BY FirstOfThree
      <4> QED BY <4>1, <4>2, Zenon
    <3>3. Own(key) = IF shell.keys[key] # Unset THEN shell.keys[key]
                     ELSE IF cwd.keys[key] # Unset THEN cwd.keys[key] ELSE global[path][key]
      BY FirstOfThree DEF Own
    <3> QED BY <3>1, <3>2, <3>3
  <2>3. env' = [key \in Keys |-> Own(key)]
    BY <1>5, <2>2 DEF LoadGlobal
  <2>4. env' \in Environments
    BY <1>1, <1>5, <2>1 DEF LoadGlobal, SetDefault, Environments
  <2>5. env'["knob"] = Own("knob")
    BY <2>3 DEF Keys
  <2> QED BY <1>1, <1>5, <2>3, <2>4, <2>5
          DEF LoadGlobal, files, SettingsInv, FilesTyped, Imported, Phases, Own
<1>6. CASE MirrorAliases
  <2>1. /\ env["upstream"] = Own("upstream") /\ env["alias"] = Own("alias")
        /\ env["knob"] = Own("knob") /\ env \in Environments
    BY <1>1, <1>6 DEF MirrorAliases, Imported, Keys
  <2>2. env'["upstream"] = First(<<Own("upstream"), Own("alias"), Unset>>)
    BY <1>6, <2>1, FirstOfThree DEF MirrorAliases, SetDefault, Environments, Keys
  <2>3. env' \in Environments /\ env'["knob"] = Own("knob")
    BY <1>6, <2>1 DEF MirrorAliases, SetDefault, Environments, Keys
  <2> QED BY <1>1, <1>6, <2>2, <2>3
          DEF MirrorAliases, files, SettingsInv, FilesTyped, Imported, Phases, Own
<1>7. CASE ImportTap
  <2>1. /\ env["upstream"] = First(<<Own("upstream"), Own("alias"), Unset>>)
        /\ env["knob"] = Own("knob") /\ env \in Environments
        /\ cwd.keys \in Environments /\ tap \in Values \cup {Unset}
    BY <1>1, <1>7 DEF ImportTap, Imported, FilesTyped
  (* With an upstream key in ./settings.env claude-tap has nothing to add:  *)
  (* ccmux_core has loaded that file, too.                                  *)
  <2>2. cwd.keys["upstream"] # Unset => Own("upstream") # Unset
    BY FirstOfThree DEF Own
  <2>3. env'["upstream"] = First(<<Own("upstream"), Own("alias"), tap>>)
    BY <1>7, <2>1, <2>2, FirstOfThree DEF ImportTap, Environments, Keys
  <2>4. env' \in Environments /\ env'["knob"] = Own("knob")
    BY <1>7, <2>1 DEF ImportTap, Environments, Keys
  <2> QED BY <1>1, <1>7, <2>3, <2>4
          DEF ImportTap, files, SettingsInv, FilesTyped, Imported, Phases, Own
<1> QED BY <1>2, <1>3, <1>4, <1>5, <1>6, <1>7 DEF Next

(* Whatever is exported and whatever the files say, the environment that    *)
(* _load_settings_env_files, the aliases and the import of claude-tap leave *)
(* has for each key the value of the documented place, and a reader of a    *)
(* duration takes its default when that value is useless.                   *)
THEOREM PriorityHolds == Spec => []Priority
<1>1. SettingsInv => Priority
  BY DEF SettingsInv, Imported, Priority, Duration
<1> QED BY <1>1, SettingsInit, SettingsStep, PTL DEF Spec
=============================================================================
