----------------------------- MODULE Preflight -----------------------------
(***************************************************************************)
(* What the launcher decides from its inputs alone (launcher.py,           *)
(* agent_clis.py): which agent a config names, how far that agent gets     *)
(* with nobody there, whether the pre-flight is a GO, and whether the run  *)
(* is moved to a worktree of its own.                                      *)
(*                                                                         *)
(* A preset's cmd is what the launcher reads in it: the program (a known   *)
(* CLI by its bare name, or a custom one), what its permission flags say   *)
(* (nothing at all: "bare"; a mode that asks, as plan or default do:       *)
(* "gated"), whether a human confirmed its autonomy, and whether its       *)
(* capability list and the token references of its env are sound.          *)
(***************************************************************************)
EXTENDS FiniteSets

CONSTANTS
  None,      \* nothing configured, nothing given, no file
  Mode       \* the permission mode Claude's settings files give a bare argv, or None

Levels  == {"full", "auto", "edits", "gated", "bare"}
Program == {"claude", "other", "custom", "empty"}
Preset  == [program : Program, level : Levels, confirmed : BOOLEAN,
            caps : BOOLEAN, env : BOOLEAN]
Policies == {"warn", "ack", "require_isolation", "auto_worktree"}

IsConfig(c) ==
  /\ DOMAIN c = {"valid", "agents", "default", "legacy", "custom", "tree", "fresh"}
  /\ {c.valid, c.custom, c.fresh} \subseteq BOOLEAN
  /\ \A n \in DOMAIN c.agents : c.agents[n] \in Preset
  /\ c.legacy \in Preset \cup {None} /\ c.tree \in Policies

(* The preset selected: the flag, else the default, else the only one.  A flat
   agent_cmd counts only where there are no presets and no flag. *)
NameOf(c, flag) ==
  IF flag # None THEN flag
  ELSE IF c.default = None /\ Cardinality(DOMAIN c.agents) = 1
       THEN CHOOSE n \in DOMAIN c.agents : TRUE ELSE c.default

PresetName(c, flag) == IF DOMAIN c.agents = {} THEN None ELSE NameOf(c, flag)

PresetOf(c, flag) ==
  IF c = None \/ ~c.valid THEN None
  ELSE IF DOMAIN c.agents = {} THEN IF flag = None THEN c.legacy ELSE None
  ELSE IF NameOf(c, flag) \in DOMAIN c.agents THEN c.agents[NameOf(c, flag)] ELSE None

(* A flat agent_cmd was vouched for with the config; a preset needs its own mark. *)
Resolved(c, flag) ==
  LET p == PresetOf(c, flag) IN
  /\ p # None /\ p.program # "empty"
  /\ DOMAIN c.agents # {} => p.confirmed /\ p.caps

ByDefault == IF Mode = None THEN "gated" ELSE Mode
(* The level the launcher judges by: that of the settings files for a claude argv that
   names no level of its own, the one with a mode that asks included. *)
Level(p) ==
  IF p.program = "claude" /\ p.level \in {"bare", "gated"} THEN ByDefault ELSE p.level
(* The level Claude runs at: its flags beat the settings files. *)
Effective(p) == IF p.program = "claude" /\ p.level = "bare" THEN ByDefault ELSE p.level

(* Mutant: an argv that only approves edits is let through. *)
PermissionOkEdits(c, flag, fg) ==
  Resolved(c, flag) =>
    LET p == PresetOf(c, flag) IN
    fg \/ p.program = "custom" \/ Level(p) \in {"full", "auto", "edits"}
PermissionOk(c, flag, fg) ==
  Resolved(c, flag) =>
    LET p == PresetOf(c, flag) IN
    fg \/ p.program = "custom" \/ Level(p) \in {"full", "auto"}

(* Every token reference in the preset's environment resolves. *)
EnvOk(p) == p.env

Allowed(c, p) == p.program \in {"claude", "other"} \/ c.custom

(* The one-step repair: it is offered for a claude preset that would stop the run. *)
Repairable(c, flag) ==
  /\ Resolved(c, flag) /\ PresetOf(c, flag).program = "claude"
  /\ Level(PresetOf(c, flag)) \in {"edits", "gated"}

(* What it rewrites is the preset of that name in the file as it is by then; None is
   the flat agent_cmd. *)
CanRepair(c, name) ==
  /\ c # None /\ c.valid
  /\ LET p == IF name = None THEN c.legacy
              ELSE IF name \in DOMAIN c.agents THEN c.agents[name] ELSE None IN
     p # None /\ p.program = "claude" /\ p.level # "full"

Repaired(c, name) ==
  IF name = None THEN [c EXCEPT !.legacy.level = "full"]
  ELSE [c EXCEPT !.agents[name].level = "full", !.agents[name].confirmed = TRUE]

(* host: whether the binary answers its probe and credentials, git, the disk, the
   file rights and the configured host checks are as they must be. *)
Go(c, flag, fg, host) ==
  /\ Resolved(c, flag) /\ PermissionOk(c, flag, fg)
  /\ EnvOk(PresetOf(c, flag)) /\ Allowed(c, PresetOf(c, flag)) /\ host

(* An explicit policy is taken as it is; "warn" on a detached run over tracked
   changes becomes isolation. *)
Isolates(c, dirty, fg) ==
  \/ c.tree = "auto_worktree"
  \/ c.tree = "warn" /\ dirty /\ ~fg
=============================================================================
