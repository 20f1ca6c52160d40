----------------------------- MODULE MCLauncher -----------------------------
(***************************************************************************)
(* The configs and command lines Launcher is model-checked with.           *)
(***************************************************************************)
EXTENDS Launcher, TLC

CONSTANTS
  a,       \* the name of a preset
  Silent   \* what a command line says that names no level: "bare", or "gated"

Claude(level) == [program |-> "claude", level |-> level, confirmed |-> TRUE,
                  caps |-> TRUE, env |-> TRUE]
Cfg(preset, tree, fresh) ==
  [valid |-> TRUE, agents |-> a :> preset, default |-> None, legacy |-> None,
   custom |-> FALSE, tree |-> tree, fresh |-> fresh]

Sound    == Cfg(Claude("full"), "warn", FALSE)
Unset    == Cfg(Claude(Silent), "warn", FALSE)
Sessions == Cfg(Claude("full"), "warn", TRUE)
MCConfig == {Sound, Unset, Sessions}

Line(check, fg, tty, watchdog) ==
  [check |-> check, fg |-> fg, tty |-> tty, yes |-> FALSE, watchdog |-> watchdog,
   agent |-> None]
MCArgs == {Line(TRUE, FALSE, FALSE, FALSE), Line(FALSE, FALSE, FALSE, TRUE),
           Line(FALSE, FALSE, TRUE, FALSE), Line(FALSE, TRUE, FALSE, FALSE)}
Launches == Permutations(Launch)
=============================================================================
