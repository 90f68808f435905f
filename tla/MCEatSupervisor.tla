-------------------------- MODULE MCEatSupervisor --------------------------
(* Instances of EatSupervisor for TLC. *)
EXTENDS EatSupervisor, TLC

\* A command of each kind; the last decodes to nothing.
MCCommandAgent ==
  [c \in Command |->
     CASE c = "runClaude" -> "claude"
       [] c = "runCodex"  -> "codex"
       [] c = "make"      -> "shell"
       [] c = "garbled"   -> "none"]

\* Quiet, at work, asking, and recognised by text for one agent; text that
\* means work to one agent only; the prompt of a shell.
MCScreens ==
  {{}, {"escToInterrupt"}, {"spark"}, {"claudeAsks"}, {"claudeName", "claudeBusy"},
   {"codexName", "codexAsks"}, {"prompt"}}

MCFewScreens == {{}, {"escToInterrupt"}, {"claudeAsks"}, {"claudeName"}}
MCBlankScreens == {{}}
=============================================================================
