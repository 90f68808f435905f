---------------------------- MODULE SettledSize ----------------------------
(***************************************************************************)
(* What debounced resizing promises: a running terminal takes no size but  *)
(* the one its windows want, the program is told it in the same step, and  *)
(* unless resizing is at once, it takes it when a request is outstanding   *)
(* and the last one was Delay ago.  A request is only dropped when a       *)
(* terminal starts or ends.                                                *)
(***************************************************************************)
EXTENDS Integers

CONSTANT Delay

VARIABLES
  running, \* whether the process of the terminal lives
  wanted,  \* the size the windows want, 0 when none shows the terminal
  size,    \* the size of the terminal
  told,    \* the size its program was told
  atOnce,  \* whether resizing is at once
  owed,    \* whether a request is outstanding
  quiet    \* the time since the last request that was put off

settling == <<running, wanted, size, told, atOnce, owed, quiet>>

SettledInit == ~running /\ size = told /\ ~owed

Request ==
  /\ running /\ wanted # 0 /\ ~atOnce
  /\ owed' /\ quiet' = 0
  /\ UNCHANGED <<running, wanted, size, told, atOnce>>

Conform == size' = wanted /\ told' = wanted

Settle ==
  /\ owed /\ quiet >= Delay /\ ~owed'
  /\ IF running /\ wanted # 0 THEN Conform ELSE UNCHANGED <<size, told>>
  /\ UNCHANGED <<running, wanted, atOnce, quiet>>

ResizeAtOnce ==
  /\ running /\ wanted # 0 /\ atOnce
  /\ Conform
  /\ UNCHANGED <<running, wanted, atOnce, owed, quiet>>

StartOrEnd ==
  /\ ~(running /\ running')
  /\ told' = size'
  /\ owed' => owed /\ ~running'
  /\ UNCHANGED <<atOnce, quiet>>

WindowsChange == UNCHANGED <<running, size, told, atOnce, owed, quiet>>

Switch == UNCHANGED <<running, wanted, size, told, owed, quiet>>

TimePasses == quiet' \in {quiet, quiet + 1} /\ UNCHANGED <<running, wanted, size, told, atOnce, owed>>

SettledNext ==
  Request \/ Settle \/ ResizeAtOnce \/ StartOrEnd \/ WindowsChange \/ Switch \/ TimePasses

SettledSpec == SettledInit /\ [][SettledNext]_settling
=============================================================================
