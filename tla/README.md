# Verification of the terminal configuration

TLA+ models, TLC runs and TLAPS proofs for the Emacs configuration in `src/`.
The configuration is mostly settings and vendored packages. Two parts have state
and callbacks of their own and are modelled as a whole: the set-up of terminals,
`src/personal/eat-term.el` and `src/personal/eat-supervisor.el` on top of the
vendored terminal emulator `src/elpa/eat-0.9.4/eat.el`; and the Rust module of the
package tsc, `src/elpa/tsc-0.19.4/src/*.rs`, which gives Lisp the syntax trees of
the tree-sitter library. The repository has no tests.

Paths below are relative to `src/`; `sup` stands for `personal/eat-supervisor.el`,
`term` for `personal/eat-term.el`, `eat` for `elpa/eat-0.9.4/eat.el` and `tsc` for
`elpa/tsc-0.19.4/src`.

## Inventory

| Component | State | Operations | Modelled |
|---|---|---|---|
| Supervisor (`sup` 86-350, 457-471, 502-535) | per terminal: agent, state, last state, stamps of the last output, marker and change, idle-alerted flag, command, command-running, session-active, pending agent; globally the mode, the scan timer, the mode line | advice on `eat--set-cmd`, `eat--pre-cmd`, `eat--before-new-prompt`; output, exec and exit hooks; scan with alerts; mode on and off | `EatSupervisor` |
| Supervisor list buffer, mode line text, faces (`sup` 152-165, 351-500) | none that the rest reads | formatting | no: display only |
| Terminal list (`term` 94-167) | `my/eat-buffer-list`, scheduled switches | exec, exit and kill hooks, `my/eat`, `my/eat-next`, `my/eat-prev`, `my/eat-project` | `EatTerm` |
| Debounced resizing (`term` 18-92) | the local timer, the forced and resizing flags | size function, timer, configuration | `EatResize` |
| Output queue (`eat` 6746-6890) | queue, time of its first chunk, timer, running drains | filter, drain, send, sentinel | `EatOutput`, `OutputFeed` |
| Creation of terminals (`eat` 6919-7070) | process, emulator | `eat-exec`, `eat--1` | as far as the configuration depends on it |
| Emulator, input modes, line mode, prompt annotation (`eat`) | screen, cursor, modes | escape sequences, keys | no: to the modules here a chunk is processed, shows markers, carries an integration sequence or asks for an answer |
| Shell integration (`elpa/eat-0.9.4/integration/bash`) | where the shell is between prompts | prompt, preexec | the order of its sequences, in `EatSupervisor` |
| Notifications (`elpa/alert-1.3/alert.el`) | the notifier program found at load | `alert` | that a notification is sent or fails |
| Traversal of syntax trees (`elpa/tsc-0.19.4/src/cursor.rs`, `tsc.el`) | cursor, traversal state, depth | next, the three loops | `TreeTraversal` |
| Objects, borrows and positions of tsc (`tsc/types.rs`, the wrappers of `node.rs` and `cursor.rs`, `tsc.el` 97-109) | the objects that Lisp holds, the tree each keeps, the flag of each `RefCell` | conversion of arguments, borrows, garbage collection | `TscTypes`, `TscObjects` |
| Languages, trees and nodes (`tsc/lang.rs`, `tree.rs`, `node.rs`) | the registry of languages, the edits of each tree | load, look up, edit, navigate, go through children with a callback | `TscNode` |
| Cursors and iterators (`tsc/cursor.rs`) | the place of each, and the tree it keeps | walk, reset, iterate, traverse with a callback | `TscCursor` (which calls are possible), `TreeTraversal` (the order of nodes) |
| Parser (`tsc/parser.rs`) | its language; the chunks gathered by a running parse | set up, parse a string, parse chunks from a callback | `TscParser` |
| Queries (`tsc/query.rs`) | tags and disabled captures; the captures gathered by a running query | make with a callback, disable, match with a callback | `TscQuery` |
| Entry point and error symbols (`tsc/lib.rs`, `error.rs`) | none | | no |
| `init.el`, `personal/{misc,hooks,modes,face,bindings}.el` | none | settings run once | no |
| `personal/{personal,org-presentations}.el` | none between calls | editing commands | no |
| Other packages under `elpa/`, snippets, data | | third-party code, templates | no |

### How they interact

Emacs runs one handler at a time: a process filter, a sentinel, a timer, redisplay
or a command. Handlers never run in parallel, so a handler that does not yield is
one atomic action; what makes the code hard is the order in which handlers come
and the state they find. The exception is a drain of the output queue, which may
send an answer to its process and thereby let other handlers in
(`accept-process-output`, `eat` 6759).

    process output -> eat--filter -> queue -> drain -> integration sequences (advice)
                                                    -> eat-update-hook -> my/eat-sup--note-output
    process exit   -> eat--sentinel -> drain, delete emulator
                                    -> eat-exit-hook: sup, term, kill the buffer
    redisplay      -> size function -> resize timer -> emulator and pseudo terminal
    scan timer     -> my/eat-sup--scan -> alerts, mode line
    exit timer     -> switch to another terminal

The functions of tsc are called by Lisp, one at a time, and change no state of the
terminals. Five of them call Lisp back before they return: `tsc-parse-chunks` for
each chunk of text, the queries for the text of a node, `tsc-make-query` for the
tag of a capture, `tsc-mapc-children` and `tsc-traverse-mapc` for each node. Meanwhile
they keep what they have borrowed, and Lisp may call any function of the module on
any object, edit the tree that is read, or leave by a signal.

    tsc-parse-buffer -> parse_chunks -> tsc--buffer-input  (position -> chunk)
    query cursor     -> matches, captures -> text function (range -> text)
    an object of Lisp -> RefCell -> Rc<RefCell<Tree>> <- other objects

What makes each part correct, in short: the supervisor announces each question and
each end of a session, once and of the right agent, and nothing else; the list is
exactly the buffers that exist, and no window is left on a dead one; the program
in a terminal is told every size its terminal takes, and settles on the size of
its windows; output is processed once, in order, in time, and all of it before
the terminal goes; a traversal gives every node once, in order, with its depth;
a tree is of the whole text, is not edited under its readers, lives as long as what
points into it, and no call leaves an object locked; a query returns what matches,
under the right tags.

## Modules

| Module | What it is |
|---|---|
| `EatSupervisor` | the supervisor, the life of its terminals, the shell protocol, the notifier |
| `SessionReports` | what is promised about the sessions of a terminal; `EatSupervisor` implements it |
| `EatSupervisor_proofs` | theorems about both |
| `EatTerm` | the list of terminals and moves between them |
| `EatTerm_proofs` | theorems about it |
| `EatResize` | debounced resizing |
| `SettledSize` | what debounced resizing promises; `EatResize` implements it |
| `EatResize_proofs` | theorems about both |
| `EatOutput` | the output queue in detail, with re-entry |
| `OutputFeed` | what a terminal promises about output; `EatOutput` implements it |
| `EatOutput_proofs`, `EatOutputFeed_proofs` | theorems about the queue; the second has the refinement |
| `TreeTraversal` | the depth-first iterator of tsc and its loops |
| `Enumeration` | what an iterator promises about the items of a structure; `TreeTraversal` implements it |
| `TreeTraversal_proofs` | theorems about both |
| `TscTypes` | positions, and the input function that answers them with chunks |
| `TscObjects` | objects, trees, borrows, suspended calls |
| `TscNode`, `TscCursor`, `TscParser`, `TscQuery` | one action per function of `lang.rs`, `tree.rs` and `node.rs`, `cursor.rs`, `parser.rs`, `query.rs` |
| `Tsc` | their composition: any of them at any time, also inside callbacks; its properties |
| `Tsc_proofs`, `TscText_proofs` | theorems about it |
| `MC*` | instances for TLC |

### EatSupervisor

`loc[b]` holds the buffer-local variables of `sup` 88-104. A stamp is modelled by
its age, saturated at the interval it is compared with: no condition of the code
can tell ages beyond it apart. A screen is the set of markers that the patterns of
`sup` 50-84 find in the title and the text; `Screens` says which sets a run uses.
`OnSetCmd`, `OnPreCmd` and `OnNewPrompt` are the advised functions and run only
while the mode is on, inside a drain (`SetCmd`, `PreCmd`, `NewPrompt`), whose end
runs the output hook (`NoteOutput`) where the hook was added. `shell` is the order
in which the bash integration sends its sequences. `Scan` is one run of the timer:
it surveys the listed terminals in order (`Surveyed`), sends what is due
(`DueAlerts`), and, if the notifier cannot be called, stops at its first alert with
that terminal half done. `Sentinel` is the exit with its three hook functions;
`DrainFails` is the error of an answer to a dead process. `Enable`, `Reload` and
`Disable` are the minor mode; `Reload` is the repeated `(my/eat-supervisor-mode 1)`
that loading `term` again makes. `alerts` holds what the last step announced and
`watched` records that the supervisor saw a terminal from its start; no action
reads either. `ReportsSessions` says that each terminal implements `SessionReports`:
the session that runs is read off `session-active` and the agent, the one owed a report
is the pending agent, and whether a command runs is the shell's own affair, which the
supervisor does not see. `sure` excludes what the supervisor cannot know: a terminal it
did not watch from the start, until its first prompt.

### EatTerm

One action per command and hook. `switches` are the calls scheduled with
`run-at-time 0`; `process = "stuck"` is a buffer whose emulator still has a dead
process, which the command `eat` does not start again. A hook function that fails
(`Fails`) leaves the buffer behind. `seq-filter` and `delq` are `Filtered`, defined by
the rank of each element kept, because what a recursive selection returns could not be
proved.

### EatResize

A size is one number. A window change and the call of the resizing function are
two steps, because redisplay makes the call and timers may run before it. `Adjust`
is `eat--adjust-process-window-size` called by redisplay, `FireTimer` the forced
call by the timer. `quiet`, `asked`, `printed` are history; `noted` is whether the
supervisor's hook ran with `my/eat--resizing` unset. The hook runs only when there is a
size to take (`Resized`, whose second argument is the flag): a request that is put off,
and a forced one for the size that the terminal has, run none (`NotResized`).
`SizeSettles` says that the timers with their handle implement `SettledSize`, which
knows neither: one request is outstanding, and is met when the last one was `Delay`
ago.

### EatOutput and OutputFeed

Chunks are numbered as they are read. A running call of
`eat--process-output-queue` is a frame; the frame on top either processes its next
chunk, waits while an answer is sent (the filter, the clock and the sentinel may
then run), fails with the answer when the process is gone, or ends its round and
looks at the queue again. `first` is `eat--output-queue-first-chunk-time` with its
dynamic binding to `t` during a round. `Ending` is what the promise excludes: the
terminal is gone, ends in the middle of a drain, or had a drain ended by an error.
`FeedSpec` says that `EatOutput` implements `OutputFeed` under `ended <- Ending`.

### TreeTraversal

One action per evaluation of `match self.state` in `DepthFirstIterator::next`; a
call that recurses is several steps, with `calling` set. The tree, the starting
node and the loop are chosen at the start, and what the loop asks for: nodes, the
depth, one property (`Get`, nil for some nodes), or several (`CurrentNode`,
`IterCurrentNode`). `Give` is what the loop makes of an item: the generator of
`tsc-traverse-iter` takes nil for the end. `Enumerates` says that the loops implement
`Enumeration`, whose items are the nodes below the start, each with its depth, in
pre-order.

### Tsc and its parts

`obj[h]` is what Lisp holds: a `Shared<Tree>`, a node, a cursor or an iterator, with
the tree its reference counts (`tree`) and the tree it points into (`in`). The code
keeps the two together by passing `clone_tree()` along (`Wrapper`); the lifetime is
erased by `types::erase_lifetime`, so that the compiler does not check it. `Collect`
is the garbage collector: it may finalize any object that no suspended call has as
an argument, and a tree goes with the last object that counts it.

`cell[c]` is the flag of a `RefCell`: of each tree, and of the wrapper that
emacs-module-rs puts around each node, cursor, iterator, parser, query and query
cursor. A function whose arguments cannot be borrowed signals an error (`Refused`); a
borrow in the code itself panics, which emacs-module-rs signals (`Panics`); so does a
parse without a language, which the model tells apart (`NoLanguage`). A function
that calls nobody back takes and gives back its borrows within one action, so that
only the guard shows. One that calls back is a frame of `stack` (`Frame`), with what
it reads and writes (`Reads`, `Writes`), how far it is (`at`), what it has gathered
(`kept`, `items`), and which callback failed first (`failed`); `seen` and `truth` are
history. `Lisp` runs between its steps: `Next` allows every function in every state.
`...Returns` and `...Fails` are the ways in which the callback of the innermost frame
ends; a frame ends with `LetGo` of what it took, whichever way it ends.

The text is a sequence of bytes, each with the number of its character. A parse asks
for the text from a byte on; `BytePos` turns the offset into a position of Emacs and
`BufferInput` is `tsc--buffer-input`, which clips to the buffer and converts bytes to
characters, so that a chunk ends before a character that its last byte splits. When
the input function fails the library sees an empty chunk and may ask again or take
it for the end: both are possible (`InputFails`), and `EndParse` looks at the error.

A query finds candidates in a fixed order; whether one matches depends on its text,
which the text function is asked for (`truth` are those that do match). When it
fails the candidate is decided either way (`TextFails`), and the error is looked for
only when there is a match (`Pending`): a failure after the last match is lost, and
the items are returned without error. `AnswersAreTrue` says what the caller may still
rely on then. One query is followed at a time: `TagReturns` either puts the query
it makes in the place of the last one or leaves it to Lisp unused, as it must while a
search reads the last one.

External, and modelled as the code uses it: the tree-sitter library, the `RefCell`s
that emacs-module-rs makes and checks, the reference counts of Rust, the garbage
collector and the buffer functions of Emacs. Left out: how the library reuses the old
tree of a parse, child objects made inside of callbacks (each is a `NodeNavigation`),
and the call of `tsc--iter-current-node` with a vector and no output, a `todo!()` that
no function of `tsc.el` makes. `_clone_tree` is documented as a shallow copy and makes
another reference to the same tree, which is what `CloneTree` does.

## Runs

| Run | Shows |
|---|---|
| `supervisor_safety` | one terminal, every kind of command (Claude, Codex, another program, undecodable), seven screens, mode switched, `eat-term.el` loaded again, notifier may break: type, session record, alert flag, exact list, timers, silence while off, and that what it reports is what `SessionReports` promises |
| `supervisor_live` | reports, questions and the end of "working" eventually come |
| `done_latched` | violation: the end of a second short session is never reported |
| `broken_notifier_starves` | violation: one due alert that fails keeps the terminals after it from being scanned |
| `resize` | safety and liveness of resizing, two windows, delay and no delay; refinement of `SettledSize` |
| `resize_noted` | violation: with a delay of zero a window change counts as output |
| `output` | order, deadline, last output, refinement and progress of the queue |
| `term` | list, windows, cycling and scheduled switches of three terminals |
| `traversal` | refinement of `Enumeration` and termination on all trees of up to five nodes |
| `traversal_nil` | violation: the generator of one property stops at the first nil |
| `tsc` | all functions of the Rust module on two objects and two trees, two callbacks deep: types, borrow flags, held trees, whole texts, true answers, explained refusals |
| `tsc_reset` | violation: a cursor reset to a node of another tree does not keep that tree |

### Bounds, and why they are enough

- Stamps saturate, so `Grace`, `Hold` and `Debounce` only need to be large enough
  to be passed and not passed, in the order of the defaults (5 s and 6 s, then
  30 s): 1, 1 and 2 where the order matters. The starvation run, whose property is
  about the scan and not about time, takes 0 where it can.
- One terminal is enough for the properties of a single terminal: handlers touch
  only their own buffer, except the scan, which has a run with two, and the list,
  whose exactness is proved for any number.
- `MaxToggles` 1 switches the mode off, or on where it was off; `MaxReloads` 1 gives
  a leaked timer, which still scans while the mode is off: hence the condition
  `reloads = 0` of `ModeOffQuiet`.
- `MaxChunks` 5 with a maximum latency of 4 ticks has chunks before, during and
  after a drain and after a drain inside a drain, and postpones the timer until the
  maximum counts.
- Two windows, two sizes and four changes have every combination of hidden, shown
  once and shown twice, and a request before, at and after the timer.
- Three terminals have a first, a middle and a last one; two waiting switches have
  targets that exit in turn.
- Two objects, two trees and two suspended calls have an edit under a reader, a
  parse inside a parse, a query inside a query and a call on the argument of the one
  it is in. The text has characters of two, one and three bytes and chunks of three,
  so that a chunk ends inside a character. Two candidates, the first of the second
  pattern, and two captures have an error before, at and after the last match. One
  edit per tree is what `seen` can tell from none. `KindCount`, `MaxVisits` and
  `Children` of 2 have a first and another one. One language is supported, one is not.
- `tsc_reset` needs three objects (a cursor and a node of another tree, made from its
  tree object) and no callback.
- `ResetElsewhere` says whether a cursor may be reset to a node of another tree; it is
  FALSE in `tsc`, for the reason that `tsc_reset` shows.
- Five nodes have a chain, a fan, and a node that has to go up two levels before
  it finds a sibling.

### Fairness

Weak fairness of `Scan`, of the resize and output timers and of the scheduled
switches: Emacs runs due timers whenever it is idle or waits. Weak fairness of
`Tick`: time passes. Of `Sentinel`: Emacs runs the sentinel of a process that
ended. Of `Adjust`: redisplay comes. Of the steps of a drain and of a call of
`next`: a function that runs goes on. Of `EndWait`: `accept-process-output` is
called without arguments, which only polls, so that its wait ends. No action of a
user, of a program or of the shell is assumed to happen.

The system may stop only in `TreeTraversal`, where a traversal ends; every other
run checks deadlock.

## What the runs found

Five places where the code does not do what its documentation says. They are in
`PROJECT.json` with the lines quoted.

1. `sup` 320: the end of a session that began and ended between two scans after an
   idle alert is never reported. `DoneReported` is what does hold: an end that
   finds the alert flag unset is reported.
2. `sup` 308: an alert that signals an error ends the scan, and the next ones at
   the same place.
3. `term` 72 with `eat` 6899-6911: with a delay of zero a window change resizes at
   once and runs the output hook with `my/eat--resizing` unset, which renews the stamp
   of the latest output. A resize that is put off runs no hook, and the timer's binds
   the flag.
4. `elpa/tsc-0.19.4/tsc.el` 373: the generator of a single property takes nil for
   the end of the sequence. `EndAlwaysComplete` is what does hold: the other loops,
   and vectors of properties, get every node.
5. `tsc/cursor.rs` 205: a cursor that is reset to a node of another tree points into
   a tree that it does not keep by reference count. `TreesKept` is what does hold:
   every other object keeps the tree it points into, and so does a cursor that is only
   reset within its tree.

More that no text of the repository speaks about is modelled and not stated as a
property of its own: enabling the mode twice leaves a scan timer (`sup` 523;
`TimersAccounted` says how many exactly); an error of the text function after the
last match of a query is lost (`tsc/query.rs` 173); an answer to a process that has exited ends a drain and may
leave a terminal that `eat` never starts again (status "stuck"); a sentinel that
interrupts a drain loses or reorders what that drain held; the debounce counts from
the last change a scan saw.

## Proofs

Eight modules hold proofs. Every theorem is for all values of the constants that
the named assumptions of its module allow; the theorems that state a property of a
run are listed in `PROJECT.json`.

`EatSupervisor_proofs`:

- `TypeCorrect`: `Spec => []TypeOK`. The lemmas state the type of each function on
  the local variables (`OnSetCmd`, `Surveyed`, `AlertIdle`, ...), one step per
  action.
- `TimersAlwaysAccounted`: inductive as it stands, with the type invariant.
- `PendingAlwaysExcludesSession`, `CommandAlwaysNamesAgent`: `PendingExcludesSession`
  and `CommandNamesAgent` are proved together as the session invariant, since each
  handler needs the one for the other: that a prompt finds the agent of the
  command it ends, and that a text detected agent cannot appear while a report is
  pending, because the agent is then known to be the shell.
- `IdleAlertedOnlyWhileIdle`: from the way a scan enters a state.
- `DoneAlwaysReportsEndedSession`: the action property that "done" is only reported
  for the agent left pending by the last prompt. It needs, besides the session
  invariant, an invariant that ties the shell's place in its protocol to the record
  of a watched terminal: a terminal watched from its start whose shell runs a command
  of a coding agent has an active session, and one whose shell has spoken has a known
  agent, so that text is not used any more.
- `SupervisorReportsSessions`: `Spec => ReportsSessions`, that every terminal implements
  `SessionReports`, from the same invariants. Each handler is an announcement, a start,
  a prompt, a report or quiet, for each terminal at once. It says more than the action
  property, which looks at one report: that between the prompt and its report nothing
  replaces the agent owed, and nothing is reported twice.
- `DoneAlwaysComesNearer`: what is left to the report of an ended session is at most the
  debounce and two scans (`Distance`). No step makes it more; a tick of the clock makes
  it less while the debounce runs, a scan that no alert ends before and after.
- `ScansAlwaysTrue`: from what `Surveyed` makes of each terminal. A question alert is of a
  running terminal that shows the question, and is not repeated; a scan that no alert
  ends announces every new question and shows no silent terminal as working.
- `ListAlwaysMatchesBuffers`, `ModeOffAlwaysQuiet`: the first from what `Without` and
  `Append` make of a list without repetition; the second from `TimersAccounted`: no
  timer is left that could scan.

`EatOutput_proofs`:

- `OutputTypeCorrect`, `NoChunkEverStranded`, `DeadlineAlwaysKept`: from one
  inductive invariant. Its parts besides the three: at most the sentinel's drain
  lies on another; the time stamp is set exactly while chunks wait or a drain runs
  (`StampTells`); a timer has a first chunk whose age it counts from.
- `NothingEverLostOrReordered`: shown, held and queued chunks together are all that
  was read, for any number of chunks. It needs the other invariant to know that a
  filter that interrupts a drain only queues.
- `OutputComesNearer`: what is left to the next chunk is the rest of the maximum latency,
  counted from the first chunk in the queue, then the start of a drain and its steps (`Phase`). No
  step, a filter's least of all, makes it more, and a tick, the timer and the steps of the
  drain that holds it make it less.

`EatOutputFeed_proofs`:

- `QueueImplementsFeed`: `Spec => FeedSpec`, that the queue refines `OutputFeed`. Each
  step reads chunks, shows the next one or ends the terminal, or is a stutter. Until
  the terminal ends the next chunk shown is the next one read, by the order invariant.
  Afterwards the order is gone, since a drain that the sentinel interrupted goes on
  with the chunks it held; `OutputFeed` then promises no more than that nothing is
  shown twice, which needs an invariant of its own (`UniqueInv`): every chunk is in
  one place, queued, held by one drain or shown.
- `FinalOutputAlwaysShown`: the action property that a terminal deleted in the
  ordinary way has shown all output, from the same invariants.

`EatResize_proofs`: `ResizeTypeCorrect`, `PtyAlwaysAgrees`, `PendingAlwaysHeld` and
`NoSizeEverStale`, from their conjunction with `OneTimer`, that at most one timer
waits. The size invariant needs the handle, since a shown terminal without a pending
resize has the size last asked for only if the timer that would set another one was
cancelled. `ResizeAlwaysSettled`, that with a delay a
running terminal is resized only after a quiet time, needs
to know how long: what is left to a pending resize is what is left of the quiet time
(`QuietLeft`), and no other step resizes (`OnlyTheTimer`). The same gives
`StaleSizeAlwaysDue`, that a size out of date waits for no longer than that, and
`ResizeSettlesSize`, the refinement of `SettledSize`: a timer that waits is a request
outstanding, and the handle is what lets a new request take the place of the one before.

`EatTerm_proofs`: `TermTypeCorrect`, `CurrentAlwaysExists` and `SwitchAlwaysLeavesClosed`
need one more invariant, that a buffer with an emulator exists (`Owned`): otherwise
showing it again would leave it off the list. They rest on what `Filtered` makes of a
list (`FilteredList`: the elements kept are ranked from 1 on, which is a bijection).
`CycleAlwaysVisitsAll` gives the place that any number of steps comes to in closed form
(`Place`) and shows that the recursive function of `Visited` has that value.

`TreeTraversal_proofs`:

- `TraversalTypeCorrect`, `AlwaysInPreOrder`, `EndAlwaysComplete`, for trees of any
  size. The invariant says which nodes were given, from the place and the state of the
  cursor alone (`CursorTells`): going down, all that come before the node of the cursor
  and that node; going right, also everything below it. That a step keeps this is a
  fact about trees: what comes before a first child is its parent and what comes before
  that (`FirstChild`), what comes before a sibling is the node before it with all below
  and what comes before that (`NextSibling`), and after a last sibling its parent is
  done (`LastSibling`).
- `Ancestors` is a recursive function; that it has a value, and how nodes relate to
  those above them, is shown by a least counterexample (`LeastNatural`), since the
  induction theorems cannot be used.
- `TraversalEnumerates`: the refinement of `Enumeration`. With the order known, what is
  left is that the node given next is the one that exactly the nodes given so far come
  before, and that none is left at the end.
- `TraversalDescends`: every step leaves less to do, at first three steps for each node and
  six more (`Remaining`), so that every loop ends. The nodes not given yet are counted
  three times, for what the cursor does on the way to one and back up from it.

`Tsc_proofs`:

- `TypeCorrect`, `FlagsCorrect`, `HeldTreesCorrect`, `RefusalsCorrect`, `TreesKept`:
  from one inductive invariant (`Inv`), for any objects, trees, languages, depth of
  callbacks and bounds. Its parts besides the properties: the argument of a suspended
  call is an object that still counts the tree that the call reads (`FramesHold`), a
  parse that is suspended has a language (`ParsersSet`), a query that runs has been
  made (`QueriesRun`), and text and tags gathered so far have their types. One lemma per action of
  `TscNode`, `TscCursor`, `TscParser` and `TscQuery`.
- `AnswersCorrect`: what a query returned is what it should have, for any candidates and
  captures. The invariant says that a suspended query has gathered, in order and with
  their tags, exactly the matches before the candidate it asks about (`Searching`,
  `ItemsGathered`). It stays true because the query cannot change meanwhile: its flag says
  that the search reads it (`SearchedUnchanged`, from `FlagsTell`). That the unstable sort
  of `captures_1` loses nothing is `OrderedElements`, by counting.
- `CallbacksUndisturbing`: from the flags: what a suspended parse or search writes nobody
  else borrows, so that there is one of them, and what it reads nobody writes. That
  `FlagsTell` is enough for this is the point of a `RefCell`.
- All are of the form `~ResetElsewhere /\ Spec => ...`: with a cursor that is reset
  to a node of another tree, `KeepsItsTree` fails (finding 5), and everything that is
  said of the trees of objects with it.

`TscText_proofs`: `TextsCorrect`, that a tree that Lisp gets is of the whole text, for
any text, any width of its characters and any chunk size that holds the widest of them.
The invariant says that a parse has gathered the first characters of the text, and asks
next for the byte after the last of them (`ParsesGather`). `ParsesEnd` adds that each chunk
holds at least one character while there is text left, so that a parse comes to its end.
`PositionsComeBack` and `RangesTaken` are about the conversions of `tsc/types.rs` alone: a
position survives the way to the library and back unless it is 0 or the largest `usize`,
and the ranges that Lisp sets are taken exactly if they are in order with 0 counted after
every other position.

Only model-checked: liveness under fairness, which is beyond the prover. For the report of
a session, the output that waits, the size that is out of date, the loop over a tree and
the chunks of a parse the part of it that is about the code is proved nevertheless: a
measure that starts with a known bound, that no step increases and that the steps
assumed to be fair decrease. What is left to the runs there is that weak fairness makes
those steps happen.

## What is not modelled

See the inventory. Inside the modelled parts: the text of alerts and of the mode
line, `my/eat-sup--title` and `my/eat-sup--tail` (which lines a pattern looks at),
scrollback truncation and text properties at the end of a drain, the correction of
prompt annotations, and `kill-buffer` of a buffer while one of its drains waits.

## Plan

Done, in this order: the supervisor and its proofs; the output queue and its proofs;
resizing; the list of terminals; the traversal; the objects, nodes, cursors, parser and
queries of tsc, composed in `Tsc`, and their proofs; the proofs of the list and of the
mode switched off; the refinement of `OutputFeed`; the proofs about resizing, the list
of terminals and the traversal; the abstract specifications of sessions, sizes and
enumerations with their refinements, and the measures by which reports, output, sizes,
loops and parses come to their end.

Left:

- A composition of `EatOutput` with `EatSupervisor`, in which the order of integration
  sequences and markers within chunks is that of the queue. The supervisor's model lets a
  drain show any of them, so that what it proves holds in the composition; what would be
  gained is liveness across both.
- The measures for the scheduled switches of `EatTerm` and for the walks of
  `tsc-mapc-children` and `tsc-traverse-mapc`.
- A history variable for the real end of a session, to say how late the debounce is
  (`sup` 324), and markers that tell one question from another (`sup` 313).

## Running

    tlc -workers 2 -config MCSupervisorSafety.cfg MCEatSupervisor
    tlapm EatSupervisor_proofs.tla

Each run's module and configuration are listed in `PROJECT.json`.
