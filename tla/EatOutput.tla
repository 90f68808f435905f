------------------------------ MODULE EatOutput ------------------------------
(***************************************************************************)
(* How eat.el passes the output of a process to its terminal: the filter   *)
(* queues chunks, a timer that every chunk postpones, up to a maximum      *)
(* latency, drains the queue, and the sentinel drains what is left before  *)
(* it deletes the terminal.                                                *)
(*                                                                         *)
(* A chunk may make the terminal answer its process, and eat--send-string  *)
(* then lets Emacs accept process output: in the middle of a drain the     *)
(* filter, the clock and the sentinel may run.  A running drain is a       *)
(* frame, and the frame of the sentinel's drain lies on the one it         *)
(* interrupted.  An answer to a process that has exited is an error, which *)
(* ends the drain.                                                         *)
(*                                                                         *)
(* Chunks are numbered in the order Emacs reads them.                      *)
(***************************************************************************)
EXTENDS Integers, Sequences, SequencesExt

CONSTANTS
  MinLatency, \* eat-minimum-latency, in ticks
  MaxLatency, \* eat-maximum-latency, in ticks
  MaxChunks   \* bound on the chunks that the process writes

ASSUME LatencyAssumption == MinLatency \in Nat /\ MaxLatency \in Nat /\ MaxChunks \in Nat

Nil == -1      \* no time stamp, no timer
Draining == -2 \* the time stamp t

VARIABLES
  process,  \* "live", "dead", "deleted" by its sentinel, "stuck" when an
            \* error ended the sentinel, or "killed" with its buffer
  unread,   \* how many chunks are written and not read
  received, \* how many chunks the filter was given
  pending,  \* eat--pending-output-chunks: the newest first
  first,    \* eat--output-queue-first-chunk-time, as an age, Nil or Draining
  timer,    \* the time left to eat--process-output-queue-timer, or Nil
  frames,   \* the running drains, innermost last
  shown,    \* the chunks given to eat-term-process-output, in order
  terminal, \* whether eat-terminal is there
  aborted   \* whether an error has ended a drain (history)

vars == <<process, unread, received, pending, first, timer, frames, shown, terminal,
          aborted>>

\* Emacs handles events: no drain runs, or the innermost waits for output.
Accepting == IF frames = <<>> THEN TRUE ELSE Last(frames).waits

\* Mutant: the queue is processed as it was pushed.
QueueAsPushed(queue) == queue

\* The nreverse of eat--process-output-queue.
Queue(queue) == Reverse(queue)

\* eat--process-output-queue called by "filter", "timer" or "sentinel", up to
\* its first chunk.  An empty queue is done with at once.
Drain(caller, queue) ==
  /\ timer' = Nil
  /\ pending' = <<>>
  /\ IF queue = <<>>
     THEN first' = Nil /\ UNCHANGED frames
     ELSE /\ first' = Draining
          /\ frames' = Append(frames, [caller |-> caller, rest |-> Queue(queue),
                                       waits |-> FALSE])

\* The end of eat--sentinel: eat-terminal is deleted and the buffer killed.  A
\* drain that it interrupted finds no terminal and stops.
Ended ==
  /\ process' = "deleted"
  /\ terminal' = FALSE
  /\ frames' = <<>>
  /\ first' = Nil
  /\ timer' = Nil

-----------------------------------------------------------------------------

Write ==
  /\ process = "live"
  /\ unread + received < MaxChunks
  /\ unread' = unread + 1
  /\ UNCHANGED <<process, received, pending, first, timer, frames, shown, terminal,
                 aborted>>

ProcessDies ==
  /\ process = "live"
  /\ process' = "dead"
  /\ UNCHANGED <<unread, received, pending, first, timer, frames, shown, terminal,
                 aborted>>

\* The age of the oldest queued chunk.
FirstTime == IF first = Nil THEN 0 ELSE first

\* Mutant: the latency already spent is not counted.
TimeLeftUncounted == IF MinLatency <= MaxLatency THEN MinLatency ELSE MaxLatency

\* (min time-left eat-minimum-latency)
TimeLeft ==
  IF MinLatency <= MaxLatency - FirstTime THEN MinLatency ELSE MaxLatency - FirstTime

\* Mutant: the filter does not look whether a drain runs.
BusyNever == FALSE

\* (eq eat--output-queue-first-chunk-time t)
Busy == FirstTime = Draining

\* Mutant: a chunk that finds the queue's time stamp set leaves the timer off.
ScheduleFirst ==
  /\ timer' = IF first = Nil THEN TimeLeft ELSE Nil
  /\ first' = FirstTime

\* The timer is set anew.
Schedule ==
  /\ timer' = TimeLeft
  /\ first' = FirstTime

\* eat--filter
Filter ==
  /\ Accepting
  /\ unread > 0
  /\ unread' = unread - 1
  /\ received' = received + 1
  /\ LET queue == <<received + 1>> \o pending
     IN IF Busy
        THEN /\ pending' = queue
             /\ timer' = Nil
             /\ UNCHANGED <<first, frames>>
        ELSE IF MaxLatency - FirstTime <= 0
        THEN Drain("filter", queue)
        ELSE /\ pending' = queue
             /\ Schedule
             /\ UNCHANGED frames
  /\ UNCHANGED <<process, shown, terminal, aborted>>

TimerFires ==
  /\ Accepting
  /\ timer = 0
  /\ Drain("timer", pending)
  /\ UNCHANGED <<process, unread, received, shown, terminal, aborted>>

\* The innermost drain gives the terminal its next chunk, and may then have to
\* wait while the terminal answers it: it sends to a process that lives.
ProcessChunk ==
  /\ frames # <<>>
  /\ LET f == Last(frames)
     IN /\ ~f.waits
        /\ f.rest # <<>>
        /\ shown' = Append(shown, Head(f.rest))
        /\ \E waits \in BOOLEAN :
             /\ waits => process = "live"
             /\ frames' = Front(frames) \o <<[f EXCEPT !.rest = Tail(@), !.waits = waits]>>
  /\ UNCHANGED <<process, unread, received, pending, first, timer, terminal, aborted>>

\* The answer finds no process to send it to: the error ends the innermost
\* drain, with that chunk and the rest of its round, and the sentinel if it is
\* the sentinel's.
AnswerFails ==
  /\ frames # <<>>
  /\ process \in {"dead", "stuck"}
  /\ LET f == Last(frames)
     IN /\ ~f.waits
        /\ f.rest # <<>>
        /\ process' = IF f.caller = "sentinel" THEN "stuck" ELSE process
  /\ frames' = Front(frames)
  /\ first' = Nil
  /\ aborted' = TRUE
  /\ UNCHANGED <<unread, received, pending, timer, shown, terminal>>

EndWait ==
  /\ frames # <<>>
  /\ Last(frames).waits
  /\ frames' = Front(frames) \o <<[Last(frames) EXCEPT !.waits = FALSE]>>
  /\ UNCHANGED <<process, unread, received, pending, first, timer, shown, terminal, aborted>>

\* Mutant: one round of the queue is drained.
MoreNever == FALSE

\* The test of the while loop.
More == pending # <<>>

\* The innermost drain is through with its round of the queue.  It goes on with
\* what was queued meanwhile, or returns; the sentinel's caller then ends.
EndRound ==
  /\ frames # <<>>
  /\ ~Last(frames).waits
  /\ Last(frames).rest = <<>>
  /\ IF More
     THEN /\ frames' = Front(frames) \o <<[Last(frames) EXCEPT !.rest = Queue(pending)]>>
          /\ pending' = <<>>
          /\ first' = Draining
          /\ UNCHANGED <<process, timer, terminal>>
     ELSE IF Last(frames).caller = "sentinel"
     THEN Ended /\ UNCHANGED pending
     ELSE /\ frames' = Front(frames)
          /\ first' = Nil
          /\ UNCHANGED <<process, pending, timer, terminal>>
  /\ UNCHANGED <<unread, received, shown, aborted>>

\* Mutant: the terminal is deleted with chunks in its queue.
LeftNever == FALSE

\* The queue that eat--sentinel empties.
Left == pending # <<>>

\* eat--sentinel: Emacs has read all that the process wrote.
Sentinel ==
  /\ Accepting
  /\ process = "dead"
  /\ unread = 0
  /\ \A i \in DOMAIN frames : frames[i].caller # "sentinel"
  /\ IF Left
     THEN Drain("sentinel", pending) /\ UNCHANGED <<process, terminal>>
     ELSE Ended /\ UNCHANGED pending
  /\ UNCHANGED <<unread, received, shown, aborted>>

\* A command kills the buffer, and its process with it.
KillBuffer ==
  /\ frames = <<>>
  /\ terminal
  /\ process' = "killed"
  /\ terminal' = FALSE
  /\ pending' = <<>>
  /\ first' = Nil
  /\ timer' = Nil
  /\ unread' = 0
  /\ UNCHANGED <<received, frames, shown, aborted>>

Tick ==
  /\ first' = IF first \in 0 .. MaxLatency - 1 THEN first + 1 ELSE first
  /\ timer' = IF timer > 0 THEN timer - 1 ELSE timer
  /\ UNCHANGED <<process, unread, received, pending, frames, shown, terminal, aborted>>

Init ==
  /\ process = "live"
  /\ unread = 0
  /\ received = 0
  /\ pending = <<>>
  /\ first = Nil
  /\ timer = Nil
  /\ frames = <<>>
  /\ shown = <<>>
  /\ terminal = TRUE
  /\ aborted = FALSE

Next ==
  \/ Write \/ ProcessDies \/ Filter \/ TimerFires
  \/ ProcessChunk \/ AnswerFails \/ EndWait \/ EndRound \/ Sentinel \/ KillBuffer \/ Tick

Spec == Init /\ [][Next]_vars

\* Timers run, time passes, a wait for output ends, and a drain goes on.
Fairness ==
  /\ WF_vars(TimerFires)
  /\ WF_vars(Tick)
  /\ WF_vars(ProcessChunk)
  /\ WF_vars(EndWait)
  /\ WF_vars(EndRound)

FairSpec == Spec /\ Fairness
-----------------------------------------------------------------------------

Chunk == 1 .. MaxChunks
Frame == [caller : {"filter", "timer", "sentinel"}, rest : Seq(Chunk), waits : BOOLEAN]

\* Every variable holds a value of its type, and only the sentinel's drain
\* interrupts another, once: neither the filter nor the timer drains a queue
\* that is being drained.
TypeOK ==
  /\ process \in {"live", "dead", "deleted", "stuck", "killed"}
  /\ unread \in 0 .. MaxChunks
  /\ received \in 0 .. MaxChunks
  /\ pending \in Seq(Chunk)
  /\ first \in {Nil, Draining} \cup (0 .. MaxLatency)
  /\ timer \in {Nil} \cup (0 .. MaxLatency)
  /\ frames \in Seq(Frame)
  /\ Len(frames) <= 2
  /\ Len(frames) = 2 => frames[2].caller = "sentinel" /\ frames[1].caller # "sentinel"
  /\ shown \in Seq(Chunk)
  /\ terminal \in BOOLEAN
  /\ aborted \in BOOLEAN

\* Whether the terminal has ended, ends in the middle of a drain, or has had
\* a drain ended by an error.
Ending == ~terminal \/ Len(frames) > 1 \/ aborted

\* As long as no drain is cut short by the end of the process, what it was
\* given, what the drain still holds and what is queued are together all the
\* chunks read, each once and in order, although chunks arrive during drains.
NothingLostOrReordered ==
  ~Ending =>
    shown \o (IF frames = <<>> THEN <<>> ELSE frames[1].rest) \o Reverse(pending)
      = [n \in 1 .. received |-> n]

\* A chunk never waits in the queue with nothing to process it: a drain runs,
\* or the timer is set, unless an error ended a drain.
NoChunkStranded ==
  pending # <<>> /\ frames = <<>> /\ terminal /\ ~aborted => timer # Nil

\* However many chunks postpone the timer, it is due no later than
\* eat-maximum-latency after the first of them came.
DeadlineKept ==
  timer # Nil => first \in 0 .. MaxLatency /\ first + timer <= MaxLatency

\* A terminal that its sentinel deletes outside of a drain, and with no drain
\* ended by an error, has shown all that its process wrote.
FinalOutputShown ==
  [][(process' = "deleted" /\ ~Ending /\ (frames = <<>> \/ frames[1].caller = "sentinel"))
       => (unread = 0 /\ Len(shown) = received)]_vars

\* The terminal keeps the promise of OutputFeed.
Feed == INSTANCE OutputFeed WITH ended <- Ending
FeedSpec == Feed!FeedSpec

\* Every chunk that was read is processed, unless the terminal ends.
EveryChunkShown ==
  \A n \in Chunk : (received >= n) ~> (n \in {shown[i] : i \in DOMAIN shown} \/ Ending)

=============================================================================
