------------------------------- MODULE Capture -------------------------------
(***************************************************************************)
(* How `nid <cmd>` runs the command and captures its output                *)
(* (spawn_and_capture and read_capped, crates/nid-cli/src/cmd/run.rs): one *)
(* future per stream reads a pipe up to half of session.max_total_mb, a    *)
(* third waits for the command, and a spawned task of the same thread      *)
(* raises a flag on SIGTERM.                                               *)
(*                                                                         *)
(* A stream's bytes are numbered.  The command may exit and leave the rest *)
(* of its output to a process in the background, which holds the pipes.    *)
(***************************************************************************)
EXTENDS Naturals, Sequences

CONSTANTS
  Scripts,    \* the orders in which commands write to their streams
  PipeSize,   \* what a pipe holds
  ChunkSize,  \* 4096: what a read takes at most
  Caps        \* what max_total_mb may be, 0 for no cap

Streams == {"out", "err"}

ASSUME ScriptsAssumption == Scripts \subseteq Seq(Streams)
ASSUME SizesAssumption ==
  PipeSize \in Nat \ {0} /\ ChunkSize \in Nat \ {0} /\ Caps \subseteq Nat

VARIABLES
  script,     \* what is still to be written
  wrote,      \* the number of bytes written to each stream
  pipe,       \* the bytes in each pipe
  command,    \* the wrapped command: running, exited or killed
  heir,       \* it left the rest to a process in the background
  reader,     \* the future of each stream
  buf,        \* what it has kept
  cut,        \* the streams whose reader reached its cap
  waited,     \* child.wait() has returned
  sigterm,    \* nid was sent one since its trap is set
  flag,       \* `interrupted`
  cap,
  capture     \* what spawn_and_capture returned, and the flag when it is printed

captureVars ==
  <<script, wrote, pipe, command, heir, reader, buf, cut, waited, sigterm, flag, cap, capture>>
writing == <<script, wrote, command, heir>>
reading == <<reader, buf, cut, waited>>
signals == <<sigterm, flag>>

Pending == [code |-> "pending"]

CaptureTypeOK ==
  /\ script \in Seq(Streams)
  /\ wrote \in [Streams -> Nat]
  /\ pipe \in [Streams -> Seq(Nat)] /\ \A s \in Streams : Len(pipe[s]) <= PipeSize
  /\ command \in {"running", "exited", "killed"}
  /\ heir \in BOOLEAN
  /\ reader \in [Streams -> {"reading", "draining", "done"}]
  /\ buf \in [Streams -> Seq(Nat)]
  /\ cut \in SUBSET Streams
  /\ waited \in BOOLEAN /\ sigterm \in BOOLEAN /\ flag \in BOOLEAN
  /\ cap \in Caps

CaptureInit ==
  /\ script \in Scripts
  /\ wrote = [s \in Streams |-> 0]
  /\ pipe = [s \in Streams |-> <<>>]
  /\ command = "running"
  /\ heir = FALSE
  /\ reader = [s \in Streams |-> "reading"]
  /\ buf = [s \in Streams |-> <<>>]
  /\ cut = {}
  /\ waited = FALSE
  /\ sigterm = FALSE
  /\ flag = FALSE
  /\ cap \in Caps
  /\ capture = Pending

-----------------------------------------------------------------------------
(* The command, and what may happen to it.                                 *)

Alive == command = "running" \/ heir

\* A write to a full pipe waits.
Write ==
  /\ Alive /\ script # <<>>
  /\ LET s == Head(script) IN
       /\ Len(pipe[s]) < PipeSize
       /\ wrote' = [wrote EXCEPT ![s] = @ + 1]
       /\ pipe' = [pipe EXCEPT ![s] = Append(@, wrote'[s])]
  /\ script' = Tail(script)
  /\ UNCHANGED <<command, heir, reading, signals, cap, capture>>

CommandExits ==
  /\ command = "running" /\ script = <<>>
  /\ command' = "exited"
  /\ UNCHANGED <<script, wrote, heir, pipe, reading, signals, cap, capture>>

\* It exits and leaves the rest to a process in the background.
LeaveHeir ==
  /\ command = "running"
  /\ command' = "exited" /\ heir' = TRUE
  /\ UNCHANGED <<script, wrote, pipe, reading, signals, cap, capture>>

HeirEnds ==
  /\ heir /\ script = <<>>
  /\ heir' = FALSE
  /\ UNCHANGED <<script, wrote, pipe, command, reading, signals, cap, capture>>

\* SIGTERM to nid alone: the trap keeps it running, the command is not told.
Terminate ==
  /\ capture = Pending /\ ~sigterm
  /\ sigterm' = TRUE
  /\ UNCHANGED <<writing, pipe, reading, flag, cap, capture>>

\* SIGTERM to the process group, as from an agent whose own timeout has passed.
TerminateGroup ==
  /\ capture = Pending /\ Alive
  /\ sigterm' = TRUE
  /\ script' = <<>> /\ heir' = FALSE
  /\ command' = IF command = "running" THEN "killed" ELSE command
  /\ UNCHANGED <<wrote, pipe, reading, flag, cap, capture>>

-----------------------------------------------------------------------------
(* The three futures, and the task of the trap.                            *)

Half == cap \div 2
Chunk(s) == SubSeq(pipe[s], 1, IF Len(pipe[s]) < ChunkSize THEN Len(pipe[s]) ELSE ChunkSize)
Rest(s)  == SubSeq(pipe[s], Len(Chunk(s)) + 1, Len(pipe[s]))

\* Mutant of Overflows: reaching the cap counts as going over it.
OverflowsAtCap(s) == cap # 0 /\ Len(buf[s]) + Len(Chunk(s)) >= Half

\* The chunk does not fit into what is left of the cap.
Overflows(s) == cap # 0 /\ Len(buf[s]) + Len(Chunk(s)) > Half

\* A chunk is kept, or of the one that goes over the cap what still fits: from
\* then on the stream is only drained.
Read(s) ==
  /\ reader[s] = "reading" /\ pipe[s] # <<>>
  /\ pipe' = [pipe EXCEPT ![s] = Rest(s)]
  /\ \/ /\ ~Overflows(s)
        /\ buf' = [buf EXCEPT ![s] = @ \o Chunk(s)]
        /\ UNCHANGED <<reader, cut>>
     \/ /\ Overflows(s)
        /\ buf' = [buf EXCEPT ![s] = @ \o SubSeq(Chunk(s), 1, Half - Len(@))]
        /\ cut' = cut \cup {s}
        /\ reader' = [reader EXCEPT ![s] = "draining"]
  /\ UNCHANGED <<writing, waited, signals, cap, capture>>

Drain(s) ==
  /\ reader[s] = "draining" /\ pipe[s] # <<>>
  /\ pipe' = [pipe EXCEPT ![s] = Rest(s)]
  /\ UNCHANGED <<writing, reading, signals, cap, capture>>

\* The pipe is empty and nobody can write to it any more.
EndOfFile(s) ==
  /\ reader[s] # "done" /\ pipe[s] = <<>> /\ ~Alive
  /\ reader' = [reader EXCEPT ![s] = "done"]
  /\ UNCHANGED <<writing, pipe, buf, cut, waited, signals, cap, capture>>

Wait ==
  /\ command # "running" /\ ~waited
  /\ waited' = TRUE
  /\ UNCHANGED <<writing, pipe, reader, buf, cut, signals, cap, capture>>

\* Mutant of Poll: the streams are read one after the other.
PollInTurn(s) ==
  /\ s = "err" => reader["out"] = "done"
  /\ Read(s) \/ Drain(s) \/ EndOfFile(s)

\* join!: whichever future can move does.
Poll(s) == Read(s) \/ Drain(s) \/ EndOfFile(s)

\* The task shares its thread with the run: it is polled while that one waits.
Trap ==
  /\ capture = Pending /\ sigterm /\ ~flag
  /\ flag' = TRUE
  /\ UNCHANGED <<writing, pipe, reading, sigterm, cap, capture>>

\* stdout, then stderr, and the marker of the cap; no exit code is -1.  The flag
\* is looked at in the end: the task of the trap may run once more before that,
\* as it does only if the learning of a profile waits for a backend.
Collect ==
  /\ capture = Pending
  /\ waited /\ \A s \in Streams : reader[s] = "done"
  /\ \E marked \in {flag, sigterm} :
       capture' = [out |-> buf["out"], err |-> buf["err"], truncated |-> cut # {},
                   interrupted |-> marked,
                   code |-> IF command = "exited" THEN "exit" ELSE "-1"]
  /\ UNCHANGED <<writing, pipe, reading, signals, cap>>

Progress == Write \/ CommandExits \/ (\E s \in Streams : Poll(s)) \/ Wait \/ Collect

CaptureNext == Progress \/ LeaveHeir \/ HeirEnds \/ Terminate \/ TerminateGroup \/ Trap

CaptureSpec == CaptureInit /\ [][CaptureNext]_captureVars

-----------------------------------------------------------------------------
(* Properties.                                                             *)

\* The command and nid never wait for each other: as long as nothing lives on in
\* the background, a capture that has not ended goes on, whatever the command
\* writes where, beyond what pipes and the cap hold (run.rs:526).
NeverStuck == capture = Pending /\ ~heir => ENABLED Progress

\* What is captured is, of each stream, all there was, also of a command that was
\* killed ("Partial output survives interrupts", README.md:312), or exactly its
\* half of the cap; it is marked as truncated if and only if something is missing
\* ("Truncation is marked", README.md:318) and as interrupted only on a signal.
CaptureTrue ==
  capture # Pending =>
    /\ \A s \in Streams :
         /\ capture[s] = [i \in 1 .. Len(capture[s]) |-> i]
         /\ Len(capture[s]) < wrote[s] => capture.truncated /\ Len(capture[s]) = Half
    /\ capture.truncated => \E s \in Streams : Len(capture[s]) < wrote[s]
    /\ capture.interrupted => sigterm
    /\ capture.code = "exit" <=> command = "exited"
=============================================================================
