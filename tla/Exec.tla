-------------------------------- MODULE Exec --------------------------------
(***************************************************************************)
(* A command run in a guest over SSH, in the api-server's two forms:        *)
(* `exec_in_workshop` (call "exec") records a row, runs in the background and *)
(* is followed over SSE; `POST .../exec` (call "run") answers when the       *)
(* command is over. The guest applies the delay itself (`timeout`); the      *)
(* server's own deadline is later and serves when the guest has gone silent. *)
(*                                                                         *)
(* `age` stands for the clock of a running command: 0 before its delay, 1   *)
(* past it, 2 past the server's deadline. A character of the output is two   *)
(* bytes long and a message of the channel carries one.                     *)
(***************************************************************************)
EXTENDS GuestServices, Sequences

CONSTANTS
    MaxOutput,  \* bytes `run` keeps of each stream
    MaxOut,     \* bound: bytes the command writes to its output
    MaxErr,     \* bound: bytes the command writes to its error output
    MaxWire     \* bound: messages in the channel

VARIABLES
    call,       \* "exec" or "run"
    task,       \* where the task serving the call is
    age,        \* the clock, see above
    cmd,        \* the guest's side: the command, its background process, the guest
    wire,       \* messages of the SSH channel on their way to the api-server
    end,        \* CommandEnd / RunOutcome: what the task knows of the ending
    row,        \* the row of `exec_commands`; for "run" the answer being built
    sse         \* the SSE stream a client has open on the row

execVars == <<call, task, age, cmd, wire, end, row, sse>>

Ending == {"none", "0", "124", "signal", "KILL"}
NoStream == [open |-> FALSE, out |-> 0, err |-> 0, done |-> FALSE, told |-> "nothing"]

ExecInit ==
    /\ task = "none" /\ age = 0
    /\ cmd = [state |-> "none", holder |-> FALSE, frozen |-> FALSE, out |-> 0, err |-> 0]
    /\ wire = <<>> /\ end = [how |-> "none", timedOut |-> FALSE]
    /\ row = [status |-> "absent", out |-> 0, err |-> 0, truncated |-> FALSE]
    /\ sse = NoStream

-----------------------------------------------------------------------------
(* Opening the session.                                                     *)

\* The key is read first; the row exists before anything is dialled, and its
\* identifier is returned at once.
Spawn ==
    /\ task = "none" /\ vault # 0
    /\ row' = [row EXCEPT !.status = "Running"] /\ task' = "dial"
    /\ UNCHANGED <<guestVars, faults, call, age, cmd, wire, end, sse>>

\* net-proxy accepts the websocket whatever the guest does.
OpenForwardedTcpStream ==
    /\ task = "dial" /\ task' = "establish"
    /\ UNCHANGED <<guestVars, faults, call, age, cmd, wire, end, row, sse>>

\* net-proxy reports on the error channel that nothing listens; sshd refuses a
\* key it does not have; or the pod is gone.
EstablishFails ==
    /\ task = "establish" /\ ~cmd.frozen
    /\ svc.state # "up" \/ svc.cred # vault
    /\ task' = "failed"
    /\ UNCHANGED <<guestVars, faults, call, age, cmd, wire, end, row, sse>>

\* Only `run` bounds the time sshd may take.
EstablishTimesOut ==
    /\ task = "establish" /\ call = "run"
    /\ task' = "failed"
    /\ UNCHANGED <<guestVars, faults, call, age, cmd, wire, end, row, sse>>

RunOverSsh ==
    /\ task = "establish" /\ ~cmd.frozen /\ svc.state = "up" /\ svc.cred = vault
    /\ task' = "wait" /\ cmd' = [cmd EXCEPT !.state = "running"]
    /\ UNCHANGED <<guestVars, faults, call, age, wire, end, row, sse>>

-----------------------------------------------------------------------------
(* The guest: the command under `timeout`, and what it leaves behind.       *)

Alive == ~cmd.frozen /\ Len(wire) < MaxWire /\ task \in {"wait", "drain"}

\* A background process that kept the output open still writes to it.
Writes ==
    /\ Alive
    /\ cmd.state = "running" \/ cmd.holder
    /\ \/ cmd.out < MaxOut /\ cmd' = [cmd EXCEPT !.out = @ + 1] /\ wire' = Append(wire, "out")
       \/ cmd.err < MaxErr /\ cmd' = [cmd EXCEPT !.err = @ + 1] /\ wire' = Append(wire, "err")
    /\ UNCHANGED <<guestVars, faults, call, task, age, end, row, sse>>

\* The command ends by itself, with any status, 124 included.
CommandEnds ==
    /\ Alive /\ cmd.state = "running"
    /\ \E how \in {"0", "124", "signal"}, holder \in BOOLEAN :
           /\ wire' = Append(wire, how)
           /\ cmd' = [cmd EXCEPT !.state = "over", !.holder = holder]
    /\ UNCHANGED <<guestVars, faults, call, task, age, end, row, sse>>

\* `timeout` ends the whole process group: by TERM, or by KILL after the grace.
WithCeiling ==
    /\ Alive /\ cmd.state = "running" /\ age >= 1
    /\ \E how \in {"124", "KILL"} :
           /\ wire' = Append(wire, how)
           /\ cmd' = [cmd EXCEPT !.state = "over"]
    /\ UNCHANGED <<guestVars, faults, call, task, age, end, row, sse>>

\* sshd closes the channel once nothing holds the output.
ChannelCloses ==
    /\ Alive /\ cmd.state = "over" /\ ~cmd.holder
    /\ \A i \in DOMAIN wire : wire[i] # "close"
    /\ wire' = Append(wire, "close")
    /\ UNCHANGED <<guestVars, faults, call, task, age, cmd, end, row, sse>>

\* guest-init kills an orphan older than any command may be.
KillStaleOrphans ==
    /\ cmd.holder /\ ~cmd.frozen /\ age = 2
    /\ cmd' = [cmd EXCEPT !.holder = FALSE]
    /\ UNCHANGED <<guestVars, faults, call, task, age, wire, end, row, sse>>

\* The guest answers nothing any more: a stuck kernel, a paused microVM.
Freezes ==
    /\ ~cmd.frozen /\ Fault
    /\ cmd' = [cmd EXCEPT !.frozen = TRUE]
    /\ UNCHANGED <<guestVars, call, task, age, wire, end, row, sse>>

\* A connection the guest drops is not reported: net-proxy's session holds the
\* websocket open. Only the end of the pod closes it.
PodLost ==
    /\ PodReplaced
    /\ cmd' = [cmd EXCEPT !.state = IF @ = "running" THEN "over" ELSE @,
                          !.holder = FALSE, !.frozen = FALSE]
    /\ IF task \in {"wait", "drain"}
       THEN \E n \in 0..(MaxWire - 1) \cap 0..Len(wire) :
                wire' = Append(SubSeq(wire, 1, n), "close")
       ELSE UNCHANGED wire
    /\ task' = IF task \in {"dial", "establish"} THEN "failed" ELSE task
    /\ UNCHANGED <<call, age, end, row, sse>>

-----------------------------------------------------------------------------
(* The loop of the task.                                                    *)

\* `run` keeps the first bytes of a stream and notes that it lost some.
Keep(kept) == IF kept < MaxOutput THEN kept + 1 ELSE kept

\* Best effort: the transaction may fail, and the command goes on.
AppendChunk(stream, n) ==
    \/ row' = [row EXCEPT ![stream] = @ + n] /\ UNCHANGED faults
    \/ UNCHANGED row /\ Fault

Receive ==
    /\ task \in {"wait", "drain"} /\ wire # <<>> /\ wire' = Tail(wire)
    /\ LET msg == Head(wire) IN
       \/ /\ msg \in {"out", "err"}
          /\ IF call = "exec" THEN AppendChunk(msg, 1)
             ELSE /\ row' = [row EXCEPT ![msg] = Keep(@),
                                        !.truncated = @ \/ row[msg] = MaxOutput]
                  /\ UNCHANGED faults
          /\ UNCHANGED <<task, end>>
       \/ /\ msg \in Ending
          /\ end' = [end EXCEPT !.how = msg] /\ task' = "drain"
          /\ UNCHANGED <<row, faults>>
       \/ /\ msg = "close" /\ task' = "finish"
          /\ UNCHANGED <<row, end, faults>>
    /\ UNCHANGED <<guestVars, call, age, cmd, sse>>

\* Time passes; the wait for the last bytes after an exit is too short to count.
Tick ==
    /\ cmd.state # "none" /\ task # "drain" /\ age < 2 /\ age' = age + 1
    /\ UNCHANGED <<guestVars, faults, call, task, cmd, wire, end, row, sse>>

Deadline_NotArmed == FALSE /\ UNCHANGED <<guestVars, faults, execVars>>

\* The server's deadline, and the end of the wait for the last bytes. Only `run`
\* tells a command it abandoned from one whose channel closed without a word.
Deadline ==
    /\ task = "wait" /\ age = 2
    /\ task' = "finish" /\ end' = [end EXCEPT !.timedOut = (call = "run")]
    /\ UNCHANGED <<guestVars, faults, call, age, cmd, wire, row, sse>>

Drained ==
    /\ task = "drain" /\ task' = "finish"
    /\ UNCHANGED <<guestVars, faults, call, age, cmd, wire, end, row, sse>>

TimedOut == end.timedOut \/ (age >= 1 /\ end.how \in {"124", "KILL"})

CommandStatus ==
    CASE TimedOut -> "Timeout"
      [] ~TimedOut /\ end.how \in {"signal", "KILL"} -> "Killed"
      [] ~TimedOut /\ end.how \in {"0", "124"} -> "Completed"
      [] OTHER -> "Failed"

\* An error before the command started is written as its error output.
ExecutionFailed ==
    /\ task = "failed" /\ task' = "finish"
    /\ IF call = "exec" THEN AppendChunk("err", 2) ELSE UNCHANGED <<row, faults>>
    /\ UNCHANGED <<guestVars, call, age, cmd, wire, end, sse>>

\* The last write of the row, or the answer of `run`.
Finalize ==
    /\ task = "finish"
    /\ \/ /\ row' = [row EXCEPT !.status = CommandStatus] /\ task' = "end"
          /\ UNCHANGED faults
       \/ /\ call = "exec" /\ Fault /\ task' = "unrecorded"
          /\ UNCHANGED row
    /\ wire' = <<>>
    /\ UNCHANGED <<guestVars, call, age, cmd, end, sse>>

\* The task lives in the api-server's process, and so do the open streams.
ApiServerRestarts ==
    /\ task \notin {"none", "end", "unrecorded", "crashed"} /\ Fault
    /\ task' = "crashed" /\ sse' = NoStream /\ wire' = <<>>
    /\ UNCHANGED <<guestVars, call, age, cmd, end, row>>

-----------------------------------------------------------------------------
(* Following a command.                                                     *)

\* A stream starts from the first byte, whenever it is opened.
StreamHandler ==
    /\ call = "exec" /\ row.status # "absent" /\ ~sse.open
    /\ sse' = [NoStream EXCEPT !.open = TRUE]
    /\ UNCHANGED <<guestVars, faults, call, task, age, cmd, wire, end, row>>

\* Bytes to send: while the command runs, not half a character.
Unsent(buffer, sent) ==
    IF row.status # "Running" THEN buffer - sent ELSE (buffer - sent) - ((buffer - sent) % 2)

StreamIsDone_AtOnce(finished, nothing) == finished

StreamIsDone(finished, nothing) == finished /\ nothing

\* One event per poll: output, else error output, else the status, else a ping.
Poll ==
    /\ sse.open /\ ~sse.done
    /\ LET out == Unsent(row.out, sse.out)
           err == Unsent(row.err, sse.err)
           finished == row.status # "Running"
           nothing == out = 0 /\ err = 0
       IN sse' = [sse EXCEPT
              !.out = @ + out,
              !.err = IF out > 0 THEN @ ELSE @ + err,
              !.told = IF nothing /\ finished THEN row.status ELSE @,
              !.done = StreamIsDone(finished, nothing)]
    /\ UNCHANGED <<guestVars, faults, call, task, age, cmd, wire, end, row>>

\* The row cannot be read: an error event, and the end of the stream.
FetchRowFails ==
    /\ sse.open /\ ~sse.done /\ Fault
    /\ sse' = [sse EXCEPT !.told = "error", !.done = TRUE]
    /\ UNCHANGED <<guestVars, call, task, age, cmd, wire, end, row>>

\* The client leaves, or reads the end of the stream; it may come back.
ClientLeaves ==
    /\ sse.open /\ sse' = NoStream
    /\ UNCHANGED <<guestVars, faults, call, task, age, cmd, wire, end, row>>

-----------------------------------------------------------------------------

Opening == Spawn \/ OpenForwardedTcpStream \/ EstablishFails \/ EstablishTimesOut \/ RunOverSsh
InGuest == Writes \/ CommandEnds \/ WithCeiling \/ ChannelCloses \/ KillStaleOrphans \/ Freezes \/ PodLost
Serving == Receive \/ Tick \/ Deadline \/ Drained \/ ExecutionFailed \/ Finalize \/ ApiServerRestarts
Following == StreamHandler \/ Poll \/ FetchRowFails \/ ClientLeaves

\* What the api-server's runtime and its clock do by themselves.
ServerStep ==
    OpenForwardedTcpStream \/ EstablishFails \/ EstablishTimesOut \/ RunOverSsh
      \/ Receive \/ Tick \/ Deadline \/ Drained \/ ExecutionFailed \/ Finalize
=============================================================================
