--------------------------- MODULE Sessions_proof ---------------------------
(***************************************************************************)
(* StreamComplete and ToldIsKept for any output, any number of deciders and  *)
(* any faults.                                                              *)
(***************************************************************************)
EXTENDS Sessions, Integers, TLAPS

-----------------------------------------------------------------------------
(* The stream of an execution. A row that has its last status is written no  *)
(* more, because the task that writes it has ended: so what a stream sent     *)
(* before its last event is all there will ever be.                          *)

Status == {"absent", "Running", "Timeout", "Killed", "Completed", "Failed"}
Row == [status : Status, out : Int, err : Int, truncated : BOOLEAN]
Stream == [open : BOOLEAN, out : Int, err : Int, done : BOOLEAN, told : Status \cup {"nothing", "error"}]

RowInv ==
    /\ row \in Row
    /\ task = "none" => row.status = "absent"
    /\ task \notin {"none", "end"} => row.status = "Running"

StreamInv ==
    /\ sse \in Stream
    /\ sse.open => row.status # "absent"
    /\ sse.done => sse.open
    /\ StreamComplete

\* A step that leaves the row, the stream and the ends of the task alone.
LEMMA Aside ==
    ASSUME RowInv, StreamInv, UNCHANGED <<row, sse>>,
           task' = task \/ (task \notin {"none", "end"} /\ task' \notin {"none", "end"})
    PROVE  RowInv' /\ StreamInv'
BY Zenon DEF RowInv, StreamInv, StreamComplete

\* A step that writes to the row while its task is alive.
LEMMA Written ==
    ASSUME RowInv, StreamInv, UNCHANGED sse, row' \in Row,
           task # "end", task' # "none", row'.status # "absent",
           task' = "end" \/ row'.status = "Running"
    PROVE  RowInv' /\ StreamInv'
<1>1. RowInv'
  BY DEF RowInv
<1>2. row.status \in {"absent", "Running"}
  BY DEF RowInv
<1>3. sse.open => row.status = "Running"
  BY <1>2 DEF StreamInv
<1>4. ~(sse.done /\ sse.told # "error")
  BY <1>3 DEF StreamInv, StreamComplete
<1>5. QED
  BY <1>1, <1>4 DEF StreamInv, StreamComplete

\* append_chunk: only the named buffer changes.
LEMMA Chunk ==
    ASSUME row \in Row, NEW stream \in {"out", "err"}, NEW n \in Int,
           AppendChunk(stream, n)
    PROVE  row' \in Row /\ row'.status = row.status
<1>1. CASE stream = "out"
  BY <1>1 DEF AppendChunk, Row
<1>2. CASE stream = "err"
  BY <1>2 DEF AppendChunk, Row
<1>3. QED
  BY <1>1, <1>2

\* keep: only the named buffer and the mark of a loss change.
LEMMA Counted ==
    ASSUME row \in Row, NEW stream \in {"out", "err"}, NEW a \in Int, NEW b \in BOOLEAN,
           row' = [row EXCEPT ![stream] = a, !.truncated = b]
    PROVE  row' \in Row /\ row'.status = row.status
<1>1. CASE stream = "out"
  BY <1>1 DEF Row
<1>2. CASE stream = "err"
  BY <1>2 DEF Row
<1>3. QED
  BY <1>1, <1>2

\* The row grows only while its task runs.
LEMMA ReceiveStep ==
    ASSUME RowInv, StreamInv, Receive
    PROVE  RowInv' /\ StreamInv'
<1> DEFINE msg == Head(wire)
<1>1. /\ task \in {"wait", "drain"} /\ task' \in {"wait", "drain", "finish"}
      /\ UNCHANGED sse
  BY DEF Receive
<1>2. CASE UNCHANGED row
  BY <1>1, <1>2, Aside
<1>3. CASE msg \in {"out", "err"}
  <2>1. CASE call = "exec" /\ AppendChunk(msg, 1)
    BY <1>1, <1>3, <2>1, Chunk, Written DEF RowInv
  <2>2. CASE row' = [row EXCEPT ![msg] = Keep(@), !.truncated = @ \/ row[msg] = MaxOutput]
    <3> DEFINE a == Keep(row[msg])
               b == row.truncated \/ row[msg] = MaxOutput
    <3>1. row[msg] \in Int /\ row.truncated \in BOOLEAN
      BY <1>3 DEF RowInv, Row, Status
    <3>2. a \in Int
      BY <3>1 DEF Keep
    <3>3. b \in BOOLEAN
      BY <3>1
    <3>4. row' = [row EXCEPT ![msg] = a, !.truncated = b]
      BY <2>2
    <3> HIDE DEF a, b
    <3>5. row' \in Row /\ row'.status = row.status
      BY <1>3, <3>2, <3>3, <3>4, Counted DEF RowInv
    <3>6. QED
      BY <1>1, <3>5, Written DEF RowInv
  <2>3. QED
    BY <1>2, <2>1, <2>2, <1>3 DEF Receive, Ending
<1>4. QED
  BY <1>2, <1>3 DEF Receive

\* The task writes the final status once, when it ends.
LEMMA ServingStep ==
    ASSUME RowInv, StreamInv, Serving
    PROVE  RowInv' /\ StreamInv'
<1>1. CASE Receive
  BY <1>1, ReceiveStep
<1>2. CASE Tick
  BY <1>2, Aside DEF Tick
<1>3. CASE Deadline
  BY <1>3, Aside DEF Deadline
<1>4. CASE Drained
  BY <1>4, Aside DEF Drained
<1>5. CASE ExecutionFailed
  <2>1. task = "failed" /\ task' = "finish" /\ UNCHANGED sse
    BY <1>5 DEF ExecutionFailed
  <2>2. CASE call = "exec" /\ AppendChunk("err", 2)
    BY <2>1, <2>2, Chunk, Written DEF RowInv
  <2>3. CASE UNCHANGED row
    BY <2>1, <2>3, Aside
  <2>4. QED
    BY <1>5, <2>2, <2>3 DEF ExecutionFailed
<1>6. CASE Finalize
  <2>1. task = "finish" /\ UNCHANGED sse
    BY <1>6 DEF Finalize
  <2>2. CASE row' = [row EXCEPT !.status = CommandStatus] /\ task' = "end"
    <3>1. CommandStatus \in {"Timeout", "Killed", "Completed", "Failed"}
      BY DEF CommandStatus
    <3> HIDE DEF CommandStatus
    <3>2. row' \in Row /\ row'.status = CommandStatus
      BY <2>2, <3>1 DEF RowInv, Row, Status
    <3>3. QED
      BY <2>1, <2>2, <3>1, <3>2, Written
  <2>3. CASE task' = "unrecorded" /\ UNCHANGED row
    BY <2>1, <2>3, Aside
  <2>4. QED
    BY <1>6, <2>2, <2>3 DEF Finalize
<1>7. CASE ApiServerRestarts
  <2>1. /\ task \notin {"none", "end"} /\ task' = "crashed"
        /\ sse' = NoStream /\ UNCHANGED row
    BY <1>7 DEF ApiServerRestarts
  <2>2. RowInv'
    BY <2>1 DEF RowInv
  <2>3. StreamInv'
    BY <2>1 DEF StreamInv, StreamComplete, NoStream, Stream, Status
  <2>4. QED
    BY <2>2, <2>3
<1>8. QED
  BY <1>1, <1>2, <1>3, <1>4, <1>5, <1>6, <1>7 DEF Serving

\* The row exists before anything is dialled.
LEMMA OpeningStep ==
    ASSUME RowInv, StreamInv, Opening
    PROVE  RowInv' /\ StreamInv'
<1>1. CASE Spawn
  <2>1. task = "none" /\ task' = "dial" /\ UNCHANGED sse
    BY <1>1 DEF Spawn
  <2>2. row' \in Row /\ row'.status = "Running"
    BY <1>1 DEF Spawn, RowInv, Row, Status
  <2>3. QED
    BY <2>1, <2>2, Written
<1>2. CASE OpenForwardedTcpStream \/ EstablishFails \/ EstablishTimesOut \/ RunOverSsh
  BY <1>2, Aside DEF OpenForwardedTcpStream, EstablishFails, EstablishTimesOut, RunOverSsh
<1>3. QED
  BY <1>1, <1>2 DEF Opening

\* The guest does not touch the row.
LEMMA InGuestStep ==
    ASSUME RowInv, StreamInv, InGuest
    PROVE  RowInv' /\ StreamInv'
<1>1. UNCHANGED <<row, sse>>
  BY DEF InGuest, Writes, CommandEnds, WithCeiling, ChannelCloses,
         KillStaleOrphans, Freezes, PodLost
<1>2. task' = task \/ (task \in {"dial", "establish"} /\ task' = "failed")
  BY DEF InGuest, Writes, CommandEnds, WithCeiling, ChannelCloses,
         KillStaleOrphans, Freezes, PodLost
<1>3. QED
  BY <1>1, <1>2, Aside

\* One event per poll: the last one is the status, when nothing is left to send.
LEMMA PollStep ==
    ASSUME RowInv, StreamInv, Poll
    PROVE  StreamInv'
<1> DEFINE out == Unsent(row.out, sse.out)
           err == Unsent(row.err, sse.err)
           finished == row.status # "Running"
           nothing == out = 0 /\ err = 0
<1>1. /\ row.out \in Int /\ row.err \in Int /\ row.status \in Status
      /\ sse \in Stream /\ sse.out \in Int /\ sse.err \in Int
  BY DEF RowInv, StreamInv, Row, Stream
<1>2. out \in Int /\ err \in Int
  BY <1>1 DEF Unsent
<1>3. finished => out = row.out - sse.out /\ err = row.err - sse.err
  BY DEF Unsent
<1>4. /\ sse.open /\ ~sse.done /\ UNCHANGED row
      /\ sse' = [sse EXCEPT !.out = @ + out,
                            !.err = IF out > 0 THEN @ ELSE @ + err,
                            !.told = IF nothing /\ finished THEN row.status ELSE @,
                            !.done = (finished /\ nothing)]
  BY DEF Poll, StreamIsDone
<1> HIDE DEF out, err
<1>5. CASE finished /\ nothing
  <2> DEFINE last == [sse EXCEPT !.out = sse.out, !.err = sse.err,
                                 !.told = row.status, !.done = TRUE]
  <2>0. /\ sse.out + out = sse.out
        /\ (IF out > 0 THEN sse.err ELSE sse.err + err) = sse.err
        /\ (finished /\ nothing) = TRUE
    BY <1>1, <1>5
  <2>1. sse' = last
    BY <1>4, <1>5, <2>0
  <2>2. sse'.out = row.out /\ sse'.err = row.err /\ sse'.told = row.status
    BY <1>1, <1>3, <1>5, <2>1 DEF Stream
  <2>3. sse' \in Stream /\ sse'.open
    BY <1>1, <1>4, <2>1 DEF Stream
  <2>4. row.status # "absent"
    BY <1>4 DEF StreamInv
  <2>5. QED
    BY <1>4, <1>5, <2>2, <2>3, <2>4 DEF StreamInv, StreamComplete
<1>6. CASE ~(finished /\ nothing)
  <2> DEFINE o == sse.out + out
             e == IF out > 0 THEN sse.err ELSE sse.err + err
  <2>1. o \in Int /\ e \in Int
    BY <1>1, <1>2
  <2>2. sse' = [sse EXCEPT !.out = o, !.err = e, !.told = sse.told, !.done = FALSE]
    BY <1>1, <1>4, <1>6
  <2> HIDE DEF o, e
  <2>3. sse' \in Stream /\ sse'.open /\ ~sse'.done
    BY <1>1, <1>4, <2>1, <2>2 DEF Stream
  <2>4. QED
    BY <1>4, <2>3 DEF StreamInv, StreamComplete
<1>7. QED
  BY <1>5, <1>6

\* A stream sends what the row holds, and ends on the final status it read.
LEMMA FollowingStep ==
    ASSUME RowInv, StreamInv, Following
    PROVE  RowInv' /\ StreamInv'
<1>1. UNCHANGED <<row, task>>
  BY DEF Following, StreamHandler, Poll, FetchRowFails, ClientLeaves
<1>2. RowInv'
  BY <1>1 DEF RowInv
<1>3. CASE StreamHandler
  <2>1. sse' = [NoStream EXCEPT !.open = TRUE] /\ row.status # "absent"
    BY <1>3 DEF StreamHandler
  <2>2. NoStream \in Stream /\ ~NoStream.done
    BY DEF NoStream, Stream, Status
  <2> HIDE DEF NoStream
  <2>3. sse' \in Stream /\ sse'.open /\ ~sse'.done
    BY <2>1, <2>2 DEF Stream
  <2>4. QED
    BY <1>1, <1>2, <2>1, <2>3 DEF StreamInv, StreamComplete
<1>4. CASE Poll
  BY <1>2, <1>4, PollStep
<1>5. CASE FetchRowFails
  <2>1. sse.open /\ sse' = [sse EXCEPT !.told = "error", !.done = TRUE]
    BY <1>5 DEF FetchRowFails
  <2>2. sse' \in Stream /\ sse'.open /\ sse'.told = "error"
    BY <2>1 DEF StreamInv, Stream, Status
  <2>3. QED
    BY <1>1, <1>2, <2>1, <2>2 DEF StreamInv, StreamComplete
<1>6. CASE ClientLeaves
  <2>1. sse' = NoStream
    BY <1>6 DEF ClientLeaves
  <2>2. sse' \in Stream /\ ~sse'.open /\ ~sse'.done
    BY <2>1 DEF NoStream, Stream, Status
  <2>3. QED
    BY <1>2, <2>2 DEF StreamInv, StreamComplete
<1>7. QED
  BY <1>3, <1>4, <1>5, <1>6 DEF Following

\* stream_handler: a stream that ends without an error has sent the final
\* status after every byte of the row, whenever it was opened and however the
\* task, its restarts and the client interleave.
THEOREM StreamIsComplete == Spec => []StreamComplete
<1>1. Init => RowInv /\ StreamInv
  BY DEF Init, ExecInit, RowInv, StreamInv, StreamComplete, NoStream, Row, Stream, Status
<1>2. RowInv /\ StreamInv /\ [Next]_vars => RowInv' /\ StreamInv'
  <2> SUFFICES ASSUME RowInv, StreamInv, [Next]_vars PROVE RowInv' /\ StreamInv'
    OBVIOUS
  <2>1. CASE Command
    <3>1. Opening \/ InGuest \/ Serving \/ Following
      BY <2>1 DEF Command
    <3>2. QED
      BY <3>1, OpeningStep, InGuestStep, ServingStep, FollowingStep
  <2>2. CASE Guest \/ Rotation \/ SshdExits \/ Browser \/ Approving \/ UNCHANGED vars
    <3>1. UNCHANGED execVars
      BY <2>2 DEF Guest, Rotation, SshdExits, Browser, Approving, Same, OfTunnel, vars
    <3>2. QED
      BY <3>1, Aside DEF execVars
  <2>3. QED
    BY <2>1, <2>2 DEF Next
<1>3. RowInv /\ StreamInv => StreamComplete
  BY DEF StreamInv
<1>4. QED
  BY <1>1, <1>2, <1>3, PTL DEF Spec

-----------------------------------------------------------------------------
(* The approvals. Nobody who began after the row was decided may write it, so *)
(* once the last of those who had read it as pending is through, it stays.   *)

HandInv ==
    /\ hand \in [Everyone -> {"away", "expire", "write", "refused", "told"}]
    /\ choice \in [Everyone -> Decision]
    /\ rivals \in [Everyone -> SUBSET Everyone]

\* A decision made without a rival is the row's, and no one holds the row.
KeptInv ==
    \A d \in Everyone : hand[d] = "told" /\ rivals[d] = {} =>
        ticket = choice[d] /\ \A e \in Everyone : ~Holds(e)

\* A transaction holds the row from its reading to its end.
LEMMA DecisionStep ==
    ASSUME HandInv, KeptInv, NEW d \in Everyone,
           BeginDecision(d) \/ ExpireDecision(d) \/ CommitDecision(d) \/ DecisionFails(d)
    PROVE  HandInv' /\ KeptInv'
<1>1. CASE BeginDecision(d)
  <2>1. /\ hand' = [hand EXCEPT ![d] = Verdict] /\ hand[d] = "away"
        /\ UNCHANGED <<ticket, choice, rivals>>
    BY <1>1 DEF BeginDecision
  <2>2. Verdict \in {"expire", "refused", "write"}
    BY DEF Verdict
  <2>3. ticket \in Decision => Verdict = "refused"
    BY DEF Verdict, Decision
  <2> HIDE DEF Verdict
  <2>4. HandInv'
    BY <2>1, <2>2 DEF HandInv
  <2>5. ASSUME NEW f \in Everyone, hand'[f] = "told", rivals'[f] = {}
        PROVE  ticket' = choice'[f] /\ \A e \in Everyone : ~Holds(e)'
    <3>1. f # d /\ hand[f] = "told" /\ rivals[f] = {}
      BY <2>1, <2>2, <2>5 DEF HandInv
    <3>2. ticket = choice[f] /\ \A e \in Everyone : ~Holds(e)
      BY <3>1 DEF KeptInv
    <3>3. Verdict = "refused"
      BY <2>3, <3>2 DEF HandInv
    <3>4. QED
      BY <2>1, <3>2, <3>3 DEF HandInv, Holds
  <2>6. QED
    BY <2>4, <2>5 DEF KeptInv
<1>2. CASE ExpireDecision(d) \/ DecisionFails(d)
  <2>1. /\ hand' = [hand EXCEPT ![d] = "refused"] /\ Holds(d)
        /\ UNCHANGED <<choice, rivals>>
    BY <1>2 DEF ExpireDecision, DecisionFails, Holds
  <2>2. HandInv'
    BY <2>1 DEF HandInv
  <2>3. \A f \in Everyone : ~(hand[f] = "told" /\ rivals[f] = {})
    BY <2>1 DEF KeptInv
  <2>4. QED
    BY <2>1, <2>2, <2>3 DEF KeptInv, HandInv
<1>3. CASE CommitDecision(d)
  <2>1. /\ hand[d] = "write" /\ hand' = [hand EXCEPT ![d] = "told"]
        /\ ticket' = choice[d] /\ UNCHANGED choice
        /\ rivals' = [rivals EXCEPT ![d] = {e \in Everyone \ {d} : Holds(e)}]
    BY <1>3 DEF CommitDecision
  <2>2. HandInv'
    BY <2>1 DEF HandInv
  <2>3. \A f \in Everyone : ~(hand[f] = "told" /\ rivals[f] = {})
    BY <2>1 DEF KeptInv, Holds
  <2>4. ASSUME NEW f \in Everyone, hand'[f] = "told", rivals'[f] = {}
        PROVE  ticket' = choice'[f] /\ \A e \in Everyone : ~Holds(e)'
    <3>1. f = d
      BY <2>1, <2>3, <2>4 DEF HandInv
    <3>2. \A e \in Everyone \ {d} : ~Holds(e)
      BY <2>1, <2>4, <3>1 DEF HandInv
    <3>3. \A e \in Everyone : ~Holds(e)'
      BY <2>1, <3>2 DEF HandInv, Holds
    <3>4. QED
      BY <2>1, <3>1, <3>3
  <2>5. QED
    BY <2>2, <2>4 DEF KeptInv
<1>4. QED
  BY <1>1, <1>2, <1>3

\* apply_decision, expire_stale: the decision returned to someone stays,
\* unless another had already read the request as pending, for any number of
\* deciders.
THEOREM DecisionIsKept == Spec => []ToldIsKept
<1>1. Init => HandInv /\ KeptInv
  BY DEF Init, ApprovalInit, HandInv, KeptInv
<1>2. HandInv /\ KeptInv /\ [Next]_vars => HandInv' /\ KeptInv'
  <2> SUFFICES ASSUME HandInv, KeptInv, [Next]_vars PROVE HandInv' /\ KeptInv'
    OBVIOUS
  <2>1. CASE create_approval \/ TimeToLiveEnds \/ expire_stale
    <3>1. UNCHANGED <<hand, choice, rivals>> /\ (ticket' = ticket \/ ticket \in {"none", "PENDING"})
      BY <2>1 DEF create_approval, TimeToLiveEnds, expire_stale
    <3>2. HandInv'
      BY <3>1 DEF HandInv
    <3>3. ASSUME NEW d \in Everyone, hand[d] = "told", rivals[d] = {}
          PROVE  UNCHANGED ticket
      BY <3>1, <3>3 DEF KeptInv, HandInv, Decision
    <3>4. QED
      BY <3>1, <3>2, <3>3 DEF KeptInv, Holds
  <2>2. CASE \E d \in Everyone : \/ BeginDecision(d) \/ ExpireDecision(d)
                                 \/ CommitDecision(d) \/ DecisionFails(d)
    BY <2>2, DecisionStep
  <2>3. CASE UNCHANGED approvalVars
    BY <2>3 DEF approvalVars, HandInv, KeptInv, Holds
  <2>4. ApprovalNext \/ UNCHANGED approvalVars
    BY DEF Next, Guest, Rotation, SshdExits, Command, Browser, Approving,
           Same, OfTunnel, OfCommand, vars
  <2>5. QED
    BY <2>1, <2>2, <2>3, <2>4 DEF ApprovalNext
<1>3. HandInv /\ KeptInv => ToldIsKept
  BY DEF KeptInv, ToldIsKept
<1>4. QED
  BY <1>1, <1>2, <1>3, PTL DEF Spec
=============================================================================
