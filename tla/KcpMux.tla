------------------------------- MODULE KcpMux -------------------------------
(***************************************************************************)
(* One end of a stream multiplexer (kcp/kcp_mux.go): streams opened by the *)
(* application and by the peer, the accept queue, the close handshake and  *)
(* its timeout, the idle timers, StopAccepting and Close.                  *)
(*                                                                         *)
(* Application goroutines, timers and the one receive loop that calls      *)
(* Input run concurrently; each holds m.mu for the parts that are one step *)
(* here.  The peer is arbitrary: any frame may arrive at any time, so the  *)
(* frames this end sends are left out, except that sending one may fail.   *)
(***************************************************************************)
EXTENDS Integers, Sequences, FiniteSets

CONSTANTS
  IdSpace,           \* 2^32: stream ids are uint32
  IsClient,          \* whether this end opens the odd ids
  AcceptBacklog,     \* capacity of acceptCh
  MaxActiveStreams,  \* limit on active streams
  Openers, Acceptors, Closers,   \* goroutines calling Open, Accept, stream.Close
  MaxChannels,       \* bound: close handshakes begun
  MaxOpens           \* bound: calls of Open

ASSUME MuxAssumption == /\ IdSpace \in Nat /\ IdSpace % 2 = 0 /\ IdSpace > 0
                        /\ IsClient \in BOOLEAN
                        /\ AcceptBacklog \in Nat \ {0}
                        /\ MaxActiveStreams \in Nat \ {0}
                        /\ MaxChannels \in Nat
                        /\ MaxOpens \in Nat

VARIABLES
  streams,          \* streams[id]: the entry, or Absent
  nextLocalStreamID,
  activeStreams,    \* the counter of active entries
  acceptCh,         \* the queue of ids to accept
  acceptStopped,    \* acceptStopCh is closed
  acceptingRemote, closing, closed,
  opener,           \* opener[o]: the id whose OPEN is being sent, or NoId
  acceptor,         \* acceptor[a]: progress of Accept
  closer,           \* closer[c]: progress of closeStream
  input,            \* progress of Input
  stopper,          \* StopAccepting is between its lock and its channel close
  muxCloser,        \* progress of Close
  acked,            \* closeAckCh channels that are closed
  channels, opens   \* counters for the bounds

vars == <<streams, nextLocalStreamID, activeStreams, acceptCh, acceptStopped,
          acceptingRemote, closing, closed, opener, acceptor, closer, input,
          stopper, muxCloser, acked, channels, opens>>

StreamID == 0 .. IdSpace - 1
NoId     == -1
NoChan   == 0

\* streamEntry: ack is its closeAckCh, open says that its KCPConn is not closed.
Entry  == [active : BOOLEAN, queued : BOOLEAN, localClose : BOOLEAN,
           ack : 0 .. MaxChannels, open : BOOLEAN]
Absent == [absent |-> TRUE]

Present(id) == streams[id] # Absent
newStreamEntry == [active |-> FALSE, queued |-> FALSE, localClose |-> FALSE,
                   ack |-> NoChan, open |-> TRUE]

isRemoteStreamID(id) == id % 2 = IF IsClient THEN 0 ELSE 1
initialLocalStreamID == IF IsClient THEN 1 ELSE 0

FrameType == {"open", "data", "close", "closeAck", "invalid"}

IdleClose == [pc |-> "idle", id |-> NoId, ch |-> NoChan]
IdleInput == [pc |-> "idle", id |-> NoId, type |-> "open", exists |-> FALSE]
IdleMux   == [pc |-> "idle", todo |-> {}]

\* NewKcpMux.
Init ==
  /\ streams = [id \in StreamID |-> Absent]
  /\ nextLocalStreamID = initialLocalStreamID
  /\ activeStreams = 0
  /\ acceptCh = << >>
  /\ acceptStopped = FALSE
  /\ acceptingRemote = TRUE /\ closing = FALSE /\ closed = FALSE
  /\ opener = [o \in Openers |-> NoId]
  /\ acceptor = [a \in Acceptors |-> [pc |-> "idle", id |-> NoId]]
  /\ closer = [c \in Closers |-> IdleClose]
  /\ input = IdleInput
  /\ stopper = FALSE
  /\ muxCloser = IdleMux
  /\ acked = {}
  /\ channels = 0
  /\ opens = 0

flags == <<acceptStopped, acceptingRemote, closing, closed>>

-----------------------------------------------------------------------------
(* Entries.  Remove(S) is removeStreamLocked for every id of S: the entry   *)
(* goes, the active count drops and whoever waits on closeAckCh is woken.   *)

ActiveIn(S) == {id \in S : Present(id) /\ streams[id].active}

\* if entry.active && m.activeStreams > 0 { m.activeStreams-- }, for each entry.
CountAfter(S) == LET n == Cardinality(ActiveIn(S))
                 IN  IF activeStreams > n THEN activeStreams - n ELSE 0

\* A wrong form, for the mutation runs: nobody is woken.
RemoveNoWake(S) ==
  /\ streams' = [id \in StreamID |-> IF id \in S THEN Absent ELSE streams[id]]
  /\ activeStreams' = CountAfter(S)
  /\ acked' = acked

Remove(S) ==
  /\ streams' = [id \in StreamID |-> IF id \in S THEN Absent ELSE streams[id]]
  /\ activeStreams' = CountAfter(S)
  /\ acked' = acked \union ({streams[id].ack : id \in {i \in S : Present(i)}} \ {NoChan})

\* allocateLocalStreamIDLocked: the first free id from nextLocalStreamID on, in
\* steps of two, modulo the width.
LocalIdAt(k)  == (nextLocalStreamID + 2 * k) % IdSpace
FreeSteps     == {k \in 0 .. (IdSpace \div 2) - 1 : ~Present(LocalIdAt(k))}
FirstFreeStep == CHOOSE k \in FreeSteps : \A j \in FreeSteps : k <= j

-----------------------------------------------------------------------------
(* Open.                                                                    *)

\* errStreamIDExhausted and ErrServiceMuxClosed change nothing.
OpenStream(o) ==
  /\ opener[o] = NoId
  /\ opens < MaxOpens
  /\ ~closed /\ ~closing
  /\ FreeSteps # {}
  /\ LET id == LocalIdAt(FirstFreeStep)
     IN  /\ nextLocalStreamID' = (id + 2) % IdSpace
         /\ streams' = [streams EXCEPT ![id] = [newStreamEntry EXCEPT !.active = TRUE]]
         /\ opener' = [opener EXCEPT ![o] = id]
  /\ activeStreams' = activeStreams + 1
  /\ opens' = opens + 1
  /\ UNCHANGED <<acceptCh, flags, acceptor, closer, input, stopper, muxCloser, acked,
                 channels>>

\* The OPEN frame was sent: the application has its stream.
OpenSent(o) ==
  /\ opener[o] # NoId
  /\ opener' = [opener EXCEPT ![o] = NoId]
  /\ UNCHANGED <<streams, nextLocalStreamID, activeStreams, acceptCh, flags, acceptor,
                 closer, input, stopper, muxCloser, acked, channels, opens>>

\* It could not be sent: the stream is removed again.
OpenFailed(o) ==
  /\ opener[o] # NoId
  /\ Remove({opener[o]})
  /\ opener' = [opener EXCEPT ![o] = NoId]
  /\ UNCHANGED <<nextLocalStreamID, acceptCh, flags, acceptor, closer, input, stopper,
                 muxCloser, channels, opens>>

-----------------------------------------------------------------------------
(* Accept.                                                                  *)

AcceptCall(a) ==
  /\ acceptor[a].pc = "idle"
  /\ acceptor' = [acceptor EXCEPT ![a].pc = "select"]
  /\ UNCHANGED <<streams, nextLocalStreamID, activeStreams, acceptCh, flags, opener,
                 closer, input, stopper, muxCloser, acked, channels, opens>>

AcceptReceive(a) ==
  /\ acceptor[a].pc = "select"
  /\ acceptCh # << >>
  /\ acceptor' = [acceptor EXCEPT ![a] = [pc |-> "queued", id |-> Head(acceptCh)]]
  /\ acceptCh' = Tail(acceptCh)
  /\ UNCHANGED <<streams, nextLocalStreamID, activeStreams, flags, opener, closer,
                 input, stopper, muxCloser, acked, channels, opens>>

\* acceptStopCh or closeCh is closed.
AcceptStopped(a) ==
  /\ acceptor[a].pc = "select"
  /\ acceptStopped \/ closing
  /\ acceptor' = [acceptor EXCEPT ![a].pc = "idle"]
  /\ UNCHANGED <<streams, nextLocalStreamID, activeStreams, acceptCh, flags, opener,
                 closer, input, stopper, muxCloser, acked, channels, opens>>

\* A wrong form, for the mutation runs: the active stream is not counted.
AcceptQueuedUncounted(a) ==
  LET id == acceptor[a].id
  IN  /\ acceptor[a].pc = "queued"
      /\ IF closed \/ closing \/ ~acceptingRemote
           THEN /\ acceptor' = [acceptor EXCEPT ![a] = [pc |-> "idle", id |-> NoId]]
                /\ UNCHANGED <<streams, activeStreams>>
           ELSE IF Present(id) /\ streams[id].queued
             THEN /\ streams' = [streams EXCEPT ![id].queued = FALSE, ![id].active = TRUE]
                  /\ UNCHANGED activeStreams
                  /\ acceptor' = [acceptor EXCEPT ![a] = [pc |-> "idle", id |-> NoId]]
             ELSE /\ acceptor' = [acceptor EXCEPT ![a] = [pc |-> "select", id |-> NoId]]
                  /\ UNCHANGED <<streams, activeStreams>>
      /\ UNCHANGED <<nextLocalStreamID, acceptCh, flags, opener, closer, input, stopper,
                     muxCloser, acked, channels, opens>>

\* acceptQueued: an error ends the call, a stale id sends it back to the queue.
AcceptQueued(a) ==
  LET id == acceptor[a].id
  IN  /\ acceptor[a].pc = "queued"
      /\ IF closed \/ closing \/ ~acceptingRemote
           THEN /\ acceptor' = [acceptor EXCEPT ![a] = [pc |-> "idle", id |-> NoId]]
                /\ UNCHANGED <<streams, activeStreams>>
           ELSE IF Present(id) /\ streams[id].queued
             THEN /\ streams' = [streams EXCEPT ![id].queued = FALSE, ![id].active = TRUE]
                  /\ activeStreams' = activeStreams + 1
                  /\ acceptor' = [acceptor EXCEPT ![a] = [pc |-> "idle", id |-> NoId]]
             ELSE /\ acceptor' = [acceptor EXCEPT ![a] = [pc |-> "select", id |-> NoId]]
                  /\ UNCHANGED <<streams, activeStreams>>
      /\ UNCHANGED <<nextLocalStreamID, acceptCh, flags, opener, closer, input, stopper,
                     muxCloser, acked, channels, opens>>

-----------------------------------------------------------------------------
(* closeStream.                                                             *)

\* A stream that is gone, or a closed mux, returns at once (no step); a stream
\* that is already closing is waited for.
CloseStream(c, id) ==
  /\ closer[c].pc = "idle"
  /\ ~closed
  /\ Present(id)
  /\ IF streams[id].localClose
       THEN /\ closer' = [closer EXCEPT ![c] = [pc |-> "wait", id |-> id,
                                                ch |-> streams[id].ack]]
            /\ UNCHANGED <<streams, channels>>
       ELSE /\ channels < MaxChannels
            /\ channels' = channels + 1
            /\ streams' = [streams EXCEPT ![id].localClose = TRUE,
                                          ![id].ack = channels + 1]
            /\ closer' = [closer EXCEPT ![c] = [pc |-> "drain", id |-> id,
                                                ch |-> channels + 1]]
  /\ UNCHANGED <<nextLocalStreamID, activeStreams, acceptCh, flags, opener, acceptor,
                 input, stopper, muxCloser, acked, opens>>

\* Is the conn of the entry with this channel still open?
DrainOk(id, ch) == Present(id) /\ streams[id].ack = ch /\ streams[id].open

\* Drain, closeSignal and the CLOSE frame.  A conn that is already closed, or a
\* deadline that has passed, makes the call return an error and leaves the entry
\* to an ack or to its idle timer.
CloseDrain(c) ==
  LET id == closer[c].id
      ch == closer[c].ch
  IN  /\ closer[c].pc = "drain"
      /\ IF DrainOk(id, ch)
           THEN /\ streams' = [streams EXCEPT ![id].open = FALSE]
                /\ \/ closer' = [closer EXCEPT ![c].pc = "wait"]
                   \/ closer' = [closer EXCEPT ![c] = IdleClose]     \* too late
           ELSE /\ closer' = [closer EXCEPT ![c] = IdleClose]
                /\ UNCHANGED streams
      /\ UNCHANGED <<nextLocalStreamID, activeStreams, acceptCh, flags, opener, acceptor,
                     input, stopper, muxCloser, acked, channels, opens>>

\* waitForCloseAck: the ack, or the mux is closing ...
CloseAcked(c) ==
  /\ closer[c].pc = "wait"
  /\ closer[c].ch \in acked \/ closing
  /\ closer' = [closer EXCEPT ![c] = IdleClose]
  /\ UNCHANGED <<streams, nextLocalStreamID, activeStreams, acceptCh, flags, opener,
                 acceptor, input, stopper, muxCloser, acked, channels, opens>>

\* ... or CloseAckTimeout, which removes the stream of that id.
CloseTimeout(c) ==
  /\ closer[c].pc = "wait"
  /\ Remove({closer[c].id})
  /\ closer' = [closer EXCEPT ![c] = IdleClose]
  /\ UNCHANGED <<nextLocalStreamID, acceptCh, flags, opener, acceptor, input, stopper,
                 muxCloser, channels, opens>>

-----------------------------------------------------------------------------
(* Timers.                                                                  *)

\* IdleStreamTimeout removes the stream.
IdleTimeout(id) ==
  /\ Present(id)
  /\ Remove({id})
  /\ UNCHANGED <<nextLocalStreamID, acceptCh, flags, opener, acceptor, closer, input,
                 stopper, muxCloser, channels, opens>>

\* The conn's own idle timer closes the conn and leaves the entry.
ConnTimeout(id) ==
  /\ Present(id) /\ streams[id].open
  /\ streams' = [streams EXCEPT ![id].open = FALSE]
  /\ UNCHANGED <<nextLocalStreamID, activeStreams, acceptCh, flags, opener, acceptor,
                 closer, input, stopper, muxCloser, acked, channels, opens>>

-----------------------------------------------------------------------------
(* Input.                                                                   *)

\* The closed test and the lookup.  The code releases m.mu between them; a Close
\* that begins there makes either answer harmless, as it does here in between
\* the lookup and InputApply.
InputLookup(id, type) ==
  /\ input.pc = "idle"
  /\ ~closed /\ ~closing
  /\ input' = [pc |-> "apply", id |-> id, type |-> type, exists |-> Present(id)]
  /\ UNCHANGED <<streams, nextLocalStreamID, activeStreams, acceptCh, flags, opener,
                 acceptor, closer, stopper, muxCloser, acked, channels, opens>>

\* A wrong form, for the mutation runs: a stopped mux still queues streams.
HandleOpenAfterStop(id) ==
  IF closed \/ closing \/ Present(id) \/ activeStreams >= MaxActiveStreams
     \/ Len(acceptCh) >= AcceptBacklog
    THEN UNCHANGED <<streams, acceptCh>>
    ELSE /\ streams' = [streams EXCEPT ![id] = [newStreamEntry EXCEPT !.queued = TRUE]]
         /\ acceptCh' = Append(acceptCh, id)

\* A wrong form, for the mutation runs: the queue takes one id too many.
HandleOpenOverflow(id) ==
  IF closed \/ closing \/ ~acceptingRemote \/ Present(id)
     \/ activeStreams >= MaxActiveStreams \/ Len(acceptCh) > AcceptBacklog
    THEN UNCHANGED <<streams, acceptCh>>
    ELSE /\ streams' = [streams EXCEPT ![id] = [newStreamEntry EXCEPT !.queued = TRUE]]
         /\ acceptCh' = Append(acceptCh, id)

\* handleOpen: refusals are answered with CLOSE(abort).
HandleOpen(id) ==
  IF closed \/ closing \/ ~acceptingRemote \/ Present(id)
     \/ activeStreams >= MaxActiveStreams \/ Len(acceptCh) >= AcceptBacklog
    THEN UNCHANGED <<streams, acceptCh>>
    ELSE /\ streams' = [streams EXCEPT ![id] = [newStreamEntry EXCEPT !.queued = TRUE]]
         /\ acceptCh' = Append(acceptCh, id)

\* CLOSE removes the stream and is acknowledged.  An ack removes a stream this
\* end is closing and wakes its closer in any case.
InputClose ==
  /\ input.type \in {"close", "closeAck"}
  /\ IF input.exists /\ Present(input.id)
        /\ (input.type = "closeAck" => streams[input.id].localClose)
       THEN Remove({input.id})
       ELSE UNCHANGED <<streams, activeStreams, acked>>
  /\ UNCHANGED acceptCh

InputOpen ==
  /\ input.type = "open"
  /\ IF input.exists \/ ~isRemoteStreamID(input.id)
       THEN UNCHANGED <<streams, acceptCh>>
       ELSE HandleOpen(input.id)
  /\ UNCHANGED <<activeStreams, acked>>

\* An unknown frame type, or an OPEN with a payload, ends the stream.
InputInvalid ==
  /\ input.type = "invalid"
  /\ IF input.exists THEN Remove({input.id}) ELSE UNCHANGED <<streams, activeStreams, acked>>
  /\ UNCHANGED acceptCh

\* DATA for an unknown stream of the peer opens it; a conn that no longer takes
\* input ends the stream.
InputData ==
  /\ input.type = "data"
  /\ IF input.exists
       THEN /\ IF Present(input.id) /\ ~streams[input.id].open
                 THEN Remove({input.id})
                 ELSE UNCHANGED <<streams, activeStreams, acked>>
            /\ UNCHANGED acceptCh
       ELSE /\ IF isRemoteStreamID(input.id)
                 THEN HandleOpen(input.id)
                 ELSE UNCHANGED <<streams, acceptCh>>
            /\ UNCHANGED <<activeStreams, acked>>

InputApply ==
  /\ input.pc = "apply"
  /\ InputClose \/ InputOpen \/ InputInvalid \/ InputData
  /\ input' = IdleInput
  /\ UNCHANGED <<nextLocalStreamID, flags, opener, acceptor, closer, stopper, muxCloser,
                 channels, opens>>

-----------------------------------------------------------------------------
(* StopAccepting and Close.                                                 *)

QueuedOnly == {id \in StreamID : Present(id) /\ streams[id].queued /\ ~streams[id].active}

StopAccepting ==
  /\ ~closed /\ ~closing /\ acceptingRemote
  /\ acceptingRemote' = FALSE
  /\ Remove(QueuedOnly)
  /\ stopper' = TRUE
  /\ UNCHANGED <<nextLocalStreamID, acceptCh, acceptStopped, closing, closed, opener,
                 acceptor, closer, input, muxCloser, channels, opens>>

\* A wrong form, for the mutation runs: the channel is left open.
StopAcceptingSilently ==
  /\ stopper
  /\ stopper' = FALSE
  /\ UNCHANGED <<streams, nextLocalStreamID, activeStreams, acceptCh, flags, opener,
                 acceptor, closer, input, muxCloser, acked, channels, opens>>

StopAcceptingSignal ==
  /\ stopper
  /\ stopper' = FALSE
  /\ acceptStopped' = TRUE
  /\ UNCHANGED <<streams, nextLocalStreamID, activeStreams, acceptCh, acceptingRemote,
                 closing, closed, opener, acceptor, closer, input, muxCloser, acked,
                 channels, opens>>

Close ==
  /\ muxCloser.pc = "idle" /\ ~closing
  /\ acceptingRemote' = FALSE /\ acceptStopped' = TRUE /\ closing' = TRUE
  /\ muxCloser' = [pc |-> "streams", todo |-> {id \in StreamID : Present(id)}]
  /\ UNCHANGED <<streams, nextLocalStreamID, activeStreams, acceptCh, closed, opener,
                 acceptor, closer, input, stopper, acked, channels, opens>>

\* closeStream for each stream found; closeCh is closed, so none is waited for.
CloseEachStream ==
  /\ muxCloser.pc = "streams"
  /\ \E id \in muxCloser.todo :
       /\ muxCloser' = [muxCloser EXCEPT !.todo = @ \ {id}]
       /\ streams' = IF Present(id)
                       THEN [streams EXCEPT ![id].localClose = TRUE, ![id].open = FALSE]
                       ELSE streams
  /\ UNCHANGED <<nextLocalStreamID, activeStreams, acceptCh, flags, opener, acceptor,
                 closer, input, stopper, acked, channels, opens>>

\* A wrong form, for the mutation runs: only the streams found at first are removed.
CloseFinishEarly ==
  /\ muxCloser.pc = "streams" /\ muxCloser.todo = {}
  /\ closed' = TRUE
  /\ muxCloser' = [muxCloser EXCEPT !.pc = "done"]
  /\ UNCHANGED <<streams, activeStreams, acked, nextLocalStreamID, acceptCh,
                 acceptStopped, acceptingRemote, closing, opener, acceptor, closer,
                 input, stopper, channels, opens>>

CloseFinish ==
  /\ muxCloser.pc = "streams" /\ muxCloser.todo = {}
  /\ Remove({id \in StreamID : Present(id)})
  /\ closed' = TRUE
  /\ muxCloser' = [muxCloser EXCEPT !.pc = "done"]
  /\ UNCHANGED <<nextLocalStreamID, acceptCh, acceptStopped, acceptingRemote, closing,
                 opener, acceptor, closer, input, stopper, channels, opens>>

-----------------------------------------------------------------------------
Next ==
  \/ \E o \in Openers : OpenStream(o) \/ OpenSent(o) \/ OpenFailed(o)
  \/ \E a \in Acceptors :
       AcceptCall(a) \/ AcceptReceive(a) \/ AcceptStopped(a) \/ AcceptQueued(a)
  \/ \E c \in Closers :
       \/ \E id \in StreamID : CloseStream(c, id)
       \/ CloseDrain(c) \/ CloseAcked(c) \/ CloseTimeout(c)
  \/ \E id \in StreamID : IdleTimeout(id) \/ ConnTimeout(id)
  \/ \E id \in StreamID, type \in FrameType : InputLookup(id, type)
  \/ InputApply
  \/ StopAccepting \/ StopAcceptingSignal
  \/ Close \/ CloseEachStream \/ CloseFinish

Spec == Init /\ [][Next]_vars

\* Goroutines that can run do run, and the close-ack timer fires; nothing is
\* assumed of the peer, of the idle timers or of the application.
Fairness ==
  /\ \A a \in Acceptors : WF_vars(AcceptReceive(a) \/ AcceptStopped(a)) /\ WF_vars(AcceptQueued(a))
  /\ \A c \in Closers : WF_vars(CloseDrain(c)) /\ WF_vars(CloseAcked(c) \/ CloseTimeout(c))
  /\ WF_vars(StopAcceptingSignal)
  /\ WF_vars(CloseEachStream \/ CloseFinish)

FairSpec == Spec /\ Fairness

-----------------------------------------------------------------------------
(* Properties.                                                             *)

\* Types of the table, of the counters and of the goroutines' progress.
TypeOK ==
  /\ streams \in [StreamID -> Entry \union {Absent}]
  /\ nextLocalStreamID \in StreamID
  /\ activeStreams \in Nat
  /\ acceptCh \in Seq(StreamID) /\ Len(acceptCh) <= AcceptBacklog
  /\ opener \in [Openers -> StreamID \union {NoId}]
  /\ acceptor \in [Acceptors -> [pc : {"idle", "select", "queued"},
                                 id : StreamID \union {NoId}]]
  /\ closer \in [Closers -> [pc : {"idle", "drain", "wait"},
                             id : StreamID \union {NoId}, ch : 0 .. MaxChannels]]
  /\ acked \subseteq 1 .. MaxChannels
  /\ channels \in 0 .. MaxChannels

\* The counter that admission is decided on is the number of active entries,
\* whatever opens, accepts, closes and timers interleave.
ActiveExact == activeStreams = Cardinality(ActiveIn(StreamID))

\* A stream that waits to be accepted can be: it is one of the peer's, its id is
\* on the queue, or an Accept call has taken it and not yet decided, and the mux
\* accepts.  No stream is left waiting by StopAccepting, nor queued later by a
\* frame that was already past its checks.
QueuedIsAcceptable ==
  \A id \in StreamID :
    Present(id) /\ streams[id].queued /\ ~closing =>
      /\ isRemoteStreamID(id) /\ acceptingRemote
      /\ \/ \E i \in 1 .. Len(acceptCh) : acceptCh[i] = id
         \/ \E a \in Acceptors : acceptor[a].pc = "queued" /\ acceptor[a].id = id

\* A goroutine that waits for an ack waits on a channel that is closed already
\* or belongs to a stream still in the table: its removal by anybody wakes it.
WaiterIsWakeable ==
  \A c \in Closers :
    closer[c].pc = "wait" /\ ~closing =>
      \/ closer[c].ch \in acked
      \/ Present(closer[c].id) /\ streams[closer[c].id].ack = closer[c].ch

\* Close leaves nothing behind, opens and frames in flight included.
ClosedIsEmpty ==
  closed => /\ activeStreams = 0
            /\ \A id \in StreamID : ~Present(id)

\* MaxActiveStreams bounds the streams of the peer that are active at once
\* (TestKcpMux_MaxActiveStreamsRejectsExtraRemoteOpen).
RemoteActiveBounded ==
  Cardinality({id \in ActiveIn(StreamID) : isRemoteStreamID(id)}) <= MaxActiveStreams

\* Every stream.Close returns, acknowledged or not, and stopping or closing the
\* mux ends every blocked Accept.
CallsReturn ==
  /\ \A c \in Closers : closer[c].pc # "idle" ~> closer[c].pc = "idle"
  /\ \A a \in Acceptors : (acceptor[a].pc # "idle" /\ ~acceptingRemote) ~> acceptor[a].pc = "idle"

=============================================================================
