--------------------------- MODULE PacketPipeline ---------------------------
(***************************************************************************)
(* The goroutines of one UDP node (core/udp.go) and the channels between   *)
(* them.                                                                   *)
(*                                                                         *)
(* Inbound: ioLoop reads datagrams in batches and queues each packet twice,*)
(* for ordered delivery and for decryption; decrypt workers fill packets in*)
(* parallel, orderedReceiveLoop waits for each in turn.  A packet goes back*)
(* to its pool when both sides have dropped their reference.               *)
(*                                                                         *)
(* Outbound: sendPayload queues its packet for the ordered send loop and   *)
(* for encryption, then waits.  Its callers are goroutines of the          *)
(* application and of KCP, the receive loop itself (a KCP frame that is    *)
(* answered from Input) and Close (the close notice).                      *)
(*                                                                         *)
(* Close stops everything.  Datagrams are numbered as they are read,       *)
(* outbound packets as they are queued; what is in them does not matter.   *)
(***************************************************************************)
EXTENDS Naturals, Sequences, FiniteSets, SequencesExt

CONSTANTS Callers,         \* application goroutines that call sendPayload
          DecryptWorkers,
          EncryptWorkers,
          RawCap,          \* capacity of decryptChan, encryptChan and sendChan
          OutCap,          \* capacity of outputChan
          BatchSize,       \* DefaultBatchSize
          MaxArrivals,     \* bound: datagrams read from the socket
          MaxSends,        \* bound: calls of sendPayload, replies included
          MaxEvents        \* bound: datagrams and calls together

ASSUME PipelineAssumption ==
  /\ {RawCap, OutCap, BatchSize} \subseteq Nat \ {0}
  /\ {MaxArrivals, MaxSends, MaxEvents} \subseteq Nat
  /\ {"recv", "close", "none"} \cap Callers = {}

\* The pool never runs dry: sync.Pool makes a packet when it has none.
Packet == 1 .. (MaxArrivals + BatchSize)
NoPacket == 0

\* Everyone who calls sendPayload.
Sender == Callers \cup {"recv", "close"}
NoSender == "none"

Result == {"none", "ok", "closed", "failed"}

VARIABLES
  \* inbound
  pkt,         \* packet -> its fields
  arrived,     \* datagrams read so far
  io,          \* ioLoop: what it does with the first packet of its batch
  batch,       \* the packets ioLoop has still to dispatch
  outputChan,
  decryptChan,
  decrypting,  \* decrypt worker -> the packet it holds
  dworker,     \* decrypt worker -> "idle", "processing", "unref"
  recv,        \* orderedReceiveLoop: "idle", "waiting", "unref"
  receiving,   \* the packet orderedReceiveLoop holds
  delivered,   \* the datagrams handed to the service muxes
  \* outbound
  pc,          \* sender -> where it is in sendPayload
  opkt,        \* sender -> its outboundPacket
  result,      \* sender -> what its last sendPayload returned
  queued,      \* packets put on sendChan so far
  sendChan,
  encryptChan,
  eworker,     \* encrypt worker -> the sender whose packet it holds
  sendLoop,    \* orderedSendLoop: the sender whose packet it holds
  written,     \* packets written to the socket, in that order
  sends,       \* calls of sendPayload so far
  \* Close
  closing,     \* u.closing
  closed,      \* u.closed
  closeChan,   \* closeChan is closed
  closer,      \* where Close is
  panicked     \* a goroutine has sent on a closed channel

inVars == <<pkt, arrived, io, batch, outputChan, decryptChan, decrypting, dworker, recv, receiving, delivered>>
outVars == <<pc, opkt, result, queued, sendChan, encryptChan, eworker, sendLoop, written, sends>>
closeVars == <<closing, closed, closeChan, closer, panicked>>
vars == <<inVars, outVars, closeVars>>

-----------------------------------------------------------------------------
(* Packets                                                                 *)

\* seq stands for the datagram in the buffer.
PacketFields == [seq : 0 .. MaxArrivals, refs : 0 .. 2, released : BOOLEAN, ready : BOOLEAN, ok : BOOLEAN]
Pooled == [seq |-> 0, refs |-> 0, released |-> TRUE, ready |-> FALSE, ok |-> FALSE]

OutboundFields == [no : 0 .. (MaxSends + 1), ready : BOOLEAN, err : Result, done : Result]
NoOutbound == [no |-> 0, ready |-> FALSE, err |-> "none", done |-> "none"]

acquirePacket(seq) == [seq |-> seq, refs |-> 0, released |-> FALSE, ready |-> FALSE, ok |-> FALSE]

\* What a packet in the pool holds does not matter: acquire resets it.
releasePacket(p) == Pooled

unrefPacket(p) ==
  IF p.refs = 1 THEN releasePacket(p) ELSE [p EXCEPT !.refs = @ - 1]

\* The pool hands out any n free packets.  They are alike: these are the first.
Free == {p \in Packet : pkt[p].released}
FirstFree(n) ==
  {s \in [1 .. n -> Free] :
     /\ \A i, j \in 1 .. n : i < j => s[i] < s[j]
     /\ \A p \in Free : p < s[n] => \E i \in 1 .. n : s[i] = p}

-----------------------------------------------------------------------------
Init ==
  /\ pkt = [p \in Packet |-> Pooled]
  /\ arrived = 0
  /\ io = "read" /\ batch = <<>>
  /\ outputChan = <<>> /\ decryptChan = <<>>
  /\ decrypting = [w \in DecryptWorkers |-> NoPacket]
  /\ dworker = [w \in DecryptWorkers |-> "idle"]
  /\ recv = "idle" /\ receiving = NoPacket
  /\ delivered = <<>>
  /\ pc = [s \in Sender |-> "idle"]
  /\ opkt = [s \in Sender |-> NoOutbound]
  /\ result = [s \in Sender |-> "none"]
  /\ queued = 0
  /\ sendChan = <<>> /\ encryptChan = <<>>
  /\ eworker = [w \in EncryptWorkers |-> NoSender]
  /\ sendLoop = NoSender
  /\ written = <<>>
  /\ sends = 0
  /\ closing = FALSE /\ closed = FALSE /\ closeChan = FALSE
  /\ closer = "none" /\ panicked = FALSE

-----------------------------------------------------------------------------
(* ioLoop and dispatchToChannels                                           *)

\* Each goroutine returns when it finds closeChan closed between two packets;
\* the select may as well take another packet.  A goroutine that has returned is
\* one that takes none any more: nothing makes it take one once closeChan is
\* closed, and it takes none when Close has seen it end.
Running == closer # "done"

SocketOpen == closer \notin {"wait", "done"}

\* ioLoopBatch acquires a batch, reads one or more datagrams and releases the
\* packets it did not fill.  ioLoopSingle is the same with BatchSize = 1.
IoRead ==
  /\ io = "read" /\ SocketOpen
  /\ \E n \in 1 .. BatchSize :
       /\ arrived + n <= MaxArrivals /\ arrived + n + sends <= MaxEvents
       /\ \E s \in FirstFree(n) :
            /\ batch' = s
            /\ pkt' = [p \in Packet |->
                 IF \E i \in 1 .. n : s[i] = p
                 THEN acquirePacket(arrived + (CHOOSE i \in 1 .. n : s[i] = p)) ELSE pkt[p]]
            /\ arrived' = arrived + n
  /\ io' = "dispatch"
  /\ UNCHANGED <<outputChan, decryptChan, decrypting, dworker, recv, receiving, delivered, outVars, closeVars>>

\* The next packet of the batch, or the next read.
NextOfBatch ==
  /\ batch' = Tail(batch)
  /\ io' = IF Len(batch) = 1 THEN "read" ELSE "dispatch"

DispatchCheck ==
  /\ io = "dispatch"
  /\ IF closeChan
     THEN /\ pkt' = [pkt EXCEPT ![Head(batch)] = releasePacket(@)]
          /\ NextOfBatch
     ELSE /\ pkt' = [pkt EXCEPT ![Head(batch)].refs = 2]
          /\ io' = "output" /\ UNCHANGED batch
  /\ UNCHANGED <<arrived, outputChan, decryptChan, decrypting, dworker, recv, receiving, delivered, outVars, closeVars>>

\* Mutant of DispatchOutput: a full outputChan is not noticed.
DispatchOutputUnbounded ==
  /\ io = "output"
  /\ outputChan' = Append(outputChan, Head(batch))
  /\ io' = "decrypt"
  /\ UNCHANGED <<pkt, arrived, batch, decryptChan, decrypting, dworker, recv, receiving, delivered, outVars, closeVars>>

DispatchOutput ==
  /\ io = "output" /\ Len(outputChan) < OutCap
  /\ outputChan' = Append(outputChan, Head(batch))
  /\ io' = "decrypt"
  /\ UNCHANGED <<pkt, arrived, batch, decryptChan, decrypting, dworker, recv, receiving, delivered, outVars, closeVars>>

DispatchOutputFull ==
  /\ io = "output" /\ Len(outputChan) = OutCap /\ ~closeChan
  /\ pkt' = [pkt EXCEPT ![Head(batch)] = unrefPacket(@)]
  /\ io' = "decryptOnly"
  /\ UNCHANGED <<arrived, batch, outputChan, decryptChan, decrypting, dworker, recv, receiving, delivered, outVars, closeVars>>

DispatchOutputClosed ==
  /\ io = "output" /\ closeChan
  /\ pkt' = [pkt EXCEPT ![Head(batch)] = unrefPacket(unrefPacket(@))]
  /\ NextOfBatch
  /\ UNCHANGED <<arrived, outputChan, decryptChan, decrypting, dworker, recv, receiving, delivered, outVars, closeVars>>

DispatchDecrypt ==
  /\ io \in {"decrypt", "decryptOnly"} /\ Len(decryptChan) < RawCap
  /\ decryptChan' = Append(decryptChan, Head(batch))
  /\ NextOfBatch
  /\ UNCHANGED <<pkt, arrived, outputChan, decrypting, dworker, recv, receiving, delivered, outVars, closeVars>>

\* Mutant of DispatchDecryptDrop: the output path is not told.
DispatchDecryptDropSilently ==
  /\ io \in {"decrypt", "decryptOnly"}
  /\ Len(decryptChan) = RawCap \/ closeChan
  /\ pkt' = [pkt EXCEPT ![Head(batch)] = unrefPacket(@)]
  /\ NextOfBatch
  /\ UNCHANGED <<arrived, outputChan, decryptChan, decrypting, dworker, recv, receiving, delivered, outVars, closeVars>>

\* The packet is not decrypted: an output path that holds it is told so.
DispatchDecryptDrop ==
  /\ io \in {"decrypt", "decryptOnly"}
  /\ Len(decryptChan) = RawCap \/ closeChan
  /\ pkt' = [pkt EXCEPT ![Head(batch)] = unrefPacket([@ EXCEPT !.ready = (io = "decrypt")])]
  /\ NextOfBatch
  /\ UNCHANGED <<arrived, outputChan, decryptChan, decrypting, dworker, recv, receiving, delivered, outVars, closeVars>>

-----------------------------------------------------------------------------
(* decryptWorker                                                           *)

DecryptTake(w) ==
  /\ Running /\ dworker[w] = "idle" /\ decryptChan # <<>>
  /\ decrypting' = [decrypting EXCEPT ![w] = Head(decryptChan)]
  /\ decryptChan' = Tail(decryptChan)
  /\ dworker' = [dworker EXCEPT ![w] = "processing"]
  /\ UNCHANGED <<pkt, arrived, io, batch, outputChan, recv, receiving, delivered, outVars, closeVars>>

\* Mutant of DecryptProcess: the worker routes the packet to the mux itself.
DecryptProcessDelivers(w) ==
  /\ dworker[w] = "processing"
  /\ pkt' = [pkt EXCEPT ![decrypting[w]].ok = FALSE, ![decrypting[w]].ready = TRUE]
  /\ delivered' = Append(delivered, pkt[decrypting[w]].seq)
  /\ dworker' = [dworker EXCEPT ![w] = "unref"]
  /\ UNCHANGED <<arrived, io, batch, outputChan, decryptChan, decrypting, recv, receiving, outVars, closeVars>>

\* processPacket: transport data for a peer, or an error (a handshake message
\* is handled here and is no data).
DecryptProcess(w) ==
  /\ dworker[w] = "processing"
  /\ \E ok \in BOOLEAN :
       pkt' = [pkt EXCEPT ![decrypting[w]].ok = ok, ![decrypting[w]].ready = TRUE]
  /\ dworker' = [dworker EXCEPT ![w] = "unref"]
  /\ UNCHANGED <<arrived, io, batch, outputChan, decryptChan, decrypting, recv, receiving, delivered, outVars, closeVars>>

DecryptUnref(w) ==
  /\ dworker[w] = "unref"
  /\ pkt' = [pkt EXCEPT ![decrypting[w]] = unrefPacket(@)]
  /\ decrypting' = [decrypting EXCEPT ![w] = NoPacket]
  /\ dworker' = [dworker EXCEPT ![w] = "idle"]
  /\ UNCHANGED <<arrived, io, batch, outputChan, decryptChan, recv, receiving, delivered, outVars, closeVars>>

-----------------------------------------------------------------------------
(* orderedReceiveLoop and deliverInbound                                   *)

ReceiveTake ==
  /\ Running /\ recv = "idle" /\ outputChan # <<>>
  /\ receiving' = Head(outputChan)
  /\ outputChan' = Tail(outputChan)
  /\ recv' = "waiting"
  /\ UNCHANGED <<pkt, arrived, io, batch, decryptChan, decrypting, dworker, delivered, outVars, closeVars>>

\* The call of sendPayload begins.  A call that finds u.closed set returns
\* ErrClosed and changes nothing.
MaySend == sends < MaxSends /\ arrived + sends < MaxEvents
BeginSend(s) ==
  /\ pc' = [pc EXCEPT ![s] = "queue"]
  /\ opkt' = [opkt EXCEPT ![s] = NoOutbound]
  /\ sends' = sends + 1

Deliver ==
  /\ recv = "waiting" /\ pkt[receiving].ready /\ pkt[receiving].ok
  /\ delivered' = Append(delivered, pkt[receiving].seq)
  /\ recv' = "unref"
  /\ \/ UNCHANGED outVars
     \* The mux answers a frame from Input.
     \/ /\ ~closed /\ MaySend
        /\ BeginSend("recv")
        /\ UNCHANGED <<result, queued, sendChan, encryptChan, eworker, sendLoop, written>>
  /\ UNCHANGED <<pkt, arrived, io, batch, outputChan, decryptChan, decrypting, dworker, receiving, closeVars>>

\* Mutant of ReceiveSkip: the wait for a packet does not end with the node.
ReceiveSkipNotClosed ==
  /\ recv = "waiting"
  /\ pkt[receiving].ready /\ ~pkt[receiving].ok
  /\ recv' = "unref"
  /\ UNCHANGED <<pkt, arrived, io, batch, outputChan, decryptChan, decrypting, dworker, receiving, delivered, outVars, closeVars>>

\* pkt.err is set, or closeChan is closed while the packet is not ready.
ReceiveSkip ==
  /\ recv = "waiting"
  /\ closeChan \/ (pkt[receiving].ready /\ ~pkt[receiving].ok)
  /\ recv' = "unref"
  /\ UNCHANGED <<pkt, arrived, io, batch, outputChan, decryptChan, decrypting, dworker, receiving, delivered, outVars, closeVars>>

ReceiveUnref ==
  /\ recv = "unref" /\ pc["recv"] = "idle"
  /\ pkt' = [pkt EXCEPT ![receiving] = unrefPacket(@)]
  /\ receiving' = NoPacket
  /\ recv' = "idle"
  /\ UNCHANGED <<arrived, io, batch, outputChan, decryptChan, decrypting, dworker, delivered, outVars, closeVars>>

-----------------------------------------------------------------------------
(* sendPayload                                                             *)

SendStart(s) ==
  /\ s \in Callers /\ pc[s] = "idle" /\ ~closed /\ MaySend
  /\ BeginSend(s)
  /\ UNCHANGED <<result, queued, sendChan, encryptChan, eworker, sendLoop, written, inVars, closeVars>>

SendQueue(s) ==
  /\ pc[s] = "queue" /\ Len(sendChan) < RawCap /\ closer # "done"
  /\ queued' = queued + 1
  /\ opkt' = [opkt EXCEPT ![s].no = queued + 1]
  /\ sendChan' = Append(sendChan, s)
  /\ pc' = [pc EXCEPT ![s] = "encrypt"]
  /\ UNCHANGED <<result, encryptChan, eworker, sendLoop, written, sends, inVars, closeVars>>

SendEncrypt(s) ==
  /\ pc[s] = "encrypt" /\ Len(encryptChan) < RawCap /\ closer # "done"
  /\ encryptChan' = Append(encryptChan, s)
  /\ pc' = [pc EXCEPT ![s] = "wait"]
  /\ UNCHANGED <<opkt, result, queued, sendChan, eworker, sendLoop, written, sends, inVars, closeVars>>

\* The select takes the case of the closed channel it was to send on.
SendOnClosed(s) ==
  /\ pc[s] \in {"queue", "encrypt"} /\ closer = "done"
  /\ panicked' = TRUE
  /\ UNCHANGED <<inVars, outVars, closing, closed, closeChan, closer>>

Return(s, r) ==
  /\ result' = [result EXCEPT ![s] = r]
  /\ pc' = [pc EXCEPT ![s] = "idle"]

\* The case of closeChan, in each of the three selects.
SendClosed(s) ==
  /\ pc[s] # "idle" /\ closeChan
  /\ Return(s, "closed")
  /\ opkt' = [opkt EXCEPT ![s] = IF pc[s] = "encrypt" THEN [@ EXCEPT !.err = "closed", !.ready = TRUE] ELSE @]
  /\ UNCHANGED <<queued, sendChan, encryptChan, eworker, sendLoop, written, sends, inVars, closeVars>>

SendDone(s) ==
  /\ pc[s] = "wait" /\ opkt[s].done # "none"
  /\ Return(s, opkt[s].done)
  /\ UNCHANGED <<opkt, queued, sendChan, encryptChan, eworker, sendLoop, written, sends, inVars, closeVars>>

-----------------------------------------------------------------------------
(* encryptWorker and orderedSendLoop                                       *)

EncryptTake(w) ==
  /\ Running /\ eworker[w] = NoSender /\ encryptChan # <<>>
  /\ eworker' = [eworker EXCEPT ![w] = Head(encryptChan)]
  /\ encryptChan' = Tail(encryptChan)
  /\ UNCHANGED <<pc, opkt, result, queued, sendChan, sendLoop, written, sends, inVars, closeVars>>

\* encryptOutbound fails when the session has expired.
EncryptDone(w) ==
  /\ eworker[w] # NoSender
  /\ \E err \in {"none", "failed"} :
       opkt' = [opkt EXCEPT ![eworker[w]].err = err, ![eworker[w]].ready = TRUE]
  /\ eworker' = [eworker EXCEPT ![w] = NoSender]
  /\ UNCHANGED <<pc, result, queued, sendChan, encryptChan, sendLoop, written, sends, inVars, closeVars>>

SendLoopTake ==
  /\ Running /\ sendLoop = NoSender /\ sendChan # <<>>
  /\ sendLoop' = Head(sendChan)
  /\ sendChan' = Tail(sendChan)
  /\ UNCHANGED <<pc, opkt, result, queued, encryptChan, eworker, written, sends, inVars, closeVars>>

\* sendOutbound ends: the packet's sender is told how.
SendLoopReport(r) ==
  /\ opkt' = [opkt EXCEPT ![sendLoop].done = r]
  /\ sendLoop' = NoSender
  /\ UNCHANGED <<pc, result, queued, sendChan, encryptChan, eworker, sends, inVars, closeVars>>

Write ==
  /\ sendLoop # NoSender /\ opkt[sendLoop].ready /\ opkt[sendLoop].err = "none" /\ ~closed
  /\ written' = Append(written, opkt[sendLoop].no)
  /\ SendLoopReport("ok")

\* Mutant of WriteFailed: the error of the write is not reported.
WriteFailedAsOk ==
  /\ sendLoop # NoSender
  /\ \/ /\ opkt[sendLoop].ready
        /\ SendLoopReport(IF opkt[sendLoop].err # "none" THEN opkt[sendLoop].err
                          ELSE IF closed THEN "closed" ELSE "ok")
     \/ closeChan /\ SendLoopReport("closed")
  /\ UNCHANGED written

\* Encryption failed, the node is closed, or the write fails.
WriteFailed ==
  /\ sendLoop # NoSender
  /\ \/ /\ opkt[sendLoop].ready
        /\ SendLoopReport(IF opkt[sendLoop].err # "none" THEN opkt[sendLoop].err
                          ELSE IF closed THEN "closed" ELSE "failed")
     \/ closeChan /\ SendLoopReport("closed")
  /\ UNCHANGED written

-----------------------------------------------------------------------------
(* Close                                                                   *)

\* closing.Swap, then the close notice to the peer through the pipeline.
CloseStart ==
  /\ ~closing
  /\ closing' = TRUE
  /\ closer' = "notice"
  /\ BeginSend("close")
  /\ UNCHANGED <<result, queued, sendChan, encryptChan, eworker, sendLoop, written, inVars, closed, closeChan, panicked>>

\* The service muxes are closed, then u.closed is set.
CloseStore ==
  /\ closer = "notice" /\ pc["close"] = "idle"
  /\ closed' = TRUE
  /\ closer' = "store"
  /\ UNCHANGED <<inVars, outVars, closing, closeChan, panicked>>

CloseSignal ==
  /\ closer = "store"
  /\ closeChan' = TRUE
  /\ closer' = "signal"
  /\ UNCHANGED <<inVars, outVars, closing, closed, panicked>>

CloseSocket ==
  /\ closer = "signal"
  /\ closer' = "wait"
  /\ UNCHANGED <<inVars, outVars, closing, closed, closeChan, panicked>>

\* u.wg.Wait returns: every goroutine is between two packets.
GoroutinesExited ==
  /\ io = "read" /\ recv = "idle" /\ sendLoop = NoSender
  /\ \A w \in DecryptWorkers : dworker[w] = "idle"
  /\ \A w \in EncryptWorkers : eworker[w] = NoSender

\* The channels are closed.
CloseChannels ==
  /\ closer = "wait" /\ GoroutinesExited
  /\ closer' = "done"
  /\ UNCHANGED <<inVars, outVars, closing, closed, closeChan, panicked>>

-----------------------------------------------------------------------------
IoStep == DispatchCheck \/ DispatchOutput \/ DispatchOutputFull \/ DispatchOutputClosed
          \/ DispatchDecrypt \/ DispatchDecryptDrop
DecryptStep(w) == DecryptProcess(w) \/ DecryptUnref(w)
ReceiveStep == Deliver \/ ReceiveSkip \/ ReceiveUnref
\* A panic ends the process: no other goroutine is left by then.
SenderStep(s) == ~panicked /\ (SendQueue(s) \/ SendEncrypt(s) \/ SendOnClosed(s) \/ SendClosed(s) \/ SendDone(s))
SendLoopStep == Write \/ WriteFailed
CloseStep == CloseStore \/ CloseSignal \/ CloseSocket \/ CloseChannels

Next ==
  \/ IoRead \/ IoStep
  \/ \E w \in DecryptWorkers : DecryptTake(w) \/ DecryptStep(w)
  \/ ReceiveTake \/ ReceiveStep
  \/ \E s \in Sender : SendStart(s) \/ SenderStep(s)
  \/ \E w \in EncryptWorkers : EncryptTake(w) \/ EncryptDone(w)
  \/ SendLoopTake \/ SendLoopStep
  \/ CloseStart \/ CloseStep

Spec == Init /\ [][Next]_vars

\* The Go scheduler runs every goroutine that can run, up to its return.
\* Nothing makes a datagram arrive, a caller send or the node close.
Fairness ==
  /\ WF_vars(IoStep)
  /\ \A w \in DecryptWorkers : WF_vars(DecryptTake(w) /\ ~closeChan) /\ WF_vars(DecryptStep(w))
  /\ WF_vars(ReceiveTake /\ ~closeChan) /\ WF_vars(ReceiveStep)
  /\ \A s \in Sender : WF_vars(SenderStep(s))
  /\ \A w \in EncryptWorkers : WF_vars(EncryptTake(w) /\ ~closeChan) /\ WF_vars(EncryptDone(w))
  /\ WF_vars(SendLoopTake /\ ~closeChan) /\ WF_vars(SendLoopStep)
  /\ WF_vars(CloseStep)

FairSpec == Spec /\ Fairness

-----------------------------------------------------------------------------
(* Properties                                                              *)

\* Every variable has its type.
TypeOK ==
  /\ pkt \in [Packet -> PacketFields]
  /\ arrived \in 0 .. MaxArrivals
  /\ io \in {"read", "dispatch", "output", "decrypt", "decryptOnly"}
  /\ batch \in Seq(Packet) /\ Len(batch) <= BatchSize
  /\ outputChan \in Seq(Packet) /\ Len(outputChan) <= OutCap
  /\ decryptChan \in Seq(Packet) /\ Len(decryptChan) <= RawCap
  /\ decrypting \in [DecryptWorkers -> Packet \cup {NoPacket}]
  /\ dworker \in [DecryptWorkers -> {"idle", "processing", "unref"}]
  /\ recv \in {"idle", "waiting", "unref"}
  /\ receiving \in Packet \cup {NoPacket}
  /\ delivered \in Seq(1 .. MaxArrivals)
  /\ pc \in [Sender -> {"idle", "queue", "encrypt", "wait"}]
  /\ opkt \in [Sender -> OutboundFields]
  /\ result \in [Sender -> Result]
  /\ queued \in 0 .. (MaxSends + 1)
  /\ sendChan \in Seq(Sender) /\ Len(sendChan) <= RawCap
  /\ encryptChan \in Seq(Sender) /\ Len(encryptChan) <= RawCap
  /\ eworker \in [EncryptWorkers -> Sender \cup {NoSender}]
  /\ sendLoop \in Sender \cup {NoSender}
  /\ written \in Seq(1 .. (MaxSends + 1))
  /\ sends \in 0 .. (MaxSends + 1)
  /\ {closing, closed, closeChan, panicked} \subseteq BOOLEAN
  /\ closer \in {"none", "notice", "store", "signal", "wait", "done"}

\* The references to p on the decrypt path and on the output path.
DecryptOwners(p) ==
  Cardinality({w \in DecryptWorkers : decrypting[w] = p})
  + Cardinality({i \in DOMAIN decryptChan : decryptChan[i] = p})
  + (IF io \in {"output", "decrypt", "decryptOnly"} /\ Head(batch) = p THEN 1 ELSE 0)
OutputOwners(p) ==
  (IF receiving = p THEN 1 ELSE 0)
  + Cardinality({i \in DOMAIN outputChan : outputChan[i] = p})
  + (IF io = "output" /\ Head(batch) = p THEN 1 ELSE 0)

\* A packet's reference count is the number of goroutines and channels that
\* hold it, never two on one path, and a packet that is held or still to be
\* dispatched is not in the pool: its buffer is not filled with another
\* datagram while someone reads it.
RefsExact ==
  \A p \in Packet :
    /\ pkt[p].refs = DecryptOwners(p) + OutputOwners(p)
    /\ DecryptOwners(p) <= 1 /\ OutputOwners(p) <= 1
    /\ pkt[p].refs > 0 \/ p \in Range(batch) => ~pkt[p].released

\* pkt.ready is closed once: a packet that a worker may still process is not
\* ready, so the worker's close does not panic; and a packet that waits for
\* delivery and is not ready has someone who will make it so.
ReadyOnce ==
  /\ \A w \in DecryptWorkers : dworker[w] = "processing" => ~pkt[decrypting[w]].ready
  /\ \A i \in DOMAIN decryptChan : ~pkt[decryptChan[i]].ready
  /\ \A p \in Packet : OutputOwners(p) = 1 /\ ~pkt[p].ready => DecryptOwners(p) = 1

\* An outbound packet is closed or filled in once, and waits in sendChan for
\* someone who will: sendPayload before it is queued for encryption, the
\* queue, or a worker.
OutboundOwned ==
  /\ \A i \in DOMAIN encryptChan : ~opkt[encryptChan[i]].ready
  /\ \A w \in EncryptWorkers : eworker[w] # NoSender => ~opkt[eworker[w]].ready
  /\ \A s \in Range(sendChan) \cup ({sendLoop} \ {NoSender}) :
       opkt[s].ready \/ pc[s] = "encrypt" \/ s \in Range(encryptChan) \/ \E w \in EncryptWorkers : eworker[w] = s

\* No packet is shared, leaked, completed twice or left for nobody to complete,
\* on either path, whatever channel is full and whenever Close comes.  A channel
\* owns what it holds, also once Close has sent its readers away: those packets go
\* with the channel and not back to the pool.
PacketsOwned == RefsExact /\ ReadyOnce /\ OutboundOwned

\* sendPayload returns nil only for a packet that is on the wire.
SentMeansWritten ==
  \A s \in Sender : pc[s] = "idle" /\ result[s] = "ok" => opkt[s].no \in Range(written)

\* No send on a closed channel: "Now safe to close channels (all writers have
\* exited)", says UDP.Close.
NoSendOnClosed == ~panicked

\* Datagrams are delivered to the muxes in the order in which they arrived,
\* whatever the order in which the workers decrypt them.
Inbound == INSTANCE OrderedQueue WITH
  last <- arrived - Len(batch) + (IF io \in {"decrypt", "decryptOnly"} THEN 1 ELSE 0),
  queue <- LET q == (IF recv = "waiting" THEN <<receiving>> ELSE <<>>) \o outputChan
           IN  [i \in DOMAIN q |-> pkt[q[i]].seq],
  out <- delivered

\* Packets reach the wire in the order in which sendPayload queued them.
Outbound == INSTANCE OrderedQueue WITH
  last <- queued,
  queue <- LET q == (IF sendLoop # NoSender THEN <<sendLoop>> ELSE <<>>) \o sendChan
           IN  [i \in DOMAIN q |-> opkt[q[i]].no],
  out <- written

\* Both directions implement the abstract queue: parallel workers and full
\* channels lose packets, but none overtakes another or comes out twice.
InOrder == Inbound!QSpec /\ Outbound!QSpec

\* Once nobody calls any more, every sendPayload has returned and Close, if it
\* was called, too: the receive loop that answers a frame, the workers and the
\* send loop never wait for one another in a circle, and Close releases whoever
\* waits and ends every goroutine.  (After a panic nothing returns.)
Settled == (\A s \in Sender : pc[s] = "idle") /\ (closing => closer = "done")
CallsSettle == <>[](panicked \/ Settled)

=============================================================================
