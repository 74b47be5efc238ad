------------------------ MODULE PacketPipelineProofs ------------------------
(***************************************************************************)
(* Proofs about PacketPipeline, for every number of workers and senders,   *)
(* every capacity of the channels and every batch size.                    *)
(*                                                                         *)
(* Inbound the argument is about ownership: a packet is on the decrypt     *)
(* path at most once and on the output path at most once, and its fields   *)
(* follow from where it is.  Outbound it is about the sender of a packet,  *)
(* which reuses nothing as long as a loop or a worker holds the packet.    *)
(***************************************************************************)
EXTENDS PacketPipeline, FiniteSetTheorems, SequenceTheorems, TLAPS

-----------------------------------------------------------------------------
(* Where the inbound packets are.                                          *)

DecW == {decrypting[w] : w \in DecryptWorkers} \ {NoPacket}
DecC == Range(decryptChan)
DecB == IF io \in {"output", "decrypt", "decryptOnly"} THEN {Head(batch)} ELSE {}
OutR == {receiving} \ {NoPacket}
OutC == Range(outputChan)
OutB == IF io = "output" THEN {Head(batch)} ELSE {}

DecPath == DecW \cup DecC \cup DecB
OutPath == OutR \cup OutC \cup OutB

\* The packets of the batch that no path has got yet.
Undispatched ==
  IF io = "read" THEN {} ELSE IF io = "dispatch" THEN Range(batch) ELSE Range(Tail(batch))

\* Each packet is in one place of a path, and the goroutines' own state says
\* whether they hold one.
Apart ==
  /\ IsInjective(decryptChan) /\ IsInjective(outputChan) /\ IsInjective(batch)
  /\ \A v, w \in DecryptWorkers :
       decrypting[v] = decrypting[w] /\ decrypting[v] # NoPacket => v = w
  /\ DecW \cap DecC = {} /\ DecB \cap (DecW \cup DecC) = {}
  /\ OutR \cap OutC = {} /\ OutB \cap (OutR \cup OutC) = {}
  /\ Undispatched \cap (DecPath \cup OutPath) = {}
  /\ io = "decryptOnly" => Head(batch) \notin OutPath
  /\ io = "read" <=> batch = <<>>
  /\ \A w \in DecryptWorkers : dworker[w] = "idle" <=> decrypting[w] = NoPacket
  /\ recv = "idle" <=> receiving = NoPacket

One(b) == IF b THEN 1 ELSE 0

\* A packet's fields follow from where it is.
Fields ==
  \A p \in Packet :
    /\ pkt[p].refs = One(p \in DecPath) + One(p \in OutPath)
    /\ p \in DecPath \cup OutPath \cup Undispatched => ~pkt[p].released /\ pkt[p].seq \in 1 .. arrived
    /\ p \in DecC \cup DecB \cup Undispatched => ~pkt[p].ready
    /\ p \in OutPath /\ ~pkt[p].ready => p \in DecPath

Processing ==
  \A w \in DecryptWorkers :
    /\ dworker[w] = "processing" => ~pkt[decrypting[w]].ready
    /\ dworker[w] = "unref" => pkt[decrypting[w]].ready

\* The packets of a batch carry the numbers that follow one another.
Numbered ==
  /\ Len(batch) <= arrived
  /\ \A i \in DOMAIN batch : pkt[batch[i]].seq = arrived - Len(batch) + i

InTyped ==
  /\ pkt \in [Packet -> PacketFields]
  /\ arrived \in 0 .. MaxArrivals
  /\ io \in {"read", "dispatch", "output", "decrypt", "decryptOnly"}
  /\ batch \in Seq(Packet) /\ Len(batch) <= BatchSize
  /\ outputChan \in Seq(Packet) /\ Len(outputChan) <= OutCap
  /\ decryptChan \in Seq(Packet) /\ Len(decryptChan) <= RawCap
  /\ decrypting \in [DecryptWorkers -> Packet \cup {NoPacket}]
  /\ dworker \in [DecryptWorkers -> {"idle", "processing", "unref"}]
  /\ recv \in {"idle", "waiting", "unref"}
  /\ receiving \in Packet \cup {NoPacket}
  /\ delivered \in Seq(1 .. MaxArrivals)

InInv == InTyped /\ Apart /\ Fields /\ Processing /\ Numbered

-----------------------------------------------------------------------------
(* Where the outbound packets are: each is known by its sender.            *)

EncW == {eworker[w] : w \in EncryptWorkers} \ {NoSender}
EncC == Range(encryptChan)
SndL == {sendLoop} \ {NoSender}
SndC == Range(sendChan)
EncPath == EncW \cup EncC
SndPath == SndL \cup SndC

Once ==
  /\ IsInjective(encryptChan) /\ IsInjective(sendChan)
  /\ \A v, w \in EncryptWorkers : eworker[v] = eworker[w] /\ eworker[v] # NoSender => v = w
  /\ EncW \cap EncC = {} /\ SndL \cap SndC = {}

\* A sender comes back from sendPayload before its packet has left the paths
\* only once closeChan is closed, and then it never sends again.
SenderInv(s) ==
  /\ s \in EncPath => /\ ~opkt[s].ready /\ pc[s] \in {"wait", "idle"}
                      /\ opkt[s].done = "none" \/ closeChan
                      /\ pc[s] = "idle" => closeChan
  /\ s \in SndPath => /\ pc[s] \in {"encrypt", "wait", "idle"}
                      /\ pc[s] = "idle" => closeChan
                      /\ opkt[s].ready \/ pc[s] = "encrypt" \/ s \in EncPath
                      /\ opkt[s].done = "none" /\ opkt[s].no # 0
  /\ pc[s] = "queue" => ~opkt[s].ready /\ opkt[s].done = "none"
  /\ pc[s] = "encrypt" => ~opkt[s].ready /\ (opkt[s].done = "none" \/ closeChan)
  /\ opkt[s].err # "ok"
  /\ opkt[s].done = "ok" => opkt[s].no \in Range(written)
  /\ pc[s] = "idle" /\ result[s] = "ok" => opkt[s].no \in Range(written)

\* Senders that have not got their number yet.
Queueing == {s \in Sender : pc[s] = "queue"}

Counted ==
  /\ IsFiniteSet(Queueing) /\ queued + Cardinality(Queueing) <= sends
  /\ sends <= MaxSends + One(closing)

Closing ==
  /\ closing <=> closer # "none"
  /\ closed <=> closer \in {"store", "signal", "wait", "done"}
  /\ closeChan <=> closer \in {"signal", "wait", "done"}
  /\ closer # "notice" => pc["close"] = "idle"
  /\ recv # "unref" => pc["recv"] = "idle"

OutTyped ==
  /\ pc \in [Sender -> {"idle", "queue", "encrypt", "wait"}]
  /\ opkt \in [Sender -> OutboundFields]
  /\ result \in [Sender -> Result]
  /\ queued \in 0 .. (MaxSends + 1)
  /\ sendChan \in Seq(Sender) /\ Len(sendChan) <= RawCap
  /\ encryptChan \in Seq(Sender) /\ Len(encryptChan) <= RawCap
  /\ eworker \in [EncryptWorkers -> Sender \cup {NoSender}]
  /\ sendLoop \in Sender \cup {NoSender}
  /\ written \in Seq(1 .. (MaxSends + 1))
  /\ sends \in 0 .. (MaxSends + 1)
  /\ closing \in BOOLEAN /\ closed \in BOOLEAN /\ closeChan \in BOOLEAN /\ panicked \in BOOLEAN
  /\ closer \in {"none", "notice", "store", "signal", "wait", "done"}

OutInv == OutTyped /\ Once /\ (\A s \in Sender : SenderInv(s)) /\ Counted /\ Closing

IInv == InInv /\ OutInv

-----------------------------------------------------------------------------
(* Sequences without repetition, and functions from workers to what they   *)
(* hold.                                                                   *)

LEMMA TailFacts ==
  ASSUME NEW S, NEW s \in Seq(S), s # <<>>, IsInjective(s)
  PROVE  /\ Tail(s) \in Seq(S) /\ Len(Tail(s)) = Len(s) - 1 /\ IsInjective(Tail(s))
         /\ Head(s) \in S /\ Head(s) \in Range(s)
         /\ Range(Tail(s)) = Range(s) \ {Head(s)}
         /\ \A i \in DOMAIN Tail(s) : i + 1 \in DOMAIN s /\ Tail(s)[i] = s[i + 1]
         /\ Len(s) \in Nat /\ Len(s) # 0 /\ 1 \in DOMAIN s /\ s[1] = Head(s)
<1>1. /\ Head(s) \in S /\ Tail(s) \in Seq(S) /\ Len(Tail(s)) = Len(s) - 1
      /\ \A i \in 1 .. Len(Tail(s)) : Tail(s)[i] = s[i + 1]
  BY HeadTailProperties
<1>2. Len(s) \in Nat /\ Len(s) # 0 /\ DOMAIN s = 1 .. Len(s)
  BY EmptySeq, LenProperties
<1>3. DOMAIN Tail(s) = 1 .. Len(s) - 1
  BY <1>1, LenProperties
<1>4. Head(s) = s[1]
  OBVIOUS
<1>5. \A i \in DOMAIN Tail(s) : i + 1 \in DOMAIN s /\ Tail(s)[i] = s[i + 1] /\ i + 1 # 1
  BY <1>1, <1>2, <1>3
<1>6. \A i \in DOMAIN s : i # 1 => i - 1 \in DOMAIN Tail(s) /\ Tail(s)[i - 1] = s[i]
  BY <1>1, <1>2, <1>3
<1>7. IsInjective(Tail(s))
  BY <1>2, <1>3, <1>5 DEF IsInjective
<1>8. 1 \in DOMAIN s
  BY <1>2
<1>9. Range(Tail(s)) = Range(s) \ {Head(s)}
  <2>1. ASSUME NEW x \in Range(Tail(s)) PROVE x \in Range(s) \ {Head(s)}
    BY <1>4, <1>5, <1>8 DEF Range, IsInjective
  <2>2. ASSUME NEW x \in Range(s) \ {Head(s)} PROVE x \in Range(Tail(s))
    <3>1. PICK i \in DOMAIN s : s[i] = x
      BY <2>2 DEF Range
    <3>2. i # 1
      BY <1>4, <2>2, <3>1
    <3>3. QED
      BY <1>6, <3>1, <3>2 DEF Range
  <2>3. QED
    BY <2>1, <2>2
<1>10. QED
  BY <1>1, <1>2, <1>4, <1>5, <1>7, <1>8, <1>9 DEF Range

LEMMA AppendFacts ==
  ASSUME NEW S, NEW s \in Seq(S), NEW e \in S
  PROVE  /\ Append(s, e) \in Seq(S) /\ Len(Append(s, e)) = Len(s) + 1
         /\ Range(Append(s, e)) = Range(s) \cup {e}
         /\ IsInjective(s) /\ e \notin Range(s) => IsInjective(Append(s, e))
<1> DEFINE t == Append(s, e)
<1>1. t \in Seq(S) /\ Len(t) = Len(s) + 1 /\ Len(s) \in Nat
      /\ (\A i \in 1 .. Len(s) : t[i] = s[i]) /\ t[Len(s) + 1] = e
  BY AppendProperties, LenProperties
<1>2. DOMAIN t = 1 .. Len(s) + 1 /\ DOMAIN s = 1 .. Len(s)
  BY <1>1, LenProperties
<1> HIDE DEF t
<1>3. Range(t) = Range(s) \cup {e}
  <2>1. ASSUME NEW x \in Range(t) PROVE x \in Range(s) \cup {e}
    <3>1. PICK i \in DOMAIN t : x = t[i]
      BY <2>1 DEF Range
    <3>2. QED
      BY <1>1, <1>2, <3>1 DEF Range
  <2>2. ASSUME NEW x \in Range(s) PROVE x \in Range(t)
    <3>1. PICK i \in DOMAIN s : x = s[i]
      BY <2>2 DEF Range
    <3>2. i \in DOMAIN t /\ t[i] = x
      BY <1>1, <1>2, <3>1
    <3>3. QED
      BY <3>2 DEF Range
  <2>3. e \in Range(t)
    BY <1>1, <1>2 DEF Range
  <2>4. QED
    BY <2>1, <2>2, <2>3
<1>4. ASSUME IsInjective(s), e \notin Range(s) PROVE IsInjective(t)
  <2>1. ASSUME NEW i \in DOMAIN t, NEW j \in DOMAIN t, t[i] = t[j] PROVE i = j
    <3>1. CASE i \in 1 .. Len(s) /\ j \in 1 .. Len(s)
      BY <1>1, <1>2, <1>4, <2>1, <3>1 DEF IsInjective
    <3>2. CASE i = Len(s) + 1 /\ j \in 1 .. Len(s)
      BY <1>1, <1>2, <1>4, <2>1, <3>2 DEF Range
    <3>3. CASE i \in 1 .. Len(s) /\ j = Len(s) + 1
      BY <1>1, <1>2, <1>4, <2>1, <3>3 DEF Range
    <3>4. QED
      BY <1>1, <1>2, <3>1, <3>2, <3>3
  <2>2. QED
    BY <2>1 DEF IsInjective
<1>5. QED
  BY <1>1, <1>3, <1>4 DEF t

\* Worker w lets go of what it holds and takes x; z stands for nothing.
LEMMA HoldFacts ==
  ASSUME NEW W, NEW S, NEW z, NEW f \in [W -> S], NEW w \in W, NEW x \in S,
         NEW g, g = [f EXCEPT ![w] = x],
         \A u, v \in W : f[u] = f[v] /\ f[u] # z => u = v
  PROVE  /\ g \in [W -> S] /\ g[w] = x /\ \A v \in W \ {w} : g[v] = f[v]
         /\ {g[v] : v \in W} \ {z} = ({f[v] : v \in W} \ {z, f[w]}) \cup ({x} \ {z})
         /\ x \notin {f[v] : v \in W} \ {z} =>
              \A u, v \in W : g[u] = g[v] /\ g[u] # z => u = v
<1>1. g \in [W -> S] /\ g[w] = x /\ \A v \in W \ {w} : g[v] = f[v]
  OBVIOUS
<1>2. {g[v] : v \in W} \ {z} = ({f[v] : v \in W} \ {z, f[w]}) \cup ({x} \ {z})
  <2>1. ASSUME NEW y \in {g[v] : v \in W} \ {z}
        PROVE  y \in ({f[v] : v \in W} \ {z, f[w]}) \cup ({x} \ {z})
    <3>1. PICK v \in W : y = g[v]
      BY <2>1
    <3>2. CASE v = w
      BY <1>1, <2>1, <3>1, <3>2
    <3>3. CASE v # w
      BY <1>1, <2>1, <3>1, <3>3
    <3>4. QED
      BY <3>2, <3>3
  <2>2. ASSUME NEW y \in {f[v] : v \in W} \ {z, f[w]} PROVE y \in {g[v] : v \in W} \ {z}
    <3>1. PICK v \in W : y = f[v]
      BY <2>2
    <3>2. v # w
      BY <2>2, <3>1
    <3>3. QED
      BY <1>1, <2>2, <3>1, <3>2
  <2>3. ASSUME x # z PROVE x \in {g[v] : v \in W} \ {z}
    BY <1>1, <2>3
  <2>4. QED
    BY <2>1, <2>2, <2>3
<1>3. ASSUME x \notin {f[v] : v \in W} \ {z}, NEW u \in W, NEW v \in W, g[u] = g[v], g[u] # z
      PROVE  u = v
  BY <1>1, <1>3
<1>4. QED
  BY <1>1, <1>2, <1>3

-----------------------------------------------------------------------------
(* The inbound path.                                                       *)

LEMMA UnrefFacts ==
  ASSUME NEW f \in PacketFields, f.refs \in {1, 2}
  PROVE  /\ unrefPacket(f) \in PacketFields
         /\ unrefPacket(f).refs = f.refs - 1
         /\ f.refs = 2 => /\ unrefPacket(f).seq = f.seq /\ unrefPacket(f).released = f.released
                          /\ unrefPacket(f).ready = f.ready /\ unrefPacket(f).ok = f.ok
<1>1. CASE f.refs = 1
  <2>1. Pooled \in PacketFields /\ Pooled.refs = 0
    BY PipelineAssumption DEF Pooled, PacketFields
  <2>2. QED
    BY <1>1, <2>1 DEF unrefPacket, releasePacket
<1>2. CASE f.refs = 2
  <2>1. [f EXCEPT !.refs = f.refs - 1] \in PacketFields
    BY <1>2 DEF PacketFields
  <2>2. QED
    BY <1>2, <2>1 DEF unrefPacket, PacketFields
<1>3. QED
  BY <1>1, <1>2

\* Where packets may be.
LEMMA Places ==
  ASSUME InInv
  PROVE  /\ DecW \subseteq Packet /\ DecC \subseteq Packet /\ OutR \subseteq Packet
         /\ OutC \subseteq Packet /\ 0 \notin Packet /\ arrived \in Nat
         /\ io # "read" => /\ batch # <<>> /\ Head(batch) \in Packet
                           /\ Head(batch) \in Range(batch) /\ Tail(batch) \in Seq(Packet)
                           /\ Range(Tail(batch)) = Range(batch) \ {Head(batch)}
                           /\ Len(batch) \in Nat \ {0}
         /\ Range(batch) \subseteq Packet
         /\ \A p \in Packet : pkt[p] \in PacketFields
<1>1. 0 \notin Packet /\ arrived \in Nat
  BY PipelineAssumption DEF Packet, InInv, InTyped
<1>2. DecW \subseteq Packet /\ OutR \subseteq Packet /\ \A p \in Packet : pkt[p] \in PacketFields
  BY DEF InInv, InTyped, DecW, OutR
<1>3. \A s \in Seq(Packet) : Range(s) \subseteq Packet
  <2>1. ASSUME NEW s \in Seq(Packet), NEW i \in DOMAIN s PROVE s[i] \in Packet
    BY <2>1, ElementOfSeq, LenProperties
  <2>2. QED
    BY <2>1 DEF Range
<1>4. DecC \subseteq Packet /\ OutC \subseteq Packet /\ Range(batch) \subseteq Packet
  BY <1>3 DEF InInv, InTyped, DecC, OutC
<1>5. ASSUME io # "read"
      PROVE  /\ batch # <<>> /\ Head(batch) \in Packet
             /\ Head(batch) \in Range(batch) /\ Tail(batch) \in Seq(Packet)
             /\ Range(Tail(batch)) = Range(batch) \ {Head(batch)}
             /\ Len(batch) \in Nat \ {0}
  <2>1. batch # <<>> /\ batch \in Seq(Packet) /\ IsInjective(batch)
    BY <1>5 DEF InInv, InTyped, Apart
  <2>2. QED
    BY <2>1, TailFacts
<1>6. QED
  BY <1>1, <1>2, <1>4, <1>5

FieldsOf(p) ==
  /\ pkt[p].refs = One(p \in DecPath) + One(p \in OutPath)
  /\ p \in DecPath \cup OutPath \cup Undispatched => ~pkt[p].released /\ pkt[p].seq \in 1 .. arrived
  /\ p \in DecC \cup DecB \cup Undispatched => ~pkt[p].ready
  /\ p \in OutPath /\ ~pkt[p].ready => p \in DecPath

LEMMA FieldsSplit == Fields <=> \A p \in Packet : FieldsOf(p)
BY DEF Fields, FieldsOf

\* A packet that stays where it is and as it is.
LEMMA FieldsKept ==
  ASSUME NEW p \in Packet, FieldsOf(p), pkt'[p] = pkt[p], arrived' = arrived,
         p \in DecPath' <=> p \in DecPath, p \in OutPath' <=> p \in OutPath,
         p \in Undispatched' => p \in Undispatched,
         p \in (DecC \cup DecB)' => p \in DecC \cup DecB
  PROVE  FieldsOf(p)'
BY DEF FieldsOf

LEMMA DecryptTakeInv ==
  ASSUME InInv, NEW w \in DecryptWorkers, DecryptTake(w)
  PROVE  InInv'
<1>0. /\ InTyped /\ Apart /\ Processing /\ Numbered
      /\ decryptChan \in Seq(Packet) /\ decryptChan # <<>> /\ IsInjective(decryptChan)
      /\ UNCHANGED <<pkt, arrived, io, batch, outputChan, recv, receiving, delivered>>
  BY DEF InInv, InTyped, Apart, DecryptTake
<1>1. PICK x \in Packet : x = Head(decryptChan) /\ x \in DecC
  BY <1>0, TailFacts DEF DecC
<1>2. /\ decryptChan' \in Seq(Packet) /\ Len(decryptChan') <= RawCap
      /\ IsInjective(decryptChan') /\ DecC' = DecC \ {x}
  <2>1. decryptChan' = Tail(decryptChan) /\ Len(decryptChan) <= RawCap /\ RawCap \in Nat
    BY PipelineAssumption DEF InInv, InTyped, DecryptTake
  <2>2. QED
    BY <1>0, <1>1, <2>1, TailFacts DEF DecC
<1>3. x # 0 /\ decrypting[w] = 0 /\ x \notin DecW
  BY <1>0, <1>1, Places DEF Apart, DecryptTake, NoPacket
<1>4. /\ decrypting' \in [DecryptWorkers -> Packet \cup {NoPacket}] /\ decrypting'[w] = x
      /\ \A v \in DecryptWorkers \ {w} : decrypting'[v] = decrypting[v]
      /\ DecW' = DecW \cup {x}
      /\ \A u, v \in DecryptWorkers : decrypting'[u] = decrypting'[v] /\ decrypting'[u] # NoPacket => u = v
  <2>1. decrypting' = [decrypting EXCEPT ![w] = x]
    BY <1>1 DEF DecryptTake
  <2>2. /\ decrypting \in [DecryptWorkers -> Packet \cup {NoPacket}]
        /\ \A u, v \in DecryptWorkers : decrypting[u] = decrypting[v] /\ decrypting[u] # NoPacket => u = v
    BY <1>0 DEF InTyped, Apart
  <2>3. /\ decrypting' \in [DecryptWorkers -> Packet \cup {NoPacket}] /\ decrypting'[w] = x
        /\ \A v \in DecryptWorkers \ {w} : decrypting'[v] = decrypting[v]
        /\ DecW' = ({decrypting[v] : v \in DecryptWorkers} \ {NoPacket, decrypting[w]}) \cup ({x} \ {NoPacket})
        /\ \A u, v \in DecryptWorkers : decrypting'[u] = decrypting'[v] /\ decrypting'[u] # NoPacket => u = v
    BY <1>3, <2>1, <2>2, HoldFacts DEF DecW
  <2>4. QED
    BY <1>3, <2>3 DEF DecW, NoPacket
<1>5. /\ DecB' = DecB /\ OutPath' = OutPath /\ Undispatched' = Undispatched
      /\ OutR' = OutR /\ OutC' = OutC /\ OutB' = OutB
      /\ DecPath' = DecPath
  BY <1>0, <1>1, <1>2, <1>4 DEF DecB, OutPath, OutR, OutC, OutB, Undispatched, DecPath
<1>6. dworker' = [dworker EXCEPT ![w] = "processing"]
  BY DEF DecryptTake
<1>7. InTyped'
  BY <1>0, <1>2, <1>4, <1>6 DEF InTyped
<1>8. Apart'
  BY <1>0, <1>1, <1>2, <1>3, <1>4, <1>5, <1>6 DEF Apart, InTyped, NoPacket
<1>9. Fields'
  <2>1. ASSUME NEW p \in Packet PROVE FieldsOf(p)'
    BY <1>0, <1>2, <1>5, FieldsSplit, FieldsKept DEF InInv
  <2>2. QED
    BY <2>1 DEF Fields, FieldsOf
<1>10. Processing'
  <2>1. ~pkt[x].ready
    BY <1>1 DEF InInv, Fields
  <2>2. QED
    BY <1>0, <1>4, <1>6, <2>1 DEF Processing, InTyped
<1>11. Numbered'
  BY <1>0 DEF Numbered
<1>12. QED
  BY <1>7, <1>8, <1>9, <1>10, <1>11 DEF InInv

LEMMA DecryptProcessInv ==
  ASSUME InInv, NEW w \in DecryptWorkers, DecryptProcess(w)
  PROVE  InInv'
<1>0. /\ InTyped /\ Apart /\ Processing /\ Numbered /\ dworker[w] = "processing"
      /\ UNCHANGED <<arrived, io, batch, outputChan, decryptChan, decrypting, recv, receiving, delivered>>
      /\ dworker' = [dworker EXCEPT ![w] = "unref"]
  BY DEF InInv, DecryptProcess
<1>1. PICK x \in Packet : x = decrypting[w] /\ x \in DecW
  BY <1>0 DEF InTyped, Apart, DecW
<1>2. PICK f : /\ pkt' = [pkt EXCEPT ![x] = f] /\ f \in PacketFields
               /\ f.refs = pkt[x].refs /\ f.seq = pkt[x].seq
               /\ f.released = pkt[x].released /\ f.ready = TRUE
  <2>1. PICK ok \in BOOLEAN :
          pkt' = [pkt EXCEPT ![x].ok = ok, ![x].ready = TRUE]
    BY <1>1 DEF DecryptProcess
  <2>2. PICK f : f = [pkt[x] EXCEPT !.ok = ok, !.ready = TRUE]
    OBVIOUS
  <2>3. pkt' = [pkt EXCEPT ![x] = f]
    BY <1>0, <2>1, <2>2 DEF InTyped
  <2>4. /\ f \in PacketFields /\ f.refs = pkt[x].refs /\ f.seq = pkt[x].seq
        /\ f.released = pkt[x].released /\ f.ready = TRUE
    BY <2>2, Places DEF PacketFields
  <2>5. QED
    BY <2>3, <2>4
<1>3. pkt' \in [Packet -> PacketFields] /\ pkt'[x] = f /\ \A p \in Packet \ {x} : pkt'[p] = pkt[p]
  BY <1>0, <1>2 DEF InTyped
<1>4. /\ DecW' = DecW /\ DecC' = DecC /\ DecB' = DecB /\ OutPath' = OutPath
      /\ Undispatched' = Undispatched /\ DecPath' = DecPath
  BY <1>0 DEF DecW, DecC, DecB, OutPath, OutR, OutC, OutB, Undispatched, DecPath
<1>5. InTyped'
  BY <1>0, <1>3 DEF InTyped
<1>6. Apart'
  BY <1>0, <1>4 DEF Apart, InTyped, OutR, OutC, OutB
<1>7. Fields'
  <2>1. ASSUME NEW p \in Packet, p # x PROVE FieldsOf(p)'
    BY <1>0, <1>3, <1>4, <2>1, FieldsSplit, FieldsKept DEF InInv
  <2>2. FieldsOf(x)'
    <3>1. FieldsOf(x) /\ x \in DecPath /\ x \notin DecC \cup DecB \cup Undispatched
      BY <1>0, <1>1, FieldsSplit DEF InInv, Apart, DecPath
    <3>2. QED
      BY <1>0, <1>2, <1>3, <1>4, <3>1 DEF FieldsOf
  <2>3. QED
    BY <2>1, <2>2 DEF Fields, FieldsOf
<1>8. Processing'
  <2>1. ASSUME NEW v \in DecryptWorkers
        PROVE  /\ dworker'[v] = "processing" => ~pkt'[decrypting[v]].ready
               /\ dworker'[v] = "unref" => pkt'[decrypting[v]].ready
    <3>1. CASE v = w
      BY <1>0, <1>1, <1>2, <1>3, <3>1 DEF InTyped
    <3>2. CASE v # w
      <4>1. dworker'[v] = dworker[v]
        BY <1>0, <3>2 DEF InTyped
      <4>2. dworker[v] # "idle" => decrypting[v] \in Packet \ {x}
        BY <1>0, <1>1, <3>2 DEF Apart, InTyped
      <4>3. QED
        BY <1>0, <1>3, <4>1, <4>2 DEF Processing
    <3>3. QED
      BY <3>1, <3>2
  <2>2. QED
    BY <1>0, <2>1 DEF Processing
<1>9. Numbered'
  <2>1. \A i \in DOMAIN batch : batch[i] \in Packet /\ pkt'[batch[i]].seq = pkt[batch[i]].seq
    BY <1>2, <1>3, Places DEF Range
  <2>2. QED
    BY <1>0, <2>1 DEF Numbered
<1>10. QED
  BY <1>5, <1>6, <1>7, <1>8, <1>9 DEF InInv

\* The batch is as it was, and so are the numbers of its packets.
LEMMA NumberedKept ==
  ASSUME InInv, UNCHANGED <<arrived, batch>>,
         \A p \in Range(batch) : pkt'[p].seq = pkt[p].seq
  PROVE  Numbered'
BY DEF InInv, Numbered, Range

\* How often a packet on some path is referenced.
LEMMA RefsFacts ==
  ASSUME InInv, NEW x \in Packet, x \in DecPath \cup OutPath
  PROVE  /\ pkt[x].refs \in {1, 2} /\ pkt[x] \in PacketFields
         /\ pkt[x].refs = 2 <=> x \in DecPath /\ x \in OutPath
         /\ unrefPacket(pkt[x]) \in PacketFields
         /\ unrefPacket(pkt[x]).refs = pkt[x].refs - 1
         /\ pkt[x].refs = 2 => /\ unrefPacket(pkt[x]).seq = pkt[x].seq
                               /\ unrefPacket(pkt[x]).released = pkt[x].released
                               /\ unrefPacket(pkt[x]).ready = pkt[x].ready
<1>1. pkt[x].refs = One(x \in DecPath) + One(x \in OutPath)
  BY DEF InInv, Fields
<1>2. pkt[x].refs \in {1, 2} /\ (pkt[x].refs = 2 <=> x \in DecPath /\ x \in OutPath)
  BY <1>1 DEF One
<1>3. pkt[x] \in PacketFields
  BY Places
<1>4. QED
  BY <1>2, <1>3, UnrefFacts

\* A packet of the batch waits for its turn or is being dispatched.
LEMMA BatchPlaces ==
  ASSUME InInv
  PROVE  Range(batch) \subseteq DecB \cup Undispatched
<1>1. CASE io = "read"
  <2>1. batch = <<>>
    BY <1>1 DEF InInv, Apart
  <2>2. QED
    BY <2>1 DEF Range
<1>2. CASE io = "dispatch"
  BY <1>2 DEF Undispatched
<1>3. CASE io \in {"output", "decrypt", "decryptOnly"}
  <2>1. DecB = {Head(batch)} /\ Undispatched = Range(Tail(batch))
    BY <1>3 DEF DecB, Undispatched
  <2>2. Range(Tail(batch)) = Range(batch) \ {Head(batch)}
    BY <1>3, Places
  <2>3. QED
    BY <2>1, <2>2
<1>4. QED
  BY <1>1, <1>2, <1>3 DEF InInv, InTyped

LEMMA DecryptUnrefInv ==
  ASSUME InInv, NEW w \in DecryptWorkers, DecryptUnref(w)
  PROVE  InInv'
<1>0. /\ InTyped /\ Apart /\ Processing /\ Numbered /\ dworker[w] = "unref"
      /\ UNCHANGED <<arrived, io, batch, outputChan, decryptChan, recv, receiving, delivered>>
      /\ dworker' = [dworker EXCEPT ![w] = "idle"]
  BY DEF InInv, DecryptUnref
<1>1. PICK x \in Packet : x = decrypting[w] /\ x \in DecW /\ x # 0
  BY <1>0, Places DEF InTyped, Apart, DecW
<1>2. /\ x \notin DecC \cup DecB \cup Undispatched /\ x \in DecPath /\ pkt[x].ready
  BY <1>0, <1>1 DEF Apart, DecPath, Processing
<1>3. PICK f : f = unrefPacket(pkt[x])
  OBVIOUS
<1>4. /\ f \in PacketFields /\ f.refs = One(x \in OutPath)
      /\ x \in OutPath => f.seq = pkt[x].seq /\ f.released = pkt[x].released /\ f.ready
  BY <1>2, <1>3, RefsFacts DEF One
<1>5. /\ pkt' \in [Packet -> PacketFields] /\ pkt'[x] = f /\ \A p \in Packet \ {x} : pkt'[p] = pkt[p]
  <2>1. pkt' = [pkt EXCEPT ![x] = f]
    BY <1>0, <1>1, <1>3 DEF DecryptUnref, InTyped
  <2>2. QED
    BY <1>0, <1>4, <2>1 DEF InTyped
<1>6. /\ decrypting' \in [DecryptWorkers -> Packet \cup {NoPacket}] /\ decrypting'[w] = NoPacket
      /\ \A v \in DecryptWorkers \ {w} : decrypting'[v] = decrypting[v]
      /\ DecW' = DecW \ {x}
      /\ \A u, v \in DecryptWorkers : decrypting'[u] = decrypting'[v] /\ decrypting'[u] # NoPacket => u = v
  <2>1. decrypting' = [decrypting EXCEPT ![w] = NoPacket]
    BY DEF DecryptUnref
  <2>2. /\ decrypting \in [DecryptWorkers -> Packet \cup {NoPacket}]
        /\ \A u, v \in DecryptWorkers : decrypting[u] = decrypting[v] /\ decrypting[u] # NoPacket => u = v
    BY <1>0 DEF InTyped, Apart
  <2>3. /\ decrypting' \in [DecryptWorkers -> Packet \cup {NoPacket}] /\ decrypting'[w] = NoPacket
        /\ \A v \in DecryptWorkers \ {w} : decrypting'[v] = decrypting[v]
        /\ DecW' = ({decrypting[v] : v \in DecryptWorkers} \ {NoPacket, decrypting[w]}) \cup ({NoPacket} \ {NoPacket})
        /\ \A u, v \in DecryptWorkers : decrypting'[u] = decrypting'[v] /\ decrypting'[u] # NoPacket => u = v
    BY <2>1, <2>2, HoldFacts DEF DecW
  <2>4. QED
    BY <1>1, <2>3 DEF DecW
<1>7. /\ DecC' = DecC /\ DecB' = DecB /\ OutPath' = OutPath /\ Undispatched' = Undispatched
      /\ OutR' = OutR /\ OutC' = OutC /\ OutB' = OutB /\ DecPath' = DecPath \ {x}
  BY <1>0, <1>2, <1>6 DEF DecC, DecB, OutPath, OutR, OutC, OutB, Undispatched, DecPath
<1>8. InTyped'
  BY <1>0, <1>5, <1>6 DEF InTyped
<1>9. Apart'
  BY <1>0, <1>6, <1>7 DEF Apart, InTyped
<1>10. Fields'
  <2>1. ASSUME NEW p \in Packet, p # x PROVE FieldsOf(p)'
    BY <1>0, <1>5, <1>7, <2>1, FieldsSplit, FieldsKept DEF InInv
  <2>2. FieldsOf(x)'
    <3>1. FieldsOf(x)
      BY FieldsSplit DEF InInv
    <3>2. QED
      BY <1>0, <1>2, <1>4, <1>5, <1>7, <3>1 DEF FieldsOf, One
  <2>3. QED
    BY <2>1, <2>2 DEF Fields, FieldsOf
<1>11. Processing'
  <2>1. ASSUME NEW v \in DecryptWorkers, dworker'[v] # "idle"
        PROVE  dworker'[v] = dworker[v] /\ decrypting'[v] = decrypting[v]
               /\ pkt'[decrypting[v]] = pkt[decrypting[v]]
    <3>1. v # w /\ dworker'[v] = dworker[v]
      BY <1>0, <2>1 DEF InTyped
    <3>2. decrypting[v] \in Packet \ {x}
      BY <1>0, <1>1, <2>1, <3>1 DEF Apart, InTyped
    <3>3. QED
      BY <1>5, <1>6, <3>1, <3>2
  <2>2. QED
    BY <1>0, <2>1 DEF Processing
<1>12. Numbered'
  <2>1. x \notin Range(batch)
    BY <1>2, BatchPlaces
  <2>2. QED
    BY <1>0, <1>5, <2>1, NumberedKept, Places
<1>13. QED
  BY <1>8, <1>9, <1>10, <1>11, <1>12 DEF InInv

LEMMA ReceiveTakeInv ==
  ASSUME InInv, ReceiveTake
  PROVE  InInv'
<1>0. /\ InTyped /\ Apart /\ Processing /\ Numbered
      /\ outputChan \in Seq(Packet) /\ outputChan # <<>> /\ IsInjective(outputChan)
      /\ UNCHANGED <<pkt, arrived, io, batch, decryptChan, decrypting, dworker, delivered>>
      /\ recv' = "waiting" /\ receiving' = Head(outputChan) /\ receiving = NoPacket
  BY DEF InInv, InTyped, Apart, ReceiveTake
<1>1. /\ outputChan' \in Seq(Packet) /\ Len(outputChan') <= OutCap
      /\ IsInjective(outputChan') /\ OutC' = OutC \ {receiving'}
      /\ receiving' \in Packet /\ receiving' \in OutC
  <2>1. outputChan' = Tail(outputChan) /\ Len(outputChan) <= OutCap /\ OutCap \in Nat
    BY PipelineAssumption DEF InInv, InTyped, ReceiveTake
  <2>2. QED
    BY <1>0, <2>1, TailFacts DEF OutC
<1>2. receiving' # NoPacket /\ OutR = {} /\ OutR' = {receiving'}
  BY <1>0, <1>1, Places DEF OutR, NoPacket
<1>3. /\ DecW' = DecW /\ DecC' = DecC /\ DecB' = DecB /\ OutB' = OutB
      /\ Undispatched' = Undispatched /\ DecPath' = DecPath /\ OutPath' = OutPath
  BY <1>0, <1>1, <1>2 DEF DecW, DecC, DecB, OutB, Undispatched, DecPath, OutPath
<1>4. InTyped'
  BY <1>0, <1>1 DEF InTyped
<1>5. Apart'
  BY <1>0, <1>1, <1>2, <1>3 DEF Apart, OutB
<1>6. Fields'
  <2>1. ASSUME NEW p \in Packet PROVE FieldsOf(p)'
    BY <1>0, <1>3, FieldsSplit, FieldsKept DEF InInv
  <2>2. QED
    BY <2>1 DEF Fields, FieldsOf
<1>7. Processing' /\ Numbered'
  BY <1>0 DEF Processing, Numbered
<1>8. QED
  BY <1>4, <1>5, <1>6, <1>7 DEF InInv

\* Deliver and ReceiveSkip: what the loop holds is not delivered yet, or is.
LEMMA ReceivedInv ==
  ASSUME InInv, recv = "waiting", recv' = "unref",
         UNCHANGED <<pkt, arrived, io, batch, outputChan, decryptChan, decrypting, dworker, receiving>>,
         delivered' \in Seq(1 .. MaxArrivals)
  PROVE  InInv'
<1>1. /\ DecW' = DecW /\ DecC' = DecC /\ DecB' = DecB /\ OutB' = OutB /\ OutR' = OutR /\ OutC' = OutC
      /\ Undispatched' = Undispatched /\ DecPath' = DecPath /\ OutPath' = OutPath
  BY DEF DecW, DecC, DecB, OutB, OutR, OutC, Undispatched, DecPath, OutPath
<1>2. InTyped'
  BY DEF InInv, InTyped
<1>3. Apart'
  BY <1>1 DEF InInv, Apart
<1>4. Fields'
  <2>1. ASSUME NEW p \in Packet PROVE FieldsOf(p)'
    BY <1>1, FieldsSplit, FieldsKept DEF InInv
  <2>2. QED
    BY <2>1 DEF Fields, FieldsOf
<1>5. Processing' /\ Numbered'
  BY DEF InInv, Processing, Numbered
<1>6. QED
  BY <1>2, <1>3, <1>4, <1>5 DEF InInv

\* What the receive loop holds.
LEMMA ReceivingFacts ==
  ASSUME InInv, recv # "idle"
  PROVE  /\ receiving \in Packet /\ receiving \in OutR /\ receiving \in OutPath
         /\ receiving \notin OutC \cup OutB \cup Undispatched
         /\ pkt[receiving].seq \in 1 .. arrived /\ pkt[receiving].seq \in 1 .. MaxArrivals
<1>1. receiving \in Packet /\ receiving \in OutR /\ receiving \in OutPath
  BY DEF InInv, InTyped, Apart, OutR, OutPath
<1>2. receiving \notin OutC \cup OutB \cup Undispatched
  BY <1>1 DEF InInv, Apart
<1>3. pkt[receiving].seq \in 1 .. arrived
  BY <1>1 DEF InInv, Fields
<1>4. arrived \in 0 .. MaxArrivals /\ MaxArrivals \in Nat
  BY PipelineAssumption DEF InInv, InTyped
<1>5. QED
  BY <1>1, <1>2, <1>3, <1>4

LEMMA DeliverInv ==
  ASSUME InInv, Deliver
  PROVE  InInv'
<1>1. delivered' \in Seq(1 .. MaxArrivals)
  BY ReceivingFacts, AppendFacts DEF Deliver, InInv, InTyped
<1>2. QED
  BY <1>1, ReceivedInv DEF Deliver

LEMMA ReceiveSkipInv ==
  ASSUME InInv, ReceiveSkip
  PROVE  InInv'
BY ReceivedInv DEF ReceiveSkip, InInv, InTyped

LEMMA ReceiveUnrefInv ==
  ASSUME InInv, ReceiveUnref
  PROVE  InInv'
<1>0. /\ InTyped /\ Apart /\ Processing /\ Numbered
      /\ UNCHANGED <<arrived, io, batch, outputChan, decryptChan, decrypting, dworker, delivered>>
      /\ recv' = "idle" /\ receiving' = NoPacket
  BY DEF InInv, ReceiveUnref
<1>1. PICK x \in Packet : x = receiving /\ x \in OutR /\ x \in OutPath
                          /\ x \notin OutC \cup OutB \cup Undispatched
  BY ReceivingFacts DEF ReceiveUnref
<1>2. PICK f : f = unrefPacket(pkt[x])
  OBVIOUS
<1>3. /\ f \in PacketFields /\ f.refs = One(x \in DecPath)
      /\ x \in DecPath => f.seq = pkt[x].seq /\ f.released = pkt[x].released /\ f.ready = pkt[x].ready
  BY <1>1, <1>2, RefsFacts DEF One
<1>4. /\ pkt' \in [Packet -> PacketFields] /\ pkt'[x] = f /\ \A p \in Packet \ {x} : pkt'[p] = pkt[p]
  <2>1. pkt' = [pkt EXCEPT ![x] = f]
    BY <1>0, <1>1, <1>2 DEF ReceiveUnref, InTyped
  <2>2. QED
    BY <1>0, <1>3, <2>1 DEF InTyped
<1>5. /\ DecW' = DecW /\ DecC' = DecC /\ DecB' = DecB /\ OutB' = OutB /\ OutR' = {} /\ OutC' = OutC
      /\ Undispatched' = Undispatched /\ DecPath' = DecPath /\ OutPath' = OutPath \ {x}
  BY <1>0, <1>1 DEF DecW, DecC, DecB, OutB, OutR, OutC, Undispatched, DecPath, OutPath
<1>6. InTyped'
  BY <1>0, <1>4 DEF InTyped
<1>7. Apart'
  BY <1>0, <1>5 DEF Apart
<1>8. Fields'
  <2>1. ASSUME NEW p \in Packet, p # x PROVE FieldsOf(p)'
    BY <1>0, <1>4, <1>5, <2>1, FieldsSplit, FieldsKept DEF InInv
  <2>2. FieldsOf(x)'
    <3>1. FieldsOf(x)
      BY FieldsSplit DEF InInv
    <3>2. x \in DecC \cup DecB => x \in DecPath
      BY DEF DecPath
    <3>3. QED
      BY <1>0, <1>1, <1>3, <1>4, <1>5, <3>1, <3>2 DEF FieldsOf, One
  <2>3. QED
    BY <2>1, <2>2 DEF Fields, FieldsOf
<1>9. Processing'
  <2>1. ASSUME NEW v \in DecryptWorkers, dworker[v] # "idle"
        PROVE  pkt'[decrypting[v]].ready = pkt[decrypting[v]].ready
    <3>1. decrypting[v] \in Packet /\ decrypting[v] \in DecPath
      BY <1>0, <2>1 DEF Apart, InTyped, DecPath, DecW
    <3>2. QED
      BY <1>3, <1>4, <3>1
  <2>2. QED
    BY <1>0, <2>1 DEF Processing
<1>10. Numbered'
  <2>1. ASSUME NEW p \in Range(batch) PROVE pkt'[p].seq = pkt[p].seq
    <3>1. CASE p # x
      BY <1>4, <3>1, Places
    <3>2. CASE p = x
      <4>1. x \in DecB
        BY <1>1, <2>1, <3>2, BatchPlaces
      <4>2. QED
        BY <1>3, <1>4, <3>2, <4>1 DEF DecPath
    <3>3. QED
      BY <3>1, <3>2
  <2>2. QED
    BY <1>0, <2>1, NumberedKept
<1>11. QED
  BY <1>6, <1>7, <1>8, <1>9, <1>10 DEF InInv

-----------------------------------------------------------------------------
(* The read loop.                                                          *)

\* Steps of the read loop leave what the workers and the receive loop hold alone;
\* the packets whose record changes are not theirs, or lose but a reference.
LEMMA ProcessingKept ==
  ASSUME InInv, UNCHANGED <<decrypting, dworker>>,
         \A p \in DecW : pkt'[p].ready = pkt[p].ready
  PROVE  Processing'
<1>1. \A w \in DecryptWorkers : dworker[w] # "idle" => decrypting[w] \in DecW
  BY DEF InInv, Apart, DecW
<1>2. QED
  BY <1>1 DEF InInv, InTyped, Processing

LEMMA IoReadInv ==
  ASSUME InInv, IoRead
  PROVE  InInv'
<1>1. PICK n \in 1 .. BatchSize :
        \E s \in FirstFree(n) :
          /\ arrived + n <= MaxArrivals /\ batch' = s /\ arrived' = arrived + n
          /\ pkt' = [p \in Packet |->
               IF \E i \in 1 .. n : s[i] = p
               THEN acquirePacket(arrived + (CHOOSE i \in 1 .. n : s[i] = p)) ELSE pkt[p]]
  BY DEF IoRead
<1>2. PICK s \in FirstFree(n) :
        /\ arrived + n <= MaxArrivals /\ batch' = s /\ arrived' = arrived + n
        /\ pkt' = [p \in Packet |->
             IF \E i \in 1 .. n : s[i] = p
             THEN acquirePacket(arrived + (CHOOSE i \in 1 .. n : s[i] = p)) ELSE pkt[p]]
  BY <1>1
<1>3. /\ InTyped /\ Apart /\ Processing /\ io = "read" /\ io' = "dispatch"
      /\ UNCHANGED <<outputChan, decryptChan, decrypting, dworker, recv, receiving, delivered>>
      /\ BatchSize \in Nat /\ MaxArrivals \in Nat /\ n \in Nat /\ n >= 1 /\ arrived \in Nat
  BY SMTT(30), <1>1, <1>2, PipelineAssumption DEF InInv, IoRead, InTyped
<1>4. /\ s \in [1 .. n -> Packet] /\ \A i, j \in 1 .. n : s[i] = s[j] => i = j
      /\ \A i \in 1 .. n : pkt[s[i]].released
  <2>1. /\ s \in [1 .. n -> Free] /\ \A i, j \in 1 .. n : i < j => s[i] < s[j]
    BY DEF FirstFree
  <2>2. Free \subseteq Nat /\ Free \subseteq Packet
    BY PipelineAssumption DEF Free, Packet
  <2>3. ASSUME NEW i \in 1 .. n, NEW j \in 1 .. n, s[i] = s[j] PROVE i = j
    <3>1. s[i] \in Nat
      BY <2>1, <2>2
    <3>2. ~(s[i] < s[j]) /\ ~(s[j] < s[i])
      <4>1. PICK k \in Nat : k = s[i] /\ k = s[j]
        BY <2>3, <3>1
      <4>2. ~(k < k)
        OBVIOUS
      <4>3. QED
        BY <4>1, <4>2
    <3>3. ~(i < j) /\ ~(j < i)
      BY <2>1, <3>2
    <3>4. QED
      BY <1>3, <3>3
  <2>4. QED
    BY <2>1, <2>2, <2>3 DEF Free
<1>5. /\ batch' \in Seq(Packet) /\ Len(batch') = n /\ DOMAIN batch' = 1 .. n
      /\ IsInjective(batch') /\ batch' # <<>> /\ Range(batch') \subseteq Packet
  BY <1>3, <1>2, <1>4 DEF IsInjective, Range
<1>6. \A p \in Range(batch') : pkt[p].released /\ \E i \in 1 .. n : batch'[i] = p
  BY <1>2, <1>4, <1>5 DEF Range
<1>7. \A p \in Packet \ Range(batch') : pkt'[p] = pkt[p]
  BY <1>2, <1>5 DEF Range
<1>8. ASSUME NEW i \in 1 .. n PROVE pkt'[batch'[i]] = acquirePacket(arrived + i)
  <2>1. \A j \in 1 .. n : s[j] = s[i] => j = i
    BY <1>4
  <2>2. (CHOOSE j \in 1 .. n : s[j] = s[i]) = i
    BY <2>1
  <2>3. pkt'[s[i]] = acquirePacket(arrived + (CHOOSE j \in 1 .. n : s[j] = s[i]))
    BY <1>2, <1>4
  <2>4. QED
    BY <1>2, <2>2, <2>3
<1>9. ASSUME NEW k \in 1 .. MaxArrivals
      PROVE  /\ acquirePacket(k) \in PacketFields /\ acquirePacket(k).seq = k
             /\ acquirePacket(k).refs = 0 /\ ~acquirePacket(k).released /\ ~acquirePacket(k).ready
  BY <1>9 DEF acquirePacket, PacketFields
<1>10. \A i \in 1 .. n : arrived + i \in 1 .. MaxArrivals /\ arrived + i \in 1 .. arrived'
  BY <1>3, <1>2
<1>11. /\ DecW' = DecW /\ DecC' = DecC /\ DecB' = {} /\ OutB' = {} /\ OutR' = OutR /\ OutC' = OutC
      /\ DecB = {} /\ OutB = {} /\ Undispatched = {}
      /\ Undispatched' = Range(batch') /\ DecPath' = DecPath /\ OutPath' = OutPath
  BY <1>3 DEF DecW, DecC, DecB, OutB, OutR, OutC, Undispatched, DecPath, OutPath
<1>12. Range(batch') \cap (DecPath \cup OutPath) = {}
  BY <1>5, <1>6 DEF InInv, Fields
<1>13. pkt' \in [Packet -> PacketFields]
  <2>1. ASSUME NEW p \in Packet PROVE pkt'[p] \in PacketFields
    <3>1. CASE p \in Range(batch')
      BY <1>6, <1>8, <1>9, <1>10, <3>1
    <3>2. CASE p \notin Range(batch')
      BY <1>3, <1>7, <3>2 DEF InTyped
    <3>3. QED
      BY <3>1, <3>2
  <2>2. DOMAIN pkt' = Packet /\ pkt' = [p \in Packet |-> pkt'[p]]
    BY <1>2
  <2>3. QED
    BY <2>1, <2>2
<1>14. InTyped'
  <2>1. arrived' \in 0 .. MaxArrivals /\ Len(batch') <= BatchSize
    BY <1>3, <1>2, <1>5
  <2>2. QED
    BY <1>3, <1>5, <1>13, <2>1 DEF InTyped
<1>15. Apart'
  BY <1>3, <1>5, <1>11, <1>12 DEF Apart
<1>16. Fields'
  <2>1. ASSUME NEW p \in Packet PROVE FieldsOf(p)'
    <3>0. FieldsOf(p)
      BY FieldsSplit DEF InInv
    <3>1. CASE p \in Range(batch')
      <4>1. /\ pkt'[p].refs = 0 /\ ~pkt'[p].released /\ ~pkt'[p].ready /\ pkt'[p].seq \in 1 .. arrived'
        BY <1>6, <1>8, <1>9, <1>10, <3>1
      <4>2. p \notin DecPath \cup OutPath
        BY <1>12, <3>1
      <4>3. QED
        BY <1>11, <4>1, <4>2 DEF FieldsOf, One
    <3>2. CASE p \notin Range(batch')
      <4>1. pkt'[p] = pkt[p]
        BY <1>7, <3>2
      <4>2. \A k \in 1 .. arrived : k \in 1 .. arrived'
        BY <1>3, <1>2
      <4>3. QED
        BY <1>11, <3>0, <3>2, <4>1, <4>2 DEF FieldsOf
    <3>3. QED
      BY <3>1, <3>2
  <2>2. QED
    BY <2>1 DEF Fields, FieldsOf
<1>17. Processing'
  <2>1. \A p \in DecW : pkt'[p] = pkt[p]
    BY <1>7, <1>12, Places DEF DecPath
  <2>2. QED
    BY <1>3, <2>1, ProcessingKept
<1>18. Numbered'
  <2>1. Len(batch') <= arrived'
    BY <1>3, <1>2, <1>5
  <2>2. \A i \in DOMAIN batch' : pkt'[batch'[i]].seq = arrived' - Len(batch') + i
    BY <1>3, <1>2, <1>5, <1>8, <1>9, <1>10
  <2>3. QED
    BY <2>1, <2>2 DEF Numbered
<1>19. QED
  BY <1>14, <1>15, <1>16, <1>17, <1>18 DEF InInv

\* The read loop goes on to the next packet of the batch.
LEMMA NextOfBatchFacts ==
  ASSUME InInv, io # "read", NextOfBatch
  PROVE  /\ batch' \in Seq(Packet) /\ IsInjective(batch') /\ Len(batch') = Len(batch) - 1
         /\ Len(batch') <= BatchSize
         /\ Range(batch') = Range(batch) \ {Head(batch)}
         /\ io' \in {"read", "dispatch"} /\ (io' = "read" <=> batch' = <<>>)
         /\ DecB' = {} /\ OutB' = {} /\ Undispatched' = Range(batch) \ {Head(batch)}
         /\ \A i \in DOMAIN batch' : i \in Nat /\ i + 1 \in DOMAIN batch /\ batch'[i] = batch[i + 1]
<1>1. /\ batch \in Seq(Packet) /\ batch # <<>> /\ IsInjective(batch) /\ Len(batch) <= BatchSize
      /\ BatchSize \in Nat
  BY PipelineAssumption DEF InInv, InTyped, Apart
<1>2. /\ Tail(batch) \in Seq(Packet) /\ Len(Tail(batch)) = Len(batch) - 1 /\ IsInjective(Tail(batch))
      /\ Range(Tail(batch)) = Range(batch) \ {Head(batch)}
      /\ \A i \in DOMAIN Tail(batch) : i + 1 \in DOMAIN batch /\ Tail(batch)[i] = batch[i + 1]
      /\ Len(batch) \in Nat
  BY <1>1, TailFacts
<1>3. Tail(batch) = <<>> <=> Len(batch) = 1
  <2>1. PICK r \in Seq(Packet) : r = Tail(batch)
    BY <1>2
  <2>2. r = <<>> <=> Len(r) = 0
    BY <2>1, EmptySeq
  <2>3. Len(r) = 0 <=> Len(batch) = 1
    BY <1>2, <2>1
  <2>4. QED
    BY <2>1, <2>2, <2>3
<1>4. io' \in {"read", "dispatch"} /\ (io' = "read" <=> batch' = <<>>) /\ batch' = Tail(batch)
  BY <1>3 DEF NextOfBatch
<1>5. Undispatched' = Range(batch')
  <2>1. CASE io' = "read"
    BY <1>4, <2>1 DEF Undispatched, Range
  <2>2. CASE io' = "dispatch"
    BY <2>2 DEF Undispatched
  <2>3. QED
    BY <1>4, <2>1, <2>2
<1>6. DecB' = {} /\ OutB' = {}
  BY <1>4 DEF DecB, OutB
<1>7. \A i \in DOMAIN Tail(batch) : i \in Nat
  BY <1>2, LenProperties
<1>8. QED
  BY <1>1, <1>2, <1>4, <1>5, <1>6, <1>7

\* Its head is the last packet whose record changed.
LEMMA NumberedNext ==
  ASSUME InInv, io # "read", NextOfBatch, UNCHANGED arrived,
         \A p \in Range(batch) \ {Head(batch)} : pkt'[p].seq = pkt[p].seq
  PROVE  Numbered'
<1>1. /\ Len(batch') = Len(batch) - 1 /\ Range(batch') = Range(batch) \ {Head(batch)}
      /\ \A i \in DOMAIN batch' : i \in Nat /\ i + 1 \in DOMAIN batch /\ batch'[i] = batch[i + 1]
  BY NextOfBatchFacts
<1>2. Len(batch) \in Nat /\ arrived \in Nat
  BY Places
<1>3. Len(batch) <= arrived /\ \A i \in DOMAIN batch : pkt[batch[i]].seq = arrived - Len(batch) + i
  BY DEF InInv, Numbered
<1>4. ASSUME NEW i \in DOMAIN batch' PROVE pkt'[batch'[i]].seq = arrived - Len(batch') + i
  <2>1. pkt'[batch'[i]].seq = pkt[batch[i + 1]].seq
    BY <1>1, <1>4 DEF Range
  <2>2. pkt[batch[i + 1]].seq = arrived - Len(batch) + (i + 1)
    BY <1>1, <1>3, <1>4
  <2>3. QED
    BY <1>1, <1>2, <1>4, <2>1, <2>2
<1>5. Len(batch') <= arrived
  BY <1>1, <1>2, <1>3
<1>6. QED
  BY <1>4, <1>5 DEF Numbered

\* The packet that is dispatched.
LEMMA HeadFacts ==
  ASSUME InInv, io # "read", NEW h, h = Head(batch)
  PROVE  /\ h \in Packet /\ h \in Range(batch) /\ pkt[h] \in PacketFields
         /\ h \notin DecW \cup DecC
         /\ io # "decrypt" => h \notin OutR \cup OutC
         /\ DecB = IF io = "dispatch" THEN {} ELSE {h}
         /\ OutB = IF io = "output" THEN {h} ELSE {}
         /\ Undispatched = IF io = "dispatch" THEN Range(batch) ELSE Range(batch) \ {h}
         /\ ~pkt[h].ready /\ ~pkt[h].released /\ pkt[h].seq \in 1 .. arrived
         /\ pkt[h].refs = (IF io = "dispatch" THEN 0 ELSE 1)
                          + (IF io = "output" \/ h \in OutR \cup OutC THEN 1 ELSE 0)
<1>1. /\ h \in Packet /\ h \in Range(batch) /\ pkt[h] \in PacketFields
      /\ Range(Tail(batch)) = Range(batch) \ {h}
  BY Places
<1>2. io \in {"dispatch", "output", "decrypt", "decryptOnly"}
  BY DEF InInv, InTyped
<1>3. /\ DecB = IF io = "dispatch" THEN {} ELSE {h}
      /\ OutB = IF io = "output" THEN {h} ELSE {}
      /\ Undispatched = IF io = "dispatch" THEN Range(batch) ELSE Range(batch) \ {h}
  BY <1>1, <1>2 DEF DecB, OutB, Undispatched
<1>4. h \in DecB \cup Undispatched
  BY <1>1, <1>3
<1>5. /\ h \notin DecW \cup DecC
      /\ io # "decrypt" => h \notin OutR \cup OutC
  BY <1>1, <1>2, <1>3, <1>4 DEF InInv, Apart, DecPath, OutPath
<1>6. ~pkt[h].ready /\ ~pkt[h].released /\ pkt[h].seq \in 1 .. arrived
  BY <1>1, <1>4 DEF InInv, Fields, DecPath
<1>7. pkt[h].refs = One(h \in DecPath) + One(h \in OutPath)
  BY <1>1 DEF InInv, Fields
<1>8. h \in DecPath <=> io # "dispatch"
  BY <1>3, <1>5 DEF DecPath
<1>9. h \in OutPath <=> io = "output" \/ h \in OutR \cup OutC
  BY <1>3 DEF OutPath
<1>10. QED
  BY <1>1, <1>3, <1>5, <1>6, <1>7, <1>8, <1>9 DEF One

\* The read loop is done with the packet at the head of its batch, whose record
\* becomes f: it is on decryptChan, or on the decrypt path no more.
LEMMA HeadLeft ==
  ASSUME InInv, io # "read", NextOfBatch,
         UNCHANGED <<arrived, outputChan, decrypting, dworker, recv, receiving, delivered>>,
         NEW h, h = Head(batch), NEW f \in PacketFields, pkt' = [pkt EXCEPT ![h] = f],
         decryptChan' \in Seq(Packet), Len(decryptChan') <= RawCap, IsInjective(decryptChan'),
         DecC' = DecC \/ DecC' = DecC \cup {h},
         f.refs = One(h \in DecC') + One(h \in OutR \cup OutC),
         h \in DecC' \cup OutR \cup OutC => ~f.released /\ f.seq = pkt[h].seq,
         h \in DecC' => ~f.ready,
         h \in OutR \cup OutC /\ ~f.ready => h \in DecC'
  PROVE  InInv'
<1>0. /\ InTyped /\ Apart
      /\ batch' \in Seq(Packet) /\ IsInjective(batch') /\ Len(batch') <= BatchSize
      /\ Range(batch') = Range(batch) \ {h}
      /\ io' \in {"read", "dispatch"} /\ (io' = "read" <=> batch' = <<>>)
      /\ DecB' = {} /\ OutB' = {} /\ Undispatched' = Range(batch) \ {h}
  BY NextOfBatchFacts DEF InInv
<1>1. /\ h \in Packet /\ h \in Range(batch)
      /\ h \notin DecW \cup DecC
      /\ Undispatched \cup {h} = Range(batch)
      /\ DecB \subseteq {h} /\ OutB \subseteq {h}
      /\ pkt[h].seq \in 1 .. arrived
  BY HeadFacts
<1>2. pkt' \in [Packet -> PacketFields] /\ pkt'[h] = f /\ \A p \in Packet \ {h} : pkt'[p] = pkt[p]
  BY <1>0, <1>1 DEF InTyped
<1>3. /\ DecW' = DecW /\ OutR' = OutR /\ OutC' = OutC
      /\ DecPath' = DecW \cup DecC' /\ OutPath' = OutR \cup OutC
      /\ Undispatched' = Undispatched \ {h}
  BY <1>0, <1>1 DEF DecW, OutR, OutC, DecPath, OutPath
<1>4. InTyped'
  BY <1>0, <1>2 DEF InTyped
<1>5. Apart'
  <2>1. Undispatched' \cap (DecPath' \cup OutPath') = {}
    BY <1>0, <1>1, <1>3 DEF Apart, DecPath, OutPath
  <2>2. DecW' \cap DecC' = {}
    BY <1>0, <1>1, <1>3 DEF Apart
  <2>3. QED
    BY <1>0, <1>3, <2>1, <2>2 DEF Apart
<1>6. Fields'
  <2>1. ASSUME NEW p \in Packet, p # h PROVE FieldsOf(p)'
    <3>1. FieldsOf(p) /\ pkt'[p] = pkt[p]
      BY <1>2, <2>1, FieldsSplit DEF InInv
    <3>2. /\ p \in DecPath' <=> p \in DecPath
          /\ p \in OutPath' <=> p \in OutPath
          /\ p \in Undispatched' => p \in Undispatched
          /\ p \in (DecC \cup DecB)' => p \in DecC \cup DecB
      BY <1>0, <1>1, <1>3, <2>1 DEF DecPath, OutPath
    <3>3. QED
      BY <3>1, <3>2, FieldsKept
  <2>2. FieldsOf(h)'
    BY <1>0, <1>1, <1>2, <1>3 DEF FieldsOf
  <2>3. QED
    BY <2>1, <2>2 DEF Fields, FieldsOf
<1>7. Processing'
  <2>1. \A p \in DecW : pkt'[p].ready = pkt[p].ready
    BY <1>1, <1>2, Places
  <2>2. QED
    BY <2>1, ProcessingKept
<1>8. Numbered'
  <2>1. \A p \in Range(batch) \ {h} : pkt'[p].seq = pkt[p].seq
    BY <1>2, Places
  <2>2. QED
    BY <2>1, NumberedNext
<1>9. QED
  BY <1>4, <1>5, <1>6, <1>7, <1>8 DEF InInv

LEMMA DispatchCheckInv ==
  ASSUME InInv, DispatchCheck
  PROVE  InInv'
<1>0. /\ InTyped /\ Apart /\ Processing /\ io = "dispatch" /\ batch # <<>>
      /\ UNCHANGED <<arrived, outputChan, decryptChan, decrypting, dworker, recv, receiving, delivered>>
  BY DEF InInv, Apart, DispatchCheck
<1>1. PICK h \in Packet : h = Head(batch) /\ h \in Range(batch)
  BY <1>0, HeadFacts
<1>2. /\ h \notin DecW \cup DecC \cup OutR \cup OutC
      /\ DecB = {} /\ OutB = {} /\ Undispatched = Range(batch) /\ pkt[h] \in PacketFields
      /\ ~pkt[h].ready /\ ~pkt[h].released /\ pkt[h].seq \in 1 .. arrived
  BY <1>0, <1>1, HeadFacts
<1>3. CASE closeChan
  <2>1. pkt' = [pkt EXCEPT ![h] = Pooled] /\ NextOfBatch
    BY <1>0, <1>1, <1>3 DEF DispatchCheck, releasePacket, InTyped
  <2>2. Pooled \in PacketFields /\ Pooled.refs = 0
    BY PipelineAssumption DEF Pooled, PacketFields
  <2>3. DecC' = DecC /\ h \notin DecC'
    BY <1>0, <1>2 DEF DecC
  <2>4. decryptChan' \in Seq(Packet) /\ Len(decryptChan') <= RawCap /\ IsInjective(decryptChan')
    BY <1>0 DEF InTyped, Apart
  <2>5. Pooled.refs = One(h \in DecC') + One(h \in OutR \cup OutC)
    BY <1>2, <2>2, <2>3 DEF One
  <2>6. QED
    BY <1>0, <1>1, <1>2, <2>1, <2>2, <2>3, <2>4, <2>5, HeadLeft
<1>4. CASE ~closeChan
  <2>1. /\ io' = "output" /\ batch' = batch
    BY <1>4 DEF DispatchCheck
  <2>2. PICK f \in PacketFields :
          /\ pkt' = [pkt EXCEPT ![h] = f] /\ f.refs = 2
          /\ f.seq = pkt[h].seq /\ f.released = pkt[h].released /\ f.ready = pkt[h].ready
    <3>1. PICK f : f = [pkt[h] EXCEPT !.refs = 2]
      OBVIOUS
    <3>2. pkt' = [pkt EXCEPT ![h] = f]
      BY <1>0, <1>1, <1>4, <3>1 DEF DispatchCheck, InTyped
    <3>3. /\ f \in PacketFields /\ f.refs = 2
          /\ f.seq = pkt[h].seq /\ f.released = pkt[h].released /\ f.ready = pkt[h].ready
      BY <1>2, <3>1 DEF PacketFields
    <3>4. QED
      BY <3>2, <3>3
  <2>3. pkt' \in [Packet -> PacketFields] /\ pkt'[h] = f /\ \A p \in Packet \ {h} : pkt'[p] = pkt[p]
    BY <1>0, <2>2 DEF InTyped
  <2>4. Range(Tail(batch)) = Range(batch) \ {h}
    BY <1>0, <1>1, Places
  <2>5. /\ DecW' = DecW /\ DecC' = DecC /\ OutR' = OutR /\ OutC' = OutC
        /\ DecB' = {h} /\ OutB' = {h} /\ Undispatched' = Undispatched \ {h}
        /\ DecPath' = DecPath \cup {h} /\ OutPath' = OutPath \cup {h}
    BY <1>0, <1>1, <1>2, <2>1, <2>4 DEF DecW, DecC, OutR, OutC, DecB, OutB, Undispatched, DecPath, OutPath
  <2>6. InTyped'
    BY <1>0, <2>1, <2>3 DEF InTyped
  <2>7. Apart'
    <3>1. Undispatched' \cap (DecPath' \cup OutPath') = {}
      BY <1>0, <2>5 DEF Apart
    <3>2. DecB' \cap (DecW' \cup DecC') = {} /\ OutB' \cap (OutR' \cup OutC') = {}
      BY <1>2, <2>5
    <3>3. QED
      BY <1>0, <2>1, <2>5, <3>1, <3>2 DEF Apart
  <2>8. Fields'
    <3>1. ASSUME NEW p \in Packet, p # h PROVE FieldsOf(p)'
      <4>1. FieldsOf(p) /\ pkt'[p] = pkt[p]
        BY <2>3, <3>1, FieldsSplit DEF InInv
      <4>2. QED
        BY <1>0, <1>2, <2>5, <3>1, <4>1, FieldsKept
    <3>2. FieldsOf(h)'
      BY <1>0, <1>2, <2>2, <2>3, <2>5 DEF FieldsOf, One
    <3>3. QED
      BY <3>1, <3>2 DEF Fields, FieldsOf
  <2>9. Processing'
    <3>1. \A p \in DecW : pkt'[p].ready = pkt[p].ready
      BY <1>2, <2>3, Places
    <3>2. QED
      BY <1>0, <3>1, ProcessingKept
  <2>10. Numbered'
    <3>1. \A p \in Range(batch) : pkt'[p].seq = pkt[p].seq
      BY <2>2, <2>3, Places
    <3>2. QED
      BY <1>0, <2>1, <3>1, NumberedKept
  <2>11. QED
    BY <2>6, <2>7, <2>8, <2>9, <2>10 DEF InInv
<1>5. QED
  BY <1>3, <1>4

LEMMA DispatchOutputInv ==
  ASSUME InInv, DispatchOutput
  PROVE  InInv'
<1>0. /\ InTyped /\ Apart /\ Processing /\ Numbered /\ io = "output" /\ io' = "decrypt" /\ batch # <<>>
      /\ UNCHANGED <<pkt, arrived, batch, decryptChan, decrypting, dworker, recv, receiving, delivered>>
      /\ outputChan \in Seq(Packet) /\ IsInjective(outputChan) /\ Len(outputChan) < OutCap
      /\ OutCap \in Nat
  BY PipelineAssumption DEF InInv, InTyped, Apart, DispatchOutput
<1>1. PICK h \in Packet : h = Head(batch) /\ h \in Range(batch)
  BY <1>0, HeadFacts
<1>2. /\ h \notin OutR \cup OutC /\ DecB = {h} /\ OutB = {h} /\ Undispatched = Range(batch) \ {h}
  BY <1>0, <1>1, HeadFacts
<1>3. /\ outputChan' \in Seq(Packet) /\ Len(outputChan') <= OutCap
      /\ IsInjective(outputChan') /\ OutC' = OutC \cup {h}
  <2>1. outputChan' = Append(outputChan, h)
    BY <1>1 DEF DispatchOutput
  <2>2. Len(outputChan) \in Nat
    BY <1>0, LenProperties
  <2>3. QED
    BY <1>0, <1>2, <2>1, <2>2, AppendFacts DEF OutC
<1>4. Range(Tail(batch)) = Range(batch) \ {h}
  BY <1>0, <1>1, Places
<1>5. /\ DecW' = DecW /\ DecC' = DecC /\ OutR' = OutR /\ DecB' = DecB /\ OutB' = {}
      /\ Undispatched' = Undispatched /\ DecPath' = DecPath /\ OutPath' = OutPath
  BY <1>0, <1>1, <1>2, <1>3, <1>4 DEF DecW, DecC, OutR, OutC, DecB, OutB, Undispatched, DecPath, OutPath
<1>6. InTyped'
  BY <1>0, <1>3 DEF InTyped
<1>7. Apart'
  <2>1. OutR' \cap OutC' = {}
    BY <1>0, <1>2, <1>3, <1>5 DEF Apart
  <2>2. QED
    BY <1>0, <1>3, <1>5, <2>1 DEF Apart
<1>8. Fields'
  <2>1. ASSUME NEW p \in Packet PROVE FieldsOf(p)'
    BY <1>0, <1>5, FieldsSplit, FieldsKept DEF InInv
  <2>2. QED
    BY <2>1 DEF Fields, FieldsOf
<1>9. Processing' /\ Numbered'
  BY <1>0 DEF Processing, Numbered
<1>10. QED
  BY <1>6, <1>7, <1>8, <1>9 DEF InInv

LEMMA DispatchOutputFullInv ==
  ASSUME InInv, DispatchOutputFull
  PROVE  InInv'
<1>0. /\ InTyped /\ Apart /\ Processing /\ io = "output" /\ io' = "decryptOnly" /\ batch # <<>>
      /\ UNCHANGED <<arrived, batch, outputChan, decryptChan, decrypting, dworker, recv, receiving, delivered>>
  BY DEF InInv, InTyped, Apart, DispatchOutputFull
<1>1. PICK h \in Packet : h = Head(batch) /\ h \in Range(batch)
  BY <1>0, HeadFacts
<1>2. /\ h \notin DecW \cup DecC \cup OutR \cup OutC /\ DecB = {h} /\ OutB = {h}
      /\ Undispatched = Range(batch) \ {h}
      /\ pkt[h].refs = 2 /\ ~pkt[h].ready /\ ~pkt[h].released /\ pkt[h].seq \in 1 .. arrived
  BY <1>0, <1>1, HeadFacts
<1>3. PICK f : f = unrefPacket(pkt[h])
  OBVIOUS
<1>4. /\ f \in PacketFields /\ f.refs = 1
      /\ f.seq = pkt[h].seq /\ f.released = pkt[h].released /\ f.ready = pkt[h].ready
  <2>1. h \in DecPath \cup OutPath
    BY <1>2 DEF DecPath
  <2>2. QED
    BY <1>2, <1>3, <2>1, RefsFacts
<1>5. /\ pkt' \in [Packet -> PacketFields] /\ pkt'[h] = f /\ \A p \in Packet \ {h} : pkt'[p] = pkt[p]
  <2>1. pkt' = [pkt EXCEPT ![h] = f]
    BY <1>0, <1>1, <1>3 DEF DispatchOutputFull, InTyped
  <2>2. QED
    BY <1>0, <1>4, <2>1 DEF InTyped
<1>6. Range(Tail(batch)) = Range(batch) \ {h}
  BY <1>0, <1>1, Places
<1>7. /\ DecW' = DecW /\ DecC' = DecC /\ OutR' = OutR /\ OutC' = OutC /\ DecB' = DecB /\ OutB' = {}
      /\ Undispatched' = Undispatched /\ DecPath' = DecPath
  BY <1>0, <1>1, <1>2, <1>6 DEF DecW, DecC, OutR, OutC, DecB, OutB, Undispatched, DecPath
<1>8. OutPath' = OutPath \ {h} /\ h \in DecPath /\ h \in OutPath
  BY <1>2, <1>7 DEF OutPath, DecPath
<1>9. InTyped'
  BY <1>0, <1>5 DEF InTyped
<1>10. Apart'
  <2>1. Head(batch') \notin OutPath'
    BY <1>0, <1>1, <1>8
  <2>2. QED
    BY <1>0, <1>7, <1>8, <2>1 DEF Apart
<1>11. Fields'
  <2>1. ASSUME NEW p \in Packet, p # h PROVE FieldsOf(p)'
    <3>1. FieldsOf(p) /\ pkt'[p] = pkt[p]
      BY <1>5, <2>1, FieldsSplit DEF InInv
    <3>2. QED
      BY <1>0, <1>7, <1>8, <2>1, <3>1, FieldsKept
  <2>2. FieldsOf(h)'
    BY <1>0, <1>2, <1>4, <1>5, <1>7, <1>8 DEF FieldsOf, One
  <2>3. QED
    BY <2>1, <2>2 DEF Fields, FieldsOf
<1>12. Processing'
  <2>1. \A p \in DecW : pkt'[p].ready = pkt[p].ready
    BY <1>2, <1>5, Places
  <2>2. QED
    BY <1>0, <2>1, ProcessingKept
<1>13. Numbered'
  <2>1. \A p \in Range(batch) : pkt'[p].seq = pkt[p].seq
    BY <1>4, <1>5, Places
  <2>2. QED
    BY <1>0, <2>1, NumberedKept
<1>14. QED
  BY <1>9, <1>10, <1>11, <1>12, <1>13 DEF InInv

LEMMA DispatchOutputClosedInv ==
  ASSUME InInv, DispatchOutputClosed
  PROVE  InInv'
<1>0. /\ InTyped /\ Apart /\ io = "output" /\ NextOfBatch
      /\ UNCHANGED <<arrived, outputChan, decryptChan, decrypting, dworker, recv, receiving, delivered>>
  BY DEF InInv, DispatchOutputClosed
<1>1. PICK h \in Packet : h = Head(batch)
  BY <1>0, HeadFacts
<1>2. /\ h \notin DecW \cup DecC \cup OutR \cup OutC /\ pkt[h].refs = 2 /\ pkt[h] \in PacketFields
  BY <1>0, <1>1, HeadFacts
<1>3. PICK f1 : f1 = unrefPacket(pkt[h])
  OBVIOUS
<1>4. f1 \in PacketFields /\ f1.refs = 1
  BY <1>2, <1>3, UnrefFacts
<1>5. PICK f : f = unrefPacket(f1)
  OBVIOUS
<1>6. f \in PacketFields /\ f.refs = 0
  BY <1>4, <1>5, UnrefFacts
<1>7. pkt' = [pkt EXCEPT ![h] = f]
  BY <1>0, <1>1, <1>3, <1>5 DEF DispatchOutputClosed, InTyped
<1>8. DecC' = DecC
  BY <1>0 DEF DecC
<1>9. decryptChan' \in Seq(Packet) /\ Len(decryptChan') <= RawCap /\ IsInjective(decryptChan')
  BY <1>0 DEF InTyped, Apart
<1>10. f.refs = One(h \in DecC') + One(h \in OutR \cup OutC) /\ h \notin DecC' \cup OutR \cup OutC
  BY <1>2, <1>6, <1>8 DEF One
<1>11. QED
  BY <1>0, <1>1, <1>6, <1>7, <1>8, <1>9, <1>10, HeadLeft

LEMMA DispatchDecryptInv ==
  ASSUME InInv, DispatchDecrypt
  PROVE  InInv'
<1>0. /\ InTyped /\ Apart /\ io \in {"decrypt", "decryptOnly"} /\ NextOfBatch
      /\ UNCHANGED <<pkt, arrived, outputChan, decrypting, dworker, recv, receiving, delivered>>
      /\ decryptChan \in Seq(Packet) /\ Len(decryptChan) < RawCap /\ IsInjective(decryptChan)
      /\ RawCap \in Nat
  BY PipelineAssumption DEF InInv, InTyped, Apart, DispatchDecrypt
<1>1. PICK h \in Packet : h = Head(batch)
  BY <1>0, HeadFacts
<1>2. /\ h \notin DecC /\ pkt[h] \in PacketFields /\ ~pkt[h].ready /\ ~pkt[h].released
      /\ pkt[h].refs = 1 + One(h \in OutR \cup OutC)
  BY <1>0, <1>1, HeadFacts DEF One
<1>3. pkt' = [pkt EXCEPT ![h] = pkt[h]]
  BY <1>0, <1>1 DEF InTyped
<1>4. /\ decryptChan' \in Seq(Packet) /\ Len(decryptChan') <= RawCap /\ IsInjective(decryptChan')
      /\ DecC' = DecC \cup {h}
  <2>1. decryptChan' = Append(decryptChan, h) /\ Len(decryptChan) \in Nat
    BY <1>0, <1>1, LenProperties DEF DispatchDecrypt
  <2>2. QED
    BY <1>0, <1>2, <2>1, AppendFacts DEF DecC
<1>5. pkt[h].refs = One(h \in DecC') + One(h \in OutR \cup OutC) /\ h \in DecC'
  BY <1>2, <1>4 DEF One
<1>6. PICK f \in PacketFields : f = pkt[h]
  BY <1>2
<1>7. QED
  BY <1>0, <1>1, <1>2, <1>3, <1>4, <1>5, <1>6, HeadLeft

LEMMA DispatchDecryptDropInv ==
  ASSUME InInv, DispatchDecryptDrop
  PROVE  InInv'
<1>0. /\ InTyped /\ Apart /\ io \in {"decrypt", "decryptOnly"} /\ NextOfBatch
      /\ UNCHANGED <<arrived, outputChan, decryptChan, decrypting, dworker, recv, receiving, delivered>>
  BY DEF InInv, DispatchDecryptDrop
<1>1. PICK h \in Packet : h = Head(batch)
  BY <1>0, HeadFacts
<1>2. /\ h \notin DecC /\ pkt[h] \in PacketFields /\ ~pkt[h].released
      /\ pkt[h].refs = 1 + One(h \in OutR \cup OutC)
      /\ h \in OutR \cup OutC => io = "decrypt"
  BY <1>0, <1>1, HeadFacts DEF One
<1>3. PICK g : g = [pkt[h] EXCEPT !.ready = (io = "decrypt")]
  OBVIOUS
<1>4. /\ g \in PacketFields /\ g.refs = pkt[h].refs /\ g.seq = pkt[h].seq /\ g.released = pkt[h].released
      /\ g.ready <=> io = "decrypt"
  <2>1. g.ready <=> io = "decrypt"
    BY <1>2, <1>3 DEF PacketFields
  <2>2. g.refs = pkt[h].refs /\ g.seq = pkt[h].seq /\ g.released = pkt[h].released
    BY <1>2, <1>3 DEF PacketFields
  <2>3. g \in PacketFields
    BY <1>2, <1>3 DEF PacketFields
  <2>4. QED
    BY <2>1, <2>2, <2>3
<1>5. g.refs \in {1, 2}
  BY <1>2, <1>4 DEF One
<1>6. PICK f : f = unrefPacket(g)
  OBVIOUS
<1>7. /\ f \in PacketFields /\ f.refs = One(h \in OutR \cup OutC)
      /\ h \in OutR \cup OutC => ~f.released /\ f.seq = pkt[h].seq /\ f.ready
  <2>1. f \in PacketFields /\ f.refs = g.refs - 1
        /\ (g.refs = 2 => f.seq = g.seq /\ f.released = g.released /\ f.ready = g.ready)
    BY <1>4, <1>5, <1>6, UnrefFacts
  <2>2. QED
    BY <1>2, <1>4, <2>1 DEF One
<1>8. pkt' = [pkt EXCEPT ![h] = f]
  BY <1>0, <1>1, <1>3, <1>6 DEF DispatchDecryptDrop, InTyped
<1>9. DecC' = DecC
  BY <1>0 DEF DecC
<1>10. decryptChan' \in Seq(Packet) /\ Len(decryptChan') <= RawCap /\ IsInjective(decryptChan')
  BY <1>0 DEF InTyped, Apart
<1>11. f.refs = One(h \in DecC') + One(h \in OutR \cup OutC) /\ h \notin DecC'
  BY <1>2, <1>7, <1>9 DEF One
<1>12. QED
  BY <1>0, <1>1, <1>7, <1>8, <1>9, <1>10, <1>11, HeadLeft

\* Steps of the senders, of the send path and of Close.
LEMMA InKept ==
  ASSUME InInv, UNCHANGED inVars
  PROVE  InInv'
<1>1. /\ DecW' = DecW /\ DecC' = DecC /\ DecB' = DecB /\ OutR' = OutR /\ OutC' = OutC /\ OutB' = OutB
      /\ Undispatched' = Undispatched /\ DecPath' = DecPath /\ OutPath' = OutPath
  BY DEF inVars, DecW, DecC, DecB, OutR, OutC, OutB, Undispatched, DecPath, OutPath
<1>2. InTyped' /\ Processing' /\ Numbered'
  BY DEF inVars, InInv, InTyped, Processing, Numbered
<1>3. Apart'
  BY <1>1 DEF inVars, InInv, Apart
<1>4. Fields'
  BY <1>1 DEF inVars, InInv, Fields
<1>5. QED
  BY <1>2, <1>3, <1>4 DEF InInv

LEMMA InStep ==
  ASSUME InInv, Next
  PROVE  InInv'
<1>1. CASE IoRead
  BY <1>1, IoReadInv
<1>2. CASE IoStep
  BY <1>2, DispatchCheckInv, DispatchOutputInv, DispatchOutputFullInv, DispatchOutputClosedInv,
     DispatchDecryptInv, DispatchDecryptDropInv DEF IoStep
<1>3. CASE \E w \in DecryptWorkers : DecryptTake(w) \/ DecryptStep(w)
  BY <1>3, DecryptTakeInv, DecryptProcessInv, DecryptUnrefInv DEF DecryptStep
<1>4. CASE ReceiveTake \/ ReceiveStep
  BY <1>4, ReceiveTakeInv, DeliverInv, ReceiveSkipInv, ReceiveUnrefInv DEF ReceiveStep
<1>5. CASE \E s \in Sender : SendStart(s) \/ SenderStep(s)
  <2>1. PICK s \in Sender : SendStart(s) \/ SenderStep(s)
    BY <1>5
  <2>2. UNCHANGED inVars
    BY <2>1 DEF SendStart, SenderStep, SendQueue, SendEncrypt, SendOnClosed, SendClosed, SendDone
  <2>3. QED
    BY <2>2, InKept
<1>6. CASE \E w \in EncryptWorkers : EncryptTake(w) \/ EncryptDone(w)
  <2>1. UNCHANGED inVars
    BY <1>6 DEF EncryptTake, EncryptDone
  <2>2. QED
    BY <2>1, InKept
<1>7. CASE SendLoopTake \/ SendLoopStep
  <2>1. UNCHANGED inVars
    BY <1>7 DEF SendLoopTake, SendLoopStep, Write, WriteFailed, SendLoopReport
  <2>2. QED
    BY <2>1, InKept
<1>8. CASE CloseStart \/ CloseStep
  <2>1. UNCHANGED inVars
    BY <1>8 DEF CloseStart, CloseStep, CloseStore, CloseSignal, CloseSocket, CloseChannels
  <2>2. QED
    BY <2>1, InKept
<1>9. QED
  BY <1>1, <1>2, <1>3, <1>4, <1>5, <1>6, <1>7, <1>8 DEF Next

-----------------------------------------------------------------------------
(* The outbound path.                                                      *)

\* A sender whose packet stays where it is and as it is.
LEMMA SenderKept ==
  ASSUME NEW s \in Sender, SenderInv(s),
         opkt'[s] = opkt[s], pc'[s] = pc[s], result'[s] = result[s],
         s \in EncPath' <=> s \in EncPath, s \in SndPath' => s \in SndPath,
         closeChan => closeChan', Range(written) \subseteq Range(written')
  PROVE  SenderInv(s)'
BY DEF SenderInv

LEMMA OutPlaces ==
  ASSUME OutInv
  PROVE  /\ EncPath \subseteq Sender /\ SndPath \subseteq Sender
         /\ NoSender \notin Sender /\ {"recv", "close"} \subseteq Sender
         /\ {RawCap, OutCap} \subseteq Nat /\ MaxSends \in Nat /\ queued \in Nat /\ sends \in Nat
         /\ \A s \in Sender : opkt[s] \in OutboundFields
<1>1. NoSender \notin Sender /\ {"recv", "close"} \subseteq Sender
  BY PipelineAssumption DEF Sender, NoSender
<1>2. \A q \in Seq(Sender) : Range(q) \subseteq Sender
  <2>1. ASSUME NEW q \in Seq(Sender), NEW i \in DOMAIN q PROVE q[i] \in Sender
    BY <2>1, ElementOfSeq, LenProperties
  <2>2. QED
    BY <2>1 DEF Range
<1>3. EncPath \subseteq Sender /\ SndPath \subseteq Sender
  BY <1>2 DEF OutInv, OutTyped, EncPath, SndPath, EncW, EncC, SndL, SndC
<1>4. {RawCap, OutCap} \subseteq Nat /\ MaxSends \in Nat /\ queued \in Nat /\ sends \in Nat
  BY PipelineAssumption DEF OutInv, OutTyped
<1>5. \A s \in Sender : opkt[s] \in OutboundFields
  BY DEF OutInv, OutTyped
<1>6. QED
  BY <1>1, <1>3, <1>4, <1>5

\* Steps that change nothing of the outbound path but what Close tells it.
LEMMA OutKept ==
  ASSUME OutInv, UNCHANGED outVars, Closing',
         closing' \in BOOLEAN, closed' \in BOOLEAN, closeChan' \in BOOLEAN, panicked' \in BOOLEAN,
         closer' \in {"none", "notice", "store", "signal", "wait", "done"},
         closing => closing', closeChan => closeChan'
  PROVE  OutInv'
<1>1. OutTyped' /\ Once'
  BY DEF OutInv, OutTyped, Once, outVars, EncW, EncC, SndL, SndC
<1>2. EncPath' = EncPath /\ SndPath' = SndPath /\ Queueing' = Queueing
  BY DEF outVars, EncPath, SndPath, EncW, EncC, SndL, SndC, Queueing
<1>3. \A s \in Sender : SenderInv(s)'
  BY <1>2, SenderKept DEF OutInv, outVars
<1>4. Counted'
  BY <1>2, OutPlaces DEF OutInv, OutTyped, Counted, One, outVars
<1>5. QED
  BY <1>1, <1>3, <1>4 DEF OutInv

\* A call of sendPayload begins while the node is open.
LEMMA BeginSendInv ==
  ASSUME OutInv, NEW s \in Sender, pc[s] = "idle", ~closeChan, BeginSend(s),
         UNCHANGED <<result, queued, sendChan, encryptChan, eworker, sendLoop, written, closed, closeChan, panicked>>,
         closing' \in BOOLEAN, closer' \in {"none", "notice", "store", "signal", "wait", "done"},
         sends < MaxSends + One(closing'), Closing'
  PROVE  OutInv'
<1>1. /\ OutTyped /\ Once /\ Counted /\ SenderInv(s)
      /\ pc' = [pc EXCEPT ![s] = "queue"] /\ opkt' = [opkt EXCEPT ![s] = NoOutbound]
      /\ sends' = sends + 1
  BY DEF OutInv, BeginSend
<1>2. /\ NoOutbound \in OutboundFields /\ ~NoOutbound.ready /\ NoOutbound.done = "none"
      /\ NoOutbound.err = "none"
  BY OutPlaces DEF NoOutbound, OutboundFields, Result
<1>3. /\ opkt' \in [Sender -> OutboundFields] /\ opkt'[s] = NoOutbound
      /\ \A t \in Sender \ {s} : opkt'[t] = opkt[t]
  BY <1>1, <1>2 DEF OutTyped
<1>4. /\ pc' \in [Sender -> {"idle", "queue", "encrypt", "wait"}] /\ pc'[s] = "queue"
      /\ \A t \in Sender \ {s} : pc'[t] = pc[t]
  BY <1>1 DEF OutTyped
<1>5. s \notin EncPath /\ s \notin SndPath
  BY <1>1 DEF SenderInv
<1>6. EncPath' = EncPath /\ SndPath' = SndPath
  BY DEF EncPath, SndPath, EncW, EncC, SndL, SndC
<1>7. sends' \in 0 .. (MaxSends + 1) /\ sends' <= MaxSends + One(closing')
  BY <1>1, OutPlaces DEF One
<1>8. OutTyped'
  BY <1>1, <1>3, <1>4, <1>7 DEF OutTyped
<1>9. Once'
  BY <1>1 DEF Once, EncW, EncC, SndL, SndC
<1>10. ASSUME NEW t \in Sender PROVE SenderInv(t)'
  <2>1. CASE t # s
    BY <1>3, <1>4, <1>6, <2>1, SenderKept DEF OutInv
  <2>2. CASE t = s
    BY <1>2, <1>3, <1>4, <1>5, <1>6, <2>2 DEF SenderInv
  <2>3. QED
    BY <2>1, <2>2
<1>11. Counted'
  <2>1. Queueing' = Queueing \cup {s} /\ s \notin Queueing
    BY <1>1, <1>4 DEF Queueing, OutTyped
  <2>2. IsFiniteSet(Queueing') /\ Cardinality(Queueing') = Cardinality(Queueing) + 1
        /\ Cardinality(Queueing) \in Nat
    BY <1>1, <2>1, FS_AddElement, FS_CardinalityType DEF Counted
  <2>3. QED
    BY <1>1, <1>7, <2>2, OutPlaces DEF Counted
<1>12. QED
  BY <1>8, <1>9, <1>10, <1>11 DEF OutInv

LEMMA SendStartOut ==
  ASSUME OutInv, NEW s, SendStart(s)
  PROVE  OutInv'
<1>1. s \in Sender /\ s # "recv" /\ s # "close"
  BY PipelineAssumption DEF SendStart, Sender
<1>2. ~closeChan /\ sends < MaxSends + One(closing')
  BY OutPlaces DEF SendStart, MaySend, OutInv, OutTyped, Closing, closeVars, One
<1>3. Closing'
  <2>1. pc'["close"] = pc["close"] /\ pc'["recv"] = pc["recv"]
    BY <1>1, OutPlaces DEF SendStart, BeginSend, OutInv, OutTyped
  <2>2. QED
    BY <2>1 DEF SendStart, OutInv, Closing, closeVars, inVars
<1>4. closing' \in BOOLEAN /\ closer' \in {"none", "notice", "store", "signal", "wait", "done"}
  BY DEF SendStart, OutInv, OutTyped, closeVars
<1>5. QED
  BY <1>1, <1>2, <1>3, <1>4, BeginSendInv DEF SendStart, closeVars

LEMMA CloseStartOut ==
  ASSUME OutInv, CloseStart
  PROVE  OutInv'
<1>1. closer = "none" /\ pc["close"] = "idle" /\ ~closeChan /\ ~closing /\ closing' = TRUE
  BY DEF CloseStart, OutInv, OutTyped, Closing
<1>2. sends < MaxSends + One(closing')
  BY <1>1, OutPlaces DEF OutInv, Counted, One
<1>3. Closing'
  <2>1. pc'["recv"] = pc["recv"]
    BY OutPlaces DEF CloseStart, BeginSend, OutInv, OutTyped
  <2>2. QED
    BY <1>1, <2>1 DEF CloseStart, OutInv, Closing, inVars
<1>4. QED
  BY <1>1, <1>2, <1>3, OutPlaces, BeginSendInv DEF CloseStart

LEMMA DeliverOut ==
  ASSUME OutInv, Deliver
  PROVE  OutInv'
<1>1. UNCHANGED closeVars /\ recv = "waiting" /\ recv' = "unref"
  BY DEF Deliver
<1>2. CASE UNCHANGED outVars
  <2>1. Closing'
    BY <1>1, <1>2 DEF OutInv, Closing, closeVars, outVars
  <2>2. QED
    BY <1>1, <1>2, <2>1, OutKept DEF OutInv, OutTyped, closeVars
<1>3. CASE /\ ~closed /\ MaySend /\ BeginSend("recv")
           /\ UNCHANGED <<result, queued, sendChan, encryptChan, eworker, sendLoop, written>>
  <2>1. pc["recv"] = "idle" /\ ~closeChan
    BY <1>1, <1>3 DEF OutInv, Closing
  <2>2. sends < MaxSends + One(closing')
    BY <1>1, <1>3, OutPlaces DEF MaySend, OutInv, OutTyped, closeVars, One
  <2>3. Closing'
    <3>1. pc'["close"] = pc["close"]
      BY <1>3, OutPlaces DEF BeginSend, OutInv, OutTyped
    <3>2. QED
      BY <1>1, <3>1 DEF OutInv, Closing, closeVars
  <2>4. QED
    BY <1>1, <1>3, <2>1, <2>2, <2>3, OutPlaces, BeginSendInv DEF OutInv, OutTyped, closeVars
<1>4. QED
  BY <1>2, <1>3 DEF Deliver

\* The part of Closing that a step of one sender can disturb.
LEMMA ClosingKept ==
  ASSUME OutInv, UNCHANGED <<inVars, closeVars>>, NEW s \in Sender,
         \A t \in Sender \ {s} : pc'[t] = pc[t], pc[s] # "idle" \/ pc'[s] = "idle"
  PROVE  Closing'
<1>1. \A t \in {"close", "recv"} : pc[t] = "idle" => pc'[t] = "idle"
  BY OutPlaces
<1>2. QED
  BY <1>1 DEF OutInv, Closing, inVars, closeVars

LEMMA SendQueueOut ==
  ASSUME OutInv, NEW s \in Sender, SendQueue(s)
  PROVE  OutInv'
<1>1. /\ OutTyped /\ Once /\ Counted /\ SenderInv(s) /\ pc[s] = "queue"
      /\ pc' = [pc EXCEPT ![s] = "encrypt"]
      /\ queued' = queued + 1 /\ sendChan' = Append(sendChan, s) /\ Len(sendChan) < RawCap
      /\ UNCHANGED <<result, encryptChan, eworker, sendLoop, written, sends, inVars, closeVars>>
  BY DEF OutInv, SendQueue
<1>2. /\ pc' \in [Sender -> {"idle", "queue", "encrypt", "wait"}] /\ pc'[s] = "encrypt"
      /\ \A t \in Sender \ {s} : pc'[t] = pc[t]
  BY <1>1 DEF OutTyped
<1>3. /\ Queueing' = Queueing \ {s} /\ s \in Queueing
      /\ IsFiniteSet(Queueing') /\ Cardinality(Queueing') = Cardinality(Queueing) - 1
      /\ Cardinality(Queueing') \in Nat
  <2>1. Queueing' = Queueing \ {s} /\ s \in Queueing
    BY <1>1, <1>2 DEF Queueing, OutTyped
  <2>2. IsFiniteSet(Queueing')
    BY <1>1, <2>1, FS_RemoveElement DEF Counted
  <2>3. QED
    BY <1>1, <2>1, <2>2, FS_RemoveElement, FS_CardinalityType DEF Counted
<1>4. /\ queued' + Cardinality(Queueing') <= sends'
      /\ queued' \in 1 .. (MaxSends + 1)
  BY SMTT(30), <1>1, <1>3, OutPlaces, FS_CardinalityType DEF Counted, OutTyped
<1>5. PICK f \in OutboundFields :
        /\ opkt' = [opkt EXCEPT ![s] = f] /\ f.no = queued' /\ f.ready = opkt[s].ready
        /\ f.err = opkt[s].err /\ f.done = opkt[s].done
  <2>1. PICK f : f = [opkt[s] EXCEPT !.no = queued + 1]
    OBVIOUS
  <2>2. opkt' = [opkt EXCEPT ![s] = f]
    BY <1>1, <2>1 DEF SendQueue, OutTyped
  <2>3. opkt[s] \in OutboundFields /\ queued + 1 \in 0 .. (MaxSends + 1) /\ queued' = queued + 1
    BY <1>1, <1>4, OutPlaces
  <2>4. f.no = queued + 1 /\ f.ready = opkt[s].ready /\ f.err = opkt[s].err /\ f.done = opkt[s].done
    BY <2>1, <2>3 DEF OutboundFields
  <2>5. f \in OutboundFields
    BY <2>1, <2>3 DEF OutboundFields
  <2>6. QED
    BY <2>2, <2>3, <2>4, <2>5
<1>6. /\ opkt' \in [Sender -> OutboundFields] /\ opkt'[s] = f
      /\ \A t \in Sender \ {s} : opkt'[t] = opkt[t]
  BY <1>1, <1>5 DEF OutTyped
<1>7. s \notin EncPath /\ s \notin SndPath /\ ~opkt[s].ready /\ opkt[s].done = "none" /\ opkt[s].err # "ok"
  BY <1>1 DEF SenderInv
<1>8. /\ sendChan' \in Seq(Sender) /\ Len(sendChan') <= RawCap
      /\ IsInjective(sendChan') /\ SndC' = SndC \cup {s}
  <2>1. s \notin Range(sendChan) /\ sendChan \in Seq(Sender) /\ IsInjective(sendChan) /\ Len(sendChan) \in Nat
    BY <1>1, <1>7, LenProperties DEF SndPath, SndC, Once, OutTyped
  <2>2. QED
    BY <1>1, <2>1, AppendFacts, OutPlaces DEF SndC
<1>9. /\ EncPath' = EncPath /\ EncW' = EncW /\ EncC' = EncC /\ SndL' = SndL
      /\ SndPath' = SndPath \cup {s}
  BY <1>1, <1>8 DEF EncPath, EncW, EncC, SndPath, SndL
<1>10. OutTyped'
  <2>1. queued' \in 0 .. (MaxSends + 1)
    BY <1>4
  <2>2. QED
    BY <1>1, <1>2, <1>6, <1>8, <2>1 DEF OutTyped, closeVars
<1>11. Once'
  <2>1. s \notin SndL
    BY <1>7 DEF SndPath
  <2>2. QED
    BY <1>1, <1>8, <1>9, <2>1 DEF Once
<1>12. ASSUME NEW t \in Sender PROVE SenderInv(t)'
  <2>1. CASE t # s
    BY <1>1, <1>2, <1>6, <1>9, <2>1, SenderKept DEF OutInv, closeVars
  <2>2. CASE t = s
    <3>1. opkt'[s].no # 0
      BY <1>4, <1>5, <1>6
    <3>2. QED
      BY <1>2, <1>5, <1>6, <1>7, <1>9, <2>2, <3>1 DEF SenderInv
  <2>3. QED
    BY <2>1, <2>2
<1>13. Counted'
  BY <1>1, <1>3, <1>4 DEF Counted, closeVars
<1>14. Closing'
  BY <1>1, <1>2, ClosingKept
<1>15. QED
  BY <1>10, <1>11, <1>12, <1>13, <1>14 DEF OutInv

LEMMA SendEncryptOut ==
  ASSUME OutInv, NEW s \in Sender, SendEncrypt(s)
  PROVE  OutInv'
<1>1. /\ OutTyped /\ Once /\ Counted /\ SenderInv(s) /\ pc[s] = "encrypt"
      /\ pc' = [pc EXCEPT ![s] = "wait"]
      /\ encryptChan' = Append(encryptChan, s) /\ Len(encryptChan) < RawCap
      /\ UNCHANGED <<opkt, result, queued, sendChan, eworker, sendLoop, written, sends, inVars, closeVars>>
  BY DEF OutInv, SendEncrypt
<1>2. /\ pc' \in [Sender -> {"idle", "queue", "encrypt", "wait"}] /\ pc'[s] = "wait"
      /\ \A t \in Sender \ {s} : pc'[t] = pc[t]
  BY <1>1 DEF OutTyped
<1>3. Queueing' = Queueing
  BY <1>1, <1>2 DEF Queueing
<1>4. s \notin EncPath /\ ~opkt[s].ready /\ (opkt[s].done = "none" \/ closeChan)
  BY <1>1 DEF SenderInv
<1>5. /\ encryptChan' \in Seq(Sender) /\ Len(encryptChan') <= RawCap
      /\ IsInjective(encryptChan') /\ EncC' = EncC \cup {s}
  <2>1. s \notin Range(encryptChan) /\ encryptChan \in Seq(Sender) /\ IsInjective(encryptChan)
        /\ Len(encryptChan) \in Nat
    BY <1>1, <1>4, LenProperties DEF EncPath, EncC, Once, OutTyped
  <2>2. QED
    BY <1>1, <2>1, AppendFacts, OutPlaces DEF EncC
<1>6. /\ EncPath' = EncPath \cup {s} /\ EncW' = EncW /\ SndL' = SndL /\ SndC' = SndC
      /\ SndPath' = SndPath
  BY <1>1, <1>5 DEF EncPath, EncW, SndPath, SndL, SndC
<1>7. OutTyped'
  BY <1>1, <1>2, <1>5 DEF OutTyped, closeVars
<1>8. Once'
  <2>1. s \notin EncW
    BY <1>4 DEF EncPath
  <2>2. QED
    BY <1>1, <1>5, <1>6, <2>1 DEF Once
<1>9. ASSUME NEW t \in Sender PROVE SenderInv(t)'
  <2>1. CASE t # s
    BY <1>1, <1>2, <1>6, <2>1, SenderKept DEF OutInv, closeVars
  <2>2. CASE t = s
    BY <1>1, <1>2, <1>4, <1>6, <2>2 DEF SenderInv, closeVars
  <2>3. QED
    BY <2>1, <2>2
<1>10. Counted'
  BY <1>1, <1>3 DEF Counted, closeVars
<1>11. Closing'
  BY <1>1, <1>2, ClosingKept
<1>12. QED
  BY <1>7, <1>8, <1>9, <1>10, <1>11 DEF OutInv

\* A call of sendPayload returns.
LEMMA ReturnOut ==
  ASSUME OutInv, NEW s \in Sender, pc[s] # "idle",
         NEW r \in Result, Return(s, r), NEW f \in OutboundFields, opkt' = [opkt EXCEPT ![s] = f],
         UNCHANGED <<queued, sendChan, encryptChan, eworker, sendLoop, written, sends, inVars, closeVars>>,
         f.no = opkt[s].no, f.done = opkt[s].done, f.err # "ok",
         f.ready = (opkt[s].ready \/ pc[s] = "encrypt"),
         s \in EncPath \cup SndPath => closeChan,
         r = "ok" => f.done = "ok"
  PROVE  OutInv'
<1>1. /\ OutTyped /\ Once /\ Counted /\ SenderInv(s)
      /\ pc' = [pc EXCEPT ![s] = "idle"] /\ result' = [result EXCEPT ![s] = r]
  BY DEF OutInv, Return
<1>2. /\ pc' \in [Sender -> {"idle", "queue", "encrypt", "wait"}] /\ pc'[s] = "idle"
      /\ \A t \in Sender \ {s} : pc'[t] = pc[t]
  BY <1>1 DEF OutTyped
<1>3. /\ result' \in [Sender -> Result] /\ result'[s] = r
      /\ \A t \in Sender \ {s} : result'[t] = result[t]
  BY <1>1 DEF OutTyped
<1>4. /\ opkt' \in [Sender -> OutboundFields] /\ opkt'[s] = f
      /\ \A t \in Sender \ {s} : opkt'[t] = opkt[t]
  BY <1>1 DEF OutTyped
<1>5. EncPath' = EncPath /\ SndPath' = SndPath
  BY DEF EncPath, SndPath, EncW, EncC, SndL, SndC
<1>6. OutTyped'
  BY <1>1, <1>2, <1>3, <1>4 DEF OutTyped, closeVars
<1>7. Once'
  BY <1>1 DEF Once, EncW, EncC, SndL, SndC
<1>8. ASSUME NEW t \in Sender PROVE SenderInv(t)'
  <2>1. CASE t # s
    BY <1>2, <1>3, <1>4, <1>5, <2>1, SenderKept DEF OutInv, closeVars
  <2>2. CASE t = s
    BY <1>1, <1>2, <1>3, <1>4, <1>5, <2>2 DEF SenderInv, closeVars
  <2>3. QED
    BY <2>1, <2>2
<1>9. Counted'
  <2>1. Queueing' \subseteq Queueing
    BY <1>2 DEF Queueing
  <2>2. IsFiniteSet(Queueing') /\ Cardinality(Queueing') <= Cardinality(Queueing)
        /\ Cardinality(Queueing') \in Nat /\ Cardinality(Queueing) \in Nat
    BY <1>1, <2>1, FS_Subset, FS_CardinalityType DEF Counted
  <2>3. QED
    BY <1>1, <2>2, OutPlaces DEF Counted, closeVars
<1>10. Closing'
  BY <1>2, ClosingKept
<1>11. QED
  BY <1>6, <1>7, <1>8, <1>9, <1>10 DEF OutInv

LEMMA SendClosedOut ==
  ASSUME OutInv, NEW s \in Sender, SendClosed(s)
  PROVE  OutInv'
<1>1. OutTyped /\ SenderInv(s) /\ opkt[s] \in OutboundFields
  BY OutPlaces DEF OutInv
<1>2. CASE pc[s] = "encrypt"
  <2>1. PICK f : f = [opkt[s] EXCEPT !.err = "closed", !.ready = TRUE]
    OBVIOUS
  <2>2. opkt' = [opkt EXCEPT ![s] = f]
    BY <1>1, <1>2, <2>1 DEF SendClosed, OutTyped
  <2>3. /\ f \in OutboundFields /\ f.no = opkt[s].no /\ f.done = opkt[s].done
        /\ f.err = "closed" /\ f.ready = TRUE
    BY <1>1, <2>1 DEF OutboundFields, Result
  <2>4. QED
    BY <1>2, <2>2, <2>3, ReturnOut DEF SendClosed, Result
<1>3. CASE pc[s] # "encrypt"
  <2>1. PICK f \in OutboundFields : f = opkt[s]
    BY <1>1
  <2>2. opkt' = [opkt EXCEPT ![s] = f]
    BY <1>1, <1>3, <2>1 DEF SendClosed, OutTyped
  <2>3. opkt[s].ready \in BOOLEAN /\ f.err # "ok"
    BY <1>1, <2>1 DEF OutboundFields, SenderInv
  <2>4. f.ready = (opkt[s].ready \/ pc[s] = "encrypt")
    BY <1>3, <2>1, <2>3
  <2>5. QED
    BY <1>3, <2>1, <2>2, <2>3, <2>4, ReturnOut DEF SendClosed, Result
<1>4. QED
  BY <1>2, <1>3

LEMMA SendDoneOut ==
  ASSUME OutInv, NEW s \in Sender, SendDone(s)
  PROVE  OutInv'
<1>1. OutTyped /\ SenderInv(s) /\ opkt[s] \in OutboundFields /\ pc[s] = "wait" /\ opkt[s].done # "none"
  BY OutPlaces DEF OutInv, SendDone
<1>2. PICK f \in OutboundFields : f = opkt[s]
  BY <1>1
<1>3. PICK r \in Result : r = opkt[s].done
  BY <1>1 DEF OutboundFields
<1>4. opkt' = [opkt EXCEPT ![s] = f]
  BY <1>1, <1>2 DEF SendDone, OutTyped
<1>5. opkt[s].ready \in BOOLEAN /\ f.err # "ok"
  BY <1>1, <1>2 DEF OutboundFields, SenderInv
<1>6. f.ready = (opkt[s].ready \/ pc[s] = "encrypt")
  BY <1>1, <1>2, <1>5
<1>7. s \in EncPath \cup SndPath => closeChan
  BY <1>1 DEF SenderInv
<1>8. Return(s, r)
  BY <1>3 DEF SendDone
<1>9. /\ pc[s] # "idle" /\ f.no = opkt[s].no /\ f.done = opkt[s].done
      /\ r = "ok" => f.done = "ok"
      /\ UNCHANGED <<queued, sendChan, encryptChan, eworker, sendLoop, written, sends, inVars, closeVars>>
  BY <1>1, <1>2, <1>3 DEF SendDone
<1>10. QED
  BY <1>2, <1>3, <1>4, <1>5, <1>6, <1>7, <1>8, <1>9, ReturnOut

LEMMA EncryptTakeOut ==
  ASSUME OutInv, NEW w \in EncryptWorkers, EncryptTake(w)
  PROVE  OutInv'
<1>1. /\ OutTyped /\ Once /\ Counted
      /\ encryptChan \in Seq(Sender) /\ encryptChan # <<>> /\ IsInjective(encryptChan)
      /\ encryptChan' = Tail(encryptChan) /\ Len(encryptChan) <= RawCap /\ eworker[w] = NoSender
      /\ UNCHANGED <<pc, opkt, result, queued, sendChan, sendLoop, written, sends, inVars, closeVars>>
  BY DEF OutInv, OutTyped, Once, EncryptTake
<1>2. PICK x \in Sender : x = Head(encryptChan) /\ x \in EncC
  BY <1>1, TailFacts DEF EncC
<1>3. /\ encryptChan' \in Seq(Sender) /\ Len(encryptChan') <= RawCap
      /\ IsInjective(encryptChan') /\ EncC' = EncC \ {x}
  BY <1>1, <1>2, TailFacts, OutPlaces DEF EncC
<1>4. x # NoSender /\ x \notin EncW
  BY <1>1, <1>2, OutPlaces DEF Once
<1>5. /\ eworker' \in [EncryptWorkers -> Sender \cup {NoSender}]
      /\ EncW' = EncW \cup {x}
      /\ \A u, v \in EncryptWorkers : eworker'[u] = eworker'[v] /\ eworker'[u] # NoSender => u = v
  <2>1. eworker' = [eworker EXCEPT ![w] = x]
    BY <1>2 DEF EncryptTake
  <2>2. /\ eworker \in [EncryptWorkers -> Sender \cup {NoSender}]
        /\ \A u, v \in EncryptWorkers : eworker[u] = eworker[v] /\ eworker[u] # NoSender => u = v
    BY <1>1 DEF OutTyped, Once
  <2>3. /\ eworker' \in [EncryptWorkers -> Sender \cup {NoSender}]
        /\ EncW' = ({eworker[v] : v \in EncryptWorkers} \ {NoSender, eworker[w]}) \cup ({x} \ {NoSender})
        /\ \A u, v \in EncryptWorkers : eworker'[u] = eworker'[v] /\ eworker'[u] # NoSender => u = v
    BY <1>4, <2>1, <2>2, HoldFacts DEF EncW
  <2>4. QED
    BY <1>1, <1>4, <2>3 DEF EncW
<1>6. /\ EncPath' = EncPath /\ SndL' = SndL /\ SndC' = SndC /\ SndPath' = SndPath
      /\ Queueing' = Queueing
  BY <1>1, <1>2, <1>3, <1>5 DEF EncPath, SndPath, SndL, SndC, Queueing
<1>7. OutTyped'
  BY <1>1, <1>3, <1>5 DEF OutTyped, closeVars
<1>8. Once'
  BY <1>1, <1>3, <1>5, <1>6 DEF Once
<1>9. \A t \in Sender : SenderInv(t)'
  BY <1>1, <1>6, SenderKept DEF OutInv, closeVars
<1>10. Counted' /\ Closing'
  BY <1>1, <1>6 DEF OutInv, Counted, Closing, closeVars, inVars
<1>11. QED
  BY <1>7, <1>8, <1>9, <1>10 DEF OutInv

LEMMA EncryptDoneOut ==
  ASSUME OutInv, NEW w \in EncryptWorkers, EncryptDone(w)
  PROVE  OutInv'
<1>1. /\ OutTyped /\ Once /\ Counted /\ eworker[w] # NoSender
      /\ eworker' = [eworker EXCEPT ![w] = NoSender]
      /\ UNCHANGED <<pc, result, queued, sendChan, encryptChan, sendLoop, written, sends, inVars, closeVars>>
  BY DEF OutInv, EncryptDone
<1>2. PICK x \in Sender : x = eworker[w] /\ x \in EncW
  BY <1>1 DEF OutTyped, EncW
<1>3. x \notin EncC /\ x \in EncPath /\ SenderInv(x)
  BY <1>1, <1>2 DEF Once, EncPath, OutInv
<1>4. PICK f \in OutboundFields :
        /\ opkt' = [opkt EXCEPT ![x] = f] /\ f.no = opkt[x].no /\ f.ready = TRUE
        /\ f.err # "ok" /\ f.done = opkt[x].done
  <2>1. PICK err \in {"none", "failed"} : opkt' = [opkt EXCEPT ![x].err = err, ![x].ready = TRUE]
    BY <1>2 DEF EncryptDone
  <2>2. PICK f : f = [opkt[x] EXCEPT !.err = err, !.ready = TRUE]
    OBVIOUS
  <2>3. opkt' = [opkt EXCEPT ![x] = f]
    BY <1>1, <2>1, <2>2 DEF OutTyped
  <2>4. opkt[x] \in OutboundFields /\ err \in Result /\ err # "ok"
    BY <2>1, OutPlaces DEF Result
  <2>5. f \in OutboundFields /\ f.no = opkt[x].no /\ f.ready = TRUE
        /\ f.err # "ok" /\ f.done = opkt[x].done
    BY <2>2, <2>4 DEF OutboundFields
  <2>6. QED
    BY <2>3, <2>5
<1>5. /\ opkt' \in [Sender -> OutboundFields] /\ opkt'[x] = f
      /\ \A t \in Sender \ {x} : opkt'[t] = opkt[t]
  BY <1>1, <1>4 DEF OutTyped
<1>6. /\ eworker' \in [EncryptWorkers -> Sender \cup {NoSender}]
      /\ EncW' = EncW \ {x}
      /\ \A u, v \in EncryptWorkers : eworker'[u] = eworker'[v] /\ eworker'[u] # NoSender => u = v
  <2>1. /\ eworker \in [EncryptWorkers -> Sender \cup {NoSender}]
        /\ \A u, v \in EncryptWorkers : eworker[u] = eworker[v] /\ eworker[u] # NoSender => u = v
    BY <1>1 DEF OutTyped, Once
  <2>2. /\ eworker' \in [EncryptWorkers -> Sender \cup {NoSender}]
        /\ EncW' = ({eworker[v] : v \in EncryptWorkers} \ {NoSender, eworker[w]}) \cup ({NoSender} \ {NoSender})
        /\ \A u, v \in EncryptWorkers : eworker'[u] = eworker'[v] /\ eworker'[u] # NoSender => u = v
    BY <1>1, <2>1, HoldFacts DEF EncW
  <2>3. QED
    BY <1>2, <2>2 DEF EncW
<1>7. /\ EncC' = EncC /\ EncPath' = EncPath \ {x} /\ SndL' = SndL /\ SndC' = SndC
      /\ SndPath' = SndPath /\ Queueing' = Queueing
  BY <1>1, <1>3, <1>6 DEF EncC, EncPath, SndPath, SndL, SndC, Queueing
<1>8. OutTyped'
  BY <1>1, <1>5, <1>6 DEF OutTyped, closeVars
<1>9. Once'
  BY <1>1, <1>6, <1>7 DEF Once
<1>10. ASSUME NEW t \in Sender PROVE SenderInv(t)'
  <2>1. CASE t # x
    BY <1>1, <1>5, <1>7, <2>1, SenderKept DEF OutInv, closeVars
  <2>2. CASE t = x
    BY <1>1, <1>3, <1>4, <1>5, <1>7, <2>2 DEF SenderInv, closeVars
  <2>3. QED
    BY <2>1, <2>2
<1>11. Counted' /\ Closing'
  BY <1>1, <1>7 DEF OutInv, Counted, Closing, closeVars, inVars
<1>12. QED
  BY <1>8, <1>9, <1>10, <1>11 DEF OutInv

LEMMA SendLoopTakeOut ==
  ASSUME OutInv, SendLoopTake
  PROVE  OutInv'
<1>1. /\ OutTyped /\ Once /\ Counted
      /\ sendChan \in Seq(Sender) /\ sendChan # <<>> /\ IsInjective(sendChan)
      /\ sendChan' = Tail(sendChan) /\ Len(sendChan) <= RawCap
      /\ sendLoop = NoSender /\ sendLoop' = Head(sendChan)
      /\ UNCHANGED <<pc, opkt, result, queued, encryptChan, eworker, written, sends, inVars, closeVars>>
  BY DEF OutInv, OutTyped, Once, SendLoopTake
<1>2. /\ sendLoop' \in SndC /\ sendLoop' \in Sender
      /\ sendChan' \in Seq(Sender) /\ Len(sendChan') <= RawCap
      /\ IsInjective(sendChan') /\ SndC' = SndC \ {sendLoop'}
  BY <1>1, TailFacts, OutPlaces DEF SndC
<1>3. SndL = {} /\ SndL' = {sendLoop'}
  BY <1>1, <1>2, OutPlaces DEF SndL, NoSender
<1>4. /\ SndPath' = SndPath /\ EncPath' = EncPath /\ EncW' = EncW /\ EncC' = EncC
      /\ Queueing' = Queueing
  BY <1>1, <1>2, <1>3 DEF EncPath, EncW, EncC, SndPath, Queueing
<1>5. OutTyped'
  BY <1>1, <1>2 DEF OutTyped, closeVars
<1>6. Once'
  BY <1>1, <1>2, <1>3, <1>4 DEF Once
<1>7. \A t \in Sender : SenderInv(t)'
  BY <1>1, <1>4, SenderKept DEF OutInv, closeVars
<1>8. Counted' /\ Closing'
  BY <1>1, <1>4 DEF OutInv, Counted, Closing, closeVars, inVars
<1>9. QED
  BY <1>5, <1>6, <1>7, <1>8 DEF OutInv

\* The send loop is done with the packet it holds.
LEMMA SendLoopReportOut ==
  ASSUME OutInv, NEW x, x = sendLoop, x # NoSender, NEW r \in Result, SendLoopReport(r),
         written' \in Seq(1 .. (MaxSends + 1)), Range(written) \subseteq Range(written'),
         r = "ok" => opkt[x].no \in Range(written'),
         r = "ok" => opkt[x].ready, opkt[x].ready \/ closeChan
  PROVE  OutInv'
<1>1. /\ OutTyped /\ Once /\ Counted /\ x \in Sender /\ SenderInv(x) /\ opkt[x] \in OutboundFields
      /\ sendLoop' = NoSender
      /\ UNCHANGED <<pc, result, queued, sendChan, encryptChan, eworker, sends, inVars, closeVars>>
  BY OutPlaces DEF OutInv, OutTyped, SendLoopReport
<1>2. PICK f \in OutboundFields :
        /\ opkt' = [opkt EXCEPT ![x] = f] /\ f.no = opkt[x].no /\ f.ready = opkt[x].ready
        /\ f.err = opkt[x].err /\ f.done = r
  <2>1. PICK f : f = [opkt[x] EXCEPT !.done = r]
    OBVIOUS
  <2>2. opkt' = [opkt EXCEPT ![x] = f]
    BY <1>1, <2>1 DEF SendLoopReport, OutTyped
  <2>3. f \in OutboundFields /\ f.no = opkt[x].no /\ f.ready = opkt[x].ready
        /\ f.err = opkt[x].err /\ f.done = r
    BY <1>1, <2>1 DEF OutboundFields
  <2>4. QED
    BY <2>2, <2>3
<1>3. /\ opkt' \in [Sender -> OutboundFields] /\ opkt'[x] = f
      /\ \A t \in Sender \ {x} : opkt'[t] = opkt[t]
  BY <1>1, <1>2 DEF OutTyped
<1>4. x \in SndL /\ x \in SndPath /\ SndL = {x} /\ x \notin SndC
  BY <1>1 DEF SndL, SndPath, Once
<1>5. /\ SndL' = {} /\ SndC' = SndC /\ SndPath' = SndPath \ {x}
      /\ EncPath' = EncPath /\ EncW' = EncW /\ EncC' = EncC /\ Queueing' = Queueing
  BY <1>1, <1>4 DEF SndL, SndC, SndPath, EncPath, EncW, EncC, Queueing
<1>6. OutTyped'
  BY <1>1, <1>3 DEF OutTyped, closeVars
<1>7. Once'
  BY <1>1, <1>5 DEF Once
<1>8. ASSUME NEW t \in Sender PROVE SenderInv(t)'
  <2>1. CASE t # x
    BY <1>1, <1>3, <1>5, <2>1, SenderKept DEF OutInv, closeVars
  <2>2. CASE t = x
    <3>1. /\ pc[x] \in {"encrypt", "wait", "idle"} /\ (pc[x] = "idle" => closeChan)
          /\ opkt[x].err # "ok" /\ opkt[x].done = "none"
      BY <1>1, <1>4 DEF SenderInv
    <3>2. /\ x \in EncPath' => ~opkt[x].ready /\ pc[x] \in {"wait", "idle"} /\ closeChan
          /\ pc[x] = "encrypt" => ~opkt[x].ready /\ closeChan
      BY <1>1, <1>5 DEF SenderInv
    <3>3. x \notin SndPath'
      BY <1>5
    <3>4. pc[x] = "idle" /\ result[x] = "ok" => opkt[x].no \in Range(written')
      BY <1>1 DEF SenderInv
    <3>5. QED
      BY <1>1, <1>2, <1>3, <2>2, <3>1, <3>2, <3>3, <3>4 DEF SenderInv, closeVars
  <2>3. QED
    BY <2>1, <2>2
<1>9. Counted' /\ Closing'
  BY <1>1, <1>5 DEF OutInv, Counted, Closing, closeVars, inVars
<1>10. QED
  BY <1>6, <1>7, <1>8, <1>9 DEF OutInv

LEMMA WriteOut ==
  ASSUME OutInv, Write
  PROVE  OutInv'
<1>1. PICK x \in Sender : x = sendLoop
  BY DEF OutInv, OutTyped, Write
<1>2. opkt[x].no \in 1 .. (MaxSends + 1)
  <2>1. x \in SndPath
    BY <1>1 DEF SndPath, SndL, Write
  <2>2. opkt[x].no # 0 /\ opkt[x].no \in 0 .. (MaxSends + 1)
    BY <1>1, <2>1, OutPlaces DEF OutInv, SenderInv, OutboundFields
  <2>3. QED
    BY <2>2, OutPlaces
<1>3. PICK k \in 1 .. (MaxSends + 1) : k = opkt[x].no
  BY <1>2
<1>4. /\ written' = Append(written, k) /\ written \in Seq(1 .. (MaxSends + 1))
  BY <1>1, <1>3 DEF Write, OutInv, OutTyped
<1>5. written' \in Seq(1 .. (MaxSends + 1)) /\ Range(written') = Range(written) \cup {k}
  <2>1. PICK S : S = 1 .. (MaxSends + 1)
    OBVIOUS
  <2>2. written \in Seq(S) /\ k \in S
    BY <1>3, <1>4, <2>1
  <2>3. Append(written, k) \in Seq(S) /\ Range(Append(written, k)) = Range(written) \cup {k}
    BY <2>2, AppendFacts
  <2>4. QED
    BY <1>4, <2>1, <2>3
<1>6. SendLoopReport("ok") /\ x # NoSender /\ opkt[x].ready /\ "ok" \in Result
  BY <1>1 DEF Write, Result
<1>7. QED
  BY <1>1, <1>3, <1>5, <1>6, SendLoopReportOut

LEMMA WriteFailedOut ==
  ASSUME OutInv, WriteFailed
  PROVE  OutInv'
<1>1. PICK x \in Sender : x = sendLoop
  BY DEF OutInv, OutTyped, WriteFailed
<1>2. x # NoSender /\ opkt[x].err # "ok" /\ opkt[x].err \in Result
  BY <1>1, OutPlaces DEF WriteFailed, OutInv, SenderInv, OutboundFields
<1>3. PICK r \in Result : r # "ok" /\ SendLoopReport(r) /\ (opkt[x].ready \/ closeChan)
  <2>1. CASE opkt[x].ready /\ SendLoopReport(IF opkt[x].err # "none" THEN opkt[x].err
                                             ELSE IF closed THEN "closed" ELSE "failed")
    <3>1. CASE opkt[x].err # "none"
      BY <1>2, <2>1, <3>1
    <3>2. CASE opkt[x].err = "none" /\ closed
      BY <2>1, <3>2 DEF Result
    <3>3. CASE opkt[x].err = "none" /\ ~closed
      BY <2>1, <3>3 DEF Result
    <3>4. QED
      BY <3>1, <3>2, <3>3
  <2>2. CASE closeChan /\ SendLoopReport("closed")
    BY <2>2 DEF Result
  <2>3. QED
    BY <1>1, <2>1, <2>2 DEF WriteFailed
<1>4. written' = written /\ written \in Seq(1 .. (MaxSends + 1))
  BY DEF WriteFailed, OutInv, OutTyped
<1>5. QED
  BY <1>1, <1>2, <1>3, <1>4, SendLoopReportOut

LEMMA CloseOut ==
  ASSUME OutInv, CloseStep
  PROVE  OutInv'
<1>1. /\ UNCHANGED <<inVars, outVars, panicked>> /\ OutTyped /\ Closing
  BY DEF OutInv, CloseStep, CloseStore, CloseSignal, CloseSocket, CloseChannels
<1>2. /\ pc' = pc /\ recv' = recv
  BY <1>1 DEF inVars, outVars
<1>3. /\ closing' = closing /\ closed' \in BOOLEAN /\ closeChan' \in BOOLEAN
      /\ closer' \in {"none", "notice", "store", "signal", "wait", "done"}
      /\ closeChan => closeChan'
  BY <1>1 DEF OutTyped, CloseStep, CloseStore, CloseSignal, CloseSocket, CloseChannels
<1>4. Closing'
  <2>1. CASE CloseStore
    BY <1>1, <1>2, <2>1 DEF CloseStore, Closing, OutTyped
  <2>2. CASE CloseSignal
    BY <1>1, <1>2, <2>2 DEF CloseSignal, Closing, OutTyped
  <2>3. CASE CloseSocket
    BY <1>1, <1>2, <2>3 DEF CloseSocket, Closing, OutTyped
  <2>4. CASE CloseChannels
    BY <1>1, <1>2, <2>4 DEF CloseChannels, Closing, OutTyped
  <2>5. QED
    BY <2>1, <2>2, <2>3, <2>4 DEF CloseStep
<1>5. QED
  BY <1>1, <1>3, <1>4, OutKept DEF OutTyped

\* A step of the inbound path that sends nothing.
LEMMA OutKeptInbound ==
  ASSUME OutInv, UNCHANGED <<outVars, closeVars>>, recv' # "unref" => recv # "unref" \/ pc["recv"] = "idle"
  PROVE  OutInv'
<1>1. Closing'
  BY DEF OutInv, Closing, closeVars, outVars
<1>2. QED
  BY <1>1, OutKept DEF OutInv, OutTyped, closeVars

LEMMA OutStep ==
  ASSUME OutInv, Next
  PROVE  OutInv'
<1>1. CASE IoRead \/ IoStep \/ \E w \in DecryptWorkers : DecryptTake(w) \/ DecryptStep(w)
  <2>1. UNCHANGED <<outVars, closeVars>> /\ recv' = recv
    BY <1>1 DEF IoRead, IoStep, DispatchCheck, DispatchOutput, DispatchOutputFull, DispatchOutputClosed,
       DispatchDecrypt, DispatchDecryptDrop, DecryptTake, DecryptStep, DecryptProcess, DecryptUnref
  <2>2. QED
    BY <2>1, OutKeptInbound
<1>2. CASE ReceiveTake \/ ReceiveSkip \/ ReceiveUnref
  <2>1. UNCHANGED <<outVars, closeVars>> /\ (recv' # "unref" => recv # "unref" \/ pc["recv"] = "idle")
    BY <1>2 DEF ReceiveTake, ReceiveSkip, ReceiveUnref
  <2>2. QED
    BY <2>1, OutKeptInbound
<1>3. CASE Deliver
  BY <1>3, DeliverOut
<1>4. CASE \E s \in Sender : SendStart(s) \/ SenderStep(s)
  <2>1. PICK s \in Sender : SendStart(s) \/ SenderStep(s)
    BY <1>4
  <2>2. CASE SendOnClosed(s)
    <3>1. UNCHANGED outVars /\ Closing'
      BY <2>2 DEF SendOnClosed, OutInv, Closing, outVars, inVars
    <3>2. QED
      BY <2>2, <3>1, OutKept DEF SendOnClosed, OutInv, OutTyped
  <2>3. QED
    BY <2>1, <2>2, SendStartOut, SendQueueOut, SendEncryptOut, SendClosedOut, SendDoneOut DEF SenderStep
<1>5. CASE \E w \in EncryptWorkers : EncryptTake(w) \/ EncryptDone(w)
  BY <1>5, EncryptTakeOut, EncryptDoneOut
<1>6. CASE SendLoopTake \/ SendLoopStep
  BY <1>6, SendLoopTakeOut, WriteOut, WriteFailedOut DEF SendLoopStep
<1>7. CASE CloseStart \/ CloseStep
  BY <1>7, CloseStartOut, CloseOut
<1>8. QED
  BY <1>1, <1>2, <1>3, <1>4, <1>5, <1>6, <1>7 DEF Next, ReceiveStep

-----------------------------------------------------------------------------
(* The invariant.                                                          *)

LEMMA InitIInv == Init => IInv
<1> SUFFICES ASSUME Init PROVE IInv
  OBVIOUS
<1>1. Pooled \in PacketFields /\ NoOutbound \in OutboundFields
  BY PipelineAssumption DEF Pooled, PacketFields, NoOutbound, OutboundFields, Result
<1>2. InTyped
  BY <1>1, PipelineAssumption DEF Init, InTyped
<1>3. /\ DecW = {} /\ DecC = {} /\ DecB = {} /\ OutR = {} /\ OutC = {} /\ OutB = {}
      /\ Undispatched = {}
  BY DEF Init, DecW, DecC, DecB, OutR, OutC, OutB, Undispatched, Range
<1>4. Apart
  BY <1>3 DEF Init, Apart, IsInjective, DecPath, OutPath
<1>5. Fields /\ Processing /\ Numbered
  BY <1>3 DEF Init, Fields, Processing, Numbered, DecPath, OutPath, Pooled, One
<1>6. OutTyped
  <2>1. <<>> \in Seq(Sender) /\ Len(<<>>) = 0 /\ <<>> \in Seq(1 .. (MaxSends + 1))
    BY EmptySeq
  <2>2. RawCap \in Nat /\ MaxSends \in Nat
    BY PipelineAssumption
  <2>3. sendChan = <<>> /\ encryptChan = <<>> /\ written = <<>> /\ sends = 0 /\ queued = 0
    BY DEF Init
  <2>4. /\ sendChan \in Seq(Sender) /\ Len(sendChan) <= RawCap
        /\ encryptChan \in Seq(Sender) /\ Len(encryptChan) <= RawCap
        /\ written \in Seq(1 .. (MaxSends + 1))
        /\ sends \in 0 .. (MaxSends + 1) /\ queued \in 0 .. (MaxSends + 1)
    BY <2>1, <2>2, <2>3
  <2>5. opkt \in [Sender -> OutboundFields]
    BY <1>1 DEF Init
  <2>6. QED
    BY <2>4, <2>5 DEF Init, OutTyped, Result
<1>7. EncW = {} /\ EncC = {} /\ SndL = {} /\ SndC = {} /\ Queueing = {}
  BY DEF Init, EncW, EncC, SndL, SndC, Queueing, Range
<1>8. Once /\ Counted
  BY <1>7, FS_EmptySet, PipelineAssumption DEF Init, Once, IsInjective, Counted, One
<1>9. \A s \in Sender : SenderInv(s)
  BY <1>7 DEF Init, SenderInv, NoOutbound, EncPath, SndPath
<1>10. Closing
  BY DEF Init, Closing, Sender
<1>11. QED
  BY <1>2, <1>4, <1>5, <1>6, <1>8, <1>9, <1>10 DEF IInv, InInv, OutInv

LEMMA StepIInv == IInv /\ [Next]_vars => IInv'
<1>1. CASE Next
  BY <1>1, InStep, OutStep DEF IInv
<1>2. CASE UNCHANGED vars
  BY <1>2, InKept, OutKeptInbound DEF IInv, vars, inVars
<1>3. QED
  BY <1>1, <1>2

LEMMA SpecIInv == Spec => []IInv
BY InitIInv, StepIInv, PTL DEF Spec

-----------------------------------------------------------------------------
(* Theorems.                                                               *)

\* Every variable keeps its type and every channel its capacity: neither the
\* drops of a full channel nor Close lets one grow.
THEOREM TypeCorrect == Spec => []TypeOK
<1>1. IInv => TypeOK
  BY DEF IInv, InInv, OutInv, InTyped, OutTyped, TypeOK
<1>2. QED
  BY <1>1, SpecIInv, PTL

\* sendPayload returns nil for packets that the send loop has written, whatever
\* became of the workers and of Close in the meantime.
THEOREM SentPacketsWritten == Spec => []SentMeansWritten
<1>1. IInv => SentMeansWritten
  BY DEF IInv, OutInv, SenderInv, SentMeansWritten
<1>2. QED
  BY <1>1, SpecIInv, PTL

LEMMA CountedOnce ==
  ASSUME NEW s, IsInjective(s), NEW p
  PROVE  Cardinality({i \in DOMAIN s : s[i] = p}) = One(p \in Range(s))
<1>1. CASE p \in Range(s)
  <2>1. PICK i \in DOMAIN s : s[i] = p
    BY <1>1 DEF Range
  <2>2. {j \in DOMAIN s : s[j] = p} = {i}
    BY <2>1 DEF IsInjective
  <2>3. QED
    BY <1>1, <2>2, FS_Singleton DEF One
<1>2. CASE p \notin Range(s)
  <2>1. {j \in DOMAIN s : s[j] = p} = {}
    BY <1>2 DEF Range
  <2>2. QED
    BY <1>2, <2>1, FS_EmptySet DEF One
<1>3. QED
  BY <1>1, <1>2

\* The counts of the specification, by the places of this module.
LEMMA OwnersFacts ==
  ASSUME InInv, NEW p \in Packet
  PROVE  DecryptOwners(p) = One(p \in DecPath) /\ OutputOwners(p) = One(p \in OutPath)
<1>1. p # NoPacket /\ p # 0
  BY Places DEF NoPacket
<1>2. Cardinality({w \in DecryptWorkers : decrypting[w] = p}) = One(p \in DecW)
  <2>1. CASE p \in DecW
    <3>1. PICK w \in DecryptWorkers : decrypting[w] = p
      BY <2>1 DEF DecW
    <3>2. {v \in DecryptWorkers : decrypting[v] = p} = {w}
      BY <1>1, <3>1 DEF InInv, Apart
    <3>3. QED
      BY <2>1, <3>2, FS_Singleton DEF One
  <2>2. CASE p \notin DecW
    <3>1. {v \in DecryptWorkers : decrypting[v] = p} = {}
      BY <1>1, <2>2 DEF DecW
    <3>2. QED
      BY <2>2, <3>1, FS_EmptySet DEF One
  <2>3. QED
    BY <2>1, <2>2
<1>3. Cardinality({i \in DOMAIN decryptChan : decryptChan[i] = p}) = One(p \in DecC)
  BY CountedOnce DEF DecC, InInv, Apart
<1>4. Cardinality({i \in DOMAIN outputChan : outputChan[i] = p}) = One(p \in OutC)
  BY CountedOnce DEF OutC, InInv, Apart
<1>5. /\ (IF io \in {"output", "decrypt", "decryptOnly"} /\ Head(batch) = p THEN 1 ELSE 0) = One(p \in DecB)
      /\ (IF io = "output" /\ Head(batch) = p THEN 1 ELSE 0) = One(p \in OutB)
      /\ (IF receiving = p THEN 1 ELSE 0) = One(p \in OutR)
  BY <1>1 DEF DecB, OutB, OutR, One
<1>6. One(p \in DecW) + One(p \in DecC) + One(p \in DecB) = One(p \in DecPath)
  BY DEF InInv, Apart, DecPath, One
<1>7. One(p \in OutR) + One(p \in OutC) + One(p \in OutB) = One(p \in OutPath)
  BY DEF InInv, Apart, OutPath, One
<1>8. QED
  BY <1>2, <1>3, <1>4, <1>5, <1>6, <1>7 DEF DecryptOwners, OutputOwners

LEMMA OwnedInbound == InInv => RefsExact /\ ReadyOnce
<1> SUFFICES ASSUME InInv PROVE RefsExact /\ ReadyOnce
  OBVIOUS
<1>1. RefsExact
  <2>1. ASSUME NEW p \in Packet
        PROVE  /\ pkt[p].refs = DecryptOwners(p) + OutputOwners(p)
               /\ DecryptOwners(p) <= 1 /\ OutputOwners(p) <= 1
               /\ pkt[p].refs > 0 \/ p \in Range(batch) => ~pkt[p].released
    <3>1. FieldsOf(p)
      BY FieldsSplit DEF InInv
    <3>2. DecryptOwners(p) = One(p \in DecPath) /\ OutputOwners(p) = One(p \in OutPath)
      BY OwnersFacts
    <3>3. p \in Range(batch) => p \in DecPath \cup Undispatched
      BY BatchPlaces DEF DecPath
    <3>4. QED
      BY <3>1, <3>2, <3>3 DEF FieldsOf, One
  <2>2. QED
    BY <2>1 DEF RefsExact
<1>2. ReadyOnce
  <2>1. \A i \in DOMAIN decryptChan : ~pkt[decryptChan[i]].ready
    <3>1. ASSUME NEW i \in DOMAIN decryptChan PROVE ~pkt[decryptChan[i]].ready
      <4>1. decryptChan[i] \in DecC /\ decryptChan[i] \in Packet
        BY Places DEF DecC, Range
      <4>2. QED
        BY <4>1 DEF InInv, Fields
    <3>2. QED
      BY <3>1
  <2>2. ASSUME NEW p \in Packet, OutputOwners(p) = 1, ~pkt[p].ready PROVE DecryptOwners(p) = 1
    BY <2>2, OwnersFacts DEF InInv, Fields, One
  <2>3. QED
    BY <2>1, <2>2 DEF InInv, Processing, ReadyOnce
<1>3. QED
  BY <1>1, <1>2

LEMMA OwnedOutbound == OutInv => OutboundOwned
<1> SUFFICES ASSUME OutInv PROVE OutboundOwned
  OBVIOUS
<1>1. ASSUME NEW i \in DOMAIN encryptChan PROVE ~opkt[encryptChan[i]].ready
  <2>1. encryptChan[i] \in EncPath /\ encryptChan[i] \in Sender
    BY OutPlaces DEF EncPath, EncC, Range
  <2>2. QED
    BY <2>1 DEF OutInv, SenderInv
<1>2. ASSUME NEW w \in EncryptWorkers, eworker[w] # NoSender PROVE ~opkt[eworker[w]].ready
  <2>1. eworker[w] \in EncPath /\ eworker[w] \in Sender
    BY <1>2, OutPlaces DEF EncPath, EncW
  <2>2. QED
    BY <2>1 DEF OutInv, SenderInv
<1>3. ASSUME NEW s \in Range(sendChan) \cup ({sendLoop} \ {NoSender})
      PROVE  opkt[s].ready \/ pc[s] = "encrypt" \/ s \in Range(encryptChan) \/ \E w \in EncryptWorkers : eworker[w] = s
  <2>1. s \in SndPath /\ s \in Sender
    BY <1>3, OutPlaces DEF SndPath, SndC, SndL
  <2>2. opkt[s].ready \/ pc[s] = "encrypt" \/ s \in EncPath
    BY <2>1 DEF OutInv, SenderInv
  <2>3. QED
    BY <2>2 DEF EncPath, EncW, EncC
<1>4. QED
  BY <1>1, <1>2, <1>3 DEF OutboundOwned

\* No packet is shared, leaked, completed twice or left for nobody to complete:
\* reference counts are the number of holders, pkt.ready is closed once, and
\* whatever waits in sendChan has someone who will fill it in or fail it.
THEOREM PacketsAreOwned == Spec => []PacketsOwned
<1>1. IInv => PacketsOwned
  BY OwnedInbound, OwnedOutbound DEF IInv, PacketsOwned
<1>2. QED
  BY <1>1, SpecIInv, PTL

-----------------------------------------------------------------------------
(* Both directions implement OrderedQueue.                                 *)

Image(f, q) == [i \in DOMAIN q |-> f[q[i]]]
Piped(held, z, c) == (IF held THEN <<z>> ELSE <<>>) \o c

LEMMA ImageKept ==
  ASSUME NEW q, NEW f, NEW g, \A x \in Range(q) : f[x] = g[x]
  PROVE  Image(f, q) = Image(g, q)
BY DEF Image, Range

LEMMA ImageTyped ==
  ASSUME NEW S, NEW q \in Seq(S), NEW f
  PROVE  /\ DOMAIN Image(f, q) = 1 .. Len(q) /\ Len(Image(f, q)) = Len(q)
         /\ \E T : Image(f, q) \in Seq(T)
         /\ \A i \in 1 .. Len(q) : Image(f, q)[i] = f[q[i]]
<1>1. Len(q) \in Nat /\ DOMAIN q = 1 .. Len(q)
  BY LenProperties
<1>2. PICK m : m = Image(f, q)
  OBVIOUS
<1>3. /\ DOMAIN m = 1 .. Len(q) /\ m = [i \in 1 .. Len(q) |-> f[q[i]]]
      /\ \A i \in 1 .. Len(q) : m[i] = f[q[i]]
  BY <1>1, <1>2 DEF Image
<1>4. PICK T : T = {m[i] : i \in 1 .. Len(q)}
  OBVIOUS
<1>5. m \in [1 .. Len(q) -> T]
  BY <1>3, <1>4
<1>6. m \in Seq(T) /\ Len(m) = Len(q)
  BY <1>1, <1>5
<1>7. QED
  BY <1>2, <1>3, <1>6

LEMMA ImageAppend ==
  ASSUME NEW S, NEW q \in Seq(S), NEW e \in S, NEW f
  PROVE  Image(f, Append(q, e)) = Append(Image(f, q), f[e])
<1>1. PICK a : a = Append(q, e)
  OBVIOUS
<1>2. /\ a \in Seq(S) /\ Len(a) = Len(q) + 1 /\ Len(q) \in Nat
      /\ (\A i \in 1 .. Len(q) : a[i] = q[i]) /\ a[Len(q) + 1] = e
  BY <1>1, AppendProperties, LenProperties
<1>3. PICK m, r : m = Image(f, q) /\ r = Image(f, a)
  OBVIOUS
<1>4. /\ DOMAIN m = 1 .. Len(q) /\ Len(m) = Len(q) /\ \A i \in 1 .. Len(q) : m[i] = f[q[i]]
      /\ DOMAIN r = 1 .. Len(a) /\ Len(r) = Len(a) /\ \A i \in 1 .. Len(a) : r[i] = f[a[i]]
  BY <1>2, <1>3, ImageTyped
<1>5. PICK T : m \in Seq(T)
  BY <1>3, ImageTyped
<1>6. PICK U : U = T \cup {f[e]}
  OBVIOUS
<1>7. m \in Seq(U) /\ f[e] \in U
  BY <1>5, <1>6
<1>8. PICK b : b = Append(m, f[e])
  OBVIOUS
<1>9. /\ b \in Seq(U) /\ Len(b) = Len(m) + 1
      /\ (\A i \in 1 .. Len(m) : b[i] = m[i]) /\ b[Len(m) + 1] = f[e]
  BY <1>7, <1>8, AppendProperties
<1>10. \A i \in 1 .. Len(a) : r[i] = b[i]
  BY <1>2, <1>4, <1>9
<1>11. DOMAIN b = 1 .. Len(a)
  BY <1>2, <1>4, <1>9, LenProperties
<1>12. r = [i \in DOMAIN r |-> r[i]] /\ b = [i \in DOMAIN b |-> b[i]]
  BY <1>3, <1>9 DEF Image
<1>13. r = b
  BY <1>4, <1>10, <1>11, <1>12
<1>14. QED
  BY <1>1, <1>3, <1>8, <1>13

LEMMA ImageTail ==
  ASSUME NEW S, NEW c \in Seq(S), NEW z \in S, NEW f
  PROVE  /\ Image(f, <<z>> \o c) # <<>> /\ Head(Image(f, <<z>> \o c)) = f[z]
         /\ Tail(Image(f, <<z>> \o c)) = Image(f, c)
<1>1. PICK q : q = <<z>> \o c
  OBVIOUS
<1>2. <<z>> \in Seq(S) /\ Len(<<z>>) = 1 /\ <<z>>[1] = z /\ Len(c) \in Nat
  BY LenProperties
<1>3. q \in Seq(S) /\ Len(q) = Len(c) + 1 /\ q[1] = z /\ \A i \in 1 .. Len(c) : q[i + 1] = c[i]
  BY <1>1, <1>2, ConcatProperties
<1>4. PICK m, r : m = Image(f, q) /\ r = Image(f, c)
  OBVIOUS
<1>5. /\ DOMAIN m = 1 .. Len(q) /\ Len(m) = Len(q) /\ \A i \in 1 .. Len(q) : m[i] = f[q[i]]
      /\ DOMAIN r = 1 .. Len(c) /\ Len(r) = Len(c) /\ \A i \in 1 .. Len(c) : r[i] = f[c[i]]
  BY <1>3, <1>4, ImageTyped
<1>6. PICK T : m \in Seq(T)
  BY <1>3, <1>4, ImageTyped
<1>7. m # <<>> /\ Head(m) = f[z]
  BY <1>2, <1>3, <1>5
<1>8. PICK t : t = Tail(m)
  OBVIOUS
<1>9. t \in Seq(T) /\ Len(t) = Len(c) /\ \A i \in 1 .. Len(t) : t[i] = m[i + 1]
  BY <1>2, <1>3, <1>5, <1>6, <1>7, <1>8, HeadTailProperties
<1>10. \A i \in 1 .. Len(c) : t[i] = r[i]
  BY SMTT(30), <1>2, <1>3, <1>5, <1>9
<1>11. DOMAIN t = 1 .. Len(c)
  BY <1>9, LenProperties
<1>12. r = [i \in DOMAIN r |-> r[i]] /\ t = [i \in DOMAIN t |-> t[i]]
  BY <1>4, <1>9 DEF Image
<1>13. t = r
  BY <1>5, <1>10, <1>11, <1>12
<1>14. QED
  BY <1>1, <1>4, <1>7, <1>8, <1>13

LEMMA ConsFacts ==
  ASSUME NEW S, NEW d \in Seq(S), NEW y \in S
  PROVE  /\ <<y>> \in Seq(S) /\ <<y>> \o d \in Seq(S) /\ Len(<<y>> \o d) = Len(d) + 1 /\ Len(d) \in Nat
         /\ DOMAIN (<<y>> \o d) = 1 .. Len(d) + 1 /\ DOMAIN d = 1 .. Len(d)
         /\ (<<y>> \o d)[1] = y /\ \A i \in 1 .. Len(d) : (<<y>> \o d)[i + 1] = d[i]
<1>1. <<y>> \in Seq(S) /\ Len(<<y>>) = 1 /\ <<y>>[1] = y /\ Len(d) \in Nat /\ DOMAIN d = 1 .. Len(d)
  BY LenProperties
<1>2. PICK q : q = <<y>> \o d
  OBVIOUS
<1>3. q \in Seq(S) /\ Len(q) = Len(d) + 1 /\ q[1] = y /\ \A i \in 1 .. Len(d) : q[i + 1] = d[i]
  BY <1>1, <1>2, ConcatProperties
<1>4. DOMAIN q = 1 .. Len(d) + 1
  BY <1>3, LenProperties
<1>5. QED
  BY <1>1, <1>2, <1>3, <1>4

LEMMA PipedFacts ==
  ASSUME NEW S, NEW c \in Seq(S), NEW z
  PROVE  /\ Piped(FALSE, z, c) = c
         /\ c # <<>> => Piped(TRUE, Head(c), Tail(c)) = c
<1>1. Piped(FALSE, z, c) = c
  BY ConcatEmptySeq DEF Piped
<1>2. ASSUME c # <<>> PROVE Piped(TRUE, Head(c), Tail(c)) = c
  <2>1. PICK y, d : y = Head(c) /\ d = Tail(c)
    OBVIOUS
  <2>2. /\ y \in S /\ d \in Seq(S) /\ Len(d) = Len(c) - 1 /\ Len(c) \in Nat /\ y = c[1]
        /\ \A i \in 1 .. Len(d) : d[i] = c[i + 1]
    BY <1>2, <2>1, HeadTailProperties, LenProperties
  <2>3. PICK q : q = <<y>> \o d
    OBVIOUS
  <2>4. /\ q \in Seq(S) /\ Len(q) = Len(d) + 1 /\ q[1] = y /\ \A i \in 1 .. Len(d) : q[i + 1] = d[i]
    BY ConsFacts, <2>2, <2>3
  <2>5. ASSUME NEW i \in 1 .. Len(c) PROVE q[i] = c[i]
    <3>1. CASE i = 1
      BY <2>2, <2>4, <3>1
    <3>2. CASE i # 1
      <4>1. PICK j \in 1 .. Len(d) : i = j + 1
        <5>1. i - 1 \in 1 .. Len(d) /\ i = (i - 1) + 1
          BY <2>2, <2>5, <3>2
        <5>2. QED
          BY <5>1
      <4>2. QED
        BY <2>2, <2>4, <4>1
    <3>3. QED
      BY <3>1, <3>2
  <2>6. Len(q) = Len(c)
    BY <2>2, <2>4
  <2>7. q = c
    BY <2>4, <2>5, <2>6, SeqEqual
  <2>8. QED
    BY <2>1, <2>3, <2>7 DEF Piped
<1>3. QED
  BY <1>1, <1>2

LEMMA PipedHolds ==
  ASSUME NEW S, NEW c \in Seq(S), NEW z \in S
  PROVE  /\ Piped(TRUE, z, c) \in Seq(S)
         /\ Range(Piped(TRUE, z, c)) = {z} \cup Range(c)
<1>1. PICK q : q = <<z>> \o c
  OBVIOUS
<1>2. /\ q \in Seq(S) /\ DOMAIN q = 1 .. Len(c) + 1 /\ DOMAIN c = 1 .. Len(c) /\ Len(c) \in Nat
      /\ q[1] = z /\ \A i \in 1 .. Len(c) : q[i + 1] = c[i]
  BY ConsFacts, <1>1
<1>3. Range(q) = {z} \cup Range(c)
  <2>1. ASSUME NEW x \in Range(q) PROVE x \in {z} \cup Range(c)
    <3>1. PICK i \in 1 .. Len(c) + 1 : x = q[i]
      BY <1>2, <2>1 DEF Range
    <3>2. CASE i = 1
      BY <1>2, <3>1, <3>2
    <3>3. CASE i # 1
      <4>1. PICK j \in 1 .. Len(c) : i = j + 1
        BY <1>2, <3>1, <3>3
      <4>2. QED
        BY <1>2, <3>1, <4>1 DEF Range
    <3>4. QED
      BY <3>2, <3>3
  <2>2. z \in Range(q)
    BY <1>2 DEF Range
  <2>3. ASSUME NEW x \in Range(c) PROVE x \in Range(q)
    <3>1. PICK j \in 1 .. Len(c) : x = c[j]
      BY <1>2, <2>3 DEF Range
    <3>2. j + 1 \in 1 .. Len(c) + 1 /\ q[j + 1] = x
      BY <1>2, <3>1
    <3>3. QED
      BY <1>2, <3>2 DEF Range
  <2>4. QED
    BY <2>1, <2>2, <2>3
<1>4. QED
  BY <1>1, <1>2, <1>3 DEF Piped

LEMMA PipedAppend ==
  ASSUME NEW S, NEW c \in Seq(S), NEW z \in S, NEW e \in S
  PROVE  Append(Piped(TRUE, z, c), e) = Piped(TRUE, z, Append(c, e))
<1>1. PICK q : q = <<z>> \o c
  OBVIOUS
<1>2. q \in Seq(S) /\ <<z>> \in Seq(S) /\ <<e>> \in Seq(S)
  BY <1>1, ConsFacts
<1>3. Append(q, e) = q \o <<e>> /\ Append(c, e) = c \o <<e>>
  BY <1>2, AppendIsConcat
<1>4. (<<z>> \o c) \o <<e>> = <<z>> \o (c \o <<e>>)
  BY <1>2, ConcatAssociative
<1>5. QED
  BY <1>1, <1>3, <1>4 DEF Piped

\* Inbound: the number of the last packet that has reached the output path or
\* missed it, and what the receive loop and outputChan hold.
InLast == arrived - Len(batch) + (IF io \in {"decrypt", "decryptOnly"} THEN 1 ELSE 0)
InQ == Piped(recv = "waiting", receiving, outputChan)
InVal == [p \in Packet |-> pkt[p].seq]
InQueue ==
  LET q == (IF recv = "waiting" THEN <<receiving>> ELSE <<>>) \o outputChan
  IN  [i \in DOMAIN q |-> pkt[q[i]].seq]

LEMMA InboundSteps ==
  /\ Inbound!QInit <=> InLast = 0 /\ InQueue = <<>> /\ delivered = <<>>
  /\ Inbound!Put <=> InLast' = InLast + 1 /\ InQueue' = Append(InQueue, InLast') /\ UNCHANGED delivered
  /\ Inbound!Refuse <=> InLast' = InLast + 1 /\ UNCHANGED <<InQueue, delivered>>
  /\ Inbound!Take <=> /\ InQueue # <<>> /\ delivered' = Append(delivered, Head(InQueue))
                      /\ InQueue' = Tail(InQueue) /\ UNCHANGED InLast
  /\ Inbound!Lose <=> InQueue # <<>> /\ InQueue' = Tail(InQueue) /\ UNCHANGED <<InLast, delivered>>
  /\ UNCHANGED Inbound!qvars <=> UNCHANGED <<InLast, InQueue, delivered>>
<1>1. Inbound!QInit <=> InLast = 0 /\ InQueue = <<>> /\ delivered = <<>>
  BY DEF Inbound!QInit, InLast, InQueue
<1>2. Inbound!Put <=> InLast' = InLast + 1 /\ InQueue' = Append(InQueue, InLast') /\ UNCHANGED delivered
  BY DEF Inbound!Put, InLast, InQueue
<1>3. Inbound!Refuse <=> InLast' = InLast + 1 /\ UNCHANGED <<InQueue, delivered>>
  BY DEF Inbound!Refuse, InLast, InQueue
<1>4. Inbound!Take <=> /\ InQueue # <<>> /\ delivered' = Append(delivered, Head(InQueue))
                       /\ InQueue' = Tail(InQueue) /\ UNCHANGED InLast
  BY DEF Inbound!Take, InLast, InQueue
<1>5. Inbound!Lose <=> InQueue # <<>> /\ InQueue' = Tail(InQueue) /\ UNCHANGED <<InLast, delivered>>
  BY DEF Inbound!Lose, InLast, InQueue
<1>6. UNCHANGED Inbound!qvars <=> UNCHANGED <<InLast, InQueue, delivered>>
  BY DEF Inbound!qvars, InLast, InQueue
<1>7. QED
  BY <1>1, <1>2, <1>3, <1>4, <1>5, <1>6

LEMMA InQFacts ==
  ASSUME InInv
  PROVE  /\ InQ \in Seq(Packet) /\ Range(InQ) \subseteq OutR \cup OutC /\ Range(InQ) \subseteq Packet
         /\ recv # "waiting" => InQ = outputChan /\ Range(InQ) = OutC
         /\ recv = "waiting" => InQ = Piped(TRUE, receiving, outputChan)
<1>1. outputChan \in Seq(Packet)
  BY DEF InInv, InTyped
<1>2. CASE recv = "waiting"
  <2>1. receiving \in Packet /\ receiving \in OutR
    BY <1>2, ReceivingFacts
  <2>2. InQ = Piped(TRUE, receiving, outputChan)
    BY <1>2 DEF InQ
  <2>3. InQ \in Seq(Packet) /\ Range(InQ) = {receiving} \cup Range(outputChan)
    <3>1. /\ Piped(TRUE, receiving, outputChan) \in Seq(Packet)
          /\ Range(Piped(TRUE, receiving, outputChan)) = {receiving} \cup Range(outputChan)
      BY <1>1, <2>1, PipedHolds
    <3>2. QED
      BY <2>2, <3>1
  <2>4. QED
    BY <1>2, <2>1, <2>2, <2>3, Places DEF OutC
<1>3. CASE recv # "waiting"
  <2>1. InQ = Piped(FALSE, receiving, outputChan)
    BY <1>3 DEF InQ
  <2>2. InQ = outputChan
    BY <1>1, <2>1, PipedFacts
  <2>3. QED
    BY <1>1, <1>3, <2>2, Places DEF OutC
<1>4. QED
  BY <1>2, <1>3

LEMMA InQueueImage == InInv => InQueue = Image(InVal, InQ)
<1> SUFFICES ASSUME InInv PROVE InQueue = Image(InVal, InQ)
  OBVIOUS
<1>1. PICK q \in Seq(Packet) : q = InQ
  BY InQFacts
<1>2. \A i \in DOMAIN q : q[i] \in Packet
  BY ElementOfSeq, LenProperties
<1>3. \A i \in DOMAIN q : pkt[q[i]].seq = InVal[q[i]]
  BY <1>2 DEF InVal
<1>4. InQueue = [i \in DOMAIN q |-> pkt[q[i]].seq]
  BY <1>1 DEF InQueue, InQ, Piped
<1>5. QED
  BY <1>1, <1>3, <1>4 DEF Image

LEMMA InQueueImageNext == InInv' => InQueue' = Image(InVal', InQ')
<1>1. (InInv => InQueue = Image(InVal, InQ))'
  BY InQueueImage, PTL
<1>2. QED
  BY <1>1

\* A packet keeps its datagram until it has been delivered or skipped.
LEMMA SeqsKept ==
  ASSUME InInv, Next, NEW p \in Range(InQ)
  PROVE  pkt'[p].seq = pkt[p].seq
<1>0. /\ p \in Packet /\ p \in OutR \cup OutC /\ p \in OutPath
      /\ pkt \in [Packet -> PacketFields] /\ pkt[p] \in PacketFields
  BY InQFacts, Places DEF OutPath, InInv, InTyped
<1>1. CASE IoRead
  <2>1. PICK n \in 1 .. BatchSize :
          \E s \in FirstFree(n) :
            pkt' = [q \in Packet |->
                     IF \E i \in 1 .. n : s[i] = q
                     THEN acquirePacket(arrived + (CHOOSE i \in 1 .. n : s[i] = q)) ELSE pkt[q]]
    BY <1>1 DEF IoRead
  <2>2. PICK s \in FirstFree(n) :
          pkt' = [q \in Packet |->
                   IF \E i \in 1 .. n : s[i] = q
                   THEN acquirePacket(arrived + (CHOOSE i \in 1 .. n : s[i] = q)) ELSE pkt[q]]
    BY <2>1
  <2>3. ~pkt[p].released
    BY <1>0 DEF InInv, Fields
  <2>4. p \notin Free
    BY <2>3 DEF Free
  <2>5. ~ \E i \in 1 .. n : s[i] = p
    BY <2>2, <2>4 DEF FirstFree
  <2>6. QED
    BY <1>0, <2>2, <2>5
<1>2. CASE DispatchCheck \/ DispatchOutputFull \/ DispatchOutputClosed
  <2>1. io \in {"dispatch", "output"}
    BY <1>2 DEF DispatchCheck, DispatchOutputFull, DispatchOutputClosed
  <2>2. p # Head(batch)
    BY <1>0, <2>1, HeadFacts
  <2>3. pkt'[p] = pkt[p]
    BY <1>0, <1>2, <2>2 DEF DispatchCheck, DispatchOutputFull, DispatchOutputClosed
  <2>4. QED
    BY <2>3
<1>3. CASE DispatchDecryptDrop
  <2>1. CASE p # Head(batch)
    BY <1>0, <1>3, <2>1 DEF DispatchDecryptDrop
  <2>2. CASE p = Head(batch)
    <3>1. io = "decrypt" /\ pkt[p].refs = 2
      BY <1>0, <1>3, <2>2, HeadFacts DEF DispatchDecryptDrop
    <3>2. PICK g : g = [pkt[p] EXCEPT !.ready = TRUE]
      OBVIOUS
    <3>3. g \in PacketFields /\ g.refs = 2 /\ g.seq = pkt[p].seq
      BY <1>0, <3>1, <3>2 DEF PacketFields
    <3>4. pkt'[p] = unrefPacket(g)
      BY <1>0, <1>3, <2>2, <3>1, <3>2 DEF DispatchDecryptDrop
    <3>5. QED
      BY <3>3, <3>4, UnrefFacts
  <2>3. QED
    BY <2>1, <2>2
<1>4. CASE \E w \in DecryptWorkers : DecryptProcess(w)
  <2>1. PICK w \in DecryptWorkers : DecryptProcess(w)
    BY <1>4
  <2>2. PICK ok \in BOOLEAN : pkt' = [pkt EXCEPT ![decrypting[w]].ok = ok, ![decrypting[w]].ready = TRUE]
    BY <2>1 DEF DecryptProcess
  <2>3. QED
    BY <1>0, <2>2 DEF PacketFields
<1>5. CASE \E w \in DecryptWorkers : DecryptUnref(w)
  <2>1. PICK w \in DecryptWorkers : DecryptUnref(w)
    BY <1>5
  <2>2. pkt' = [pkt EXCEPT ![decrypting[w]] = unrefPacket(pkt[decrypting[w]])]
    BY <2>1 DEF DecryptUnref
  <2>3. CASE p # decrypting[w]
    BY <1>0, <2>2, <2>3
  <2>4. CASE p = decrypting[w]
    <3>1. p \in DecPath
      BY <1>0, <2>4, Places DEF DecPath, DecW, NoPacket
    <3>2. pkt[p].refs = 2 /\ pkt'[p] = unrefPacket(pkt[p])
      BY <1>0, <2>2, <2>4, <3>1, RefsFacts
    <3>3. QED
      BY <1>0, <3>2, UnrefFacts
  <2>5. QED
    BY <2>3, <2>4
<1>6. CASE ReceiveUnref
  <2>1. recv = "unref" /\ pkt' = [pkt EXCEPT ![receiving] = unrefPacket(pkt[receiving])]
    BY <1>6 DEF ReceiveUnref
  <2>2. p \in OutC /\ p # receiving
    BY <2>1, InQFacts, ReceivingFacts
  <2>3. QED
    BY <1>0, <2>1, <2>2
<1>7. CASE UNCHANGED pkt
  BY <1>7
<1>8. UNCHANGED pkt \/ IoRead \/ DispatchCheck \/ DispatchOutputFull \/ DispatchOutputClosed
      \/ DispatchDecryptDrop \/ ReceiveUnref
      \/ \E w \in DecryptWorkers : DecryptProcess(w) \/ DecryptUnref(w)
  BY DEF Next, IoStep, DispatchOutput, DispatchDecrypt, DecryptStep, DecryptTake, ReceiveTake, ReceiveStep,
     Deliver, ReceiveSkip, SendStart, SenderStep, SendQueue, SendEncrypt, SendOnClosed, SendClosed, SendDone,
     EncryptTake, EncryptDone, SendLoopTake, SendLoopStep, Write, WriteFailed, SendLoopReport,
     CloseStart, CloseStep, CloseStore, CloseSignal, CloseSocket, CloseChannels, inVars
<1>9. QED
  BY <1>1, <1>2, <1>3, <1>4, <1>5, <1>6, <1>7, <1>8

\* The numbers in the queue of the receive loop follow its packets.
LEMMA InImageKept ==
  ASSUME InInv, Next, NEW q, Range(q) \subseteq Range(InQ)
  PROVE  Image(InVal', q) = Image(InVal, q)
<1>1. \A p \in Range(q) : p \in Packet /\ pkt'[p].seq = pkt[p].seq
  BY SeqsKept, InQFacts
<1>2. PICK f, g : f = InVal /\ g = InVal'
  OBVIOUS
<1>3. \A p \in Range(q) : g[p] = f[p]
  BY <1>1, <1>2 DEF InVal
<1>4. Image(f, q) = Image(g, q)
  BY <1>3, ImageKept
<1>5. QED
  BY <1>2, <1>4

\* The batch loses its head: it has been counted already, or it is now.
LEMMA BatchLast ==
  ASSUME InInv, io # "read", NextOfBatch, UNCHANGED arrived
  PROVE  InLast' = InLast + (IF io \in {"decrypt", "decryptOnly"} THEN 0 ELSE 1)
<1>1. Len(batch') = Len(batch) - 1 /\ io' \in {"read", "dispatch"} /\ Len(batch) \in Nat /\ arrived \in Nat
  BY NextOfBatchFacts, Places
<1>2. QED
  BY <1>1 DEF InLast

LEMMA InboundQueueKept ==
  ASSUME InInv, InInv', Next, UNCHANGED InQ
  PROVE  UNCHANGED InQueue
BY InQueueImage, InQueueImageNext, InImageKept

LEMMA InboundPut ==
  ASSUME InInv, InInv', DispatchOutput
  PROVE  Inbound!Put
<1>0. Next
  BY DEF Next, IoStep
<1>1. /\ InTyped /\ Apart /\ Numbered /\ io = "output" /\ io' = "decrypt" /\ batch # <<>>
      /\ UNCHANGED <<pkt, arrived, batch, recv, receiving, delivered>>
      /\ outputChan \in Seq(Packet) /\ outputChan' = Append(outputChan, Head(batch))
  BY DEF InInv, InTyped, Apart, DispatchOutput
<1>2. PICK h \in Packet : h = Head(batch)
  BY <1>1, HeadFacts
<1>3. Len(batch) \in Nat \ {0} /\ arrived \in Nat /\ DOMAIN batch = 1 .. Len(batch) /\ h = batch[1]
  BY <1>1, <1>2, Places, LenProperties DEF InTyped
<1>4. InLast' = InLast + 1 /\ pkt[h].seq = InLast'
  <2>1. pkt[h].seq = arrived - Len(batch) + 1
    <3>1. 1 \in DOMAIN batch
      BY <1>3
    <3>2. pkt[batch[1]].seq = arrived - Len(batch) + 1
      BY <1>1, <3>1 DEF Numbered
    <3>3. QED
      BY <1>3, <3>2
  <2>2. InLast = arrived - Len(batch) + 0 /\ InLast' = arrived - Len(batch) + 1
    BY <1>1 DEF InLast
  <2>3. QED
    BY <1>3, <2>1, <2>2
<1>5. InQ' = Append(InQ, h)
  <2>1. CASE recv = "waiting"
    <3>1. receiving \in Packet
      BY <2>1, ReceivingFacts
    <3>2. InQ = Piped(TRUE, receiving, outputChan) /\ InQ' = Piped(TRUE, receiving, Append(outputChan, h))
      BY <1>1, <1>2, <2>1 DEF InQ
    <3>3. Append(Piped(TRUE, receiving, outputChan), h) = Piped(TRUE, receiving, Append(outputChan, h))
      BY <1>1, <1>2, <3>1, PipedAppend
    <3>4. QED
      BY <3>2, <3>3
  <2>2. CASE recv # "waiting"
    <3>1. InQ = Piped(FALSE, receiving, outputChan) /\ InQ' = Piped(FALSE, receiving, Append(outputChan, h))
      BY <1>1, <1>2, <2>2 DEF InQ
    <3>2. Append(outputChan, h) \in Seq(Packet)
      BY <1>1, AppendFacts
    <3>3. QED
      BY <1>1, <3>1, <3>2, PipedFacts
  <2>3. QED
    BY <2>1, <2>2
<1>6. InQueue' = Append(InQueue, InLast')
  <2>1. InVal' = InVal /\ InVal[h] = InLast'
    BY <1>1, <1>4 DEF InVal
  <2>2. Image(InVal, Append(InQ, h)) = Append(Image(InVal, InQ), InVal[h])
    BY InQFacts, ImageAppend
  <2>3. QED
    BY <1>5, <2>1, <2>2, InQueueImage, InQueueImageNext
<1>7. QED
  BY <1>1, <1>4, <1>6, InboundSteps

\* Deliver takes what the receive loop waits for, ReceiveSkip loses it.
LEMMA InboundOut ==
  ASSUME InInv, InInv', Deliver \/ ReceiveSkip
  PROVE  Inbound!Take \/ Inbound!Lose
<1>0. Next
  BY DEF Next, ReceiveStep
<1>1. /\ InTyped /\ recv = "waiting" /\ recv' = "unref"
      /\ UNCHANGED <<pkt, arrived, io, batch, outputChan>>
  BY DEF InInv, Deliver, ReceiveSkip
<1>2. receiving \in Packet /\ outputChan \in Seq(Packet)
  BY <1>1, ReceivingFacts DEF InTyped
<1>3. InQ = Piped(TRUE, receiving, outputChan) /\ InQ' = outputChan
  BY <1>1, <1>2, InQFacts, PipedFacts DEF InQ
<1>4. PICK f : f = InVal /\ f = InVal'
  BY <1>1 DEF InVal
<1>5. PICK z \in Packet : z = receiving
  BY <1>2
<1>6. /\ Image(f, InQ) # <<>> /\ Head(Image(f, InQ)) = f[z]
      /\ Tail(Image(f, InQ)) = Image(f, outputChan)
  <2>1. InQ = <<z>> \o outputChan
    BY <1>3, <1>5 DEF Piped
  <2>2. QED
    BY <1>2, <2>1, ImageTail
<1>7. InQueue # <<>> /\ InQueue' = Tail(InQueue) /\ Head(InQueue) = pkt[receiving].seq
  <2>1. f[z] = pkt[receiving].seq
    BY <1>4, <1>5 DEF InVal
  <2>2. InQueue = Image(f, InQ) /\ InQueue' = Image(f, outputChan)
    BY <1>3, <1>4, InQueueImage, InQueueImageNext
  <2>3. QED
    BY <1>6, <2>1, <2>2
<1>8. InLast' = InLast
  BY <1>1 DEF InLast
<1>9. CASE Deliver
  <2>1. delivered' = Append(delivered, pkt[receiving].seq)
    BY <1>9 DEF Deliver
  <2>2. QED
    BY <1>7, <1>8, <2>1, InboundSteps
<1>10. CASE ReceiveSkip
  <2>1. delivered' = delivered
    BY <1>10 DEF ReceiveSkip
  <2>2. QED
    BY <1>7, <1>8, <2>1, InboundSteps
<1>11. QED
  BY <1>9, <1>10

LEMMA InboundStep ==
  ASSUME InInv, InInv', Next
  PROVE  Inbound!QNext \/ UNCHANGED Inbound!qvars
<1>1. CASE DispatchOutput
  BY <1>1, InboundPut DEF Inbound!QNext
<1>2. CASE Deliver \/ ReceiveSkip
  BY <1>2, InboundOut DEF Inbound!QNext
<1>3. CASE DispatchCheck \/ DispatchOutputClosed
  <2>1. /\ UNCHANGED <<arrived, outputChan, recv, receiving, delivered>> /\ io \in {"dispatch", "output"}
        /\ NextOfBatch \/ (io = "dispatch" /\ io' = "output" /\ batch' = batch)
    BY <1>3 DEF DispatchCheck, DispatchOutputClosed
  <2>2. UNCHANGED InQueue
    BY <2>1, InboundQueueKept DEF InQ
  <2>3. CASE NextOfBatch
    <3>1. InLast' = InLast + 1
      BY <2>1, <2>3, BatchLast
    <3>2. QED
      BY <2>1, <2>2, <3>1, InboundSteps DEF Inbound!QNext
  <2>4. CASE io = "dispatch" /\ io' = "output" /\ batch' = batch
    <3>1. InLast' = InLast
      BY <2>1, <2>4 DEF InLast
    <3>2. QED
      BY <2>1, <2>2, <3>1, InboundSteps
  <2>5. QED
    BY <2>1, <2>3, <2>4
<1>4. CASE DispatchOutputFull
  <2>1. /\ UNCHANGED <<arrived, batch, outputChan, recv, receiving, delivered>>
        /\ io = "output" /\ io' = "decryptOnly"
    BY <1>4 DEF DispatchOutputFull
  <2>2. UNCHANGED InQueue
    BY <2>1, InboundQueueKept DEF InQ
  <2>3. arrived \in Nat /\ Len(batch) \in Nat
    BY <2>1, Places
  <2>4. InLast' = InLast + 1
    BY <2>1, <2>3 DEF InLast
  <2>5. QED
    BY <2>1, <2>2, <2>4, InboundSteps DEF Inbound!QNext
<1>5. CASE DispatchDecrypt \/ DispatchDecryptDrop
  <2>1. /\ UNCHANGED <<arrived, outputChan, recv, receiving, delivered>> /\ io \in {"decrypt", "decryptOnly"}
        /\ NextOfBatch
    BY <1>5 DEF DispatchDecrypt, DispatchDecryptDrop
  <2>2. UNCHANGED InQueue
    BY <2>1, InboundQueueKept DEF InQ
  <2>3. InLast' = InLast
    <3>1. InLast' = InLast + 0
      BY <2>1, BatchLast
    <3>2. arrived \in Nat /\ Len(batch) \in Nat
      BY <2>1, Places
    <3>3. QED
      BY <3>1, <3>2 DEF InLast
  <2>4. QED
    BY <2>1, <2>2, <2>3, InboundSteps
<1>6. CASE IoRead
  <2>1. /\ UNCHANGED <<outputChan, recv, receiving, delivered>> /\ io = "read" /\ io' = "dispatch"
    BY <1>6 DEF IoRead
  <2>2. UNCHANGED InQueue
    BY <2>1, InboundQueueKept DEF InQ
  <2>3. PICK n \in 1 .. BatchSize : \E s \in FirstFree(n) : batch' = s /\ arrived' = arrived + n
    BY <1>6 DEF IoRead
  <2>4. PICK s \in FirstFree(n) : batch' = s /\ arrived' = arrived + n
    BY <2>3
  <2>5. n \in Nat /\ arrived \in Nat /\ Len(batch') = n /\ batch = <<>>
    <3>1. n \in Nat /\ arrived \in Nat /\ batch = <<>>
      BY <2>1, <2>3, Places, PipelineAssumption DEF InInv, Apart
    <3>2. s \in [1 .. n -> Free]
      BY DEF FirstFree
    <3>3. QED
      BY <2>4, <3>1, <3>2
  <2>6. InLast' = InLast
    BY <2>1, <2>4, <2>5 DEF InLast
  <2>7. QED
    BY <2>1, <2>2, <2>6, InboundSteps
<1>7. CASE ReceiveTake
  <2>1. /\ UNCHANGED <<arrived, io, batch, delivered>> /\ recv = "idle" /\ recv' = "waiting"
        /\ outputChan # <<>> /\ receiving' = Head(outputChan) /\ outputChan' = Tail(outputChan)
        /\ outputChan \in Seq(Packet)
    BY <1>7 DEF ReceiveTake, InInv, InTyped
  <2>2. InQ = outputChan
    BY <2>1, InQFacts
  <2>3. InQ' = Piped(TRUE, Head(outputChan), Tail(outputChan))
    BY <2>1 DEF InQ
  <2>4. UNCHANGED InQueue
    BY <2>1, <2>2, <2>3, PipedFacts, InboundQueueKept
  <2>5. QED
    BY <2>1, <2>4, InboundSteps DEF InLast
<1>8. CASE ReceiveUnref
  <2>1. /\ UNCHANGED <<arrived, io, batch, outputChan, delivered>> /\ recv = "unref" /\ recv' = "idle"
    BY <1>8 DEF ReceiveUnref
  <2>2. InQ = outputChan /\ InQ' = Piped(FALSE, receiving', outputChan) /\ outputChan \in Seq(Packet)
    BY <2>1, InQFacts DEF InQ, InInv, InTyped
  <2>3. UNCHANGED InQueue
    BY <2>2, PipedFacts, InboundQueueKept
  <2>4. QED
    BY <2>1, <2>3, InboundSteps DEF InLast
<1>9. CASE UNCHANGED <<arrived, io, batch, outputChan, recv, receiving, delivered>>
  <2>1. UNCHANGED InQueue
    BY <1>9, InboundQueueKept DEF InQ
  <2>2. QED
    BY <1>9, <2>1, InboundSteps DEF InLast
<1>10. \/ UNCHANGED <<arrived, io, batch, outputChan, recv, receiving, delivered>>
       \/ IoRead \/ DispatchCheck \/ DispatchOutput \/ DispatchOutputFull \/ DispatchOutputClosed
       \/ DispatchDecrypt \/ DispatchDecryptDrop \/ ReceiveTake \/ Deliver \/ ReceiveSkip \/ ReceiveUnref
  BY ZenonT(60) DEF Next, IoStep, DecryptStep, DecryptTake, DecryptProcess, DecryptUnref, ReceiveStep,
     SendStart, SenderStep, SendQueue, SendEncrypt, SendOnClosed, SendClosed, SendDone,
     EncryptTake, EncryptDone, SendLoopTake, SendLoopStep, Write, WriteFailed, SendLoopReport,
     CloseStart, CloseStep, CloseStore, CloseSignal, CloseSocket, CloseChannels, inVars
<1>11. QED
  BY <1>1, <1>2, <1>3, <1>4, <1>5, <1>6, <1>7, <1>8, <1>9, <1>10

\* Outbound: what the send loop and sendChan hold.
OutQ == Piped(sendLoop # NoSender, sendLoop, sendChan)
OutVal == [s \in Sender |-> opkt[s].no]
OutQueue ==
  LET q == (IF sendLoop # NoSender THEN <<sendLoop>> ELSE <<>>) \o sendChan
  IN  [i \in DOMAIN q |-> opkt[q[i]].no]

LEMMA OutboundSteps ==
  /\ Outbound!QInit <=> queued = 0 /\ OutQueue = <<>> /\ written = <<>>
  /\ Outbound!Put <=> queued' = queued + 1 /\ OutQueue' = Append(OutQueue, queued') /\ UNCHANGED written
  /\ Outbound!Take <=> /\ OutQueue # <<>> /\ written' = Append(written, Head(OutQueue))
                       /\ OutQueue' = Tail(OutQueue) /\ UNCHANGED queued
  /\ Outbound!Lose <=> OutQueue # <<>> /\ OutQueue' = Tail(OutQueue) /\ UNCHANGED <<queued, written>>
  /\ UNCHANGED Outbound!qvars <=> UNCHANGED <<queued, OutQueue, written>>
<1>1. Outbound!QInit <=> queued = 0 /\ OutQueue = <<>> /\ written = <<>>
  BY DEF Outbound!QInit, OutQueue
<1>2. Outbound!Put <=> queued' = queued + 1 /\ OutQueue' = Append(OutQueue, queued') /\ UNCHANGED written
  BY DEF Outbound!Put, OutQueue
<1>3. Outbound!Take <=> /\ OutQueue # <<>> /\ written' = Append(written, Head(OutQueue))
                        /\ OutQueue' = Tail(OutQueue) /\ UNCHANGED queued
  BY DEF Outbound!Take, OutQueue
<1>4. Outbound!Lose <=> OutQueue # <<>> /\ OutQueue' = Tail(OutQueue) /\ UNCHANGED <<queued, written>>
  BY DEF Outbound!Lose, OutQueue
<1>5. UNCHANGED Outbound!qvars <=> UNCHANGED <<queued, OutQueue, written>>
  BY DEF Outbound!qvars, OutQueue
<1>6. QED
  BY <1>1, <1>2, <1>3, <1>4, <1>5

LEMMA OutQFacts ==
  ASSUME OutInv
  PROVE  /\ OutQ \in Seq(Sender) /\ Range(OutQ) = SndPath /\ SndPath \subseteq Sender
         /\ sendLoop = NoSender => OutQ = sendChan
         /\ sendLoop # NoSender => OutQ = Piped(TRUE, sendLoop, sendChan) /\ sendLoop \in Sender
<1>1. sendChan \in Seq(Sender) /\ SndPath \subseteq Sender
  BY OutPlaces DEF OutInv, OutTyped
<1>2. CASE sendLoop # NoSender
  <2>1. sendLoop \in Sender /\ SndPath = {sendLoop} \cup SndC
    BY <1>2 DEF OutInv, OutTyped, SndPath, SndL
  <2>2. OutQ = Piped(TRUE, sendLoop, sendChan)
    BY <1>2 DEF OutQ
  <2>3. /\ Piped(TRUE, sendLoop, sendChan) \in Seq(Sender)
        /\ Range(Piped(TRUE, sendLoop, sendChan)) = {sendLoop} \cup Range(sendChan)
    BY <1>1, <2>1, PipedHolds
  <2>4. QED
    BY <1>1, <1>2, <2>1, <2>2, <2>3 DEF SndC
<1>3. CASE sendLoop = NoSender
  <2>1. OutQ = Piped(FALSE, sendLoop, sendChan) /\ SndPath = SndC
    BY <1>3 DEF OutQ, SndPath, SndL
  <2>2. OutQ = sendChan
    BY <1>1, <2>1, PipedFacts
  <2>3. QED
    BY <1>1, <1>3, <2>1, <2>2 DEF SndC
<1>4. QED
  BY <1>2, <1>3

LEMMA OutQueueImage == OutInv => OutQueue = Image(OutVal, OutQ)
<1> SUFFICES ASSUME OutInv PROVE OutQueue = Image(OutVal, OutQ)
  OBVIOUS
<1>1. PICK q \in Seq(Sender) : q = OutQ
  BY OutQFacts
<1>2. \A i \in DOMAIN q : q[i] \in Sender
  BY ElementOfSeq, LenProperties
<1>3. \A i \in DOMAIN q : opkt[q[i]].no = OutVal[q[i]]
  BY <1>2 DEF OutVal
<1>4. OutQueue = [i \in DOMAIN q |-> opkt[q[i]].no]
  BY <1>1 DEF OutQueue, OutQ, Piped
<1>5. QED
  BY <1>1, <1>3, <1>4 DEF Image

LEMMA OutQueueImageNext == OutInv' => OutQueue' = Image(OutVal', OutQ')
<1>1. (OutInv => OutQueue = Image(OutVal, OutQ))'
  BY OutQueueImage, PTL
<1>2. QED
  BY <1>1

\* A packet in the queue keeps its number: its sender does not send another one.
LEMMA NosKept ==
  ASSUME OutInv, Next, NEW s \in SndPath
  PROVE  opkt'[s].no = opkt[s].no
<1>0. /\ s \in Sender /\ SenderInv(s) /\ opkt \in [Sender -> OutboundFields] /\ opkt[s] \in OutboundFields
      /\ pc[s] # "queue" /\ (pc[s] = "idle" => closeChan)
  BY OutPlaces DEF OutInv, OutTyped, SenderInv
<1>1. CASE \E t \in Sender : BeginSend(t) /\ pc[t] = "idle" /\ ~closeChan
  <2>1. PICK t \in Sender : BeginSend(t) /\ pc[t] = "idle" /\ ~closeChan
    BY <1>1
  <2>2. s # t /\ opkt' = [opkt EXCEPT ![t] = NoOutbound]
    BY <1>0, <2>1 DEF BeginSend
  <2>3. QED
    BY <1>0, <2>2
<1>2. CASE \E t \in Sender : SendQueue(t)
  <2>1. PICK t \in Sender : SendQueue(t)
    BY <1>2
  <2>2. s # t /\ opkt' = [opkt EXCEPT ![t].no = queued + 1]
    BY <1>0, <2>1 DEF SendQueue
  <2>3. QED
    BY <1>0, <2>2
<1>3. CASE \E t \in Sender : SendClosed(t)
  <2>1. PICK t \in Sender : SendClosed(t)
    BY <1>3
  <2>2. opkt' = [opkt EXCEPT ![t] = IF pc[t] = "encrypt" THEN [opkt[t] EXCEPT !.err = "closed", !.ready = TRUE]
                                    ELSE opkt[t]]
    BY <2>1 DEF SendClosed
  <2>3. CASE s = t /\ pc[t] = "encrypt"
    <3>1. opkt'[s] = [opkt[s] EXCEPT !.err = "closed", !.ready = TRUE]
      BY <1>0, <2>2, <2>3
    <3>2. QED
      BY <1>0, <3>1 DEF OutboundFields
  <2>4. CASE s # t \/ pc[t] # "encrypt"
    BY <1>0, <2>2, <2>4
  <2>5. QED
    BY <2>3, <2>4
<1>4. CASE \E w \in EncryptWorkers : EncryptDone(w)
  <2>1. PICK w \in EncryptWorkers : EncryptDone(w)
    BY <1>4
  <2>2. PICK err : opkt' = [opkt EXCEPT ![eworker[w]].err = err, ![eworker[w]].ready = TRUE]
    BY <2>1 DEF EncryptDone
  <2>3. QED
    BY <1>0, <2>2 DEF OutboundFields
<1>5. CASE \E r : SendLoopReport(r)
  <2>1. PICK r : opkt' = [opkt EXCEPT ![sendLoop].done = r]
    BY <1>5 DEF SendLoopReport
  <2>2. QED
    BY <1>0, <2>1 DEF OutboundFields
<1>6. CASE UNCHANGED opkt
  BY <1>6
<1>7. CASE IoRead \/ IoStep \/ (\E w \in DecryptWorkers : DecryptTake(w) \/ DecryptStep(w))
           \/ ReceiveTake \/ ReceiveSkip \/ ReceiveUnref
  <2>1. UNCHANGED opkt
    BY <1>7 DEF IoRead, IoStep, DispatchCheck, DispatchOutput, DispatchOutputFull, DispatchOutputClosed,
       DispatchDecrypt, DispatchDecryptDrop, DecryptTake, DecryptStep, DecryptProcess, DecryptUnref,
       ReceiveTake, ReceiveSkip, ReceiveUnref, outVars
  <2>2. QED
    BY <2>1
<1>8. CASE Deliver
  <2>1. pc["recv"] = "idle" /\ (~closed => ~closeChan) /\ "recv" \in Sender
    BY <1>8, OutPlaces DEF Deliver, OutInv, Closing
  <2>2. UNCHANGED opkt \/ (~closed /\ BeginSend("recv"))
    BY <1>8 DEF Deliver, outVars
  <2>3. QED
    BY <1>1, <1>6, <2>1, <2>2
<1>9. CASE \E t \in Sender : SendStart(t) \/ SenderStep(t)
  <2>1. PICK t \in Sender : SendStart(t) \/ SenderStep(t)
    BY <1>9
  <2>2. CASE SendStart(t)
    <3>1. pc[t] = "idle" /\ ~closeChan /\ BeginSend(t)
      BY <2>2 DEF SendStart, OutInv, Closing
    <3>2. QED
      BY <1>1, <3>1
  <2>3. CASE SendEncrypt(t) \/ SendOnClosed(t) \/ SendDone(t)
    BY <1>6, <2>3 DEF SendEncrypt, SendOnClosed, SendDone, outVars
  <2>4. QED
    BY <1>2, <1>3, <2>1, <2>2, <2>3 DEF SenderStep
<1>10. CASE \E w \in EncryptWorkers : EncryptTake(w) \/ EncryptDone(w)
  BY <1>4, <1>6, <1>10 DEF EncryptTake
<1>11. CASE SendLoopTake \/ SendLoopStep
  BY <1>5, <1>6, <1>11 DEF SendLoopTake, SendLoopStep, Write, WriteFailed
<1>12. CASE CloseStart
  <2>1. pc["close"] = "idle" /\ ~closeChan /\ BeginSend("close") /\ "close" \in Sender
    BY <1>12, OutPlaces DEF CloseStart, OutInv, OutTyped, Closing
  <2>2. QED
    BY <1>1, <2>1
<1>13. CASE CloseStep
  BY <1>6, <1>13 DEF CloseStep, CloseStore, CloseSignal, CloseSocket, CloseChannels, outVars
<1>14. QED
  BY <1>7, <1>8, <1>9, <1>10, <1>11, <1>12, <1>13 DEF Next, ReceiveStep

LEMMA OutImageKept ==
  ASSUME OutInv, Next, NEW q, Range(q) \subseteq Range(OutQ)
  PROVE  Image(OutVal', q) = Image(OutVal, q)
<1>1. \A s \in Range(q) : s \in Sender /\ opkt'[s].no = opkt[s].no
  BY NosKept, OutQFacts
<1>2. PICK f, g : f = OutVal /\ g = OutVal'
  OBVIOUS
<1>3. \A s \in Range(q) : g[s] = f[s]
  BY <1>1, <1>2 DEF OutVal
<1>4. Image(f, q) = Image(g, q)
  BY <1>3, ImageKept
<1>5. QED
  BY <1>2, <1>4

LEMMA OutboundPut ==
  ASSUME OutInv, OutInv', Next, NEW s \in Sender, SendQueue(s)
  PROVE  Outbound!Put
<1>1. /\ OutTyped /\ SenderInv(s) /\ pc[s] = "queue"
      /\ queued' = queued + 1 /\ opkt' = [opkt EXCEPT ![s].no = queued + 1]
      /\ sendChan' = Append(sendChan, s) /\ sendChan \in Seq(Sender)
      /\ UNCHANGED <<sendLoop, written>>
  BY DEF OutInv, OutTyped, SendQueue
<1>2. OutQ' = Append(OutQ, s)
  <2>1. CASE sendLoop # NoSender
    <3>1. sendLoop \in Sender
      BY <2>1, OutQFacts
    <3>2. OutQ = Piped(TRUE, sendLoop, sendChan) /\ OutQ' = Piped(TRUE, sendLoop, Append(sendChan, s))
      BY <1>1, <2>1 DEF OutQ
    <3>3. Append(Piped(TRUE, sendLoop, sendChan), s) = Piped(TRUE, sendLoop, Append(sendChan, s))
      BY <1>1, <3>1, PipedAppend
    <3>4. QED
      BY <3>2, <3>3
  <2>2. CASE sendLoop = NoSender
    <3>1. OutQ = Piped(FALSE, sendLoop, sendChan) /\ OutQ' = Piped(FALSE, sendLoop, Append(sendChan, s))
      BY <1>1, <2>2 DEF OutQ
    <3>2. Append(sendChan, s) \in Seq(Sender)
      BY <1>1, AppendFacts
    <3>3. QED
      BY <1>1, <3>1, <3>2, PipedFacts
  <2>3. QED
    BY <2>1, <2>2
<1>3. PICK f, g : f = OutVal /\ g = OutVal'
  OBVIOUS
<1>4. g[s] = queued'
  <2>1. opkt'[s] = [opkt[s] EXCEPT !.no = queued + 1] /\ opkt[s] \in OutboundFields
    BY <1>1, OutPlaces DEF OutTyped
  <2>2. opkt'[s].no = queued'
    BY <1>1, <2>1 DEF OutboundFields
  <2>3. QED
    BY <1>3, <2>2 DEF OutVal
<1>5. Image(g, OutQ) = Image(f, OutQ)
  BY <1>3, OutImageKept
<1>6. Image(g, Append(OutQ, s)) = Append(Image(g, OutQ), g[s])
  BY OutQFacts, ImageAppend
<1>7. OutQueue' = Append(OutQueue, queued')
  BY <1>2, <1>3, <1>4, <1>5, <1>6, OutQueueImage, OutQueueImageNext
<1>8. QED
  BY <1>1, <1>7, OutboundSteps

\* Write takes what the send loop waits for, WriteFailed loses it.
LEMMA OutboundOut ==
  ASSUME OutInv, OutInv', SendLoopStep
  PROVE  Outbound!Take \/ Outbound!Lose
<1>0. Next
  BY DEF Next
<1>1. /\ sendLoop # NoSender /\ sendLoop' = NoSender /\ UNCHANGED <<queued, sendChan>>
      /\ sendChan \in Seq(Sender)
  BY DEF SendLoopStep, Write, WriteFailed, SendLoopReport, OutInv, OutTyped
<1>2. PICK z \in Sender : z = sendLoop
  BY <1>1, OutQFacts
<1>3. OutQ = <<z>> \o sendChan /\ OutQ' = sendChan /\ Range(sendChan) \subseteq Range(OutQ) /\ z \in Range(OutQ)
  <2>1. OutQ = Piped(TRUE, sendLoop, sendChan)
    BY <1>1, OutQFacts
  <2>2. OutQ' = Piped(FALSE, sendLoop', sendChan)
    BY <1>1 DEF OutQ
  <2>3. Range(OutQ) = SndPath /\ Range(sendChan) = SndC /\ z \in SndL
    BY <1>1, <1>2, OutQFacts DEF SndC, SndL
  <2>4. QED
    BY <1>1, <1>2, <2>1, <2>2, <2>3, PipedFacts DEF Piped, SndPath
<1>4. PICK f, g : f = OutVal /\ g = OutVal'
  OBVIOUS
<1>5. /\ Image(f, OutQ) # <<>> /\ Head(Image(f, OutQ)) = f[z]
      /\ Tail(Image(f, OutQ)) = Image(f, sendChan)
  BY <1>1, <1>3, ImageTail
<1>6. Image(g, sendChan) = Image(f, sendChan)
  BY <1>0, <1>3, <1>4, OutImageKept
<1>7. f[z] = opkt[sendLoop].no
  BY <1>2, <1>4 DEF OutVal
<1>8. OutQueue # <<>> /\ OutQueue' = Tail(OutQueue) /\ Head(OutQueue) = opkt[sendLoop].no
  BY <1>3, <1>4, <1>5, <1>6, <1>7, OutQueueImage, OutQueueImageNext
<1>9. written' = Append(written, opkt[sendLoop].no) \/ written' = written
  BY DEF SendLoopStep, Write, WriteFailed
<1>10. QED
  BY <1>1, <1>8, <1>9, OutboundSteps

LEMMA OutboundStep ==
  ASSUME OutInv, OutInv', Next
  PROVE  Outbound!QNext \/ UNCHANGED Outbound!qvars
<1>1. CASE \E s \in Sender : SendQueue(s)
  BY <1>1, OutboundPut DEF Outbound!QNext
<1>2. CASE SendLoopStep
  BY <1>2, OutboundOut DEF Outbound!QNext
<1>3. CASE SendLoopTake \/ UNCHANGED <<queued, sendChan, sendLoop, written>>
  <2>1. UNCHANGED <<queued, written>> /\ OutQ' = OutQ
    <3>1. CASE SendLoopTake
      <4>1. /\ sendLoop = NoSender /\ sendChan # <<>> /\ sendChan \in Seq(Sender)
            /\ sendLoop' = Head(sendChan) /\ sendChan' = Tail(sendChan) /\ UNCHANGED <<queued, written>>
        BY <3>1 DEF SendLoopTake, OutInv, OutTyped
      <4>2. sendLoop' # NoSender
        BY <4>1, HeadTailProperties, OutPlaces
      <4>3. OutQ = sendChan /\ OutQ' = Piped(TRUE, Head(sendChan), Tail(sendChan))
        BY <4>1, <4>2, OutQFacts DEF OutQ
      <4>4. QED
        BY <4>1, <4>3, PipedFacts
    <3>2. CASE UNCHANGED <<queued, sendChan, sendLoop, written>>
      BY <3>2 DEF OutQ
    <3>3. QED
      BY <1>3, <3>1, <3>2
  <2>2. UNCHANGED OutQueue
    BY <2>1, OutImageKept, OutQueueImage, OutQueueImageNext
  <2>3. QED
    BY <2>1, <2>2, OutboundSteps
<1>4. (\E s \in Sender : SendQueue(s)) \/ SendLoopStep \/ SendLoopTake
      \/ UNCHANGED <<queued, sendChan, sendLoop, written>>
  BY DEF Next, IoRead, IoStep, DispatchCheck, DispatchOutput, DispatchOutputFull, DispatchOutputClosed,
     DispatchDecrypt, DispatchDecryptDrop, DecryptTake, DecryptStep, DecryptProcess, DecryptUnref,
     ReceiveTake, ReceiveStep, Deliver, ReceiveSkip, ReceiveUnref,
     SendStart, SenderStep, SendEncrypt, SendOnClosed, SendClosed, SendDone,
     EncryptTake, EncryptDone, CloseStart, CloseStep, CloseStore, CloseSignal, CloseSocket, CloseChannels, outVars
<1>5. QED
  BY <1>1, <1>2, <1>3, <1>4

\* Datagrams reach the muxes in the order of their arrival and packets reach the
\* wire in the order in which sendPayload queued them, whatever the order in which
\* the workers finish: the pipeline implements OrderedQueue in both directions.
THEOREM PipelineInOrder == Spec => InOrder
<1>1. Init => Inbound!QInit /\ Outbound!QInit
  <2> SUFFICES ASSUME Init PROVE Inbound!QInit /\ Outbound!QInit
    OBVIOUS
  <2>1. InLast = 0 /\ delivered = <<>> /\ queued = 0 /\ written = <<>>
    BY DEF Init, InLast
  <2>2. InQueue = <<>> /\ OutQueue = <<>>
    BY DEF Init, InQueue, OutQueue
  <2>3. QED
    BY <2>1, <2>2, InboundSteps, OutboundSteps
<1>2. IInv /\ IInv' /\ [Next]_vars => [Inbound!QNext]_(Inbound!qvars) /\ [Outbound!QNext]_(Outbound!qvars)
  <2> SUFFICES ASSUME IInv, IInv', [Next]_vars
               PROVE  [Inbound!QNext]_(Inbound!qvars) /\ [Outbound!QNext]_(Outbound!qvars)
    OBVIOUS
  <2>1. CASE Next
    BY <2>1, InboundStep, OutboundStep DEF IInv
  <2>2. CASE UNCHANGED vars
    <3>1. UNCHANGED <<InLast, InQueue, delivered>> /\ UNCHANGED <<queued, OutQueue, written>>
      BY <2>2 DEF vars, inVars, outVars, InLast, InQueue, OutQueue
    <3>2. QED
      BY <3>1, InboundSteps, OutboundSteps
  <2>3. QED
    BY <2>1, <2>2
<1>3. QED
  BY <1>1, <1>2, SpecIInv, PTL DEF Spec, InOrder, Inbound!QSpec, Outbound!QSpec

=============================================================================
