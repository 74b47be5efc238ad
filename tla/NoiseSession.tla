---------------------------- MODULE NoiseSession ----------------------------
(***************************************************************************)
(* One direction of a transport session (noise/session.go): the sending    *)
(* end's Session, whose Encrypt is called by several encrypt workers at    *)
(* once, an unreliable datagram network, and the receiving end's Session,  *)
(* whose Decrypt is called by several decrypt workers at once.             *)
(*                                                                         *)
(* Encrypt and Decrypt read the session state under a read lock, release   *)
(* it and only then take a nonce or consult the replay filter, so either   *)
(* may be overtaken by other workers and by Expire: each is two or three   *)
(* steps here.  The network loses, duplicates, reorders and damages        *)
(* datagrams: `wire' keeps every datagram ever sent, and a worker may pick *)
(* any of them any number of times, or a damaged one with any counter.     *)
(***************************************************************************)
EXTENDS ReplayFilter

CONSTANTS
  Encryptors,   \* workers that call Encrypt at the sending end
  Decryptors,   \* workers that call Decrypt at the receiving end
  NonceSpace,   \* 2^64: the width of the counter
  MaxCalls      \* bound: calls of Encrypt that get as far as taking a nonce

ASSUME SessionAssumption == /\ NonceSpace \in Nat
                            /\ NonceSpace > 2
                            /\ MaxCalls \in Nat

VARIABLES
  sendState,    \* state of the sending end's Session
  sendNonce,    \* its atomic counter
  enc,          \* enc[e]: step of Encrypt that worker e is in
  recvState,    \* state of the receiving end's Session
  recvNonce,    \* its replay filter
  dec,          \* dec[d]: step of Decrypt that worker d is in, and its datagram
  wire,         \* datagrams sent
  calls,        \* history: calls of Encrypt that took a nonce
  consumed,     \* history: nonces recorded by the filter
  delivered     \* history: how often the plaintext of each call was returned

sendVars == <<sendState, sendNonce, enc, calls>>
recvVars == <<recvState, recvNonce, dec, consumed, delivered>>
vars     == <<sendState, sendNonce, enc, recvState, recvNonce, dec, wire, calls,
              consumed, delivered>>

MaxNonce == NonceSpace - 2

Calls    == 1 .. MaxCalls
Nonces   == 0 .. NonceSpace - 1
Damaged  == 0                       \* the id of a datagram that fails to open
Datagram == [id : Calls \union {Damaged}, nonce : Nonces]
Idle     == [pc |-> "idle", pkt |-> [id |-> Damaged, nonce |-> 0]]

SessionState == {"established", "expired"}

NewSession ==
  /\ sendState = "established" /\ sendNonce = 0
  /\ recvState = "established" /\ recvNonce = NewReplayFilter

Init ==
  /\ NewSession
  /\ enc = [e \in Encryptors |-> "idle"]
  /\ dec = [d \in Decryptors |-> Idle]
  /\ wire = {}
  /\ calls = 0
  /\ consumed = {}
  /\ delivered = [c \in Calls |-> 0]

-----------------------------------------------------------------------------
(* The sending end.                                                        *)

\* Encrypt reads the state; on any state but established it returns
\* ErrSessionNotEstablished and nothing changes.
EncryptCheck(e) ==
  /\ enc[e] = "idle"
  /\ sendState = "established"
  /\ enc' = [enc EXCEPT ![e] = "checked"]
  /\ UNCHANGED <<sendState, sendNonce, calls, wire, recvVars>>

\* A wrong form, for the mutation runs: the counter is read and advanced only
\* when the datagram is not the first (a lost increment).
EncryptSealLostIncrement(e) ==
  /\ enc[e] = "checked"
  /\ calls < MaxCalls
  /\ calls' = calls + 1
  /\ sendNonce' = IF calls = 0 THEN sendNonce ELSE (sendNonce + 1) % NonceSpace
  /\ wire' = IF sendNonce >= MaxNonce
               THEN wire
               ELSE wire \union {[id |-> calls + 1, nonce |-> sendNonce]}
  /\ enc' = [enc EXCEPT ![e] = "idle"]
  /\ UNCHANGED <<sendState, recvVars>>

\* A wrong form, for the mutation runs: the counter is wider than its field.
EncryptSealUnbounded(e) ==
  /\ enc[e] = "checked"
  /\ calls < MaxCalls
  /\ calls' = calls + 1
  /\ sendNonce' = sendNonce + 1
  /\ wire' = IF sendNonce >= MaxNonce
               THEN wire
               ELSE wire \union {[id |-> calls + 1, nonce |-> sendNonce]}
  /\ enc' = [enc EXCEPT ![e] = "idle"]
  /\ UNCHANGED <<sendState, recvVars>>

\* sendNonce.Add(1) - 1, the exhaustion test and the sealed datagram.
EncryptSeal(e) ==
  /\ enc[e] = "checked"
  /\ calls < MaxCalls
  /\ calls' = calls + 1
  /\ sendNonce' = (sendNonce + 1) % NonceSpace
  /\ wire' = IF sendNonce >= MaxNonce
               THEN wire                                \* ErrNonceExhausted
               ELSE wire \union {[id |-> calls + 1, nonce |-> sendNonce]}
  /\ enc' = [enc EXCEPT ![e] = "idle"]
  /\ UNCHANGED <<sendState, recvVars>>

ExpireSender ==
  /\ sendState' = "expired"
  /\ UNCHANGED <<sendNonce, enc, calls, wire, recvVars>>

-----------------------------------------------------------------------------
(* The receiving end.                                                      *)

\* What the socket may hand to a worker: any datagram sent, or one damaged on
\* the way, whose counter is arbitrary and whose ciphertext does not open.
Received == wire \union [id : {Damaged}, nonce : Nonces]

\* Decrypt reads the state.
DecryptCheck(d) ==
  /\ dec[d].pc = "idle"
  /\ recvState = "established"
  /\ \E pkt \in Received :
       dec' = [dec EXCEPT ![d] = [pc |-> "checked", pkt |-> pkt]]
  /\ UNCHANGED <<sendVars, wire, recvState, recvNonce, consumed, delivered>>

\* CheckAndUpdate, atomic under the filter's lock, before the ciphertext is
\* opened; a refusal returns ErrReplayDetected.
DecryptFilter(d) ==
  LET pkt == dec[d].pkt
  IN  /\ dec[d].pc = "checked"
      /\ IF checkLocked(recvNonce, pkt.nonce)
           THEN /\ recvNonce' = updateLocked(recvNonce, pkt.nonce)
                /\ consumed' = consumed \union {pkt.nonce}
                /\ dec' = [dec EXCEPT ![d].pc = "passed"]
           ELSE /\ dec' = [dec EXCEPT ![d] = Idle]
                /\ UNCHANGED <<recvNonce, consumed>>
      /\ UNCHANGED <<sendVars, wire, recvState, delivered>>

\* The ciphertext is opened: only an undamaged one yields its plaintext.
DecryptOpen(d) ==
  LET pkt == dec[d].pkt
  IN  /\ dec[d].pc = "passed"
      /\ delivered' = IF pkt.id \in Calls
                        THEN [delivered EXCEPT ![pkt.id] = @ + 1]
                        ELSE delivered                  \* ErrDecryptionFailed
      /\ dec' = [dec EXCEPT ![d] = Idle]
      /\ UNCHANGED <<sendVars, wire, recvState, recvNonce, consumed>>

ExpireReceiver ==
  /\ recvState' = "expired"
  /\ UNCHANGED <<sendVars, wire, recvNonce, dec, consumed, delivered>>

-----------------------------------------------------------------------------
Next ==
  \/ \E e \in Encryptors : EncryptCheck(e) \/ EncryptSeal(e)
  \/ \E d \in Decryptors : DecryptCheck(d) \/ DecryptFilter(d) \/ DecryptOpen(d)
  \/ ExpireSender
  \/ ExpireReceiver

Spec == Init /\ [][Next]_vars

-----------------------------------------------------------------------------
(* Properties.                                                             *)

\* Types of the session's fields, of the workers' steps and of the histories.
TypeOK ==
  /\ sendState \in SessionState
  /\ sendNonce \in Nonces
  /\ enc \in [Encryptors -> {"idle", "checked"}]
  /\ recvState \in SessionState
  /\ recvNonce \in Filter
  /\ dec \in [Decryptors -> [pc : {"idle", "checked", "passed"}, pkt : Datagram]]
  /\ wire \subseteq [id : Calls, nonce : Nonces]
  /\ calls \in 0 .. MaxCalls
  /\ consumed \subseteq Nonces
  /\ delivered \in [Calls -> Nat]

\* Two calls of Encrypt never seal under the same nonce, however the workers
\* interleave (Session.Encrypt: the atomic counter is the only coordination).
NonceFresh == \A m1, m2 \in wire : m1.nonce = m2.nonce => m1 = m2

\* The plaintext of a call of Encrypt is returned by Decrypt at most once, over
\* any duplication and reordering by the network and any race of the workers.
AtMostOnce == \A c \in Calls : delivered[c] <= 1

\* The filter, word shifts and carries included, refuses exactly the nonces it
\* has recorded and those a full window behind the highest one (replay.go's
\* checkLocked and updateLocked against the set of all recorded nonces).
FilterExact ==
  \A n \in Nonces :
    checkLocked(recvNonce, n) <=>
      /\ n \notin consumed
      /\ recvNonce.maxNonce - n < ReplayWindowSize

\* A datagram damaged on the way costs no more than the nonce it carries: a
\* datagram sent by Encrypt is refused only if its own nonce was recorded or if
\* a datagram really sent is a full window ahead of it (Session.Decrypt's note:
\* a corrupted packet "will still consume its nonce in the replay filter").
DamageCostsOneNonce ==
  \A m \in wire :
    ~checkLocked(recvNonce, m.nonce) =>
      \/ m.nonce \in consumed
      \/ \E ahead \in wire : ahead.nonce - m.nonce >= ReplayWindowSize

=============================================================================
